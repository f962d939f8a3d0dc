---------------------------- MODULE ResearchProofs ----------------------------
(***************************************************************************)
(* Proofs about the research engine for every universe of symbols, history,*)
(* plan, window, fold, risk limit and tuning.  The outcome of a training   *)
(* row is known before the first decision tested on it; event-driven       *)
(* strategies do not renew a position without a flat row; the weights of   *)
(* every policy keep to the mandate; a funding payment is charged once, to *)
(* the weights held just before it, or falls into hours without a row; the *)
(* episodes of a fold balance with its curve.                              *)
(* The invariants: ResearchInv (panel and scores), RunInv (plan and        *)
(* targets) and LedgerInv (positions, curve and trades).  Before them come *)
(* the facts about sums, orders, windows and scores they rest on.  That no *)
(* later hour changes a decision is proved in ResearchCausality.           *)
(***************************************************************************)
EXTENDS ResearchProperties, FiniteSetTheorems, SequenceTheorems, FunctionTheorems, WellFoundedInduction, TLAPS

LEMMA NumberInduction ==
  ASSUME NEW P, 0 \in P, \A n \in Nat : n \in P => n + 1 \in P
  PROVE  \A n \in Nat : n \in P
<1> DEFINE Wrong == {n \in Nat : n \notin P}
<1> SUFFICES ASSUME Wrong # {} PROVE FALSE
  OBVIOUS
<1>1. Wrong \subseteq Nat
  OBVIOUS
<1> HIDE DEF Wrong
<1>2. PICK n \in Wrong : \A k \in Wrong : ~(<<k, n>> \in OpToRel(<, Nat))
  BY <1>1, NatLessThanWellFounded, WFMin
<1>3. n \in Nat /\ n \notin P
  BY DEF Wrong
<1>4. n # 0 /\ n - 1 \in Nat
  BY <1>3
<1>5. <<n - 1, n>> \in OpToRel(<, Nat)
  BY <1>3, <1>4 DEF OpToRel
<1>6. n - 1 \in P
  BY <1>2, <1>4, <1>5 DEF Wrong
<1>7. n - 1 + 1 = n
  BY <1>3
<1> QED
  BY <1>3, <1>4, <1>6, <1>7

-----------------------------------------------------------------------------
(* Sums. *)

(* What holds of {}, and of a set when of it less any element, holds of    *)
(* every subset of a finite set.                                           *)
LEMMA SubsetInduction ==
  ASSUME NEW S, IsFiniteSet(S), NEW P, {} \in P,
         \A T \in SUBSET S : T # {} /\ (\A x \in T : T \ {x} \in P) => T \in P
  PROVE  \A T \in SUBSET S : T \in P
<1> DEFINE Wrong == {T \in SUBSET S : T \notin P}
<1> SUFFICES ASSUME Wrong # {} PROVE FALSE
  OBVIOUS
<1>1. Wrong \subseteq FiniteSubsetsOf(S)
  BY FS_Subset DEF FiniteSubsetsOf
<1> HIDE DEF Wrong
<1>2. PICK T \in Wrong : \A K \in Wrong : ~(<<K, T>> \in StrictSubsetOrdering(S))
  BY <1>1, FS_StrictSubsetOrderingWellFounded, WFMin
<1>3. T \in SUBSET S /\ T \notin P
  BY DEF Wrong
<1>4. ASSUME NEW x \in T PROVE T \ {x} \in P
  <2>1. <<T \ {x}, T>> \in StrictSubsetOrdering(S)
    BY <1>3 DEF StrictSubsetOrdering
  <2>2. T \ {x} \notin Wrong
    BY <1>2, <2>1
  <2> QED
    BY <1>3, <2>2 DEF Wrong
<1> QED
  BY <1>3, <1>4

(* A sum counts cells: those of a column as high as each positive value,   *)
(* less those of the negative ones.                                        *)
Cells(f, T) == {c \in T \X Nat : 1 <= c[2] /\ c[2] <= f[c[1]]}
Negated(f) == [x \in DOMAIN f |-> -f[x]]
PartSum(f, T) == Cardinality(Cells(f, T)) - Cardinality(Cells(Negated(f), T))

LEMMA CellsOfOne ==
  ASSUME NEW x, NEW f, f[x] \in Int
  PROVE  /\ IsFiniteSet(Cells(f, {x}))
         /\ Cardinality(Cells(f, {x})) = IF f[x] > 0 THEN f[x] ELSE 0
<1>1. CASE f[x] > 0
  <2> DEFINE column == [k \in 1..f[x] |-> <<x, k>>]
  <2>1. column \in Bijection(1..f[x], Cells(f, {x}))
    <3>1. ASSUME NEW c \in Cells(f, {x}) PROVE c[2] \in 1..f[x] /\ column[c[2]] = c
      BY DEF Cells
    <3>2. \A k \in 1..f[x] : column[k] \in Cells(f, {x})
      BY <1>1 DEF Cells
    <3>3. column \in Injection(1..f[x], Cells(f, {x}))
      BY <3>2 DEF Injection, IsInjective
    <3> QED
      BY <3>1, <3>2, <3>3 DEF Bijection, Surjection
  <2>2. IsFiniteSet(1..f[x]) /\ Cardinality(1..f[x]) = f[x]
    <3>1. \A a, b \in Int : /\ IsFiniteSet(a..b)
                            /\ Cardinality(a..b) = IF a > b THEN 0 ELSE b - a + 1
      BY ONLY FS_Interval
    <3>2. PICK n \in Int : n = f[x] /\ n > 0
      BY <1>1
    <3>3. n - 1 + 1 = n /\ ~(1 > n) /\ 1 \in Int
      BY ONLY <3>2
    <3>4. IsFiniteSet(1..n) /\ Cardinality(1..n) = n
      BY ONLY <3>1, <3>2, <3>3
    <3> QED
      BY <3>2, <3>4
  <2>3. ExistsBijection(1..f[x], Cells(f, {x}))
    BY <2>1 DEF ExistsBijection
  <2> HIDE DEF column
  <2>4. IsFiniteSet(Cells(f, {x})) /\ Cardinality(Cells(f, {x})) = Cardinality(1..f[x])
    BY ONLY <2>2, <2>3, FS_Bijection
  <2> QED
    BY <1>1, <2>2, <2>4
<1>2. CASE ~(f[x] > 0)
  <2>1. Cells(f, {x}) = {}
    BY <1>2 DEF Cells
  <2> QED
    BY <1>2, <2>1, FS_EmptySet
<1> QED
  BY <1>1, <1>2

LEMMA CellsStep ==
  ASSUME NEW D, IsFiniteSet(D), NEW f, \A x \in D : f[x] \in Int, NEW T \in SUBSET D
  PROVE  /\ IsFiniteSet(Cells(f, T))
         /\ Cardinality(Cells(f, T)) \in Nat
         /\ \A x \in T : Cardinality(Cells(f, T)) =
              Cardinality(Cells(f, T \ {x})) + (IF f[x] > 0 THEN f[x] ELSE 0)
<1>1. \A U \in SUBSET D : \A x \in U :
        Cells(f, U) = Cells(f, U \ {x}) \cup Cells(f, {x}) /\ Cells(f, U \ {x}) \cap Cells(f, {x}) = {}
  BY DEF Cells
<1> DEFINE P == {U \in SUBSET D : IsFiniteSet(Cells(f, U))}
<1>2. \A U \in SUBSET D : U \in P
  <2>1. {} \in P
    BY FS_EmptySet DEF Cells
  <2>2. ASSUME NEW U \in SUBSET D, U # {}, \A x \in U : U \ {x} \in P PROVE U \in P
    <3>1. PICK x \in U : TRUE
      BY <2>2
    <3>2. IsFiniteSet(Cells(f, U \ {x})) /\ IsFiniteSet(Cells(f, {x}))
      BY <2>2, CellsOfOne
    <3>3. IsFiniteSet(Cells(f, U \ {x}) \cup Cells(f, {x}))
      BY ONLY <3>2, FS_Union
    <3>4. IsFiniteSet(Cells(f, U))
      BY <1>1, <3>1, <3>3
    <3> QED
      BY <3>4
  <2> HIDE DEF P
  <2> QED
    BY <2>1, <2>2, SubsetInduction
<1>3. \A U \in SUBSET D : IsFiniteSet(Cells(f, U)) /\ Cardinality(Cells(f, U)) \in Nat
  BY <1>2, FS_CardinalityType
<1>4. ASSUME NEW x \in T
      PROVE  Cardinality(Cells(f, T)) = Cardinality(Cells(f, T \ {x})) + (IF f[x] > 0 THEN f[x] ELSE 0)
  <2>1. /\ IsFiniteSet(Cells(f, T \ {x})) /\ IsFiniteSet(Cells(f, {x}))
        /\ Cardinality(Cells(f, T \ {x})) \in Nat
        /\ Cardinality(Cells(f, {x})) = IF f[x] > 0 THEN f[x] ELSE 0
    BY <1>3, CellsOfOne
  <2>2. Cardinality(Cells(f, T)) = Cardinality(Cells(f, T \ {x})) + Cardinality(Cells(f, {x}))
                                     - Cardinality(Cells(f, T \ {x}) \cap Cells(f, {x}))
    BY <1>1, <2>1, FS_Union
  <2>3. Cardinality(Cells(f, T \ {x}) \cap Cells(f, {x})) = 0
    BY <1>1, FS_EmptySet
  <2> QED
    BY <2>1, <2>2, <2>3
<1> QED
  BY <1>3, <1>4

(* A sum loses what any element adds to it. *)
LEMMA SumStep ==
  ASSUME NEW D, IsFiniteSet(D), NEW f \in [D -> Int], NEW T \in SUBSET D
  PROVE  /\ PartSum(f, T) \in Int
         /\ T = {} => PartSum(f, T) = 0
         /\ \A x \in T : PartSum(f, T) = f[x] + PartSum(f, T \ {x})
<1> DEFINE g == Negated(f)
<1>1. \A x \in D : g[x] = -f[x] /\ g[x] \in Int /\ f[x] \in Int
  BY DEF Negated
<1> HIDE DEF g
<1>2. \A U \in SUBSET D : Cardinality(Cells(f, U)) \in Nat /\ Cardinality(Cells(g, U)) \in Nat
  BY <1>1, CellsStep
<1>3. \A U \in SUBSET D : PartSum(f, U) = Cardinality(Cells(f, U)) - Cardinality(Cells(g, U))
  BY DEF PartSum, g
<1>4. T = {} => PartSum(f, T) = 0
  BY <1>3, FS_EmptySet DEF Cells
<1>5. ASSUME NEW x \in T PROVE PartSum(f, T) = f[x] + PartSum(f, T \ {x})
  <2>1. Cardinality(Cells(f, T)) = Cardinality(Cells(f, T \ {x})) + (IF f[x] > 0 THEN f[x] ELSE 0)
    BY <1>1, CellsStep
  <2>2. Cardinality(Cells(g, T)) = Cardinality(Cells(g, T \ {x})) + (IF g[x] > 0 THEN g[x] ELSE 0)
    BY <1>1, CellsStep
  <2>3. f[x] \in Int /\ g[x] = -f[x] /\ T \ {x} \in SUBSET D
    BY <1>1
  <2>4. Cardinality(Cells(f, T \ {x})) \in Nat /\ Cardinality(Cells(g, T \ {x})) \in Nat
    BY <1>2
  <2>5. /\ PartSum(f, T) = Cardinality(Cells(f, T)) - Cardinality(Cells(g, T))
        /\ PartSum(f, T \ {x}) = Cardinality(Cells(f, T \ {x})) - Cardinality(Cells(g, T \ {x}))
    BY <1>3
  <2> QED
    BY <2>1, <2>2, <2>3, <2>4, <2>5
<1> QED
  BY <1>2, <1>3, <1>4, <1>5

LEMMA TotalIsSum ==
  ASSUME NEW D, IsFiniteSet(D), NEW f \in [D -> Int]
  PROVE  RowSum(f) = PartSum(f, D) /\ RowSum(f) \in Int
<1> DEFINE body(g) == [T \in SUBSET D |-> IF T = {} THEN 0
                                          ELSE f[CHOOSE x \in T : TRUE] + g[T \ {CHOOSE x \in T : TRUE}]]
           loop == CHOOSE g : g = body(g)
           count == [T \in SUBSET D |-> PartSum(f, T)]
<1>1. RowSum(f) = loop[D]
  <2>1. DOMAIN f = D
    OBVIOUS
  <2> QED
    BY <2>1 DEF RowSum, MapThenSumSet, MapThenFoldSet
<1>2. count = body(count)
  <2>1. ASSUME NEW T \in SUBSET D PROVE count[T] = body(count)[T]
    <3>1. CASE T = {}
      BY <3>1, SumStep
    <3>2. CASE T # {}
      <4> DEFINE x == CHOOSE x \in T : TRUE
      <4>1. x \in T
        BY <3>2
      <4> HIDE DEF x
      <4>2. PartSum(f, T) = f[x] + PartSum(f, T \ {x})
        BY <4>1, SumStep
      <4>3. body(count)[T] = f[x] + count[T \ {x}]
        BY <3>2 DEF x
      <4>4. count[T \ {x}] = PartSum(f, T \ {x}) /\ count[T] = PartSum(f, T)
        BY <4>1
      <4> HIDE DEF count, body
      <4> QED
        BY <4>2, <4>3, <4>4
    <3> QED
      BY <3>1, <3>2
  <2> QED
    BY <2>1
<1>3. loop = body(loop)
  BY <1>2
<1> HIDE DEF loop
<1> DEFINE P == {T \in SUBSET D : loop[T] = PartSum(f, T)}
<1>4. {} \in P
  BY <1>3, SumStep
<1>5. ASSUME NEW T \in SUBSET D, T # {}, \A x \in T : T \ {x} \in P PROVE T \in P
  <2> DEFINE x == CHOOSE x \in T : TRUE
  <2>1. x \in T
    BY <1>5
  <2>2. loop[T] = f[x] + loop[T \ {x}]
    BY <1>3, <1>5
  <2> HIDE DEF x
  <2>3. loop[T \ {x}] = PartSum(f, T \ {x})
    BY <1>5, <2>1
  <2>4. PartSum(f, T) = f[x] + PartSum(f, T \ {x})
    BY <2>1, SumStep
  <2> QED
    BY <2>2, <2>3, <2>4
<1>6. \A T \in SUBSET D : T \in P
  <2> HIDE DEF P
  <2> QED
    BY <1>4, <1>5, SubsetInduction
<1> QED
  BY <1>1, <1>6, SumStep

LEMMA TotalAdds ==
  ASSUME NEW D, IsFiniteSet(D), NEW f \in [D -> Int], NEW g \in [D -> Int],
         NEW h \in [D -> Int], \A x \in D : h[x] = f[x] + g[x]
  PROVE  RowSum(h) = RowSum(f) + RowSum(g)
<1> DEFINE P == {T \in SUBSET D : PartSum(h, T) = PartSum(f, T) + PartSum(g, T)}
<1>1. {} \in P
  BY SumStep
<1>2. ASSUME NEW T \in SUBSET D, T # {}, \A x \in T : T \ {x} \in P PROVE T \in P
  <2>1. PICK x \in T : TRUE
    BY <1>2
  <2> DEFINE R == T \ {x}
  <2>2. R \in SUBSET D /\ PartSum(h, R) = PartSum(f, R) + PartSum(g, R)
    BY <1>2, <2>1
  <2>3. /\ PartSum(h, T) = h[x] + PartSum(h, R)
        /\ PartSum(f, T) = f[x] + PartSum(f, R)
        /\ PartSum(g, T) = g[x] + PartSum(g, R)
    BY SumStep
  <2> HIDE DEF R
  <2>4. PartSum(h, R) \in Int /\ PartSum(f, R) \in Int /\ PartSum(g, R) \in Int
    BY <2>2, SumStep
  <2>5. h[x] = f[x] + g[x] /\ f[x] \in Int /\ g[x] \in Int
    OBVIOUS
  <2>6. PartSum(h, T) = PartSum(f, T) + PartSum(g, T)
    BY <2>2, <2>3, <2>4, <2>5
  <2> QED
    BY <2>6
<1> HIDE DEF P
<1>3. D \in P
  BY <1>1, <1>2, SubsetInduction
<1> QED
  BY <1>3, TotalIsSum DEF P

LEMMA TotalScales ==
  ASSUME NEW D, IsFiniteSet(D), NEW c \in Int, NEW f \in [D -> Int],
         NEW h \in [D -> Int], \A x \in D : h[x] = c * f[x]
  PROVE  RowSum(h) = c * RowSum(f)
<1>1. \A a, b \in Int : c * (a + b) = c * a + c * b /\ c * a \in Int
  OBVIOUS
<1> DEFINE P == {T \in SUBSET D : PartSum(h, T) = c * PartSum(f, T)}
<1>2. {} \in P
  <2>1. PartSum(h, {}) = 0 /\ PartSum(f, {}) = 0
    BY SumStep
  <2>2. c * 0 = 0
    OBVIOUS
  <2> QED
    BY <2>1, <2>2
<1>3. ASSUME NEW T \in SUBSET D, T # {}, \A x \in T : T \ {x} \in P PROVE T \in P
  <2>1. PICK x \in T : TRUE
    BY <1>3
  <2> DEFINE R == T \ {x}
  <2>2. R \in SUBSET D /\ PartSum(h, R) = c * PartSum(f, R)
    BY <1>3, <2>1
  <2>3. PartSum(h, T) = h[x] + PartSum(h, R) /\ PartSum(f, T) = f[x] + PartSum(f, R)
    BY SumStep
  <2> HIDE DEF R
  <2>4. PartSum(f, R) \in Int
    BY <2>2, SumStep
  <2>5. h[x] = c * f[x] /\ f[x] \in Int
    OBVIOUS
  <2>6. c * (f[x] + PartSum(f, R)) = c * f[x] + c * PartSum(f, R)
    BY ONLY <1>1, <2>4, <2>5
  <2>7. PartSum(h, T) = c * PartSum(f, T)
    BY ONLY <2>2, <2>3, <2>5, <2>6
  <2> QED
    BY <2>7
<1> HIDE DEF P
<1>4. D \in P
  BY <1>2, <1>3, SubsetInduction
<1> QED
  BY <1>4, TotalIsSum DEF P

LEMMA TotalMonotone ==
  ASSUME NEW D, IsFiniteSet(D), NEW f \in [D -> Int], NEW g \in [D -> Int],
         \A x \in D : f[x] <= g[x]
  PROVE  RowSum(f) <= RowSum(g)
<1> DEFINE P == {T \in SUBSET D : PartSum(f, T) <= PartSum(g, T)}
<1>1. {} \in P
  BY SumStep
<1>2. ASSUME NEW T \in SUBSET D, T # {}, \A x \in T : T \ {x} \in P PROVE T \in P
  <2>1. PICK x \in T : TRUE
    BY <1>2
  <2> DEFINE R == T \ {x}
  <2>2. R \in SUBSET D /\ PartSum(f, R) <= PartSum(g, R)
    BY <1>2, <2>1
  <2>3. PartSum(f, T) = f[x] + PartSum(f, R) /\ PartSum(g, T) = g[x] + PartSum(g, R)
    BY SumStep
  <2> HIDE DEF R
  <2>4. PartSum(f, R) \in Int /\ PartSum(g, R) \in Int
    BY <2>2, SumStep
  <2>5. f[x] <= g[x] /\ f[x] \in Int /\ g[x] \in Int
    OBVIOUS
  <2>6. PartSum(f, T) <= PartSum(g, T)
    BY <2>2, <2>3, <2>4, <2>5
  <2> QED
    BY <2>6
<1> HIDE DEF P
<1>3. D \in P
  BY <1>1, <1>2, SubsetInduction
<1> QED
  BY <1>3, TotalIsSum DEF P

LEMMA TotalBounded ==
  ASSUME NEW D, IsFiniteSet(D), NEW f \in [D -> Int], NEW g \in [D -> Int],
         \A x \in D : Abs(f[x]) <= g[x]
  PROVE  Abs(RowSum(f)) <= RowSum(g)
<1> DEFINE P == {T \in SUBSET D : Abs(PartSum(f, T)) <= PartSum(g, T)}
<1>1. {} \in P
  BY SumStep DEF Abs
<1>2. ASSUME NEW T \in SUBSET D, T # {}, \A x \in T : T \ {x} \in P PROVE T \in P
  <2>1. PICK x \in T : TRUE
    BY <1>2
  <2> DEFINE R == T \ {x}
  <2>2. R \in SUBSET D /\ Abs(PartSum(f, R)) <= PartSum(g, R)
    BY <1>2, <2>1
  <2>3. PartSum(f, T) = f[x] + PartSum(f, R) /\ PartSum(g, T) = g[x] + PartSum(g, R)
    BY SumStep
  <2> HIDE DEF R
  <2>4. PartSum(f, R) \in Int /\ PartSum(g, R) \in Int
    BY <2>2, SumStep
  <2>5. Abs(f[x]) <= g[x] /\ f[x] \in Int /\ g[x] \in Int
    OBVIOUS
  <2>6. Abs(PartSum(f, T)) <= PartSum(g, T)
    BY ONLY <2>2, <2>3, <2>4, <2>5 DEF Abs
  <2> QED
    BY <2>6
<1> HIDE DEF P
<1>3. D \in P
  BY <1>1, <1>2, SubsetInduction
<1> QED
  BY <1>3, TotalIsSum DEF P

LEMMA TotalOfOne ==
  ASSUME NEW x, NEW f \in [{x} -> Int]
  PROVE  RowSum(f) = f[x]
<1> DEFINE D == {x}
           R == D \ {x}
<1>1. IsFiniteSet(D) /\ x \in D /\ R = {} /\ R \in SUBSET D /\ f \in [D -> Int]
  BY FS_Singleton
<1> HIDE DEF D
<1>2. PartSum(f, D) = f[x] + PartSum(f, R)
  BY <1>1, SumStep
<1> HIDE DEF R
<1>3. PartSum(f, R) = 0 /\ RowSum(f) = PartSum(f, D) /\ f[x] \in Int
  BY <1>1, SumStep, TotalIsSum
<1> QED
  BY <1>2, <1>3

(* The rows of a table add up to what its columns add up to. *)
Column(m, s) == [i \in DOMAIN m |-> m[i][s]]
RowTotals(m) == [i \in DOMAIN m |-> RowSum(m[i])]
ColumnTotals(m, S) == [s \in S |-> RowSum(Column(m, s))]

LEMMA TableTotals ==
  ASSUME NEW D, IsFiniteSet(D), NEW E, IsFiniteSet(E), NEW m \in [D -> [E -> Int]]
  PROVE  RowSum(RowTotals(m)) = RowSum(ColumnTotals(m, E))
<1> DEFINE rows == RowTotals(m)
           columns == ColumnTotals(m, E)
<1>01. \A i \in D : m[i] \in [E -> Int]
  OBVIOUS
<1>02. rows \in [D -> Int] /\ \A i \in D : rows[i] = RowSum(m[i])
  <2>1. \A i \in D : RowSum(m[i]) \in Int
    BY <1>01, TotalIsSum
  <2> QED
    BY <2>1 DEF RowTotals
<1>03. columns \in [E -> Int] /\ \A s \in E : columns[s] = RowSum([i \in D |-> m[i][s]])
  <2>1. \A s \in E : Column(m, s) \in [D -> Int] /\ Column(m, s) = [i \in D |-> m[i][s]]
    BY DEF Column
  <2>2. \A s \in E : RowSum(Column(m, s)) \in Int
    BY <2>1, TotalIsSum
  <2> QED
    BY <2>1, <2>2 DEF ColumnTotals
<1> HIDE DEF rows, columns
<1> DEFINE column(s) == [i \in D |-> m[i][s]]
           part(T) == [s \in E |-> PartSum(column(s), T)]
           P == {T \in SUBSET D : PartSum(rows, T) = RowSum(part(T))}
<1>1. \A s \in E : column(s) \in [D -> Int]
  OBVIOUS
<1>2. \A T \in SUBSET D : part(T) \in [E -> Int]
  <2>1. ASSUME NEW T \in SUBSET D, NEW s \in E PROVE PartSum(column(s), T) \in Int
    <3> HIDE DEF column
    <3> QED
      BY <1>1, SumStep
  <2> HIDE DEF column
  <2> QED
    BY <2>1
<1>3. {} \in P
  <2>1. \A s \in E : part({})[s] = 0
    <3> HIDE DEF column
    <3> QED
      BY <1>1, SumStep
  <2>2. part({}) \in [E -> Int]
    BY <1>2
  <2> HIDE DEF part
  <2>3. RowSum(part({})) = 0 * RowSum(part({}))
    BY <2>1, <2>2, TotalScales
  <2>4. RowSum(part({})) \in Int
    BY <2>2, TotalIsSum
  <2>5. PartSum(rows, {}) = 0
    BY <1>02, SumStep
  <2> QED
    BY <2>3, <2>4, <2>5
<1>4. ASSUME NEW T \in SUBSET D, T # {}, \A i \in T : T \ {i} \in P PROVE T \in P
  <2>1. PICK i \in T : TRUE
    BY <1>4
  <2> DEFINE R == T \ {i}
  <2>2. R \in SUBSET D /\ PartSum(rows, R) = RowSum(part(R))
    BY <1>4, <2>1
  <2>3. PartSum(rows, T) = rows[i] + PartSum(rows, R)
    BY <1>02, SumStep
  <2>4. \A s \in E : part(T)[s] = m[i][s] + part(R)[s]
    <3>1. ASSUME NEW s \in E PROVE PartSum(column(s), T) = m[i][s] + PartSum(column(s), R)
      <4>1. column(s)[i] = m[i][s]
        BY <2>1
      <4>2. column(s) \in [D -> Int]
        BY <1>1
      <4> DEFINE c == column(s)
      <4> HIDE DEF column, c
      <4>3. PartSum(c, T) = c[i] + PartSum(c, T \ {i})
        BY <4>2, SumStep DEF c
      <4> QED
        BY <4>1, <4>3 DEF c
    <3> HIDE DEF column
    <3> QED
      BY <3>1
  <2> HIDE DEF R
  <2>5. part(T) \in [E -> Int] /\ part(R) \in [E -> Int] /\ m[i] \in [E -> Int]
    BY <1>2, <2>2
  <2> HIDE DEF part
  <2>6. RowSum(part(T)) = RowSum(m[i]) + RowSum(part(R))
    BY <2>4, <2>5, TotalAdds
  <2>7. PartSum(rows, T) = RowSum(part(T))
    BY <1>02, <2>2, <2>3, <2>6
  <2> QED
    BY <2>7
<1>5. D \in P
  <2> HIDE DEF P
  <2> QED
    BY <1>3, <1>4, SubsetInduction
<1>6. part(D) = columns
  <2>1. \A s \in E : part(D)[s] = columns[s]
    <3> HIDE DEF column
    <3>1. ASSUME NEW s \in E PROVE RowSum(column(s)) = PartSum(column(s), D)
      BY <1>1, TotalIsSum
    <3>2. \A s \in E : columns[s] = RowSum(column(s))
      BY <1>03 DEF column
    <3> QED
      BY <3>1, <3>2
  <2>2. part(D) = [s \in E |-> part(D)[s]] /\ columns = [s \in E |-> columns[s]]
    <3> HIDE DEF column
    <3> QED
      BY <1>03
  <2> HIDE DEF part
  <2> QED
    BY <2>1, <2>2
<1> QED
  <2>1. PartSum(rows, D) = RowSum(part(D))
    BY <1>5
  <2> HIDE DEF part
  <2>2. RowSum(rows) = RowSum(columns)
    BY <1>6, <1>02, <2>1, TotalIsSum
  <2> QED
    BY <2>2 DEF rows, columns

(* What adds nothing may be left out. *)
LEMMA TotalOfSupport ==
  ASSUME NEW D, IsFiniteSet(D), NEW S \in SUBSET D, NEW f \in [D -> Int], NEW g \in [S -> Int],
         \A x \in D : IF x \in S THEN f[x] = g[x] ELSE f[x] = 0
  PROVE  RowSum(f) = RowSum(g)
<1>1. IsFiniteSet(S)
  BY FS_Subset
<1> DEFINE P == {T \in SUBSET D : PartSum(f, T) = PartSum(g, T \cap S)}
<1>2. {} \in P
  BY <1>1, SumStep
<1>3. ASSUME NEW T \in SUBSET D, T # {}, \A x \in T : T \ {x} \in P PROVE T \in P
  <2>1. PICK x \in T : TRUE
    BY <1>3
  <2> DEFINE R == T \ {x}
  <2>2. R \in SUBSET D /\ PartSum(f, R) = PartSum(g, R \cap S)
    BY <1>3, <2>1
  <2>3. PartSum(f, T) = f[x] + PartSum(f, R)
    BY SumStep
  <2>4. PartSum(f, R) \in Int
    BY SumStep
  <2>5. CASE x \in S
    <3>1. R \cap S = (T \cap S) \ {x} /\ T \cap S \in SUBSET S /\ x \in T \cap S
      BY <2>5
    <3>2. PartSum(g, T \cap S) = g[x] + PartSum(g, R \cap S)
      BY <1>1, <3>1, SumStep
    <3>3. f[x] = g[x]
      BY <2>5
    <3> QED
      BY <2>2, <2>3, <3>2, <3>3
  <2>6. CASE x \notin S
    <3>1. R \cap S = T \cap S /\ f[x] = 0
      BY <2>6
    <3>2. PartSum(f, T) = PartSum(g, T \cap S)
      BY <2>2, <2>3, <2>4, <3>1
    <3> QED
      BY <3>2
  <2> QED
    BY <2>5, <2>6
<1> HIDE DEF P
<1>4. D \in P
  BY <1>2, <1>3, SubsetInduction
<1>5. D \cap S = S
  OBVIOUS
<1> QED
  BY <1>1, <1>4, <1>5, TotalIsSum DEF P

(* The order and the names of what is added do not matter. *)
LEMMA TotalRenamed ==
  ASSUME NEW D, IsFiniteSet(D), NEW E, NEW b \in Bijection(D, E),
         NEW f \in [D -> Int], NEW g \in [E -> Int], \A x \in D : f[x] = g[b[x]]
  PROVE  RowSum(f) = RowSum(g)
<1>1. IsFiniteSet(E)
  BY FS_Bijection DEF ExistsBijection
<1>2. b \in [D -> E] /\ (\A x, y \in D : b[x] = b[y] => x = y) /\ \A e \in E : \E x \in D : b[x] = e
  BY DEF Bijection, Injection, Surjection, IsInjective
<1> DEFINE Image(T) == {b[x] : x \in T}
           P == {T \in SUBSET D : PartSum(f, T) = PartSum(g, Image(T))}
<1>3. {} \in P
  <2>1. Image({}) = {}
    OBVIOUS
  <2> HIDE DEF Image
  <2> QED
    BY <1>1, <2>1, SumStep
<1>4. ASSUME NEW T \in SUBSET D, T # {}, \A x \in T : T \ {x} \in P PROVE T \in P
  <2>1. PICK x \in T : TRUE
    BY <1>4
  <2> DEFINE R == T \ {x}
  <2>2. R \in SUBSET D /\ PartSum(f, R) = PartSum(g, Image(R))
    BY <1>4, <2>1
  <2>3. PartSum(f, T) = f[x] + PartSum(f, R)
    BY SumStep
  <2>4. Image(R) = Image(T) \ {b[x]} /\ b[x] \in Image(T) /\ Image(T) \in SUBSET E
    BY <1>2
  <2>5. f[x] = g[b[x]]
    OBVIOUS
  <2> HIDE DEF Image, R
  <2>6. PartSum(g, Image(T)) = g[b[x]] + PartSum(g, Image(R))
    BY <1>1, <2>4, SumStep
  <2>7. PartSum(f, T) = PartSum(g, Image(T))
    BY <2>2, <2>3, <2>5, <2>6
  <2> QED
    BY <2>7
<1>5. D \in P
  <2> HIDE DEF P
  <2> QED
    BY <1>3, <1>4, SubsetInduction
<1>6. Image(D) = E
  BY <1>2
<1>7. PartSum(f, D) = PartSum(g, E)
  BY <1>5, <1>6
<1> QED
  BY <1>1, <1>7, TotalIsSum

(* A sum over a set in two parts. *)
Over(f, A) == [x \in A |-> f[x]]
Split(D, A, B, f) ==
  IsFiniteSet(D) /\ f \in [D -> Int] /\ A \cup B = D /\ A \cap B = {}

LEMMA TotalOfUnion ==
  ASSUME NEW D, NEW A, NEW B, NEW f, Split(D, A, B, f)
  PROVE  RowSum(f) = RowSum(Over(f, A)) + RowSum(Over(f, B))
<1>0. /\ IsFiniteSet(D) /\ f \in [D -> Int] /\ A \cup B = D /\ A \cap B = {}
      /\ A \in SUBSET D /\ B \in SUBSET D
  BY DEF Split
<1> DEFINE a == [x \in D |-> IF x \in A THEN f[x] ELSE 0]
           b == [x \in D |-> IF x \in B THEN f[x] ELSE 0]
<1>1. a \in [D -> Int] /\ b \in [D -> Int] /\ \A x \in D : f[x] = a[x] + b[x]
  BY <1>0
<1>2. [x \in A |-> f[x]] \in [A -> Int] /\ [x \in B |-> f[x]] \in [B -> Int]
  BY <1>0
<1>3. RowSum(a) = RowSum([x \in A |-> f[x]])
  <2>1. \A x \in D : IF x \in A THEN a[x] = [y \in A |-> f[y]][x] ELSE a[x] = 0
    BY <1>0
  <2> DEFINE g == [x \in A |-> f[x]]
  <2> HIDE DEF a, g
  <2> QED
    BY <1>0, <1>1, <1>2, <2>1, TotalOfSupport DEF g
<1>4. RowSum(b) = RowSum([x \in B |-> f[x]])
  <2>1. \A x \in D : IF x \in B THEN b[x] = [y \in B |-> f[y]][x] ELSE b[x] = 0
    BY <1>0
  <2> DEFINE g == [x \in B |-> f[x]]
  <2> HIDE DEF b, g
  <2> QED
    BY <1>0, <1>1, <1>2, <2>1, TotalOfSupport DEF g
<1> HIDE DEF a, b
<1>5. RowSum(f) = RowSum(a) + RowSum(b)
  BY <1>0, <1>1, TotalAdds
<1> QED
  BY <1>3, <1>4, <1>5 DEF Over

(* A sum over what names the nonzero terms of another.                     *)
LEMMA TotalOfNames ==
  ASSUME NEW S, IsFiniteSet(S), NEW g \in [S -> Int], NEW P,
         NEW b \in Bijection(P, {s \in S : g[s] # 0}),
         NEW f \in [P -> Int], \A x \in P : f[x] = g[b[x]]
  PROVE  IsFiniteSet(P) /\ RowSum(f) = RowSum(g)
<1> DEFINE T == {s \in S : g[s] # 0}
           h == [s \in T |-> g[s]]
<1>1. T \in SUBSET S /\ IsFiniteSet(T)
  BY FS_Subset
<1>2. b \in Bijection(P, T)
  OBVIOUS
<1>3. h \in [T -> Int] /\ \A s \in S : IF s \in T THEN g[s] = h[s] ELSE g[s] = 0
  OBVIOUS
<1>4. \A x \in P : b[x] \in T /\ f[x] = h[b[x]]
  BY DEF Bijection, Injection
<1> HIDE DEF T, h
<1>5. IsFiniteSet(P)
  <2>1. ExistsBijection(P, T)
    BY <1>2 DEF ExistsBijection
  <2>2. ExistsBijection(T, P)
    BY <2>1, Fun_ExistsBijSymmetric
  <2> QED
    BY <1>1, <2>2, FS_Bijection
<1>6. RowSum(f) = RowSum(h)
  BY <1>2, <1>3, <1>4, <1>5, TotalRenamed
<1>7. RowSum(g) = RowSum(h)
  BY <1>1, <1>3, TotalOfSupport
<1> QED
  BY <1>5, <1>6, <1>7

-----------------------------------------------------------------------------
(* The panel. *)

(* A finite set of numbers has a number of every rank. *)
Under(K, t) == {k \in K : k < t}
LEMMA UnderStep ==
  ASSUME NEW K \in SUBSET Nat, IsFiniteSet(K), NEW n \in Nat
  PROVE  /\ Cardinality(Under(K, n)) \in Nat
         /\ Cardinality(Under(K, n + 1)) = Cardinality(Under(K, n)) + (IF n \in K THEN 1 ELSE 0)
<1> DEFINE A == Under(K, n)
           B == Under(K, n + 1)
<1>1. A \in SUBSET K
  BY DEF Under
<1>2. n \notin A /\ (n \in K => B = A \cup {n}) /\ (n \notin K => B = A)
  <2>1. \A k \in K : ~(n < n) /\ (k < n + 1 <=> k < n \/ k = n)
    OBVIOUS
  <2>2. \A k : (k \in A <=> k \in K /\ k < n) /\ (k \in B <=> k \in K /\ k < n + 1)
    BY DEF Under
  <2> HIDE DEF A, B
  <2> QED
    BY <2>1, <2>2
<1> HIDE DEF A, B
<1>3. IsFiniteSet(A)
  BY <1>1, FS_Subset
<1>4. Cardinality(A) \in Nat
  BY <1>3, FS_CardinalityType
<1>5. n \in K => Cardinality(B) = Cardinality(A) + 1
  BY <1>2, <1>3, FS_AddElement
<1>6. Cardinality(B) = Cardinality(A) + (IF n \in K THEN 1 ELSE 0)
  BY <1>2, <1>4, <1>5
<1> QED
  BY <1>4, <1>6 DEF A, B

LEMMA RanksFrom ==
  ASSUME NEW K \in SUBSET Nat, IsFiniteSet(K), NEW N \in Nat, \A k \in K : k < N
  PROVE  /\ Cardinality(K) \in Nat
         /\ \A j \in Nat : j < Cardinality(K) => \E h \in K : Cardinality(Under(K, h)) = j
<1> DEFINE P == {n \in Nat : \A j \in Nat :
                   j < Cardinality(Under(K, n)) => \E h \in K : Cardinality(Under(K, h)) = j}
<1>1. 0 \in P
  <2>1. Under(K, 0) = {}
    <3>1. \A k \in K : ~(k < 0)
      OBVIOUS
    <3> QED
      BY <3>1 DEF Under
  <2>2. Cardinality({}) = 0
    BY FS_EmptySet
  <2> QED
    BY <2>1, <2>2
<1>2. ASSUME NEW n \in Nat, n \in P PROVE n + 1 \in P
  <2>1. \A j \in Nat : j < Cardinality(Under(K, n)) => \E h \in K : Cardinality(Under(K, h)) = j
    BY <1>2
  <2>2. /\ Cardinality(Under(K, n)) \in Nat
        /\ Cardinality(Under(K, n + 1)) = Cardinality(Under(K, n)) + (IF n \in K THEN 1 ELSE 0)
    BY UnderStep
  <2>3. ASSUME NEW j \in Nat, j < Cardinality(Under(K, n + 1))
        PROVE  \E h \in K : Cardinality(Under(K, h)) = j
    <3>1. CASE j < Cardinality(Under(K, n))
      BY <2>1, <3>1
    <3>2. CASE ~(j < Cardinality(Under(K, n)))
      <4>1. n \in K /\ j = Cardinality(Under(K, n))
        BY <2>2, <2>3, <3>2
      <4> QED
        BY <4>1
    <3> QED
      BY <3>1, <3>2
  <2> QED
    BY <2>3
<1>3. Under(K, N) = K
  BY DEF Under
<1> HIDE DEF P
<1>4. N \in P
  BY <1>1, <1>2, NumberInduction
<1>5. Cardinality(K) \in Nat
  BY FS_CardinalityType
<1> QED
  BY <1>3, <1>4, <1>5 DEF P

LEMMA RanksOrder ==
  ASSUME NEW K \in SUBSET Nat, IsFiniteSet(K), NEW a \in K, NEW b \in K,
         Cardinality(Under(K, a)) < Cardinality(Under(K, b))
  PROVE  a < b
<1> DEFINE A == Under(K, a)
           B == Under(K, b)
<1> SUFFICES ASSUME ~(a < b) PROVE FALSE
  OBVIOUS
<1>1. B \in SUBSET A /\ A \in SUBSET K
  <2>1. \A k \in K : k < b => k < a
    OBVIOUS
  <2> QED
    BY <2>1 DEF Under
<1>2. Cardinality(A) < Cardinality(B)
  OBVIOUS
<1> HIDE DEF A, B
<1>3. IsFiniteSet(A)
  BY <1>1, FS_Subset
<1>4. Cardinality(B) <= Cardinality(A) /\ IsFiniteSet(B)
  BY <1>1, <1>3, FS_Subset
<1>5. Cardinality(A) \in Nat /\ Cardinality(B) \in Nat
  BY <1>3, <1>4, FS_CardinalityType
<1> QED
  BY <1>2, <1>4, <1>5

(* Every row of a panel decides in an hour of its own, later ones later. *)
Dated(rows) ==
  /\ Len(rows) \in Nat /\ DOMAIN rows = 1..Len(rows)
  /\ \A i \in 1..Len(rows) :
       /\ rows[i].hour \in Nat
       /\ rows[i].decision = DecisionTime(rows[i].hour)
       /\ rows[i].execution = OpenTime(rows[i].hour + 1)
       /\ rows[i].labelEnd = OpenTime(rows[i].hour + 2)
  /\ \A i, j \in 1..Len(rows) : i < j => rows[i].hour < rows[j].hour

(* The ascending order of a finite set of numbers names each member once, *)
(* smaller ones first.                                                    *)
LEMMA AscendingIs ==
  ASSUME NEW K \in SUBSET Nat, IsFiniteSet(K)
  PROVE  /\ Cardinality(K) \in Nat
         /\ DOMAIN Ascending(K) = 1..Cardinality(K) /\ Len(Ascending(K)) = Cardinality(K)
         /\ \A i \in 1..Cardinality(K) :
              Ascending(K)[i] \in K /\ Cardinality(Under(K, Ascending(K)[i])) = i - 1
         /\ \A i, j \in 1..Cardinality(K) : i < j => Ascending(K)[i] < Ascending(K)[j]
<1> DEFINE n == Cardinality(K)
           at(i) == CHOOSE h \in K : Cardinality({k \in K : k < h}) = i - 1
           order == Ascending(K)
<1>1. order = [i \in 1..n |-> at(i)]
  BY DEF Ascending
<1>2. \E N \in Nat : \A k \in K : k < N
  <2> DEFINE P == {T \in SUBSET K : \E N \in Nat : \A k \in T : k < N}
  <2>1. {} \in P
    OBVIOUS
  <2>2. ASSUME NEW T \in SUBSET K, T # {}, \A x \in T : T \ {x} \in P PROVE T \in P
    <3>1. PICK x \in T : TRUE
      BY <2>2
    <3>2. PICK N \in Nat : \A k \in T \ {x} : k < N
      BY <2>2, <3>1
    <3> DEFINE M == IF N > x THEN N ELSE x + 1
    <3>3. x \in Nat
      BY <3>1
    <3>4. M \in Nat /\ x < M /\ N <= M
      BY <3>3
    <3> HIDE DEF M
    <3>5. \A k \in T : k \in Nat /\ k < M
      BY <3>2, <3>4
    <3> QED
      BY <3>4, <3>5
  <2> HIDE DEF P
  <2>3. K \in P
    BY <2>1, <2>2, SubsetInduction
  <2> QED
    BY <2>3 DEF P
<1>5. /\ n \in Nat
      /\ \A j \in Nat : j < n => \E h \in K : Cardinality(Under(K, h)) = j
  BY <1>2, RanksFrom
<1>6. \A i \in 1..n : at(i) \in K /\ Cardinality(Under(K, at(i))) = i - 1
  <2> SUFFICES ASSUME NEW i \in 1..n PROVE at(i) \in K /\ Cardinality(Under(K, at(i))) = i - 1
    OBVIOUS
  <2>1. i - 1 \in Nat /\ i - 1 < n
    BY <1>5
  <2>2. \E h \in K : Cardinality(Under(K, h)) = i - 1
    BY <1>5, <2>1
  <2> QED
    BY <2>2 DEF Under
<1> HIDE DEF n, at, order
<1>7. \A i, j \in 1..n : i < j => at(i) < at(j)
  <2> SUFFICES ASSUME NEW i \in 1..n, NEW j \in 1..n, i < j PROVE at(i) < at(j)
    OBVIOUS
  <2>1. Cardinality(Under(K, at(i))) < Cardinality(Under(K, at(j)))
    BY <1>5, <1>6
  <2> QED
    BY <1>6, <2>1, RanksOrder
<1>8. DOMAIN order = 1..n /\ Len(order) = n /\ \A i \in 1..n : order[i] = at(i)
  BY <1>1, <1>5
<1>9. \A i \in 1..n : order[i] \in K /\ Cardinality(Under(K, order[i])) = i - 1
  BY <1>6, <1>8
<1>10. \A i, j \in 1..n : i < j => order[i] < order[j]
  BY <1>7, <1>8
<1> QED
  BY <1>5, <1>8, <1>9, <1>10 DEF order, n

LEMMA UnderGrows ==
  ASSUME NEW K \in SUBSET Nat, IsFiniteSet(K), NEW a \in K, NEW b \in K, a < b
  PROVE  Cardinality(Under(K, a)) < Cardinality(Under(K, b))
<1> DEFINE A == Under(K, a)
           B == Under(K, b)
<1>1. B \in SUBSET K /\ A \in SUBSET B /\ a \in B /\ a \notin A
  <2>1. \A k \in K : (k < a => k < b) /\ ~(a < a)
    OBVIOUS
  <2> QED
    BY <2>1 DEF Under
<1> HIDE DEF A, B
<1>2. IsFiniteSet(B) /\ Cardinality(B) \in Nat
  BY <1>1, FS_Subset, FS_CardinalityType
<1>3. IsFiniteSet(B \ {a}) /\ Cardinality(B \ {a}) = Cardinality(B) - 1
  BY <1>1, <1>2, FS_RemoveElement
<1>4. A \in SUBSET (B \ {a})
  BY <1>1
<1>5. Cardinality(A) <= Cardinality(B \ {a}) /\ Cardinality(A) \in Nat
  BY <1>3, <1>4, FS_Subset, FS_CardinalityType
<1>6. Cardinality(A) < Cardinality(B)
  BY <1>2, <1>3, <1>5
<1> QED
  BY <1>6 DEF A, B

(* Every member has a place. *)
LEMMA AscendingOnto ==
  ASSUME NEW K \in SUBSET Nat, IsFiniteSet(K), NEW k \in K
  PROVE  \E i \in 1..Cardinality(K) : Ascending(K)[i] = k
<1> DEFINE n == Cardinality(K)
           U == Under(K, k)
           order == Ascending(K)
<1>1. U \in SUBSET (K \ {k})
  <2>1. ~(k < k)
    OBVIOUS
  <2> QED
    BY <2>1 DEF Under
<1> HIDE DEF U
<1>2. IsFiniteSet(K \ {k}) /\ Cardinality(K \ {k}) = n - 1 /\ n \in Nat
  BY FS_RemoveElement, FS_CardinalityType
<1>3. Cardinality(U) <= n - 1 /\ Cardinality(U) \in Nat
  <2> DEFINE V == K \ {k}
  <2>1. IsFiniteSet(V) /\ U \in SUBSET V /\ Cardinality(V) = n - 1
    BY <1>1, <1>2
  <2> HIDE DEF V, n
  <2>2. IsFiniteSet(U) /\ Cardinality(U) <= Cardinality(V)
    BY <2>1, FS_Subset
  <2>3. Cardinality(U) \in Nat
    BY <2>2, FS_CardinalityType
  <2> QED
    BY <2>1, <2>2, <2>3
<1> DEFINE i == Cardinality(U) + 1
<1>4. i \in 1..n /\ i - 1 = Cardinality(U)
  BY <1>2, <1>3
<1> HIDE DEF i, order, n
<1>5. order[i] \in K /\ Cardinality(Under(K, order[i])) = Cardinality(U)
  BY <1>4, AscendingIs DEF order, n
<1>6. order[i] = k
  <2>1. CASE order[i] < k
    <3>1. Cardinality(Under(K, order[i])) < Cardinality(Under(K, k))
      BY <1>5, <2>1, UnderGrows
    <3> QED
      BY <1>3, <1>5, <3>1 DEF U
  <2>2. CASE k < order[i]
    <3>1. Cardinality(Under(K, k)) < Cardinality(Under(K, order[i]))
      BY <1>5, <2>2, UnderGrows
    <3> QED
      BY <1>3, <1>5, <3>1 DEF U
  <2>3. order[i] \in Nat /\ k \in Nat
    BY <1>5
  <2> QED
    BY <2>1, <2>2, <2>3
<1> QED
  BY <1>4, <1>6 DEF order, n

LEMMA DecisionsFinite ==
  ASSUME NEW past \in Seq(Hour), NEW K \in SUBSET DecisionHours(past)
  PROVE  K \in SUBSET Nat /\ IsFiniteSet(K) /\ \A k \in K : k >= FirstDecision /\ k <= Len(past) - 2
<1>2. FirstDecision \in Nat /\ Len(past) \in Nat
  BY WindowsAssumption DEF FirstDecision
<1>3. \A k \in K : k \in Nat /\ k >= FirstDecision /\ k <= Len(past) - 2
  BY <1>2 DEF DecisionHours
<1>4. IsFiniteSet(K)
  <2>1. \A a, b \in Int : IsFiniteSet(a..b)
    BY ONLY FS_Interval
  <2>2. Len(past) - 2 \in Int /\ FirstDecision \in Int
    BY <1>2
  <2>3. IsFiniteSet(DecisionHours(past))
    BY <2>1, <2>2 DEF DecisionHours
  <2> QED
    BY <2>3, FS_Subset
<1> QED
  BY <1>3, <1>4

(* The decision hours that become rows. *)
Kept(past) == {h \in DecisionHours(past) : Complete(Features(past, FirstDecision), h - FirstDecision + 1)}

LEMMA PanelRows ==
  ASSUME NEW past \in Seq(Hour)
  PROVE  LET order == Ascending(Kept(past))
         IN  /\ Len(BuildRows(past)) \in Nat
             /\ DOMAIN BuildRows(past) = 1..Len(BuildRows(past))
             /\ DOMAIN order = DOMAIN BuildRows(past)
             /\ \A i \in DOMAIN order :
                  /\ BuildRows(past)[i] = RowOf(past, Features(past, FirstDecision), order[i])
                  /\ order[i] \in Kept(past)
             /\ \A i, j \in DOMAIN order : i < j => order[i] < order[j]
<1> DEFINE K == Kept(past)
           order == Ascending(K)
           features == Features(past, FirstDecision)
           rows == BuildRows(past)
<1>1. rows = [i \in DOMAIN order |-> RowOf(past, features, order[i])]
  BY DEF BuildRows, Kept
<1>2. K \in SUBSET DecisionHours(past)
  BY DEF Kept
<1> HIDE DEF K, features, rows
<1>3. K \in SUBSET Nat /\ IsFiniteSet(K)
  BY <1>2, DecisionsFinite
<1> HIDE DEF order
<1>4. /\ Cardinality(K) \in Nat /\ DOMAIN order = 1..Cardinality(K)
      /\ \A i \in 1..Cardinality(K) : order[i] \in K
      /\ \A i, j \in 1..Cardinality(K) : i < j => order[i] < order[j]
  BY <1>3, AscendingIs DEF order
<1>5. DOMAIN rows = 1..Cardinality(K) /\ Len(rows) = Cardinality(K)
  BY <1>1, <1>4
<1> QED
  BY <1>1, <1>4, <1>5 DEF order, K, rows, features

LEMMA PanelIsDated ==
  ASSUME NEW past \in Seq(Hour)
  PROVE  Dated(BuildRows(past))
<1> DEFINE rows == BuildRows(past)
           order == Ascending(Kept(past))
<1>1. /\ Len(rows) \in Nat /\ DOMAIN rows = 1..Len(rows) /\ DOMAIN order = DOMAIN rows
      /\ \A i \in DOMAIN order :
           rows[i] = RowOf(past, Features(past, FirstDecision), order[i]) /\ order[i] \in Kept(past)
      /\ \A i, j \in DOMAIN order : i < j => order[i] < order[j]
  BY PanelRows
<1>2. \A h \in Kept(past) : h \in Nat
  <2>1. Kept(past) \in SUBSET DecisionHours(past)
    BY DEF Kept
  <2> QED
    BY <2>1, DecisionsFinite
<1> HIDE DEF rows, order
<1>3. \A i \in DOMAIN order : /\ rows[i].hour = order[i]
                              /\ rows[i].decision = DecisionTime(order[i])
                              /\ rows[i].execution = OpenTime(order[i] + 1)
                              /\ rows[i].labelEnd = OpenTime(order[i] + 2)
  BY <1>1 DEF RowOf, Decided, Execution, LabelEnd
<1>5. \A i \in DOMAIN order : order[i] \in Kept(past)
  BY <1>1
<1>4. \A i \in DOMAIN order : order[i] \in Nat
  BY <1>2, <1>5
<1>6. /\ Len(rows) \in Nat /\ DOMAIN rows = 1..Len(rows) /\ DOMAIN order = 1..Len(rows)
  BY <1>1
<1>7. \A i, j \in 1..Len(rows) : i < j => order[i] < order[j]
  BY <1>1, <1>6
<1>8. \A i, j \in 1..Len(rows) : i < j => rows[i].hour < rows[j].hour
  BY <1>3, <1>6, <1>7
<1>9. Dated(rows)
  BY <1>3, <1>4, <1>6, <1>8 DEF Dated
<1> QED
  BY <1>9 DEF rows

-----------------------------------------------------------------------------
(* The run. *)

(* The panel is the one of the recorded hours; a fold that is scored lies in *)
(* it, and its scores are those of the plan's strategy.                      *)
ResearchInv ==
  /\ hours \in Histories
  /\ status \notin {"recorded", "rejected"} => panel = BuildRows(hours)
  /\ status \in {"folding", "scored", "trading"} => fold \in Nat \ {0}
  /\ status = "scored" =>
       /\ FoldExists(fold)
       /\ \E fitted \in Fits(plan[1]) : scores.columns = ScorePanel(plan[1], panel, Fold, fitted)

LEMMA ResearchStep ==
  ASSUME ResearchInv, [Next]_vars
  PROVE  ResearchInv'
<1> USE DEF ResearchInv
<1>1. CASE BuildPanel
  BY <1>1 DEF BuildPanel
<1>2. CASE RefuseHistory
  BY <1>2 DEF RefuseHistory, Reject
<1>3. CASE StartRun
  BY <1>3 DEF StartRun
<1>4. CASE TooFewDecisions
  BY <1>4 DEF TooFewDecisions, Reject
<1>5. CASE FitAndScore
  <2>1. PICK fitted \in Fits(plan[1]) :
          scores' = [fitted |-> fitted, columns |-> ScorePanel(plan[1], panel, Fold, fitted)]
    BY <1>5 DEF FitAndScore
  <2>2. scores'.columns = ScorePanel(plan[1], panel, Fold, fitted)
    BY <2>1
  <2>3. /\ status = "folding" /\ FoldExists(fold) /\ status' = "scored"
        /\ UNCHANGED <<hours, panel, plan, fold>>
    BY <1>5 DEF FitAndScore
  <2>4. FoldExists(fold)' /\ Fold' = Fold
    BY <2>3 DEF FoldExists, Fold, FoldRows
  <2>5. \E f \in Fits(plan'[1]) : scores'.columns = ScorePanel(plan'[1], panel', Fold', f)
    BY <2>2, <2>3, <2>4
  <2> QED
    BY <2>3, <2>4, <2>5
<1>6. CASE FitFails
  BY <1>6 DEF FitFails, Reject
<1>7. CASE WeighScores
  BY <1>7 DEF WeighScores
<1>8. CASE ScoringFails
  BY <1>8 DEF ScoringFails, Reject
<1>9. CASE WeighingFails
  BY <1>9 DEF WeighingFails, Reject
<1>10. CASE Bar
  BY <1>10 DEF Bar
<1>11. CASE BarRefused
  BY <1>11 DEF BarRefused, Reject
<1>12. CASE NextFold
  BY <1>12 DEF NextFold
<1>13. CASE FinishRun
  BY <1>13 DEF FinishRun
<1>14. CASE ReportTrades
  BY <1>14 DEF ReportTrades
<1>15. CASE UNCHANGED vars
  <2>1. FoldExists(fold)' <=> FoldExists(fold)
    BY <1>15 DEF vars, FoldExists, FoldRows
  <2> QED
    BY <1>15, <2>1 DEF vars, Fold, FoldRows
<1> QED
  BY <1>1, <1>2, <1>3, <1>4, <1>5, <1>6, <1>7, <1>8, <1>9, <1>10, <1>11, <1>12, <1>13, <1>14, <1>15
  DEF Next

(* In every reachable state the panel is built from the recorded hours and  *)
(* the scores are those of the plan over a fold of the panel (dataset.py,   *)
(* backtest.py).                                                            *)
THEOREM ResearchInvariant == Spec => []ResearchInv
<1>1. Init => ResearchInv
  BY DEF Init, ResearchInv
<1> QED
  BY <1>1, ResearchStep, PTL DEF Spec

LEMMA PanelOfHours ==
  ASSUME ResearchInv, status \notin {"recorded", "rejected"}
  PROVE  Dated(panel)
<1>1. hours \in Seq(Hour) /\ panel = BuildRows(hours)
  BY HistoriesAssumption DEF ResearchInv
<1> QED
  BY <1>1, PanelIsDated

(* The rows of a fold that exists are rows of the panel. *)
LEMMA RowsOfFold ==
  ASSUME ResearchInv, status = "scored"
  PROVE  /\ Dated(panel)
         /\ Fold.trainEnd \in 1..Len(panel)
         /\ Fold.testStart \in 1..Len(panel) /\ Fold.testEnd \in 1..Len(panel)
         /\ Fold.trainEnd + 1 < Fold.testStart
         /\ Fold.testEnd = Fold.testStart + TestBars - 1
<1>1. Dated(panel)
  BY PanelOfHours
<1>2. /\ Len(panel) \in Nat /\ fold \in Nat \ {0}
      /\ TrainBars \in Nat \ {0} /\ TestBars \in Nat \ {0} /\ EmbargoBars \in Nat \ {0}
  BY <1>1, FoldsAssumption DEF Dated, ResearchInv
<1> DEFINE past == (fold - 1) * TestBars
<1>3. past \in Nat
  <2>1. fold - 1 \in Nat
    BY <1>2
  <2>2. \A a, b \in Nat : a * b \in Nat
    OBVIOUS
  <2> QED
    BY <1>2, <2>1, <2>2
<1>4. /\ Fold.trainEnd = TrainBars + past
      /\ Fold.testStart = TrainBars + past + 1 + EmbargoBars
      /\ Fold.testEnd = TrainBars + past + EmbargoBars + TestBars
  BY DEF Fold, FoldRows
<1>5. Fold.testEnd <= Len(panel)
  BY DEF ResearchInv, FoldExists, Fold
<1> HIDE DEF past
<1> QED
  BY <1>1, <1>2, <1>3, <1>4, <1>5

(* make_walk_forward_folds (backtest.py): for every panel, with whatever     *)
(* hours missing, and every embargo of at least one row, the outcome of the  *)
(* last training row of a scored fold is recorded before its first decision. *)
THEOREM LabelsPrecede == Spec => []LabelsPrecedeTest
<1>1. ASSUME ResearchInv PROVE LabelsPrecedeTest
  <2> SUFFICES ASSUME status = "scored"
               PROVE  panel[Fold.trainEnd].labelEnd <= panel[Fold.testStart].decision
    BY DEF LabelsPrecedeTest
  <2> DEFINE i == Fold.trainEnd
             j == Fold.trainEnd + 1
             k == Fold.testStart
  <2>1. /\ Dated(panel) /\ i \in 1..Len(panel) /\ k \in 1..Len(panel)
        /\ j = i + 1 /\ j < k
    BY <1>1, RowsOfFold
  <2> HIDE DEF i, j, k
  <2>2. /\ i \in Int /\ j \in 1..Len(panel) /\ k \in Int /\ i < j
    BY <2>1 DEF Dated
  <2>3. /\ panel[i].hour \in Nat /\ panel[j].hour \in Nat /\ panel[k].hour \in Nat
        /\ panel[i].hour < panel[j].hour /\ panel[j].hour < panel[k].hour
        /\ panel[i].labelEnd = OpenTime(panel[i].hour + 2)
        /\ panel[k].decision = DecisionTime(panel[k].hour)
    BY <2>1, <2>2 DEF Dated
  <2>4. panel[i].labelEnd <= panel[k].decision
    BY <2>3 DEF OpenTime, DecisionTime
  <2> QED
    BY <2>4 DEF i, k
<1> QED
  BY <1>1, ResearchInvariant, PTL

-----------------------------------------------------------------------------
(* Sparse states. *)

LEMMA EvaluatedIs ==
  ASSUME NEW n \in Nat, NEW f, f = [r \in 1..n |-> f[r]]
  PROVE  Evaluated(f) = f /\ Len(f) = n /\ DOMAIN f = 1..n
<1> DEFINE X == {f[r] : r \in 1..n}
<1>1. \A r \in 1..n : f[r] \in X
  OBVIOUS
<1> HIDE DEF X
<1>2. f \in Seq(X) /\ Len(f) = n
  BY <1>1
<1>3. f \o <<>> = f
  BY <1>2, ConcatEmptySeq
<1> QED
  BY <1>2, <1>3 DEF Evaluated

(* The row after carried. *)
RowAfter(entries, exits, hold, carried, r) == SparseRow(carried, entries[r], exits[r], hold)

LEMMA ColumnIs ==
  ASSUME NEW entries, NEW exits, NEW hold, Len(entries) \in Nat
  PROVE  \A r \in 1..Len(entries) :
           SparseColumn(entries, exits, hold)[r] =
             RowAfter(entries, exits, hold,
                      IF r = 1 THEN Flat ELSE SparseColumn(entries, exits, hold)[r - 1], r)
<1> DEFINE After(c, r) == RowAfter(entries, exits, hold, c, r)
           N == Len(entries)
           body(g, n) == [r \in 1..n |-> After(IF r = 1 THEN Flat ELSE g[r - 1], r)]
           column == CHOOSE g : g = body(g, N)
<1>1. SparseColumn(entries, exits, hold) = column
  BY DEF SparseColumn, RowAfter
<1> HIDE DEF N, After
<1>2. \E g : g = body(g, N)
  <2> DEFINE P == {n \in Nat : \E g : g = body(g, n)}
  <2>1. 0 \in P
    <3>1. body(<<>>, 0) = <<>>
      OBVIOUS
    <3> QED
      BY <3>1
  <2>2. ASSUME NEW n \in Nat, n \in P PROVE n + 1 \in P
    <3>1. PICK g : g = body(g, n)
      BY <2>2
    <3> DEFINE h == [r \in 1..(n + 1) |-> After(IF r = 1 THEN Flat ELSE g[r - 1], r)]
    <3>2. \A r \in 1..n : h[r] = g[r]
      <4>1. \A r \in 1..n : g[r] = After(IF r = 1 THEN Flat ELSE g[r - 1], r)
        BY <3>1
      <4> QED
        BY <4>1
    <3>3. \A r \in 1..(n + 1) : r # 1 => r - 1 \in 1..n
      OBVIOUS
    <3>4. \A r \in 1..(n + 1) : h[r] = After(IF r = 1 THEN Flat ELSE h[r - 1], r)
      BY <3>2, <3>3
    <3>5. h = body(h, n + 1)
      BY <3>4
    <3> HIDE DEF h, body
    <3>6. \E k : k = body(k, n + 1)
      BY <3>5
    <3> QED
      BY <3>6
  <2> HIDE DEF P
  <2>3. N \in P
    BY <2>1, <2>2, NumberInduction DEF N
  <2> QED
    BY <2>3 DEF P
<1>3. column = body(column, N)
  BY <1>2
<1> HIDE DEF column
<1>4. \A r \in 1..N : column[r] = After(IF r = 1 THEN Flat ELSE column[r - 1], r)
  BY <1>3
<1> QED
  BY <1>1, <1>4 DEF N, After

(* What a row may do: a position is counted down and left when it is due. *)
Counted(c, x, hold) ==
  /\ x.value # 0 => x.remaining \in Int /\ x.remaining <= hold - 1
  /\ x.value # 0 /\ c.value # 0 => c.remaining > 0 /\ x.remaining = c.remaining - 1

LEMMA RowCounts ==
  ASSUME NEW c, NEW entry, NEW exit, NEW hold \in Nat \ {0},
         c.value # 0 => c.remaining \in Int /\ c.remaining <= hold - 1
  PROVE  Counted(c, SparseRow(c, entry, exit, hold), hold)
<1> DEFINE x == SparseRow(c, entry, exit, hold)
           exited == c.value # 0 /\ (exit \/ c.remaining <= 0)
<1>1. CASE exited
  <2>1. x.value = 0
    BY <1>1 DEF SparseRow
  <2> QED
    BY <2>1 DEF Counted
<1>2. CASE ~exited /\ c.value # 0
  <2>1. x.value = c.value /\ x.remaining = c.remaining - 1
    BY <1>2 DEF SparseRow
  <2>2. c.remaining > 0
    BY <1>2
  <2>3. c.remaining \in Int /\ c.remaining <= hold - 1 /\ hold - 1 \in Int
    BY <1>2
  <2> HIDE DEF x, exited
  <2>4. x.remaining \in Int /\ x.remaining <= hold - 1
    BY <2>1, <2>3
  <2>5. Counted(c, x, hold)
    BY <2>1, <2>2, <2>4 DEF Counted
  <2> QED
    BY <2>5 DEF x
<1>3. CASE c.value = 0
  <2>1. x.value # 0 => x.remaining = hold - 1
    BY <1>3 DEF SparseRow
  <2>2. hold - 1 \in Int /\ hold - 1 <= hold - 1
    OBVIOUS
  <2> HIDE DEF x, exited
  <2>3. x.value # 0 => x.remaining \in Int /\ x.remaining <= hold - 1
    BY <2>1, <2>2
  <2>4. Counted(c, x, hold)
    BY <1>3, <2>3 DEF Counted
  <2> QED
    BY <2>4 DEF x
<1> QED
  BY <1>1, <1>2, <1>3

LEMMA ColumnCounts ==
  ASSUME NEW entries, NEW exits, NEW hold \in Nat \ {0}, Len(entries) \in Nat
  PROVE  \A r \in 1..Len(entries) :
           Counted(IF r = 1 THEN Flat ELSE SparseColumn(entries, exits, hold)[r - 1],
                   SparseColumn(entries, exits, hold)[r], hold)
<1> DEFINE N == Len(entries)
           row == SparseColumn(entries, exits, hold)
           from(r) == IF r = 1 THEN Flat ELSE row[r - 1]
           P == {n \in Nat : n \in 1..N => Counted(from(n), row[n], hold)}
<1>1. \A r \in 1..N : row[r] = SparseRow(from(r), entries[r], exits[r], hold)
  BY ColumnIs DEF RowAfter
<1>2. Flat.value = 0
  BY DEF Flat
<1> HIDE DEF row
<1>3. 0 \in P
  OBVIOUS
<1>4. ASSUME NEW n \in Nat, n \in P PROVE n + 1 \in P
  <2> SUFFICES ASSUME n + 1 \in 1..N PROVE Counted(from(n + 1), row[n + 1], hold)
    OBVIOUS
  <2> DEFINE c == from(n + 1)
             m == n + 1
  <2>1. c.value # 0 => c.remaining \in Int /\ c.remaining <= hold - 1
    <3>1. CASE n = 0
      BY <1>2, <3>1
    <3>2. CASE n # 0
      <4>1. n \in 1..N /\ c = row[n]
        BY <3>2
      <4>2. Counted(from(n), row[n], hold)
        BY <1>4, <4>1
      <4> QED
        BY <4>1, <4>2 DEF Counted
    <3> QED
      BY <3>1, <3>2
  <2>2. row[m] = SparseRow(c, entries[m], exits[m], hold)
    BY <1>1
  <2> HIDE DEF c, m
  <2>3. Counted(c, row[m], hold)
    BY <2>1, <2>2, RowCounts
  <2> QED
    BY <2>3 DEF c, m
<1> HIDE DEF P
<1>5. \A n \in Nat : n \in P
  BY <1>3, <1>4, NumberInduction
<1> QED
  BY <1>5 DEF P, row

LEMMA HeldAtMost ==
  ASSUME NEW entries, NEW exits, NEW hold \in Nat \ {0}, Len(entries) \in Nat,
         NEW r \in Nat \ {0}, r + hold <= Len(entries)
  PROVE  \E k \in r..(r + hold) : SparseColumn(entries, exits, hold)[k].value = 0
<1> DEFINE N == Len(entries)
           row == SparseColumn(entries, exits, hold)
<1> SUFFICES ASSUME \A k \in r..(r + hold) : row[k].value # 0 PROVE FALSE
  OBVIOUS
<1>1. \A k \in 1..N : Counted(IF k = 1 THEN Flat ELSE row[k - 1], row[k], hold)
  BY ColumnCounts
<1> HIDE DEF row
<1>2. \A k \in r..(r + hold) : row[k].remaining \in Int /\ row[k].remaining <= hold - 1
  BY <1>1 DEF Counted
<1>3. \A k \in r..(r + hold) : k # r => row[k - 1].remaining > 0 /\ row[k].remaining = row[k - 1].remaining - 1
  <2> SUFFICES ASSUME NEW k \in r..(r + hold), k # r
               PROVE  row[k - 1].remaining > 0 /\ row[k].remaining = row[k - 1].remaining - 1
    OBVIOUS
  <2>1. k \in 1..N /\ k # 1 /\ k - 1 \in r..(r + hold)
    OBVIOUS
  <2>2. Counted(row[k - 1], row[k], hold)
    BY <1>1, <2>1
  <2> QED
    BY <2>1, <2>2 DEF Counted
<1> DEFINE P == {j \in Nat : j <= hold => row[r + j].remaining <= hold - 1 - j}
<1>4. 0 \in P
  <2>1. r \in r..(r + hold) /\ r + 0 = r /\ hold - 1 - 0 = hold - 1
    OBVIOUS
  <2> QED
    BY <1>2, <2>1
<1>5. ASSUME NEW j \in Nat, j \in P PROVE j + 1 \in P
  <2> SUFFICES ASSUME j + 1 <= hold PROVE row[r + (j + 1)].remaining <= hold - 1 - (j + 1)
    OBVIOUS
  <2> DEFINE k == r + (j + 1)
  <2>1. k \in r..(r + hold) /\ k # r /\ k - 1 = r + j /\ r + j \in r..(r + hold)
    OBVIOUS
  <2>2. row[r + j].remaining <= hold - 1 - j
    BY <1>5
  <2> HIDE DEF k
  <2>3. row[k].remaining = row[r + j].remaining - 1 /\ row[r + j].remaining \in Int
    BY <1>2, <1>3, <2>1
  <2>4. row[k].remaining <= hold - 1 - (j + 1)
    BY <2>2, <2>3
  <2> QED
    BY <2>4 DEF k
<1> HIDE DEF P
<1>6. hold - 1 \in P
  BY <1>4, <1>5, NumberInduction
<1> DEFINE last == r + (hold - 1)
<1>7. row[last].remaining <= 0
  <2>1. row[last].remaining <= hold - 1 - (hold - 1)
    BY <1>6 DEF P
  <2> QED
    BY <2>1
<1>8. r + hold \in r..(r + hold) /\ r + hold # r /\ r + hold - 1 = last /\ last \in r..(r + hold)
  OBVIOUS
<1>9. row[last].remaining > 0 /\ row[last].remaining \in Int
  BY <1>2, <1>3, <1>8
<1> QED
  BY <1>7, <1>9

(* A matrix of n rows. *)
Rows(matrix, n) == Len(matrix) = n /\ DOMAIN matrix = 1..n

(* No run of more than hold rows without a flat one. *)
FlatWithin(matrix, n, hold) ==
  \A s \in Symbols : \A r \in 1..(n - hold) : \E k \in r..(r + hold) : matrix[k][s] = 0

LEMMA SparseMatrixIs ==
  ASSUME NEW entries, NEW exits, NEW hold, NEW n \in Nat, Rows(entries, n),
         NEW s \in Symbols, NEW k \in 1..n
  PROVE  SparseMatrix(entries, exits, hold)[k][s]
           = SparseColumn([r \in DOMAIN entries |-> entries[r][s]],
                          [r \in DOMAIN exits |-> exits[r][s]], hold)[k].value
<1> DEFINE column == [x \in Symbols |->
             SparseColumn([r \in DOMAIN entries |-> entries[r][x]],
                          [r \in DOMAIN exits |-> exits[r][x]], hold)]
           f == [r \in 1..n |-> [x \in Symbols |-> column[x][r].value]]
<1>1. SparseMatrix(entries, exits, hold) = Evaluated(f)
  BY DEF SparseMatrix, Matrix, Rows
<1>2. f = [r \in 1..n |-> f[r]]
  OBVIOUS
<1>3. f[k][s] = column[s][k].value
  OBVIOUS
<1>4. column[s] = SparseColumn([r \in DOMAIN entries |-> entries[r][s]],
                               [r \in DOMAIN exits |-> exits[r][s]], hold)
  OBVIOUS
<1> HIDE DEF f, column
<1>5. Evaluated(f) = f
  BY <1>2, EvaluatedIs
<1> QED
  BY <1>1, <1>3, <1>4, <1>5

LEMMA SparseMatrixFlat ==
  ASSUME NEW entries, NEW exits, NEW hold \in Nat \ {0}, NEW n \in Nat, Rows(entries, n)
  PROVE  FlatWithin(SparseMatrix(entries, exits, hold), n, hold)
<1> SUFFICES ASSUME NEW s \in Symbols, NEW r \in 1..(n - hold)
             PROVE  \E k \in r..(r + hold) : SparseMatrix(entries, exits, hold)[k][s] = 0
  BY DEF FlatWithin
<1> DEFINE E == [k \in DOMAIN entries |-> entries[k][s]]
           X == [k \in DOMAIN exits |-> exits[k][s]]
<1>1. Len(E) = n
  BY DEF Rows
<1>2. r \in Nat \ {0} /\ r + hold <= n
  OBVIOUS
<1>3. \A k \in 1..n : SparseMatrix(entries, exits, hold)[k][s] = SparseColumn(E, X, hold)[k].value
  BY SparseMatrixIs
<1> HIDE DEF E, X
<1>4. \E k \in r..(r + hold) : SparseColumn(E, X, hold)[k].value = 0
  BY <1>1, <1>2, HeldAtMost
<1>5. \A k \in r..(r + hold) : k \in 1..n
  BY <1>2
<1> QED
  BY <1>3, <1>4, <1>5

(* The entries of each event-driven strategy, a row per test row. *)
AbsorptionCell(x, s) ==
  IF /\ Abs(x.flow_z[s]) >= Tuning.flowThreshold
     /\ x.volume_z[s] >= 0
     /\ 4 * x.agreement[s] <= Tenths
  THEN -Clip(x.flow_z[s], 3 * Tenths) ELSE 0
AbsorptionEntries(rows, start, n) ==
  [r \in 1..n |-> [s \in Symbols |-> AbsorptionCell(rows[start + r - 1].feature, s)]]

LEMMA AbsorptionIsSparse ==
  ASSUME NEW rows, NEW f, NEW n \in Nat, f.testEnd - f.testStart + 1 = n,
         NEW entries, entries = AbsorptionEntries(rows, f.testStart, n)
  PROVE  /\ Rows(entries, n)
         /\ FlowAbsorption(rows, f) = SparseMatrix(entries, NoExits(entries), Tuning.hold)
<1>1. FlowAbsorption(rows, f) = SparseMatrix(Evaluated(entries), NoExits(Evaluated(entries)), Tuning.hold)
  BY DEF FlowAbsorption, Matrix, AbsorptionEntries, AbsorptionCell
<1>2. entries = [r \in 1..n |-> entries[r]]
  BY DEF AbsorptionEntries
<1>3. Evaluated(entries) = entries /\ Rows(entries, n)
  BY <1>2, EvaluatedIs DEF Rows
<1> QED
  BY <1>1, <1>3

CompressionCell(before, x, threshold, s) ==
  IF ~( /\ Tuning.compressed[2] * before.compression[s] <= threshold
        /\ x.volume_z[s] >= 0 /\ 4 * x.efficiency[s] >= Tenths) THEN 0
  ELSE IF x.level[s] < x.prior_low[s] THEN -Tenths
  ELSE IF x.level[s] > x.prior_high[s] THEN Tenths
  ELSE 0
CompressionEntries(rows, training, start, n) ==
  [r \in 1..n |-> [s \in Symbols |->
     CompressionCell(rows[start + r - 2].feature, rows[start + r - 1].feature, CompressionThreshold(rows, training, s), s)]]

LEMMA BreakoutIsSparse ==
  ASSUME NEW rows, NEW f, NEW n \in Nat, f.testEnd - f.testStart + 1 = n,
         NEW entries, entries = CompressionEntries(rows, f.trainEnd, f.testStart, n)
  PROVE  /\ Rows(entries, n)
         /\ CompressionBreakout(rows, f) = SparseMatrix(entries, NoExits(entries), Tuning.hold)
<1>1. CompressionBreakout(rows, f) = SparseMatrix(Evaluated(entries), NoExits(Evaluated(entries)), Tuning.hold)
  BY DEF CompressionBreakout, Matrix, CompressionEntries, CompressionCell
<1>2. entries = [r \in 1..n |-> entries[r]]
  BY DEF CompressionEntries
<1>3. Evaluated(entries) = entries /\ Rows(entries, n)
  BY <1>2, EvaluatedIs DEF Rows
<1> QED
  BY <1>1, <1>3

FlowSums(rows) == TrailingSum(FeatureMatrix(rows, "quarter_z"), Tuning.aggregation)
FlowCell(sum) ==
  IF sum = NaN THEN NaN
  ELSE LET raw == Quot(sum, Tuning.aggregation)
       IN  IF Abs(raw) >= Tenths THEN Clip(raw, 3 * Tenths) ELSE 0
FlowEntries(sums, n) == [r \in 1..n |-> [s \in Symbols |-> FlowCell(sums[r][s])]]

LEMMA FlowIsSparse ==
  ASSUME NEW rows, NEW f, NEW n \in Nat, f.testEnd - f.testStart + 1 = n, f.testStart \in Nat \ {0}, f.testEnd \in Nat,
         NEW entries, entries = FlowEntries(TestRows(FlowSums(rows), f), n)
  PROVE  /\ Rows(entries, n)
         /\ QuarterHourFlow(rows, f)
                = IF \E r \in DOMAIN entries : \E s \in Symbols : entries[r][s] = NaN THEN entries
                  ELSE SparseMatrix(entries, NoExits(entries), Tuning.hold)
<1> DEFINE sums == TestRows(FlowSums(rows), f)
           g == [r \in 1..Len(sums) |-> [s \in Symbols |-> FlowCell(sums[r][s])]]
           e == Evaluated(g)
<1>1. Len(sums) = n
  BY DEF TestRows
<1>2. QuarterHourFlow(rows, f)
        = IF \E r \in DOMAIN e : \E s \in Symbols : e[r][s] = NaN THEN e
          ELSE SparseMatrix(e, NoExits(e), Tuning.hold)
  BY DEF QuarterHourFlow, Matrix, FlowSums, FlowCell
<1>03. g = [r \in 1..n |-> [s \in Symbols |-> FlowCell(sums[r][s])]]
  BY <1>1
<1>3. g = entries /\ g = [r \in 1..n |-> g[r]]
  <2> HIDE DEF g
  <2> QED
    BY <1>03 DEF FlowEntries
<1> HIDE DEF g
<1>4. Rows(g, n) /\ e = g
  BY <1>3, EvaluatedIs DEF Rows
<1>5. e = entries
  BY <1>3, <1>4
<1> HIDE DEF e, sums
<1> QED
  BY <1>2, <1>3, <1>4, <1>5

(* The scores of an event-driven strategy with a value everywhere. *)
LEMMA SparseScores ==
  ASSUME NEW strategy \in Held, NEW rows, Dated(rows), NEW f, NEW n \in Nat,
         f.testEnd - f.testStart + 1 = n,
         f.testStart \in 1..Len(rows), f.testEnd \in 1..Len(rows), NEW fitted,
         ~HistoryMissing(ScorePanel(strategy, rows, f, fitted))
  PROVE  FlatWithin(ScorePanel(strategy, rows, f, fitted).score, n, Tuning.hold)
<1>0. Tuning.hold \in Nat \ {0}
  BY HoldAssumption
<1>1. CASE strategy = "flow_absorption"
  <2>1. ScorePanel(strategy, rows, f, fitted).score = FlowAbsorption(rows, f)
    BY <1>1 DEF ScorePanel, Single
  <2>2. PICK entries : Rows(entries, n)
          /\ FlowAbsorption(rows, f) = SparseMatrix(entries, NoExits(entries), Tuning.hold)
    BY AbsorptionIsSparse
  <2>3. FlatWithin(SparseMatrix(entries, NoExits(entries), Tuning.hold), n, Tuning.hold)
    BY <1>0, <2>2, SparseMatrixFlat
  <2> QED
    BY <2>1, <2>2, <2>3
<1>2. CASE strategy = "volatility_compression_breakout"
  <2>1. ScorePanel(strategy, rows, f, fitted).score = CompressionBreakout(rows, f)
    BY <1>2 DEF ScorePanel, Single
  <2>2. PICK entries : Rows(entries, n)
          /\ CompressionBreakout(rows, f) = SparseMatrix(entries, NoExits(entries), Tuning.hold)
    BY BreakoutIsSparse
  <2>3. FlatWithin(SparseMatrix(entries, NoExits(entries), Tuning.hold), n, Tuning.hold)
    BY <1>0, <2>2, SparseMatrixFlat
  <2> QED
    BY <2>1, <2>2, <2>3
<1>3. CASE strategy = "quarter_hour_flow"
  <2> DEFINE columns == [score |-> QuarterHourFlow(rows, f)]
  <2>1. ScorePanel(strategy, rows, f, fitted) = columns
    BY <1>3 DEF ScorePanel, Single
  <2>02. f.testStart \in Nat \ {0} /\ f.testEnd \in Nat
    BY DEF Dated
  <2>2. PICK entries : Rows(entries, n)
          /\ QuarterHourFlow(rows, f)
               = IF \E r \in DOMAIN entries : \E s \in Symbols : entries[r][s] = NaN THEN entries
                 ELSE SparseMatrix(entries, NoExits(entries), Tuning.hold)
    <3> DEFINE e == FlowEntries(TestRows(FlowSums(rows), f), n)
    <3> HIDE DEF e
    <3>1. e = FlowEntries(TestRows(FlowSums(rows), f), n)
      BY DEF e
    <3>2. /\ Rows(e, n)
          /\ QuarterHourFlow(rows, f)
               = IF \E r \in DOMAIN e : \E s \in Symbols : e[r][s] = NaN THEN e
                 ELSE SparseMatrix(e, NoExits(e), Tuning.hold)
      BY <2>02, <3>1, FlowIsSparse
    <3> QED
      BY ONLY <3>2
  <2>3. ~ \E r \in DOMAIN entries : \E s \in Symbols : entries[r][s] = NaN
    <3> SUFFICES ASSUME NEW r \in DOMAIN entries, NEW s \in Symbols, entries[r][s] = NaN
                 PROVE  HistoryMissing(columns)
      BY <2>1
    <3>1. columns.score = entries /\ "score" \in DOMAIN columns
      BY <2>2
    <3> HIDE DEF columns
    <3> DEFINE cell == <<"score", r, s>>
    <3>2. cell \in {"score"} \X (DOMAIN columns["score"]) \X Symbols
      BY <3>1
    <3>3. columns[cell[1]][cell[2]][cell[3]] = NaN
      BY <3>1
    <3>4. "score" \in DOMAIN columns \ {"pairs"}
      BY <3>1
    <3> HIDE DEF cell
    <3>5. cell \in UNION {{c} \X (DOMAIN columns[c]) \X Symbols : c \in DOMAIN columns \ {"pairs"}}
      BY <3>2, <3>4
    <3> QED
      BY <3>3, <3>5 DEF HistoryMissing
  <2>4. FlatWithin(SparseMatrix(entries, NoExits(entries), Tuning.hold), n, Tuning.hold)
    BY <1>0, <2>2, SparseMatrixFlat
  <2>5. ScorePanel(strategy, rows, f, fitted).score = SparseMatrix(entries, NoExits(entries), Tuning.hold)
    BY <2>1, <2>2, <2>3
  <2> QED
    BY <2>4, <2>5
<1> QED
  BY <1>1, <1>2, <1>3 DEF Held

(* causal_sparse_state (research/state_machine.py) under the strategies that *)
(* hold a position for a time: for every panel, entry rule, symbol and       *)
(* holding period, whatever the entries, no column of a scored fold goes     *)
(* through more than hold rows without a flat one.                           *)
THEOREM HoldBounded == Spec => []HoldIsBounded
<1>1. ASSUME ResearchInv PROVE HoldIsBounded
  <2> SUFFICES ASSUME status = "scored", plan[1] \in Held, ~HistoryMissing(scores.columns)
               PROVE  FlatWithin(scores.columns.score, TestBars, Tuning.hold)
    BY DEF HoldIsBounded, FlatWithin
  <2>1. PICK fitted \in Fits(plan[1]) : scores.columns = ScorePanel(plan[1], panel, Fold, fitted)
    BY <1>1 DEF ResearchInv
  <2> DEFINE f == Fold
  <2>2. /\ Dated(panel)
        /\ f.testStart \in 1..Len(panel) /\ f.testEnd \in 1..Len(panel)
        /\ f.testEnd = f.testStart + TestBars - 1
    BY <1>1, RowsOfFold
  <2>3. scores.columns = ScorePanel(plan[1], panel, f, fitted)
    BY <2>1
  <2> HIDE DEF f
  <2>4. TestBars \in Nat /\ f.testEnd - f.testStart + 1 = TestBars
    BY <2>2, FoldsAssumption DEF Dated
  <2>5. ~HistoryMissing(ScorePanel(plan[1], panel, f, fitted))
    BY <2>3
  <2>6. FlatWithin(ScorePanel(plan[1], panel, f, fitted).score, TestBars, Tuning.hold)
    BY <2>2, <2>4, <2>5, SparseScores
  <2> QED
    BY <2>3, <2>6
<1> QED
  BY <1>1, ResearchInvariant, PTL

-----------------------------------------------------------------------------
(* Numbers. *)

(* A finite set of integers has a largest and a smallest member. *)
LEMMA MaxIs ==
  ASSUME NEW S \in SUBSET Int, IsFiniteSet(S), S # {}
  PROVE  Max(S) \in S /\ \A y \in S : y <= Max(S)
<1> DEFINE P == {T \in SUBSET S : T # {} => \E x \in T : \A y \in T : x >= y}
<1>1. {} \in P
  OBVIOUS
<1>2. ASSUME NEW T \in SUBSET S, T # {}, \A x \in T : T \ {x} \in P PROVE T \in P
  <2>1. PICK x \in T : TRUE
    BY <1>2
  <2>2. CASE T \ {x} = {}
    <3>1. \A y \in T : y = x /\ x >= y
      BY <2>1, <2>2
    <3> QED
      BY <2>1, <3>1
  <2>3. CASE T \ {x} # {}
    <3>1. PICK z \in T \ {x} : \A y \in T \ {x} : z >= y
      BY <1>2, <2>1, <2>3
    <3>2. x \in Int /\ z \in Int
      BY <2>1, <3>1
    <3>3. CASE x >= z
      <4>1. \A y \in T : y \in Int /\ (y = x \/ z >= y)
        BY <3>1
      <4>2. \A y \in T : x >= y
        BY <3>2, <3>3, <4>1
      <4> QED
        BY <2>1, <4>2
    <3>4. CASE ~(x >= z)
      <4>1. \A y \in T : y \in Int /\ (y = x \/ z >= y)
        BY <3>1
      <4>2. \A y \in T : z >= y
        BY <3>2, <3>4, <4>1
      <4> QED
        BY <3>1, <4>2
    <3> QED
      BY <3>3, <3>4
  <2> QED
    BY <2>2, <2>3
<1> HIDE DEF P
<1>3. S \in P
  BY <1>1, <1>2, SubsetInduction
<1>4. \E x \in S : \A y \in S : x >= y
  BY <1>3 DEF P
<1>5. Max(S) \in S /\ \A y \in S : Max(S) >= y
  BY <1>4 DEF Max
<1> QED
  BY <1>5

LEMMA MinIs ==
  ASSUME NEW S \in SUBSET Int, IsFiniteSet(S), S # {}
  PROVE  Min(S) \in S /\ \A y \in S : Min(S) <= y
<1> DEFINE P == {T \in SUBSET S : T # {} => \E x \in T : \A y \in T : x <= y}
<1>1. {} \in P
  OBVIOUS
<1>2. ASSUME NEW T \in SUBSET S, T # {}, \A x \in T : T \ {x} \in P PROVE T \in P
  <2>1. PICK x \in T : TRUE
    BY <1>2
  <2>2. CASE T \ {x} = {}
    <3>1. \A y \in T : y = x /\ x <= y
      BY <2>1, <2>2
    <3> QED
      BY <2>1, <3>1
  <2>3. CASE T \ {x} # {}
    <3>1. PICK z \in T \ {x} : \A y \in T \ {x} : z <= y
      BY <1>2, <2>1, <2>3
    <3>2. x \in Int /\ z \in Int
      BY <2>1, <3>1
    <3>3. \A y \in T : y \in Int /\ (y = x \/ z <= y)
      BY <3>1
    <3>4. (x <= z => \A y \in T : x <= y) /\ (~(x <= z) => \A y \in T : z <= y)
      BY <3>2, <3>3
    <3> QED
      BY <2>1, <3>1, <3>4
  <2> QED
    BY <2>2, <2>3
<1> HIDE DEF P
<1>3. S \in P
  BY <1>1, <1>2, SubsetInduction
<1>4. \E x \in S : \A y \in S : x <= y
  BY <1>3 DEF P
<1> QED
  BY <1>4 DEF Min

LEMMA AbsIs == \A x \in Int : Abs(x) \in Nat /\ (x >= 0 => Abs(x) = x) /\ (x <= 0 => Abs(x) = -x)
  BY DEF Abs

LEMMA SignIs == \A x : Sign(x) \in {-1, 0, 1}
  BY DEF Sign

(* Rounding toward zero loses less than one unit of the divisor. *)
LEMMA QuotIs ==
  ASSUME NEW a \in Int, NEW b \in Int, b > 0
  PROVE  /\ Quot(a, b) \in Int
         /\ b * Abs(Quot(a, b)) <= Abs(a)
         /\ Abs(a - b * Quot(a, b)) <= b - 1
         /\ a >= 0 => Quot(a, b) >= 0
<1> DEFINE n == Abs(a)
           k == n \div b
<1>1. n \in Nat
  BY AbsIs
<1>2. k \in Nat /\ b * k <= n /\ n - b * k <= b - 1 /\ n - b * k >= 0
  <2> HIDE DEF n
  <2>1. k \in Nat
    BY <1>1
  <2>2. b * k <= n
    BY <1>1
  <2>3. n - b * k <= b - 1
    BY <1>1
  <2>4. b * k \in Int
    BY <2>1
  <2> QED
    BY <1>1, <2>1, <2>2, <2>3, <2>4
<1> HIDE DEF k
<1>3. b * k \in Nat /\ b * 0 = 0 /\ b * (-k) = -(b * k)
  BY <1>2
<1>4. Quot(a, b) = Sign(a) * k
  BY DEF Quot, k
<1>5. CASE a > 0
  <2>1. Quot(a, b) = k /\ n = a
    BY <1>2, <1>4, <1>5, AbsIs DEF Sign
  <2>2. Abs(k) = k /\ Abs(a - b * k) = a - b * k
    BY <1>2, <1>3, <2>1, AbsIs
  <2> QED
    BY <1>2, <2>1, <2>2
<1>6. CASE a < 0
  <2>1. Quot(a, b) = -k /\ n = -a
    BY <1>2, <1>4, <1>6, AbsIs DEF Sign
  <2>2. Abs(-k) = k
    BY <1>2, AbsIs
  <2>3. a - b * (-k) = -(n - b * k)
    BY <1>1, <1>3, <2>1
  <2>4. Abs(a - b * (-k)) = n - b * k
    BY <1>1, <1>2, <1>3, <2>3, AbsIs
  <2> QED
    BY <1>2, <1>6, <2>1, <2>2, <2>4
<1>7. CASE a = 0
  <2>1. Quot(a, b) = 0 /\ n = 0
    BY <1>2, <1>4, <1>7, AbsIs DEF Sign
  <2>2. Abs(0) = 0 /\ Abs(a - b * 0) = 0
    BY <1>7, AbsIs
  <2> QED
    BY <1>1, <2>1, <2>2
<1> QED
  BY <1>5, <1>6, <1>7

LEMMA RootType == \A x : \A bound \in Int : RootUpTo(x, bound) \in Nat
<1> SUFFICES ASSUME NEW x, NEW bound \in Int PROVE RootUpTo(x, bound) \in Nat
  OBVIOUS
<1>1. \A a, b \in Int : IsFiniteSet(a..b)
  BY ONLY FS_Interval
<1> DEFINE R == {r \in 1..bound : r * r <= x}
<1>2. R \in SUBSET (1..bound) /\ IsFiniteSet(1..bound)
  BY <1>1
<1>3. RootUpTo(x, bound) = Cardinality(R)
  BY DEF RootUpTo
<1> HIDE DEF R
<1>4. IsFiniteSet(R)
  BY <1>2, FS_Subset
<1> QED
  BY <1>3, <1>4, FS_CardinalityType

(* A z-score is a number whatever the row. *)
LEMMA ZScoreType ==
  ASSUME NEW f, IsFiniteSet(DOMAIN f), NEW k
  PROVE  ZScoreOf(f, k) \in Int
<1> DEFINE n == Cardinality(DOMAIN f)
<1>1. n \in Nat
  BY FS_CardinalityType
<1> DEFINE dev == n * f[k] - RowSum(f)
           x == (Tenths * Tenths * dev * dev) \div Spread(f)
           root == RootUpTo(x, Tenths * n)
<1>2. ZScoreOf(f, k) = IF Spread(f) = 0 THEN 0 ELSE Sign(dev) * root
  BY DEF ZScoreOf
<1> HIDE DEF n, dev, x
<1>3. Tenths * n \in Int
  BY <1>1 DEF Tenths
<1>4. root \in Nat
  BY <1>3, RootType
<1>5. Sign(dev) \in {-1, 0, 1}
  BY SignIs
<1> HIDE DEF root
<1>6. Sign(dev) * root \in Int
  BY <1>4, <1>5
<1> QED
  BY <1>2, <1>6

(* n times the sum of squares is at least the square of the sum. *)
LEMMA SpreadStep ==
  ASSUME NEW c \in Int, NEW q \in Int, NEW s \in Int, NEW v \in Int
  PROVE  (c + 1) * (q + v * v) - (s + v) * (s + v)
           = (c * q - s * s) + (q - 2 * v * s + c * (v * v))
<1> DEFINE w == v * v
           z == v * s
<1>1. w \in Int /\ z \in Int /\ c * q \in Int /\ c * w \in Int /\ s * s \in Int
  OBVIOUS
<1>2. (s + v) * (s + v) = s * s + 2 * z + w
  OBVIOUS
<1>3. 2 * v * s = 2 * z
  OBVIOUS
<1> HIDE DEF w, z
<1>4. (c + 1) * (q + w) = c * q + c * w + q + w
  BY <1>1
<1> QED
  BY <1>1, <1>2, <1>3, <1>4 DEF w

LEMMA AroundStep ==
  ASSUME NEW c \in Int, NEW q \in Int, NEW s \in Int, NEW v \in Int, NEW x \in Int
  PROVE  (q + v * v) - 2 * x * (s + v) + (c + 1) * (x * x)
           = (q - 2 * x * s + c * (x * x)) + (v - x) * (v - x)
<1> DEFINE w == x * x
           y == v * v
           z == x * v
           t == x * s
<1>1. w \in Int /\ y \in Int /\ z \in Int /\ t \in Int /\ c * w \in Int
  OBVIOUS
<1>2. 2 * x * (s + v) = 2 * t + 2 * z
  OBVIOUS
<1>3. (v - x) * (v - x) = y - 2 * z + w
  OBVIOUS
<1>4. 2 * x * s = 2 * t
  OBVIOUS
<1> HIDE DEF w, y, z, t
<1>5. (c + 1) * w = c * w + w
  BY <1>1
<1> QED
  BY <1>1, <1>2, <1>3, <1>4, <1>5 DEF w, y

LEMMA SpreadIs ==
  ASSUME NEW D, IsFiniteSet(D), NEW f \in [D -> Int]
  PROVE  Spread(f) \in Int /\ Spread(f) >= 0
<1> DEFINE sq == [k \in D |-> f[k] * f[k]]
           C(T) == Cardinality(T)
           Q(T) == PartSum(sq, T)
           S(T) == PartSum(f, T)
<1>1. sq \in [D -> Int] /\ \A k \in D : sq[k] = f[k] * f[k] /\ f[k] \in Int
  BY \A a \in Int : a * a \in Int
<1> HIDE DEF sq
<1>2. \A T \in SUBSET D : C(T) \in Nat /\ Q(T) \in Int /\ S(T) \in Int
  BY <1>1, SumStep, FS_Subset, FS_CardinalityType
<1>3. C({}) = 0 /\ Q({}) = 0 /\ S({}) = 0
  BY <1>1, SumStep, FS_EmptySet
<1>4. \A T \in SUBSET D : \A k \in T : /\ C(T) = C(T \ {k}) + 1
                                       /\ Q(T) = Q(T \ {k}) + f[k] * f[k]
                                       /\ S(T) = S(T \ {k}) + f[k]
  <2> SUFFICES ASSUME NEW T \in SUBSET D, NEW k \in T
               PROVE  /\ C(T) = C(T \ {k}) + 1
                      /\ Q(T) = Q(T \ {k}) + f[k] * f[k]
                      /\ S(T) = S(T \ {k}) + f[k]
    OBVIOUS
  <2> DEFINE R == T \ {k}
  <2>1. R \in SUBSET D /\ k \in D
    OBVIOUS
  <2>2. IsFiniteSet(T)
    BY FS_Subset
  <2>3. Cardinality(R) = Cardinality(T) - 1
    BY <2>2, FS_RemoveElement
  <2>4. PartSum(sq, T) = sq[k] + PartSum(sq, R) /\ PartSum(f, T) = f[k] + PartSum(f, R)
    BY <1>1, SumStep
  <2> HIDE DEF R, C, Q, S
  <2>5. C(R) \in Nat /\ Q(R) \in Int /\ S(R) \in Int /\ C(T) \in Nat
    BY <1>2, <2>1
  <2>6. C(R) = C(T) - 1 /\ Q(T) = sq[k] + Q(R) /\ S(T) = f[k] + S(R)
    BY <2>3, <2>4 DEF C, Q, S
  <2>7. sq[k] = f[k] * f[k] /\ sq[k] \in Int /\ f[k] \in Int
    BY <1>1, <2>1
  <2> QED
    BY <2>5, <2>6, <2>7 DEF R
<1> HIDE DEF C, Q, S
<1>5. \A T \in SUBSET D : \A x \in Int : Q(T) - 2 * x * S(T) + C(T) * (x * x) >= 0
  <2> SUFFICES ASSUME NEW x \in Int PROVE \A T \in SUBSET D : Q(T) - 2 * x * S(T) + C(T) * (x * x) >= 0
    OBVIOUS
  <2> DEFINE P == {T \in SUBSET D : Q(T) - 2 * x * S(T) + C(T) * (x * x) >= 0}
  <2>1. {} \in P
    <3>1. x * x \in Int
      OBVIOUS
    <3>2. 0 - 2 * x * 0 + 0 * (x * x) = 0
      BY <3>1
    <3> QED
      BY <1>3, <3>2
  <2>2. ASSUME NEW T \in SUBSET D, T # {}, \A k \in T : T \ {k} \in P PROVE T \in P
    <3>1. PICK k \in T : TRUE
      BY <2>2
    <3> DEFINE R == T \ {k}
               c == C(R)
               q == Q(R)
               s == S(R)
               v == f[k]
    <3>2. R \in SUBSET D /\ q - 2 * x * s + c * (x * x) >= 0
      BY <2>2, <3>1
    <3>3. C(T) = c + 1 /\ Q(T) = q + v * v /\ S(T) = s + v
      BY <1>4, <3>1
    <3>4. c \in Int /\ q \in Int /\ s \in Int /\ v \in Int
      BY <1>2, <3>1, <3>2
    <3> HIDE DEF R, c, q, s, v
    <3>5. (q + v * v) - 2 * x * (s + v) + (c + 1) * (x * x)
            = (q - 2 * x * s + c * (x * x)) + (v - x) * (v - x)
      BY <3>4, AroundStep
    <3>6. (v - x) * (v - x) >= 0 /\ (v - x) * (v - x) \in Int
      <4>1. \A a \in Int : a * a >= 0 /\ a * a \in Int
        OBVIOUS
      <4> QED
        BY <3>4, <4>1
    <3> DEFINE e == q - 2 * x * s + c * (x * x)
    <3>7. e \in Int
      BY <3>4
    <3> HIDE DEF e
    <3>8. e + (v - x) * (v - x) >= 0
      BY <3>2, <3>6, <3>7 DEF e
    <3>9. Q(T) - 2 * x * S(T) + C(T) * (x * x) >= 0
      BY <3>3, <3>5, <3>8 DEF e
    <3> QED
      BY <3>9
  <2> HIDE DEF P
  <2>3. \A T \in SUBSET D : T \in P
    BY <2>1, <2>2, SubsetInduction
  <2> QED
    BY <2>3 DEF P
<1> DEFINE G == {T \in SUBSET D : C(T) * Q(T) - S(T) * S(T) >= 0}
<1>6. {} \in G
  BY <1>3
<1>7. ASSUME NEW T \in SUBSET D, T # {}, \A k \in T : T \ {k} \in G PROVE T \in G
  <2>1. PICK k \in T : TRUE
    BY <1>7
  <2> DEFINE R == T \ {k}
             c == C(R)
             q == Q(R)
             s == S(R)
             v == f[k]
  <2>2. R \in SUBSET D /\ c * q - s * s >= 0
    BY <1>7, <2>1
  <2>3. C(T) = c + 1 /\ Q(T) = q + v * v /\ S(T) = s + v
    BY <1>4, <2>1
  <2>4. c \in Int /\ q \in Int /\ s \in Int /\ v \in Int
    BY <1>2, <2>1, <2>2
  <2>5. q - 2 * v * s + c * (v * v) >= 0
    BY <1>5, <2>2, <2>4
  <2> HIDE DEF R, c, q, s, v
  <2> DEFINE d == c * q - s * s
             e == q - 2 * v * s + c * (v * v)
  <2>6. (c + 1) * (q + v * v) - (s + v) * (s + v) = d + e
    BY <2>4, SpreadStep
  <2>7. d \in Int /\ e \in Int
    BY <2>4
  <2> HIDE DEF d, e
  <2>8. d + e >= 0
    BY <2>2, <2>5, <2>7 DEF d, e
  <2>9. C(T) * Q(T) - S(T) * S(T) >= 0
    BY <2>3, <2>6, <2>8
  <2> QED
    BY <2>9
<1> HIDE DEF G
<1>8. D \in G
  BY <1>6, <1>7, SubsetInduction
<1>9. C(D) * Q(D) - S(D) * S(D) >= 0 /\ C(D) * Q(D) - S(D) * S(D) \in Int
  <2>1. C(D) \in Int /\ Q(D) \in Int /\ S(D) \in Int
    BY <1>2
  <2> QED
    BY <1>8, <2>1 DEF G
<1>10. RowSum(sq) = Q(D) /\ RowSum(f) = S(D)
  BY <1>1, TotalIsSum DEF Q, S
<1>11. Spread(f) = C(D) * Q(D) - S(D) * S(D)
  <2>1. DOMAIN f = D
    OBVIOUS
  <2> QED
    BY <1>10, <2>1 DEF Spread, C, sq
<1> QED
  BY <1>9, <1>11

-----------------------------------------------------------------------------
(* The features that are read as numbers. *)

LEMMA FeaturesAre ==
  ASSUME NEW past, NEW first
  PROVE  LET x == Features(past, first)
             returns == HourReturn(past, first)
         IN  /\ x.log_return = returns
             /\ x.beta = RollingBeta(returns)
             /\ x.volatility = RealizedVolatility(returns, DayHours, 40)
             /\ x.flow_z = RollingZScore(TakerShare(past, first), WeekHours)
             /\ x.quarter_z = RollingZScore(QuarterExcess(past, first), WeekHours)
             /\ {"log_return", "beta", "volatility", "flow_z", "quarter_z"} \subseteq DOMAIN x
  BY DEF Features

LEMMA HoursAre ==
  ASSUME NEW past \in Seq(Hour)
  PROVE  /\ Len(past) \in Nat /\ DOMAIN past = 1..Len(past)
         /\ \A h \in 1..Len(past) :
              /\ past[h].open \in [Symbols -> Int] /\ past[h].close \in [Symbols -> Int]
              /\ past[h].funding \in Seq(FundingEvent)
<1>1. \A h \in 1..Len(past) : past[h] \in Hour
  OBVIOUS
<1>2. \A x \in Hour : /\ x.open \in [Symbols -> Int] /\ x.close \in [Symbols -> Int]
                      /\ x.funding \in Seq(FundingEvent)
  BY DEF Hour
<1> QED
  BY <1>1, <1>2

LEMMA IntervalFinite == \A a, b \in Int : IsFiniteSet(a..b)
  BY ONLY FS_Interval

(* The window that ends in a row with a full one is a finite column of rows. *)
LEMMA WindowIs ==
  ASSUME NEW m, NEW s, NEW r \in Int, NEW w \in Int
  PROVE  /\ DOMAIN Window(m, s, r, w) = r - w + 1 .. r
         /\ IsFiniteSet(DOMAIN Window(m, s, r, w))
         /\ (\A k \in r - w + 1 .. r : m[k][s] \in Int) => Window(m, s, r, w) \in [r - w + 1 .. r -> Int]
<1>1. IsFiniteSet(r - w + 1 .. r)
  <2>1. r - w + 1 \in Int
    OBVIOUS
  <2> QED
    BY <2>1, IntervalFinite
<1> QED
  BY <1>1 DEF Window

(* Returns of a history. *)
LEMMA ReturnsAre ==
  ASSUME NEW past \in Seq(Hour), NEW n \in Int, n = Len(past) - FirstDecision + 1
  PROVE  /\ DOMAIN HourReturn(past, FirstDecision) = 1..n
         /\ \A d \in 1..n : HourReturn(past, FirstDecision)[d] \in [Symbols -> Int]
<1>1. FirstDecision \in Nat /\ FirstDecision >= 2 /\ Len(past) \in Nat
  BY WindowsAssumption, HoursAre DEF FirstDecision
<1>2. DOMAIN HourReturn(past, FirstDecision) = 1..n
  BY DEF HourReturn
<1>3. ASSUME NEW d \in 1..n PROVE HourReturn(past, FirstDecision)[d] \in [Symbols -> Int]
  <2> DEFINE i == FirstDecision + d - 1
             j == FirstDecision + d - 2
  <2>1. i \in 1..Len(past) /\ j \in 1..Len(past)
    BY <1>1
  <2>2. HourReturn(past, FirstDecision)[d] = [s \in Symbols |-> past[i].close[s] - past[j].close[s]]
    BY DEF HourReturn
  <2> HIDE DEF i, j
  <2>3. past[i].close \in [Symbols -> Int] /\ past[j].close \in [Symbols -> Int]
    BY <2>1, HoursAre
  <2> QED
    BY <2>2, <2>3
<1> QED
  BY <1>2, <1>3

LEMMA BenchmarkIs ==
  ASSUME NEW returns, NEW n \in Int, DOMAIN returns = 1..n,
         \A d \in 1..n : returns[d] \in [Symbols -> Int]
  PROVE  /\ DOMAIN Benchmark(returns) = 1..n
         /\ \A d \in 1..n : \A s \in Symbols : Benchmark(returns)[d][s] \in Int
<1>1. \A d \in 1..n : returns[d][BTC] \in Int /\ returns[d][ETH] \in Int
  BY AnchorsAssumption
<1>2. \A d \in 1..n : \A s \in Symbols : Benchmark(returns)[d][s] =
        IF s = BTC THEN 2 * returns[d][ETH]
        ELSE IF s = ETH THEN 2 * returns[d][BTC]
        ELSE returns[d][BTC] + returns[d][ETH]
  BY DEF Benchmark
<1>3. DOMAIN Benchmark(returns) = 1..n
  BY DEF Benchmark
<1> QED
  BY <1>1, <1>2, <1>3

LEMMA CovariationType ==
  ASSUME NEW D, IsFiniteSet(D), NEW x \in [D -> Int], NEW y \in [D -> Int]
  PROVE  Covariation(x, y) \in Int
<1> DEFINE p == [k \in D |-> x[k] * y[k]]
<1>1. p \in [D -> Int]
  BY \A a, b \in Int : a * b \in Int
<1> HIDE DEF p
<1>2. RowSum(p) \in Int /\ RowSum(x) \in Int /\ RowSum(y) \in Int /\ Cardinality(D) \in Int
  BY <1>1, TotalIsSum, FS_CardinalityType
<1>3. Covariation(x, y) = Cardinality(D) * RowSum(p) - RowSum(x) * RowSum(y)
  <2>1. DOMAIN x = D
    OBVIOUS
  <2> QED
    BY <2>1 DEF Covariation, p
<1>4. \A a, b, c, d \in Int : a * b - c * d \in Int
  OBVIOUS
<1> QED
  BY <1>2, <1>3, <1>4

(* A trailing beta is a number or undefined. *)
LEMMA BetaType ==
  ASSUME NEW returns, NEW n \in Int, DOMAIN returns = 1..n,
         \A d \in 1..n : returns[d] \in [Symbols -> Int], NEW d \in 1..n, NEW s \in Symbols
  PROVE  RollingBeta(returns)[d][s] = NaN \/ RollingBeta(returns)[d][s] \in Int
<1> DEFINE x == Window(Benchmark(returns), s, d, BetaHours)
           y == Window(returns, s, d, BetaHours)
           D == d - BetaHours + 1 .. d
<1>1. RollingBeta(returns)[d][s] =
        IF d < BetaHours THEN NaN
        ELSE IF Spread(x) = 0 THEN NaN ELSE Quot(2 * Tenths * Covariation(x, y), Spread(x))
  BY DEF RollingBeta
<1> DEFINE q == Quot(2 * Tenths * Covariation(x, y), Spread(x))
<1> SUFFICES ASSUME ~(d < BetaHours), Spread(x) # 0 PROVE q \in Int
  <2> HIDE DEF x, y, q
  <2> QED
    BY <1>1 DEF q
<1>2. BetaHours \in Nat \ {0}
  BY WindowsAssumption
<1>3. \A k \in D : k \in 1..n
  BY <1>2
<1>4. \A k \in D : Benchmark(returns)[k][s] \in Int /\ returns[k][s] \in Int
  <2>1. \A k \in 1..n : Benchmark(returns)[k][s] \in Int
    BY BenchmarkIs
  <2> QED
    BY <1>3, <2>1
<1>5. IsFiniteSet(D) /\ x \in [D -> Int] /\ y \in [D -> Int]
  <2>1. BetaHours \in Int /\ d \in Int
    BY <1>2
  <2>2. IsFiniteSet(DOMAIN x) /\ DOMAIN x = D
    <3>1. \A m : /\ DOMAIN Window(m, s, d, BetaHours) = d - BetaHours + 1 .. d
                 /\ IsFiniteSet(DOMAIN Window(m, s, d, BetaHours))
      BY ONLY <2>1, WindowIs
    <3> QED
      BY <3>1
  <2>3. x \in [D -> Int]
    BY <1>4, <2>1, WindowIs
  <2>4. y \in [D -> Int]
    BY <1>4, <2>1, WindowIs
  <2> QED
    BY <2>2, <2>3, <2>4
<1> HIDE DEF x, y, D
<1>6. Spread(x) \in Int /\ Spread(x) > 0 /\ Covariation(x, y) \in Int
  BY <1>5, SpreadIs, CovariationType
<1>7. 2 * Tenths * Covariation(x, y) \in Int
  BY <1>6 DEF Tenths
<1> QED
  BY <1>6, <1>7, QuotIs

LEMMA VolatilityType ==
  ASSUME NEW returns, NEW d \in DOMAIN returns, NEW s \in Symbols, NEW window
  PROVE  RealizedVolatility(returns, window, 40)[d][s] = NaN
           \/ RealizedVolatility(returns, window, 40)[d][s] \in Nat
<1> DEFINE sum == TrailingSum([r \in DOMAIN returns |-> [x \in Symbols |-> returns[r][x] * returns[r][x]]],
                              window)
<1>1. RealizedVolatility(returns, window, 40)[d][s] =
        IF sum[d][s] = NaN THEN NaN ELSE RootUpTo(sum[d][s], 40)
  BY DEF RealizedVolatility
<1> HIDE DEF sum
<1>2. RootUpTo(sum[d][s], 40) \in Nat
  BY RootType
<1> QED
  BY <1>1, <1>2

LEMMA RollingZScoreType ==
  ASSUME NEW m, NEW d \in DOMAIN m, d \in Int, NEW s \in Symbols, NEW window \in Int
  PROVE  RollingZScore(m, window)[d][s] = NaN \/ RollingZScore(m, window)[d][s] \in Int
<1>1. RollingZScore(m, window)[d][s] =
        IF FullWindow(m, s, d, window) THEN ZScoreOf(Window(m, s, d, window), d) ELSE NaN
  BY DEF RollingZScore
<1>2. ZScoreOf(Window(m, s, d, window), d) \in Int
  BY WindowIs, ZScoreType
<1> QED
  BY <1>1, <1>2

(* The number of payments is finite. *)
Paying(past) == UNION {{k} \X DOMAIN past[k].funding : k \in DOMAIN past}

PayingIn(past, T) == UNION {{k} \X DOMAIN past[k].funding : k \in T}

LEMMA PayingIs ==
  ASSUME NEW past \in Seq(Hour)
  PROVE  /\ IsFiniteSet(Paying(past))
         /\ \A p \in Paying(past) : /\ p[1] \in 1..Len(past)
                                    /\ past[p[1]].funding[p[2]] \in FundingEvent
                                    /\ past[p[1]].funding[p[2]].rate \in [Symbols -> Int]
                                    /\ p = <<p[1], p[2]>> /\ p[2] \in DOMAIN past[p[1]].funding
<1>0. Len(past) \in Nat /\ DOMAIN past = 1..Len(past) /\ \A k \in 1..Len(past) : past[k].funding \in Seq(FundingEvent)
  BY HoursAre
<1>1. ASSUME NEW p \in Paying(past)
      PROVE  /\ p[1] \in 1..Len(past) /\ p[2] \in DOMAIN past[p[1]].funding
             /\ p = <<p[1], p[2]>>
  BY <1>0, <1>1 DEF Paying
<1>2. ASSUME NEW p \in Paying(past)
      PROVE  past[p[1]].funding[p[2]] \in FundingEvent
  BY <1>0, <1>1
<1>3. \A e \in FundingEvent : e.rate \in [Symbols -> Int]
  BY DEF FundingEvent
<1> DEFINE D == 1..Len(past)
           P == {T \in SUBSET D : IsFiniteSet(PayingIn(past, T))}
<1>4. {} \in P
  <2>1. PayingIn(past, {}) = {}
    BY DEF PayingIn
  <2> QED
    BY <2>1, FS_EmptySet
<1>5. ASSUME NEW T \in SUBSET D, T # {}, \A k \in T : T \ {k} \in P PROVE T \in P
  <2>1. PICK k \in T : TRUE
    BY <1>5
  <2> DEFINE R == T \ {k}
             X == {k} \X DOMAIN past[k].funding
  <2>2. IsFiniteSet(PayingIn(past, R))
    BY <1>5, <2>1
  <2>3. IsFiniteSet(X)
    <3>1. past[k].funding \in Seq(FundingEvent)
      BY <1>0, <2>1
    <3>2. DOMAIN past[k].funding = 1..Len(past[k].funding) /\ Len(past[k].funding) \in Int
      BY <3>1
    <3>3. IsFiniteSet(DOMAIN past[k].funding)
      BY <3>2, IntervalFinite
    <3>4. IsFiniteSet({k})
      BY FS_Singleton
    <3> QED
      BY <3>3, <3>4, FS_Product
  <2>4. PayingIn(past, T) = PayingIn(past, R) \cup X
    <3>1. \A S : \A p : p \in PayingIn(past, S) <=> \E j \in S : p \in {j} \X DOMAIN past[j].funding
      BY DEF PayingIn
    <3>2. \A j : j \in T <=> j \in R \/ j = k
      BY <2>1
    <3>3. \A p : p \in PayingIn(past, T) <=> p \in PayingIn(past, R) \/ p \in X
      <4> HIDE DEF R
      <4> QED
        BY <3>1, <3>2
    <3> HIDE DEF R, X
    <3> QED
      BY <3>3
  <2> HIDE DEF R, X
  <2>5. IsFiniteSet(PayingIn(past, R) \cup X)
    BY <2>2, <2>3, FS_Union
  <2>6. IsFiniteSet(PayingIn(past, T))
    BY <2>4, <2>5
  <2> QED
    BY <2>6
<1>6. IsFiniteSet(D)
  <2>1. Len(past) \in Int /\ 1 \in Int
    BY <1>0
  <2> QED
    BY <2>1, IntervalFinite
<1> HIDE DEF P, D
<1>7. D \in P
  BY <1>4, <1>5, <1>6, SubsetInduction
<1>8. IsFiniteSet(Paying(past))
  <2>1. IsFiniteSet(PayingIn(past, D))
    BY <1>7 DEF P
  <2>2. Paying(past) = PayingIn(past, D)
    BY <1>0 DEF Paying, PayingIn, D
  <2> QED
    BY <2>1, <2>2
<1> QED
  BY <1>1, <1>2, <1>3, <1>8

LEMMA OutcomeType ==
  ASSUME NEW past \in Seq(Hour), NEW h, NEW s \in Symbols
  PROVE  OutcomeFunding(past, h, s) \in Int
<1> DEFINE paid == {p \in Paying(past) :
                    /\ EventTime(p[1], past[p[1]].funding[p[2]]) > Execution(h)
                    /\ EventTime(p[1], past[p[1]].funding[p[2]]) <= LabelEnd(h)}
           f == [p \in paid |-> past[p[1]].funding[p[2]].rate[s]]
<1>1. OutcomeFunding(past, h, s) = RowSum(f)
  BY DEF OutcomeFunding, Paying
<1>2. paid \in SUBSET Paying(past)
  OBVIOUS
<1> HIDE DEF paid
<1>3. IsFiniteSet(paid)
  BY <1>2, PayingIs, FS_Subset
<1>4. \A p \in paid : past[p[1]].funding[p[2]].rate \in [Symbols -> Int]
  BY <1>2, PayingIs
<1>5. f \in [paid -> Int]
  BY <1>4
<1> HIDE DEF f
<1> QED
  BY <1>1, <1>3, <1>5, TotalIsSum

(* What of a row the strategies and the policies calculate with. *)
Measured(row) ==
  /\ row.hour \in Nat
  /\ row.feature.log_return \in [Symbols -> Int]
  /\ row.feature.beta \in [Symbols -> Int]
  /\ row.feature.volatility \in [Symbols -> Nat]
  /\ row.feature.flow_z \in [Symbols -> Int]
  /\ row.feature.quarter_z \in [Symbols -> Int]
  /\ row.future \in [Symbols -> Int]
  /\ row.funding \in [Symbols -> Int]

LEMMA RowIsMeasured ==
  ASSUME NEW past \in Seq(Hour), NEW h \in Kept(past)
  PROVE  Measured(RowOf(past, Features(past, FirstDecision), h))
<1> DEFINE x == Features(past, FirstDecision)
           d == h - FirstDecision + 1
           n == Len(past) - FirstDecision + 1
           returns == HourReturn(past, FirstDecision)
           row == RowOf(past, x, h)
<1>0. h \in DecisionHours(past) /\ Complete(x, d)
  BY DEF Kept
<1>1. FirstDecision \in Nat /\ FirstDecision >= 2 /\ Len(past) \in Nat
  BY WindowsAssumption, HoursAre DEF FirstDecision
<1>2. h \in Nat /\ h >= FirstDecision /\ h <= Len(past) - 2
  BY <1>0, <1>1 DEF DecisionHours
<1>3. n \in Int /\ d \in 1..n /\ d \in Int
  BY <1>1, <1>2
<1>4. /\ x.log_return = returns
      /\ x.beta = RollingBeta(returns)
      /\ x.volatility = RealizedVolatility(returns, DayHours, 40)
      /\ x.flow_z = RollingZScore(TakerShare(past, FirstDecision), WeekHours)
      /\ x.quarter_z = RollingZScore(QuarterExcess(past, FirstDecision), WeekHours)
      /\ {"log_return", "beta", "volatility", "flow_z", "quarter_z"} \subseteq DOMAIN x
  BY FeaturesAre
<1> HIDE DEF x
<1>5. \A f \in DOMAIN x : row.feature[f] = x[f][d]
  BY DEF RowOf
<1>6. \A f \in DOMAIN x : \A s \in Symbols : x[f][d][s] # NaN
  BY <1>0 DEF Complete
<1>7. /\ row.hour = h
      /\ row.future = [s \in Symbols |-> FutureReturn(past, h, s)]
      /\ row.funding = [s \in Symbols |-> OutcomeFunding(past, h, s)]
  BY DEF RowOf
<1> HIDE DEF row
<1>8. /\ row.feature.log_return = x.log_return[d] /\ row.feature.beta = x.beta[d]
      /\ row.feature.volatility = x.volatility[d] /\ row.feature.flow_z = x.flow_z[d]
      /\ row.feature.quarter_z = x.quarter_z[d]
  BY <1>4, <1>5
<1>9. \A s \in Symbols : /\ x.beta[d][s] # NaN /\ x.volatility[d][s] # NaN
                         /\ x.flow_z[d][s] # NaN /\ x.quarter_z[d][s] # NaN
  BY <1>4, <1>6
<1>10. DOMAIN returns = 1..n /\ \A k \in 1..n : returns[k] \in [Symbols -> Int]
  BY <1>3, ReturnsAre
<1> DEFINE share == TakerShare(past, FirstDecision)
           excess == QuarterExcess(past, FirstDecision)
<1>11. DOMAIN share = 1..n /\ DOMAIN excess = 1..n
  BY DEF TakerShare, QuarterExcess
<1> HIDE DEF returns, d, n, share, excess
<1>12. DayHours \in Int /\ WeekHours \in Int
  BY WindowsAssumption
<1>13. ASSUME NEW s \in Symbols
       PROVE  /\ x.beta[d][s] \in Int /\ x.volatility[d][s] \in Nat
              /\ x.flow_z[d][s] \in Int /\ x.quarter_z[d][s] \in Int
  <2>1. x.beta[d][s] \in Int
    <3>1. RollingBeta(returns)[d][s] = NaN \/ RollingBeta(returns)[d][s] \in Int
      BY <1>3, <1>10, BetaType
    <3> QED
      BY <1>4, <1>9, <3>1
  <2>2. x.volatility[d][s] \in Nat
    <3>1. d \in DOMAIN returns
      BY <1>3, <1>10
    <3>2. RealizedVolatility(returns, DayHours, 40)[d][s] = NaN
            \/ RealizedVolatility(returns, DayHours, 40)[d][s] \in Nat
      BY <3>1, VolatilityType
    <3> QED
      BY <1>4, <1>9, <3>2
  <2>3. x.flow_z[d][s] \in Int
    <3>1. RollingZScore(share, WeekHours)[d][s] = NaN \/ RollingZScore(share, WeekHours)[d][s] \in Int
      BY <1>3, <1>11, <1>12, RollingZScoreType
    <3> QED
      BY <1>4, <1>9, <3>1 DEF share
  <2>4. x.quarter_z[d][s] \in Int
    <3>1. RollingZScore(excess, WeekHours)[d][s] = NaN \/ RollingZScore(excess, WeekHours)[d][s] \in Int
      BY <1>3, <1>11, <1>12, RollingZScoreType
    <3> QED
      BY <1>4, <1>9, <3>1 DEF excess
  <2> QED
    BY <2>1, <2>2, <2>3, <2>4
<1>14. /\ DOMAIN x.beta[d] = Symbols /\ x.beta[d] = [s \in Symbols |-> x.beta[d][s]]
       /\ x.volatility[d] = [s \in Symbols |-> x.volatility[d][s]]
       /\ x.flow_z[d] = [s \in Symbols |-> x.flow_z[d][s]]
       /\ x.quarter_z[d] = [s \in Symbols |-> x.quarter_z[d][s]]
  <2>1. x.beta[d] = [s \in Symbols |-> x.beta[d][s]]
    BY <1>3, <1>4, <1>10 DEF RollingBeta
  <2>2. x.volatility[d] = [s \in Symbols |-> x.volatility[d][s]]
    BY <1>3, <1>4, <1>10 DEF RealizedVolatility
  <2>3. x.flow_z[d] = [s \in Symbols |-> x.flow_z[d][s]]
    BY <1>3, <1>4, <1>11 DEF RollingZScore, share
  <2>4. x.quarter_z[d] = [s \in Symbols |-> x.quarter_z[d][s]]
    BY <1>3, <1>4, <1>11 DEF RollingZScore, excess
  <2> QED
    BY <2>1, <2>2, <2>3, <2>4
<1>15. row.future \in [Symbols -> Int]
  <2>1. ASSUME NEW s \in Symbols PROVE FutureReturn(past, h, s) \in Int
    <3> DEFINE i == h + 2
               j == h + 1
    <3>1. i \in 1..Len(past) /\ j \in 1..Len(past)
      BY <1>1, <1>2
    <3>2. FutureReturn(past, h, s) = past[i].open[s] - past[j].open[s]
      BY DEF FutureReturn
    <3> HIDE DEF i, j
    <3>3. past[i].open \in [Symbols -> Int] /\ past[j].open \in [Symbols -> Int]
      BY <3>1, HoursAre
    <3> QED
      BY <3>2, <3>3
  <2> QED
    BY <1>7, <2>1
<1>16. row.funding \in [Symbols -> Int]
  BY <1>7, OutcomeType
<1>17. /\ row.feature.beta \in [Symbols -> Int] /\ row.feature.volatility \in [Symbols -> Nat]
       /\ row.feature.flow_z \in [Symbols -> Int] /\ row.feature.quarter_z \in [Symbols -> Int]
  BY <1>8, <1>13, <1>14
<1>18. row.feature.log_return \in [Symbols -> Int]
  BY <1>3, <1>4, <1>8, <1>10
<1>19. Measured(row)
  BY <1>2, <1>7, <1>15, <1>16, <1>17, <1>18 DEF Measured
<1> QED
  BY <1>19 DEF row, x

LEMMA PanelIsMeasured ==
  ASSUME NEW past \in Seq(Hour)
  PROVE  \A i \in 1..Len(BuildRows(past)) : Measured(BuildRows(past)[i])
BY PanelRows, RowIsMeasured

-----------------------------------------------------------------------------
(* Weights. *)

LEMMA Cancel ==
  ASSUME NEW c \in Int, c > 0, NEW a \in Int, NEW b \in Int, c * a <= c * b
  PROVE  a <= b
<1> SUFFICES ASSUME a >= b + 1 PROVE FALSE
  OBVIOUS
<1>1. c * (a - b) = c * a - c * b
  OBVIOUS
<1>2. c * (a - b) >= c
  <2>1. \A x \in Int : x >= 1 => c * x >= c
    OBVIOUS
  <2> QED
    BY <2>1
<1>3. c * a \in Int /\ c * b \in Int
  OBVIOUS
<1> QED
  BY <1>1, <1>2, <1>3

LEMMA ConstantTotal ==
  ASSUME NEW D, IsFiniteSet(D), NEW c \in Int, NEW f \in [D -> Int], \A x \in D : f[x] = c
  PROVE  RowSum(f) = Cardinality(D) * c /\ Cardinality(D) \in Nat
<1> DEFINE P == {T \in SUBSET D : PartSum(f, T) = Cardinality(T) * c}
<1>1. f \in [D -> Int] /\ \A x \in D : f[x] = c
  OBVIOUS
<1>2. {} \in P
  <2>1. Cardinality({}) = 0 /\ 0 * c = 0
    BY FS_EmptySet
  <2> QED
    BY <1>1, <2>1, SumStep
<1>3. ASSUME NEW T \in SUBSET D, T # {}, \A x \in T : T \ {x} \in P PROVE T \in P
  <2>1. PICK x \in T : TRUE
    BY <1>3
  <2> DEFINE R == T \ {x}
  <2>2. R \in SUBSET D /\ PartSum(f, R) = Cardinality(R) * c
    BY <1>3, <2>1
  <2>3. IsFiniteSet(T)
    BY FS_Subset
  <2>4. Cardinality(R) = Cardinality(T) - 1 /\ Cardinality(T) \in Nat
    BY <2>1, <2>3, FS_RemoveElement, FS_CardinalityType
  <2>5. PartSum(f, T) = f[x] + PartSum(f, R) /\ f[x] = c
    BY <1>1, <2>1, SumStep
  <2> HIDE DEF R
  <2>6. \A n \in Int : c + (n - 1) * c = n * c
    OBVIOUS
  <2>7. PartSum(f, T) = Cardinality(T) * c
    BY <2>2, <2>4, <2>5, <2>6
  <2> QED
    BY <2>7
<1> HIDE DEF P
<1>4. D \in P
  <2>1. \A T \in SUBSET D : T # {} /\ (\A x \in T : T \ {x} \in P) => T \in P
    BY <1>3
  <2>2. \A T \in SUBSET D : T \in P
    BY ONLY <1>2, <2>1, IsFiniteSet(D), SubsetInduction
  <2> QED
    BY <2>2
<1>5. RowSum(f) = PartSum(f, D) /\ Cardinality(D) \in Nat
  BY <1>1, TotalIsSum, FS_CardinalityType
<1>6. PartSum(f, D) = Cardinality(D) * c
  BY <1>4 DEF P
<1> QED
  BY <1>5, <1>6

LEMMA GrossIs ==
  ASSUME NEW D, IsFiniteSet(D), NEW f \in [D -> Int]
  PROVE  /\ RowGross(f) = RowSum([x \in D |-> Abs(f[x])])
         /\ [x \in D |-> Abs(f[x])] \in [D -> Int]
         /\ RowGross(f) \in Nat
         /\ RowSum(f) \in Int /\ Abs(RowSum(f)) <= RowGross(f)
<1> DEFINE a == [x \in D |-> Abs(f[x])]
           z == [x \in D |-> 0]
<1>1. a \in [D -> Int] /\ z \in [D -> Int]
  BY AbsIs
<1>2. RowGross(f) = RowSum(a)
  <2>1. DOMAIN f = D
    OBVIOUS
  <2> QED
    BY <2>1 DEF RowGross
<1>3. \A x \in D : z[x] <= a[x] /\ Abs(f[x]) <= a[x]
  BY AbsIs
<1>5. RowSum(z) = 0
  <2>1. \A x \in D : z[x] = 0
    OBVIOUS
  <2> HIDE DEF z
  <2>2. RowSum(z) = Cardinality(D) * 0 /\ Cardinality(D) \in Nat
    BY <1>1, <2>1, ConstantTotal
  <2> QED
    BY <2>2
<1> HIDE DEF z, a
<1>6. RowSum(z) <= RowSum(a) /\ RowSum(a) \in Int /\ RowSum(f) \in Int
  BY <1>1, <1>3, TotalMonotone, TotalIsSum
<1>7. Abs(RowSum(f)) <= RowSum(a)
  BY <1>1, <1>3, TotalBounded
<1> QED
  BY <1>1, <1>2, <1>5, <1>6, <1>7 DEF a

(* A row divided and rounded toward zero: its gross shrinks by the divisor, *)
(* its sum moves by less than a unit per entry.                             *)
LEMMA RoundedIs ==
  ASSUME NEW D, IsFiniteSet(D), NEW f \in [D -> Int], NEW b \in Int, b > 0,
         NEW q, q = [x \in D |-> Quot(f[x], b)]
  PROVE  /\ q \in [D -> Int]
         /\ b * RowGross(q) <= RowGross(f)
         /\ b * Abs(RowSum(q)) <= Abs(RowSum(f)) + Cardinality(D) * (b - 1)
         /\ (\A x \in D : f[x] >= 0) => \A x \in D : q[x] >= 0
<1>1. \A x \in D : /\ q[x] \in Int /\ b * Abs(q[x]) <= Abs(f[x])
                   /\ Abs(f[x] - b * q[x]) <= b - 1
                   /\ f[x] >= 0 => q[x] >= 0
  <2> SUFFICES ASSUME NEW x \in D
               PROVE  /\ q[x] \in Int /\ b * Abs(q[x]) <= Abs(f[x])
                      /\ Abs(f[x] - b * q[x]) <= b - 1
                      /\ f[x] >= 0 => q[x] >= 0
    OBVIOUS
  <2>1. q[x] = Quot(f[x], b) /\ f[x] \in Int
    OBVIOUS
  <2> QED
    BY <2>1, QuotIs
<1>2. q \in [D -> Int]
  <2>1. q = [x \in D |-> q[x]]
    OBVIOUS
  <2> QED
    BY <1>1, <2>1
<1> DEFINE aq == [x \in D |-> Abs(q[x])]
           af == [x \in D |-> Abs(f[x])]
           baq == [x \in D |-> b * Abs(q[x])]
           bq == [x \in D |-> b * q[x]]
           rest == [x \in D |-> f[x] - b * q[x]]
           top == [x \in D |-> b - 1]
<1>3. \A x \in D : Abs(q[x]) \in Int /\ b * Abs(q[x]) \in Int /\ b * q[x] \in Int /\ f[x] - b * q[x] \in Int
  <2>1. \A x \in D : q[x] \in Int /\ Abs(q[x]) \in Int /\ f[x] \in Int
    BY <1>1, AbsIs
  <2>2. \A y \in Int : b * y \in Int
    OBVIOUS
  <2> QED
    BY <2>1, <2>2
<1>4. /\ aq \in [D -> Int] /\ baq \in [D -> Int] /\ bq \in [D -> Int]
      /\ rest \in [D -> Int] /\ top \in [D -> Int]
  BY <1>3
<1>5. /\ RowGross(q) = RowSum(aq) /\ RowGross(f) = RowSum(af) /\ af \in [D -> Int]
      /\ RowGross(q) \in Nat /\ RowGross(f) \in Nat
  BY <1>2, GrossIs
<1>6. /\ \A x \in D : baq[x] = b * aq[x] /\ baq[x] <= af[x]
      /\ \A x \in D : bq[x] = b * q[x] /\ f[x] = bq[x] + rest[x]
      /\ \A x \in D : Abs(rest[x]) <= top[x]
  <2>1. \A x \in D : f[x] = b * q[x] + (f[x] - b * q[x])
    BY <1>3
  <2> QED
    BY <1>1, <2>1
<1>7. RowSum(top) = Cardinality(D) * (b - 1) /\ Cardinality(D) \in Nat
  <2>1. b - 1 \in Int /\ \A x \in D : top[x] = b - 1
    OBVIOUS
  <2> HIDE DEF top
  <2> QED
    BY ONLY IsFiniteSet(D), <1>4, <2>1, ConstantTotal
<1> HIDE DEF aq, af, baq, bq, rest, top
<1>8. RowSum(baq) = b * RowSum(aq) /\ RowSum(baq) <= RowSum(af)
  <2>1. \A x \in D : baq[x] = b * aq[x]
    BY <1>6
  <2>2. RowSum(baq) = b * RowSum(aq)
    BY ONLY IsFiniteSet(D), b \in Int, <1>4, <2>1, TotalScales
  <2>3. \A x \in D : baq[x] <= af[x]
    BY <1>6
  <2>4. RowSum(baq) <= RowSum(af)
    BY ONLY IsFiniteSet(D), <1>4, <1>5, <2>3, TotalMonotone
  <2> QED
    BY <2>2, <2>4
<1>9. RowSum(bq) = b * RowSum(q)
  <2>1. \A x \in D : bq[x] = b * q[x]
    BY <1>6
  <2> QED
    BY ONLY IsFiniteSet(D), b \in Int, <1>2, <1>4, <2>1, TotalScales
<1>10. RowSum(f) = RowSum(bq) + RowSum(rest)
  BY <1>4, <1>6, TotalAdds
<1>11. Abs(RowSum(rest)) <= RowSum(top)
  BY <1>4, <1>6, TotalBounded
<1>12. b * Abs(RowSum(q)) <= Abs(RowSum(f)) + Cardinality(D) * (b - 1)
  <2> DEFINE Q == RowSum(q)
             F == RowSum(f)
             R == RowSum(rest)
             m == Cardinality(D) * (b - 1)
  <2>1. Q \in Int /\ F \in Int /\ R \in Int /\ m \in Int
    BY <1>2, <1>4, <1>7, TotalIsSum
  <2>2. F = b * Q + R /\ Abs(R) <= m
    BY <1>7, <1>9, <1>10, <1>11
  <2> HIDE DEF Q, F, R, m
  <2>3. b * Q \in Int /\ b * Abs(Q) = Abs(b * Q)
    <3>1. b * Q \in Int /\ (Q >= 0 => b * Q >= 0) /\ (Q <= 0 => b * Q <= 0) /\ b * (-Q) = -(b * Q)
      BY <2>1
    <3> QED
      BY <2>1, <3>1, AbsIs
  <2> DEFINE p == b * Q
  <2> HIDE DEF p
  <2>4. p \in Int /\ F = p + R /\ Abs(R) <= m
    BY <2>2, <2>3 DEF p
  <2>5. Abs(p) <= Abs(F) + m
    BY ONLY <2>1, <2>4 DEF Abs
  <2>6. b * Abs(Q) <= Abs(F) + m
    BY <2>3, <2>5 DEF p
  <2> QED
    BY <2>6 DEF Q, F, m
<1>13. b * RowGross(q) <= RowGross(f)
  BY <1>5, <1>8
<1>14. (\A x \in D : f[x] >= 0) => \A x \in D : q[x] >= 0
  BY <1>1
<1> QED
  BY <1>2, <1>12, <1>13, <1>14

-----------------------------------------------------------------------------
Count == Cardinality(Symbols)

(* Weights within the mandate, and weights that net to zero up to rounding. *)
Mandated(w) ==
  /\ w \in [Symbols -> Int]
  /\ Tenths * RowGross(w) <= Risk.gross * Unit
  /\ \A s \in Symbols : Abs(w[s]) <= Risk.cap
Netted(w) == Tenths * Abs(RowSum(w)) <= 29 * Count

LEMMA CountIs == Count \in Nat /\ Count >= 3 /\ IsFiniteSet(Symbols)
BY SymbolsAssumption, FS_CardinalityType DEF Count

LEMMA Ordered == ASSUME NEW c \in Nat, NEW a \in Int, NEW b \in Int, a <= b PROVE c * a <= c * b
<1>1. c * b - c * a = c * (b - a)
  OBVIOUS
<1>2. c * (b - a) >= 0
  <2>1. \A x, y \in Nat : x * y >= 0
    OBVIOUS
  <2>2. b - a \in Nat
    OBVIOUS
  <2> QED
    BY <2>1, <2>2
<1>3. c * a \in Int /\ c * b \in Int
  OBVIOUS
<1> QED
  BY <1>1, <1>2, <1>3

LEMMA AbsOfProduct ==
  ASSUME NEW c \in Nat, NEW x \in Int
  PROVE  Abs(c * x) = c * Abs(x) /\ Abs(x * c) = c * Abs(x)
<1>1. c * x \in Int /\ x * c = c * x /\ (x >= 0 => c * x >= 0) /\ (x <= 0 => c * x <= 0) /\ c * (-x) = -(c * x)
  OBVIOUS
<1> QED
  BY <1>1, AbsIs

LEMMA FiniteImage ==
  ASSUME NEW S, IsFiniteSet(S), NEW g, NEW K, \A y \in K : \E s \in S : y = g[s]
  PROVE  IsFiniteSet(K)
<1> DEFINE Image(T) == {g[s] : s \in T}
           P == {T \in SUBSET S : IsFiniteSet(Image(T))}
<1>1. {} \in P
  <2>1. Image({}) = {}
    OBVIOUS
  <2>2. IsFiniteSet(Image({}))
    BY <2>1, FS_EmptySet
  <2> QED
    BY <2>2
<1>2. ASSUME NEW T \in SUBSET S, T # {}, \A x \in T : T \ {x} \in P PROVE T \in P
  <2>1. PICK x \in T : TRUE
    BY <1>2
  <2> DEFINE A == Image(T \ {x})
             B == Image(T)
  <2>2. IsFiniteSet(A)
    BY <1>2, <2>1
  <2>3. B = A \cup {g[x]}
    BY <2>1
  <2> HIDE DEF A, B
  <2>4. IsFiniteSet(B)
    BY <2>2, <2>3, FS_AddElement
  <2>5. IsFiniteSet(Image(T))
    BY <2>4 DEF B
  <2> QED
    BY <2>5
<1>3. S \in P
  <2> HIDE DEF P
  <2>1. \A T \in SUBSET S : T # {} /\ (\A x \in T : T \ {x} \in P) => T \in P
    BY <1>2
  <2>2. \A T \in SUBSET S : T \in P
    BY ONLY <1>1, <2>1, IsFiniteSet(S), SubsetInduction
  <2> QED
    BY <2>2
<1>4. IsFiniteSet(Image(S)) /\ K \subseteq Image(S)
  BY <1>3
<1> HIDE DEF Image
<1> QED
  BY <1>4, FS_Subset

(* A row multiplied by c. *)
LEMMA ScaledRow ==
  ASSUME NEW f \in [Symbols -> Int], NEW c \in Nat, NEW z \in [Symbols -> Int],
         \A s \in Symbols : z[s] = c * f[s]
  PROVE  /\ RowSum(z) = c * RowSum(f) /\ RowGross(z) = c * RowGross(f)
         /\ Abs(RowSum(z)) = c * Abs(RowSum(f))
<1> DEFINE az == [s \in Symbols |-> Abs(z[s])]
           af == [s \in Symbols |-> Abs(f[s])]
<1>1. z \in [Symbols -> Int] /\ \A s \in Symbols : z[s] = c * f[s] /\ f[s] \in Int
  OBVIOUS
<1>2. /\ RowGross(z) = RowSum(az) /\ az \in [Symbols -> Int]
      /\ RowGross(f) = RowSum(af) /\ af \in [Symbols -> Int]
      /\ RowSum(f) \in Int
  BY <1>1, CountIs, GrossIs
<1>3. \A s \in Symbols : az[s] = c * af[s]
  BY <1>1, AbsOfProduct
<1> HIDE DEF az, af
<1>4. RowSum(z) = c * RowSum(f)
  BY <1>1, CountIs, TotalScales
<1>5. RowSum(az) = c * RowSum(af)
  BY <1>2, <1>3, CountIs, TotalScales
<1>6. Abs(c * RowSum(f)) = c * Abs(RowSum(f))
  BY <1>2, AbsOfProduct
<1> QED
  BY <1>1, <1>2, <1>4, <1>5, <1>6

LEMMA NormalIs ==
  ASSUME NEW d \in [Symbols -> Int], RowGross(d) # 0,
         NEW w, w = [s \in Symbols |-> Quot(Unit * d[s], RowGross(d))]
  PROVE  /\ w \in [Symbols -> Int] /\ RowGross(w) \in Nat /\ RowSum(w) \in Int
         /\ RowGross(w) <= Unit
         /\ RowSum(d) = 0 => Abs(RowSum(w)) <= Count
         /\ (\A s \in Symbols : d[s] >= 0) => \A s \in Symbols : w[s] >= 0
<1> DEFINE f == [s \in Symbols |-> Unit * d[s]]
           G == RowGross(d)
<1>1. f \in [Symbols -> Int] /\ RowGross(f) = Unit * G /\ Abs(RowSum(f)) = Unit * Abs(RowSum(d))
  <2> DEFINE c == Unit
  <2>1. c \in Nat /\ f \in [Symbols -> Int] /\ \A s \in Symbols : f[s] = c * d[s]
    BY DEF Unit
  <2> HIDE DEF f, c
  <2>2. RowGross(f) = c * RowGross(d) /\ Abs(RowSum(f)) = c * Abs(RowSum(d))
    BY <2>1, ScaledRow
  <2>3. f \in [Symbols -> Int]
    BY <2>1
  <2> QED
    BY <2>2, <2>3 DEF c
<1>2. G \in Nat /\ G > 0 /\ RowSum(d) \in Int
  <2>1. d \in [Symbols -> Int]
    OBVIOUS
  <2>2. RowGross(d) \in Nat /\ RowSum(d) \in Int
    BY ONLY <2>1, CountIs, GrossIs
  <2> QED
    BY <2>2
<1>3. w = [s \in Symbols |-> Quot(f[s], G)] /\ \A s \in Symbols : f[s] = Unit * d[s]
  OBVIOUS
<1>4. (\A s \in Symbols : d[s] >= 0) => \A s \in Symbols : f[s] >= 0
  BY DEF Unit
<1> HIDE DEF f, G
<1>5. /\ w \in [Symbols -> Int]
      /\ G * RowGross(w) <= RowGross(f)
      /\ G * Abs(RowSum(w)) <= Abs(RowSum(f)) + Count * (G - 1)
      /\ (\A s \in Symbols : f[s] >= 0) => \A s \in Symbols : w[s] >= 0
  <2>1. G \in Int /\ G > 0
    BY <1>2
  <2> QED
    BY <1>1, <1>3, <2>1, CountIs, RoundedIs DEF Count
<1>6. RowGross(w) \in Nat /\ RowSum(w) \in Int /\ Abs(RowSum(w)) \in Nat
  BY <1>5, CountIs, GrossIs, AbsIs
<1>7. RowGross(w) <= Unit
  <2>1. G * RowGross(w) <= G * Unit
    BY <1>1, <1>2, <1>5 DEF Unit
  <2> QED
    BY <1>2, <1>6, <2>1, Cancel DEF Unit
<1>8. RowSum(d) = 0 => Abs(RowSum(w)) <= Count
  <2> SUFFICES ASSUME RowSum(d) = 0 PROVE Abs(RowSum(w)) <= Count
    OBVIOUS
  <2>1. Abs(RowSum(f)) = 0
    BY <1>1 DEF Abs, Unit
  <2>2. Count * (G - 1) <= G * Count
    BY <1>2, CountIs
  <2>3. Count * (G - 1) \in Int /\ G * Count \in Int /\ G * Abs(RowSum(w)) \in Int
    BY <1>2, <1>6, CountIs
  <2>4. G * Abs(RowSum(w)) <= G * Count
    BY <1>5, <2>1, <2>2, <2>3
  <2>5. G \in Int /\ G > 0 /\ Abs(RowSum(w)) \in Int /\ Count \in Int
    BY <1>2, <1>6, CountIs
  <2> QED
    BY <2>4, <2>5, Cancel
<1> QED
  BY <1>4, <1>5, <1>6, <1>7, <1>8

LEMMA TargetGrossIs ==
  \A normal, volatility : TargetGross(normal, volatility) \in Nat /\ TargetGross(normal, volatility) <= Risk.gross
<1> SUFFICES ASSUME NEW normal, NEW volatility
             PROVE  TargetGross(normal, volatility) \in Nat /\ TargetGross(normal, volatility) <= Risk.gross
  OBVIOUS
<1> DEFINE proxy == RowSum([s \in Symbols |-> normal[s] * normal[s] * volatility[s] * volatility[s]])
           S == {g \in 1..Risk.gross : g * g * proxy <= Tenths * Tenths * Risk.volatility * Risk.volatility * Unit * Unit}
<1>1. S \subseteq 1..Risk.gross /\ TargetGross(normal, volatility) = Cardinality(S)
  BY DEF TargetGross
<1>2. Risk.gross \in Nat
  BY RiskAssumption DEF Tenths
<1> HIDE DEF S
<1>3. IsFiniteSet(1..Risk.gross) /\ Cardinality(1..Risk.gross) = Risk.gross
  BY <1>2, FS_Interval
<1>4. Cardinality(S) <= Risk.gross /\ IsFiniteSet(S)
  BY <1>1, <1>3, FS_Subset
<1> QED
  BY <1>1, <1>4, FS_CardinalityType

LEMMA GearedIs ==
  ASSUME NEW d \in [Symbols -> Int], NEW g \in Nat, g <= Risk.gross, RowGross(d) <= Unit,
         NEW w, w = [s \in Symbols |-> Quot(g * d[s], Tenths)]
  PROVE  /\ w \in [Symbols -> Int]
         /\ Tenths * RowGross(w) <= Risk.gross * Unit
         /\ Abs(RowSum(d)) <= Count => Tenths * Abs(RowSum(w)) <= 19 * Count
         /\ (\A s \in Symbols : d[s] >= 0) => \A s \in Symbols : w[s] >= 0
<1> DEFINE f == [s \in Symbols |-> g * d[s]]
<1>1. f \in [Symbols -> Int] /\ RowGross(f) = g * RowGross(d) /\ Abs(RowSum(f)) = g * Abs(RowSum(d))
  <2>1. f \in [Symbols -> Int] /\ \A s \in Symbols : f[s] = g * d[s]
    <3>1. \A x \in Int : g * x \in Int
      OBVIOUS
    <3> QED
      BY <3>1
  <2> HIDE DEF f
  <2> QED
    BY <2>1, ScaledRow
<1>2. RowGross(d) \in Nat /\ RowSum(d) \in Int /\ Abs(RowSum(d)) \in Nat
  BY CountIs, GrossIs, AbsIs
<1>3. w = [s \in Symbols |-> Quot(f[s], Tenths)] /\ \A s \in Symbols : f[s] = g * d[s] /\ d[s] \in Int
  OBVIOUS
<1>4. (\A s \in Symbols : d[s] >= 0) => \A s \in Symbols : f[s] >= 0
  <2>1. \A x \in Int : x >= 0 => g * x >= 0
    OBVIOUS
  <2> QED
    BY <1>3, <2>1
<1> HIDE DEF f
<1>5. /\ w \in [Symbols -> Int]
      /\ Tenths * RowGross(w) <= RowGross(f)
      /\ Tenths * Abs(RowSum(w)) <= Abs(RowSum(f)) + Count * (Tenths - 1)
      /\ (\A s \in Symbols : f[s] >= 0) => \A s \in Symbols : w[s] >= 0
  <2>1. Tenths \in Int /\ Tenths > 0
    BY DEF Tenths
  <2> QED
    BY <1>1, <1>3, <2>1, CountIs, RoundedIs DEF Count
<1>6. Risk.gross \in Nat /\ Risk.gross <= 10
  BY RiskAssumption DEF Tenths
<1>7. RowGross(w) \in Nat /\ RowSum(w) \in Int /\ Abs(RowSum(w)) \in Nat
  BY <1>5, CountIs, GrossIs, AbsIs
<1>8. Tenths * RowGross(w) <= Risk.gross * Unit
  <2>1. g * RowGross(d) <= g * Unit
    BY <1>2, Ordered DEF Unit
  <2>2. g * Unit <= Risk.gross * Unit
    BY <1>6 DEF Unit
  <2>3. g * RowGross(d) \in Int /\ g * Unit \in Int /\ Risk.gross * Unit \in Int /\ Tenths * RowGross(w) \in Int
    BY <1>2, <1>6, <1>7 DEF Unit, Tenths
  <2> QED
    BY <1>1, <1>5, <2>1, <2>2, <2>3
<1>9. Abs(RowSum(d)) <= Count => Tenths * Abs(RowSum(w)) <= 19 * Count
  <2> SUFFICES ASSUME Abs(RowSum(d)) <= Count PROVE Tenths * Abs(RowSum(w)) <= 19 * Count
    OBVIOUS
  <2>1. g * Abs(RowSum(d)) <= g * Count
    BY <1>2, CountIs, Ordered
  <2>2. g * Count <= 10 * Count
    <3>1. Count * g <= Count * 10
      BY <1>6, CountIs, Ordered
    <3> QED
      BY <3>1, CountIs
  <2>3. g * Abs(RowSum(d)) \in Int /\ g * Count \in Int
    BY <1>2, CountIs
  <2>4. Abs(RowSum(f)) \in Int /\ Abs(RowSum(f)) <= 10 * Count
    BY <1>1, <2>1, <2>2, <2>3, CountIs
  <2> QED
    BY <1>5, <1>7, <2>4, CountIs DEF Tenths
<1> QED
  BY <1>4, <1>5, <1>8, <1>9

(* The largest weight brought down to the limit, the others in proportion. *)
LEMMA CappedIs ==
  ASSUME NEW d \in [Symbols -> Int], NEW w, w = CapLargest(d)
  PROVE  /\ w \in [Symbols -> Int]
         /\ RowGross(w) <= RowGross(d)
         /\ Abs(RowSum(w)) <= Abs(RowSum(d)) + Count
         /\ \A s \in Symbols : Abs(w[s]) <= Risk.cap
         /\ (\A s \in Symbols : d[s] >= 0) => \A s \in Symbols : w[s] >= 0
<1> DEFINE K == {Abs(d[s]) : s \in Symbols}
           L == Max(K)
           c == Risk.cap
           f == [s \in Symbols |-> c * d[s]]
<1>1. c \in Nat
  BY RiskAssumption
<1>2. L \in Nat /\ \A s \in Symbols : Abs(d[s]) <= L /\ d[s] \in Int /\ Abs(d[s]) \in Nat
  <2>1. \A s \in Symbols : d[s] \in Int /\ Abs(d[s]) \in Nat /\ Abs(d[s]) \in K
    BY AbsIs
  <2>2. IsFiniteSet(K)
    <3> DEFINE g == [s \in Symbols |-> Abs(d[s])]
    <3>1. \A y \in K : \E s \in Symbols : y = g[s]
      OBVIOUS
    <3> HIDE DEF g, K
    <3> QED
      BY <3>1, CountIs, FiniteImage
  <2>3. K # {}
    BY <2>1, AnchorsAssumption
  <2>4. K \in SUBSET Int
    BY <2>1
  <2> HIDE DEF K
  <2>5. Max(K) \in K /\ \A y \in K : y <= Max(K)
    BY <2>2, <2>3, <2>4, MaxIs
  <2>6. L \in Nat
    BY <2>1, <2>5 DEF K
  <2> QED
    BY <2>1, <2>5, <2>6
<1>3. w = IF L > c THEN [s \in Symbols |-> Quot(d[s] * c, L)] ELSE d
  BY DEF CapLargest
<1> HIDE DEF L, c
<1>4. RowGross(d) \in Nat /\ RowSum(d) \in Int /\ Abs(RowSum(d)) \in Nat
  BY CountIs, GrossIs, AbsIs
<1>5. CASE ~(L > c)
  <2>1. w = d
    BY <1>3, <1>5
  <2>2. \A s \in Symbols : Abs(w[s]) <= c
    BY <1>1, <1>2, <1>5, <2>1
  <2> QED
    BY <1>4, <2>1, <2>2, CountIs DEF c
<1>6. CASE L > c
  <2>1. f \in [Symbols -> Int] /\ RowGross(f) = c * RowGross(d) /\ Abs(RowSum(f)) = c * Abs(RowSum(d))
    <3>1. f \in [Symbols -> Int] /\ \A s \in Symbols : f[s] = c * d[s]
      <4>1. \A x \in Int : c * x \in Int
        BY <1>1
      <4> QED
        BY <4>1
    <3> HIDE DEF f
    <3> QED
      BY <1>1, <3>1, ScaledRow
  <2>2. w = [s \in Symbols |-> Quot(f[s], L)] /\ \A s \in Symbols : f[s] = c * d[s]
    <3>1. \A s \in Symbols : d[s] * c = c * d[s] /\ f[s] = c * d[s]
      BY <1>1
    <3> QED
      BY <1>3, <1>6, <3>1
  <2>3. (\A s \in Symbols : d[s] >= 0) => \A s \in Symbols : f[s] >= 0
    <3>1. \A x \in Int : x >= 0 => c * x >= 0
      BY <1>1
    <3> QED
      BY <1>2, <2>2, <3>1
  <2> HIDE DEF f
  <2>4. L \in Int /\ L > 0
    BY <1>1, <1>2, <1>6
  <2>5. /\ w \in [Symbols -> Int]
        /\ L * RowGross(w) <= RowGross(f)
        /\ L * Abs(RowSum(w)) <= Abs(RowSum(f)) + Count * (L - 1)
        /\ (\A s \in Symbols : f[s] >= 0) => \A s \in Symbols : w[s] >= 0
    BY <2>1, <2>2, <2>4, CountIs, RoundedIs DEF Count
  <2>6. RowGross(w) \in Nat /\ RowSum(w) \in Int /\ Abs(RowSum(w)) \in Nat
    BY <2>5, CountIs, GrossIs, AbsIs
  <2>7. RowGross(w) <= RowGross(d)
    <3> DEFINE a == RowGross(w)
               b == RowGross(d)
    <3>1. L * a <= c * b /\ a \in Nat /\ b \in Nat
      BY <1>4, <2>1, <2>5, <2>6
    <3> HIDE DEF a, b
    <3>2. b * c <= b * L
      BY <1>1, <1>2, <1>6, <3>1, Ordered
    <3>3. L * a \in Int /\ c * b \in Int /\ b * c = c * b /\ b * L = L * b /\ b * L \in Int
      BY <1>1, <1>2, <3>1
    <3>4. L * a <= L * b
      BY <3>1, <3>2, <3>3
    <3>5. a <= b
      BY <2>4, <3>1, <3>4, Cancel
    <3> QED
      BY <3>5 DEF a, b
  <2>8. Abs(RowSum(w)) <= Abs(RowSum(d)) + Count
    <3> DEFINE a == Abs(RowSum(w))
               b == Abs(RowSum(d))
    <3>1. L * a <= c * b + Count * (L - 1) /\ a \in Nat /\ b \in Nat /\ Count \in Nat
      BY <1>4, <2>1, <2>5, <2>6, CountIs
    <3> HIDE DEF a, b
    <3>2. b * c <= b * L /\ Count * (L - 1) <= Count * L
      BY <1>1, <1>2, <1>6, <3>1, Ordered
    <3>3. /\ L * a \in Int /\ c * b \in Int /\ b * c = c * b /\ b * L \in Int /\ Count * L \in Int
          /\ Count * (L - 1) \in Int
          /\ L * (b + Count) = b * L + Count * L
      BY <1>1, <1>2, <3>1
    <3>4. L * a <= L * (b + Count)
      BY <3>1, <3>2, <3>3
    <3>5. a <= b + Count
      BY <2>4, <3>1, <3>4, Cancel
    <3> QED
      BY <3>5 DEF a, b
  <2>9. ASSUME NEW s \in Symbols PROVE Abs(w[s]) <= c
    <3> DEFINE q == Abs(w[s])
               x == Abs(d[s])
    <3>1. w[s] = Quot(f[s], L) /\ f[s] = c * d[s] /\ d[s] \in Int /\ f[s] \in Int
      BY <1>2, <2>1, <2>2
    <3>2. L * q <= Abs(f[s]) /\ w[s] \in Int
      BY <2>4, <3>1, QuotIs
    <3>3. Abs(f[s]) = c * x
      BY <1>1, <3>1, AbsOfProduct
    <3>4. q \in Nat /\ x \in Nat /\ x <= L
      BY <1>2, <3>2, AbsIs
    <3> HIDE DEF q, x
    <3>5. c * x <= c * L
      BY <1>1, <1>2, <3>4, Ordered
    <3>6. L * q \in Int /\ c * x \in Int /\ c * L = L * c /\ c * L \in Int
      BY <1>1, <1>2, <3>4
    <3>7. L * q <= L * c
      BY <3>2, <3>3, <3>5, <3>6
    <3>8. q <= c
      BY <1>1, <2>4, <3>4, <3>7, Cancel
    <3> QED
      BY <3>8 DEF q
  <2> QED
    BY <2>3, <2>5, <2>7, <2>8, <2>9 DEF c
<1> QED
  BY <1>5, <1>6

LEMMA NoWeightsIs ==
  /\ Mandated(NoWeights) /\ RowSum(NoWeights) = 0 /\ Netted(NoWeights)
  /\ \A s \in Symbols : NoWeights[s] >= 0
<1>1. NoWeights \in [Symbols -> Int] /\ \A s \in Symbols : NoWeights[s] = 0
  BY DEF NoWeights
<1>2. RowSum(NoWeights) = Cardinality(Symbols) * 0
  BY <1>1, CountIs, ConstantTotal
<1>3. RowSum(NoWeights) = 0
  BY <1>2, CountIs DEF Count
<1> DEFINE a == [s \in Symbols |-> Abs(NoWeights[s])]
<1>4. RowGross(NoWeights) = RowSum(a) /\ a \in [Symbols -> Int] /\ \A s \in Symbols : a[s] = 0
  BY <1>1, CountIs, GrossIs, AbsIs
<1> HIDE DEF a
<1>5. RowSum(a) = Cardinality(Symbols) * 0
  BY <1>4, CountIs, ConstantTotal
<1>6. RowGross(NoWeights) = 0
  BY <1>4, <1>5, CountIs DEF Count
<1>7. Risk.gross \in Nat /\ Risk.cap \in Nat
  BY RiskAssumption DEF Tenths
<1>8. Mandated(NoWeights)
  BY <1>1, <1>6, <1>7, AbsIs DEF Mandated, Unit, Tenths
<1>9. Netted(NoWeights)
  BY <1>3, CountIs, AbsIs DEF Netted, Tenths
<1> QED
  BY <1>1, <1>3, <1>8, <1>9

(* Every direction is weighed within the mandate; one that sums to zero nets, *)
(* one without a short has no short weight.                                   *)
LEMMA ScaledIs ==
  ASSUME NEW d \in [Symbols -> Int], NEW volatility, NEW w, w = ScaledWeights(d, volatility)
  PROVE  /\ Mandated(w)
         /\ RowSum(d) = 0 => Netted(w)
         /\ (\A s \in Symbols : d[s] >= 0) => \A s \in Symbols : w[s] >= 0
<1>1. CASE RowGross(d) = 0
  <2>1. w = NoWeights
    BY <1>1 DEF ScaledWeights
  <2> QED
    BY <2>1, NoWeightsIs
<1>2. CASE RowGross(d) # 0
  <2> DEFINE normal == [s \in Symbols |-> Quot(Unit * d[s], RowGross(d))]
             g == TargetGross(normal, volatility)
             v == [s \in Symbols |-> Quot(g * normal[s], Tenths)]
  <2>1. w = CapLargest(v)
    BY <1>2 DEF ScaledWeights
  <2>2. /\ normal \in [Symbols -> Int]
        /\ RowGross(normal) <= Unit
        /\ RowSum(d) = 0 => Abs(RowSum(normal)) <= Count
        /\ (\A s \in Symbols : d[s] >= 0) => \A s \in Symbols : normal[s] >= 0
    <3>1. normal = [s \in Symbols |-> Quot(Unit * d[s], RowGross(d))]
      OBVIOUS
    <3> HIDE DEF normal
    <3> QED
      BY <1>2, <3>1, NormalIs
  <2> HIDE DEF normal
  <2>3. g \in Nat /\ g <= Risk.gross
    BY TargetGrossIs
  <2> HIDE DEF g
  <2>4. /\ v \in [Symbols -> Int]
        /\ Tenths * RowGross(v) <= Risk.gross * Unit
        /\ Abs(RowSum(normal)) <= Count => Tenths * Abs(RowSum(v)) <= 19 * Count
        /\ (\A s \in Symbols : normal[s] >= 0) => \A s \in Symbols : v[s] >= 0
    <3>1. v = [s \in Symbols |-> Quot(g * normal[s], Tenths)]
      OBVIOUS
    <3> HIDE DEF v
    <3> QED
      BY <2>2, <2>3, <3>1, GearedIs
  <2> HIDE DEF v
  <2>05. v \in [Symbols -> Int]
    BY <2>4
  <2>5. /\ w \in [Symbols -> Int]
        /\ RowGross(w) <= RowGross(v)
        /\ Abs(RowSum(w)) <= Abs(RowSum(v)) + Count
        /\ \A s \in Symbols : Abs(w[s]) <= Risk.cap
        /\ (\A s \in Symbols : v[s] >= 0) => \A s \in Symbols : w[s] >= 0
    BY ONLY <2>1, <2>05, CappedIs
  <2>6. /\ RowGross(w) \in Nat /\ RowGross(v) \in Nat
        /\ Abs(RowSum(w)) \in Nat /\ Abs(RowSum(v)) \in Nat /\ Count \in Nat
        /\ Risk.gross \in Nat
    <3>1. w \in [Symbols -> Int] /\ v \in [Symbols -> Int]
      BY <2>4, <2>5
    <3>2. RowGross(w) \in Nat /\ RowGross(v) \in Nat /\ RowSum(w) \in Int /\ RowSum(v) \in Int
      BY ONLY <3>1, CountIs, GrossIs
    <3> QED
      BY <3>2, CountIs, AbsIs, RiskAssumption DEF Tenths
  <2>7. Mandated(w)
    BY <2>4, <2>5, <2>6 DEF Mandated, Tenths, Unit
  <2>8. RowSum(d) = 0 => Netted(w)
    BY <2>2, <2>4, <2>5, <2>6 DEF Netted, Tenths
  <2> QED
    BY <2>2, <2>4, <2>5, <2>7, <2>8
<1> QED
  BY <1>1, <1>2

-----------------------------------------------------------------------------
(* Sums of sleeves. *)
Weighted(parts, g) == [i \in DOMAIN parts |-> parts[i] * g[i]]
Across(v, s) == [i \in DOMAIN v |-> v[i][s]]

LEMMA Times2 == \A a, b \in Int : a * b \in Int
OBVIOUS

LEMMA WeightedType ==
  ASSUME NEW D, NEW parts \in [D -> Nat], NEW g \in [D -> Int]
  PROVE  Weighted(parts, g) \in [D -> Int] /\ \A i \in D : Weighted(parts, g)[i] = parts[i] * g[i]
<1>1. \A i \in D : parts[i] \in Int /\ g[i] \in Int
  OBVIOUS
<1>2. \A i \in D : parts[i] * g[i] \in Int
  BY <1>1, Times2
<1> QED
  BY <1>2 DEF Weighted

LEMMA Averaged ==
  ASSUME NEW D, IsFiniteSet(D), NEW parts \in [D -> Nat], NEW g \in [D -> Int],
         NEW c \in Nat, NEW b \in Int, \A i \in D : c * Abs(g[i]) <= b
  PROVE  /\ RowSum(Weighted(parts, g)) \in Int
         /\ c * Abs(RowSum(Weighted(parts, g))) <= b * RowSum(parts)
<1> DEFINE p == Weighted(parts, g)
           h == [i \in D |-> c * p[i]]
           u == [i \in D |-> b * parts[i]]
<1>1. p \in [D -> Int] /\ \A i \in D : p[i] = parts[i] * g[i] /\ parts[i] \in Nat /\ g[i] \in Int
  BY WeightedType
<1> HIDE DEF p
<1>2. h \in [D -> Int] /\ u \in [D -> Int]
  <2>1. \A i \in D : p[i] \in Int /\ parts[i] \in Int
    BY <1>1
  <2> QED
    BY <2>1, Times2
<1>3. parts \in [D -> Int] /\ RowSum(parts) \in Int /\ RowSum(p) \in Int
  <2>1. parts \in [D -> Int]
    OBVIOUS
  <2> QED
    BY <1>1, <2>1, TotalIsSum
<1>4. \A i \in D : Abs(h[i]) <= u[i]
  <2> TAKE i \in D
  <2> DEFINE x == parts[i]
             y == g[i]
             z == Abs(y)
  <2>1. x \in Nat /\ y \in Int /\ z \in Nat /\ c * z <= b
    BY <1>1, AbsIs
  <2>2. h[i] = c * (x * y) /\ u[i] = b * x
    BY <1>1
  <2> HIDE DEF x, y, h, u
  <2>3. Abs(c * (x * y)) = c * Abs(x * y) /\ Abs(x * y) = x * z
    <3>1. x * y \in Int
      BY <2>1
    <3> QED
      BY <2>1, <3>1, AbsOfProduct
  <2> HIDE DEF z
  <2>4. x * (c * z) <= x * b
    <3>1. c * z \in Int
      BY <2>1
    <3> QED
      BY <2>1, <3>1, Ordered
  <2>5. c * (x * z) = x * (c * z) /\ x * b = b * x
    BY <2>1
  <2> QED
    BY <2>2, <2>3, <2>4, <2>5
<1>5. (\A i \in D : h[i] = c * p[i]) /\ (\A i \in D : u[i] = b * parts[i])
  OBVIOUS
<1> HIDE DEF h, u
<1>6. RowSum(h) = c * RowSum(p)
  <2>1. p \in [D -> Int] /\ h \in [D -> Int] /\ c \in Int /\ \A i \in D : h[i] = c * p[i]
    BY <1>1, <1>2, <1>5
  <2> QED
    BY ONLY IsFiniteSet(D), <2>1, TotalScales
<1>7. RowSum(u) = b * RowSum(parts)
  <2>1. parts \in [D -> Int] /\ u \in [D -> Int] /\ b \in Int /\ \A i \in D : u[i] = b * parts[i]
    BY <1>2, <1>3, <1>5
  <2> QED
    BY ONLY IsFiniteSet(D), <2>1, TotalScales
<1>8. Abs(RowSum(h)) <= RowSum(u)
  BY <1>2, <1>4, TotalBounded
<1>9. Abs(c * RowSum(p)) = c * Abs(RowSum(p))
  BY <1>3, AbsOfProduct
<1> QED
  BY <1>3, <1>6, <1>7, <1>8, <1>9 DEF p

(* z is the weighted sum of the sleeves v, g what each of them adds up to. *)
Sleeved(D, parts, v, z, g) ==
  /\ IsFiniteSet(D) /\ parts \in [D -> Nat] /\ v \in [D -> [Symbols -> Int]]
  /\ z \in [Symbols -> Int] /\ \A s \in Symbols : z[s] = RowSum(Weighted(parts, Across(v, s)))
  /\ g \in [D -> Int] /\ \A i \in D : g[i] = RowSum(v[i])

LEMMA SleevesTotal ==
  ASSUME NEW D, NEW parts, NEW v, NEW z, NEW g, Sleeved(D, parts, v, z, g)
  PROVE  RowSum(z) = RowSum(Weighted(parts, g))
<1> USE DEF Sleeved
<1> DEFINE m == [i \in D |-> [s \in Symbols |-> parts[i] * v[i][s]]]
<1>1. \A i \in D : v[i] \in [Symbols -> Int] /\ parts[i] \in Nat /\ parts[i] \in Int
  OBVIOUS
<1>2. m \in [D -> [Symbols -> Int]]
  <2>1. \A i \in D : \A s \in Symbols : parts[i] * v[i][s] \in Int
    BY <1>1, Times2
  <2> QED
    BY <2>1
<1>3. \A i \in D : \A s \in Symbols : m[i][s] = parts[i] * v[i][s]
  OBVIOUS
<1> HIDE DEF m
<1>4. RowSum(RowTotals(m)) = RowSum(ColumnTotals(m, Symbols))
  BY <1>2, CountIs, TableTotals
<1>5. RowTotals(m) = Weighted(parts, g)
  <2>1. \A i \in D : RowSum(m[i]) = parts[i] * g[i]
    <3> TAKE i \in D
    <3>1. /\ m[i] \in [Symbols -> Int] /\ v[i] \in [Symbols -> Int] /\ parts[i] \in Nat
          /\ \A s \in Symbols : m[i][s] = parts[i] * v[i][s]
      BY <1>1, <1>2, <1>3
    <3>2. RowSum(m[i]) = parts[i] * RowSum(v[i])
      BY ONLY <3>1, ScaledRow
    <3>3. g[i] = RowSum(v[i])
      OBVIOUS
    <3> QED
      BY <3>2, <3>3
  <2> QED
    BY <1>2, <2>1 DEF RowTotals, Weighted
<1>6. ColumnTotals(m, Symbols) = z
  <2>1. \A s \in Symbols : Column(m, s) = Weighted(parts, Across(v, s))
    BY <1>2, <1>3 DEF Column, Weighted, Across
  <2>2. \A s \in Symbols : RowSum(Column(m, s)) = z[s]
    BY <2>1
  <2> QED
    BY <2>2 DEF ColumnTotals
<1> QED
  BY <1>4, <1>5, <1>6

LEMMA AcrossType ==
  ASSUME NEW D, NEW v \in [D -> [Symbols -> Int]], NEW s \in Symbols
  PROVE  Across(v, s) \in [D -> Int] /\ \A i \in D : Across(v, s)[i] = v[i][s]
<1>1. \A i \in D : v[i][s] \in Int
  OBVIOUS
<1> QED
  BY <1>1 DEF Across

(* Sleeves within the mandate, blended in any parts, stay within it. *)
Blended(D, parts, v, z, w) ==
  /\ IsFiniteSet(D) /\ parts \in [D -> Nat] /\ RowSum(parts) > 0
  /\ v \in [D -> [Symbols -> Int]] /\ \A i \in D : Mandated(v[i])
  /\ z \in [Symbols -> Int] /\ \A s \in Symbols : z[s] = RowSum(Weighted(parts, Across(v, s)))
  /\ w = [s \in Symbols |-> Quot(z[s], RowSum(parts))]

LEMMA BlendIs ==
  ASSUME NEW D, NEW parts, NEW v, NEW z, NEW w, Blended(D, parts, v, z, w)
  PROVE  /\ Mandated(w)
         /\ (\A i \in D : Netted(v[i])) => Abs(RowSum(w)) <= Rounding
<1> USE DEF Blended
<1> DEFINE T == RowSum(parts)
           a == [i \in D |-> [s \in Symbols |-> Abs(v[i][s])]]
           az == [s \in Symbols |-> Abs(z[s])]
           y == [s \in Symbols |-> RowSum(Weighted(parts, Across(a, s)))]
           g == [i \in D |-> RowGross(v[i])]
           h == [i \in D |-> RowSum(v[i])]
           cap == Risk.cap
           B == Risk.gross * Unit
<1>1. T \in Int /\ T > 0 /\ cap \in Nat /\ B \in Nat
  <2>1. parts \in [D -> Int]
    OBVIOUS
  <2>2. T \in Int
    BY <2>1, TotalIsSum
  <2> QED
    BY <2>2, RiskAssumption DEF Unit, Tenths
<1>2. \A i \in D : /\ v[i] \in [Symbols -> Int]
                   /\ RowGross(v[i]) \in Nat /\ RowSum(v[i]) \in Int
                   /\ RowGross(v[i]) = RowSum([s \in Symbols |-> Abs(v[i][s])])
                   /\ [s \in Symbols |-> Abs(v[i][s])] \in [Symbols -> Int]
  BY CountIs, GrossIs
<1>3. /\ a \in [D -> [Symbols -> Int]] /\ g \in [D -> Int] /\ h \in [D -> Int]
      /\ \A i \in D : g[i] = RowSum(a[i]) /\ g[i] = RowGross(v[i]) /\ g[i] \in Nat /\ h[i] = RowSum(v[i])
      /\ \A i \in D : \A s \in Symbols : a[i][s] = Abs(v[i][s])
  <2>1. \A i \in D : a[i] = [s \in Symbols |-> Abs(v[i][s])]
    OBVIOUS
  <2>2. a = [i \in D |-> a[i]]
    OBVIOUS
  <2>3. g \in [D -> Int] /\ h \in [D -> Int] /\ \A i \in D : g[i] = RowGross(v[i]) /\ h[i] = RowSum(v[i])
    <3>1. \A i \in D : RowGross(v[i]) \in Int
      <4> TAKE i \in D
      <4>1. RowGross(v[i]) \in Nat
        BY <1>2
      <4> QED
        BY ONLY <4>1
    <3>2. \A i \in D : RowSum(v[i]) \in Int
      BY <1>2
    <3> QED
      BY ONLY <3>1, <3>2 DEF g, h
  <2>4. \A i \in D : \A s \in Symbols : a[i][s] = Abs(v[i][s])
    OBVIOUS
  <2> HIDE DEF a, g, h
  <2>5. \A i \in D : a[i] \in [Symbols -> Int] /\ g[i] = RowSum(a[i]) /\ g[i] \in Nat
    <3> TAKE i \in D
    <3>1. RowGross(v[i]) = RowSum([s \in Symbols |-> Abs(v[i][s])]) /\ [s \in Symbols |-> Abs(v[i][s])] \in [Symbols -> Int]
      BY <1>2
    <3>2. RowGross(v[i]) \in Nat
      BY <1>2
    <3> QED
      BY <2>1, <2>3, <3>1, <3>2
  <2>6. a \in [D -> [Symbols -> Int]]
    BY <2>2, <2>5
  <2> QED
    BY <2>3, <2>4, <2>5, <2>6
<1>03. w = [s \in Symbols |-> Quot(z[s], T)]
  OBVIOUS
<1>04. \A s \in Symbols : y[s] = RowSum(Weighted(parts, Across(a, s)))
  OBVIOUS
<1>05. y = [s \in Symbols |-> y[s]]
  OBVIOUS
<1>06. \A i \in D : Tenths * g[i] <= B /\ \A s \in Symbols : Abs(v[i][s]) <= cap
  BY <1>3 DEF Mandated
<1>07. (\A i \in D : Netted(v[i])) => \A i \in D : Tenths * Abs(h[i]) <= 29 * Count
  BY <1>3 DEF Netted
<1>08. RowGross(z) = RowSum(az) /\ az \in [Symbols -> Int] /\ \A s \in Symbols : az[s] = Abs(z[s])
  BY CountIs, GrossIs
<1> HIDE DEF a, az, y, g, h, cap, B, T
<1>4. ASSUME NEW s \in Symbols PROVE y[s] \in Int /\ az[s] <= y[s] /\ Abs(z[s]) <= cap * T
  <2> DEFINE av == Across(v, s)
             aa == Across(a, s)
             pv == Weighted(parts, av)
             pa == Weighted(parts, aa)
  <2>1. /\ av \in [D -> Int] /\ \A i \in D : av[i] = v[i][s]
        /\ aa \in [D -> Int] /\ \A i \in D : aa[i] = a[i][s]
    <3>1. v \in [D -> [Symbols -> Int]] /\ a \in [D -> [Symbols -> Int]]
      BY <1>3
    <3> QED
      BY ONLY s \in Symbols, <3>1, AcrossType
  <2> HIDE DEF av, aa
  <2>2. /\ pv \in [D -> Int] /\ \A i \in D : pv[i] = parts[i] * av[i]
        /\ pa \in [D -> Int] /\ \A i \in D : pa[i] = parts[i] * aa[i]
    BY <2>1, WeightedType
  <2> HIDE DEF pv, pa
  <2>3. y[s] = RowSum(pa) /\ z[s] = RowSum(pv)
    BY <1>04 DEF pa, pv, aa, av
  <2>4. \A i \in D : Abs(pv[i]) <= pa[i]
    <3> TAKE i \in D
    <3>1. parts[i] \in Nat /\ av[i] \in Int /\ aa[i] = Abs(av[i])
      BY <1>3, <2>1
    <3>2. Abs(parts[i] * av[i]) = parts[i] * Abs(av[i])
      BY <3>1, AbsOfProduct
    <3>3. Abs(pv[i]) = pa[i] /\ pa[i] \in Int
      BY <2>2, <3>1, <3>2
    <3> QED
      BY <3>3
  <2>5. Abs(RowSum(pv)) <= RowSum(pa) /\ RowSum(pa) \in Int
    BY <2>2, <2>4, TotalBounded, TotalIsSum
  <2>6. \A i \in D : 1 * Abs(av[i]) <= cap
    <3>1. \A i \in D : Abs(av[i]) \in Nat /\ Abs(av[i]) <= cap
      BY <1>06, <2>1, AbsIs
    <3> QED
      BY <3>1
  <2>7. 1 * Abs(RowSum(Weighted(parts, av))) <= cap * RowSum(parts) /\ RowSum(Weighted(parts, av)) \in Int
    <3>1. 1 \in Nat /\ cap \in Int
      BY <1>1
    <3> QED
      BY <2>1, <2>6, <3>1, Averaged
  <2>8. Abs(z[s]) <= cap * T
    <3>1. z[s] \in Int /\ Abs(z[s]) \in Nat /\ RowSum(pv) = z[s]
      BY <2>3, AbsIs
    <3> QED
      BY <2>7, <3>1 DEF pv, T
  <2> QED
    BY <1>08, <2>3, <2>5, <2>8
<1>5. y \in [Symbols -> Int]
  BY <1>4, <1>05
<1>6. RowSum(y) = RowSum(Weighted(parts, g))
  <2>1. a \in [D -> [Symbols -> Int]] /\ g \in [D -> Int] /\ \A i \in D : g[i] = RowSum(a[i])
    BY <1>3
  <2>2. Sleeved(D, parts, a, y, g)
    BY <1>04, <1>5, <2>1 DEF Sleeved
  <2> QED
    BY ONLY <2>2, SleevesTotal
<1>7. RowSum(z) = RowSum(Weighted(parts, h))
  <2>1. v \in [D -> [Symbols -> Int]] /\ h \in [D -> Int] /\ \A i \in D : h[i] = RowSum(v[i])
    BY <1>3
  <2>2. z \in [Symbols -> Int] /\ \A s \in Symbols : z[s] = RowSum(Weighted(parts, Across(v, s)))
    OBVIOUS
  <2>3. Sleeved(D, parts, v, z, h)
    BY <2>1, <2>2 DEF Sleeved
  <2> QED
    BY ONLY <2>3, SleevesTotal
<1>8. RowGross(z) <= RowSum(y)
  BY <1>4, <1>5, <1>08, CountIs, TotalMonotone
<1>9. Tenths * RowGross(z) <= B * T
  <2> DEFINE G == RowSum(Weighted(parts, g))
  <2>1. \A i \in D : Tenths * Abs(g[i]) <= B
    BY <1>3, <1>06, AbsIs
  <2>2. G \in Int /\ Tenths * Abs(G) <= B * T
    <3>1. g \in [D -> Int] /\ Tenths \in Nat /\ B \in Int
      BY <1>1, <1>3 DEF Tenths
    <3> QED
      BY ONLY IsFiniteSet(D), parts \in [D -> Nat], <2>1, <3>1, Averaged DEF T, G
  <2>3. RowGross(z) \in Nat /\ RowGross(z) <= G
    BY <1>6, <1>8, CountIs, GrossIs
  <2> HIDE DEF G
  <2>4. Abs(G) = G /\ G \in Nat /\ B * T \in Int
    BY <1>1, <2>2, <2>3, AbsIs
  <2> QED
    BY <2>2, <2>3, <2>4 DEF Tenths
<1>10. /\ w \in [Symbols -> Int]
       /\ T * RowGross(w) <= RowGross(z)
       /\ T * Abs(RowSum(w)) <= Abs(RowSum(z)) + Count * (T - 1)
  BY <1>1, <1>03, CountIs, RoundedIs DEF Count
<1>11. RowGross(w) \in Nat /\ RowSum(w) \in Int /\ Abs(RowSum(w)) \in Nat /\ RowGross(z) \in Nat /\ Abs(RowSum(z)) \in Nat
  BY <1>10, CountIs, GrossIs, AbsIs
<1>12. Tenths * RowGross(w) <= B
  <2> DEFINE x == Tenths * RowGross(w)
  <2>1. x \in Nat /\ T * x = Tenths * (T * RowGross(w))
    BY <1>1, <1>11 DEF Tenths
  <2>2. T * RowGross(w) \in Int /\ B * T = T * B /\ T * B \in Int
    BY <1>1, <1>11
  <2>3. T * x <= T * B
    BY <1>9, <1>10, <1>11, <2>1, <2>2 DEF Tenths
  <2> HIDE DEF x
  <2>4. x <= B
    BY <1>1, <2>1, <2>3, Cancel
  <2> QED
    BY <2>4 DEF x
<1>13. ASSUME NEW s \in Symbols PROVE Abs(w[s]) <= cap
  <2> DEFINE x == Abs(w[s])
  <2>1. w[s] = Quot(z[s], T) /\ w[s] \in Int /\ z[s] \in Int /\ x \in Nat
    BY <1>03, <1>10, AbsIs
  <2>2. T * x <= Abs(z[s]) /\ Abs(z[s]) \in Nat
    BY <1>1, <2>1, QuotIs, AbsIs
  <2> HIDE DEF x
  <2>3. T * x <= T * cap
    <3>1. T * x \in Int /\ cap * T = T * cap /\ T * cap \in Int
      BY <1>1, <2>1
    <3> QED
      BY <1>4, <2>2, <3>1
  <2>4. x <= cap
    BY <1>1, <2>1, <2>3, Cancel
  <2> QED
    BY <2>4 DEF x
<1>14. ASSUME \A i \in D : Netted(v[i]) PROVE Abs(RowSum(w)) <= Rounding
  <2> DEFINE H == RowSum(Weighted(parts, h))
             N == Count
             x == Abs(RowSum(w))
  <2>1. N \in Nat
    BY CountIs
  <2>2. \A i \in D : Tenths * Abs(h[i]) <= 29 * N
    BY <1>07, <1>14
  <2> HIDE DEF N
  <2>3. H \in Int /\ Tenths * Abs(H) <= 29 * N * T
    <3>1. 29 * N \in Int /\ Tenths \in Nat
      BY <2>1 DEF Tenths
    <3> QED
      BY <1>3, <2>2, <3>1, Averaged DEF T
  <2>4. RowSum(z) = H
    BY <1>7
  <2> HIDE DEF H
  <2>5. x \in Nat /\ T * x <= Abs(H) + N * (T - 1) /\ Abs(H) \in Nat
    BY <1>10, <1>11, <2>4 DEF N
  <2> HIDE DEF x
  <2>6. T * (10 * x) = 10 * (T * x) /\ T * x \in Int /\ 29 * N * T = 29 * (N * T)
        /\ N * T \in Int /\ N * (T - 1) = N * T - N /\ T * (39 * N) = 39 * (N * T)
    BY <1>1, <2>1, <2>5
  <2>7. T * (10 * x) <= T * (39 * N)
    BY <2>1, <2>3, <2>5, <2>6 DEF Tenths
  <2>8. 10 * x <= 39 * N
    BY <1>1, <2>1, <2>5, <2>7, Cancel
  <2>9. x <= 4 * N
    BY <2>1, <2>5, <2>8
  <2> QED
    BY <2>9 DEF x, N, Rounding, Count
<1> QED
  BY <1>10, <1>12, <1>13, <1>14 DEF Mandated, B, cap

-----------------------------------------------------------------------------
(* Policies. *)

LEMMA IndicatorTotal ==
  ASSUME NEW x \in Symbols, NEW h, h = [s \in Symbols |-> IF s = x THEN 1 ELSE 0]
  PROVE  h \in [Symbols -> Int] /\ RowSum(h) = 1
<1> DEFINE S == {x}
           g == [s \in S |-> 1]
<1>1. h \in [Symbols -> Int] /\ S \in SUBSET Symbols /\ g \in [S -> Int]
  OBVIOUS
<1>2. \A s \in Symbols : IF s \in S THEN h[s] = g[s] ELSE h[s] = 0
  OBVIOUS
<1>3. RowSum(g) = 1
  <2>1. g \in [{x} -> Int] /\ g[x] = 1
    OBVIOUS
  <2> HIDE DEF g
  <2> QED
    BY <2>1, TotalOfOne
<1> HIDE DEF S, g
<1>4. RowSum(h) = RowSum(g)
  BY <1>1, <1>2, CountIs, TotalOfSupport
<1> QED
  BY <1>1, <1>3, <1>4

(* The pair of tails, projected or not, is worth nothing on balance. *)
LEMMA DirectionIs ==
  ASSUME NEW top \in Symbols, NEW bottom \in Symbols, top # bottom, NEW beta \in [Symbols -> Int]
  PROVE  /\ NeutralDirection(top, bottom, beta) \in [Symbols -> Int]
         /\ RowSum(NeutralDirection(top, bottom, beta)) = 0
<1> DEFINE up == [s \in Symbols |-> IF s = top THEN 1 ELSE 0]
           down == [s \in Symbols |-> IF s = bottom THEN 1 ELSE 0]
           minus == [s \in Symbols |-> (-1) * down[s]]
           raw == [s \in Symbols |-> IF s = top THEN 1 ELSE IF s = bottom THEN -1 ELSE 0]
           skew == beta[top] - beta[bottom]
           E == Spread(beta)
           B == RowSum(beta)
           N == Cardinality(Symbols)
           projected == [s \in Symbols |-> E * raw[s] - (N * beta[s] - B) * skew]
<1>1. up \in [Symbols -> Int] /\ RowSum(up) = 1 /\ down \in [Symbols -> Int] /\ RowSum(down) = 1
  <2>1. up = [s \in Symbols |-> IF s = top THEN 1 ELSE 0] /\ down = [s \in Symbols |-> IF s = bottom THEN 1 ELSE 0]
    OBVIOUS
  <2> HIDE DEF up, down
  <2> QED
    BY <2>1, IndicatorTotal
<1>2. /\ minus \in [Symbols -> Int] /\ raw \in [Symbols -> Int]
      /\ \A s \in Symbols : minus[s] = (-1) * down[s]
      /\ \A s \in Symbols : raw[s] = up[s] + minus[s]
  OBVIOUS
<1>3. E \in Int /\ B \in Int /\ N \in Nat /\ skew \in Int
  BY CountIs, SpreadIs, TotalIsSum DEF Count
<1>4. NeutralDirection(top, bottom, beta) = IF projected[top] <= 0 \/ projected[bottom] >= 0 THEN raw ELSE projected
  BY DEF NeutralDirection
<1>5. \A s \in Symbols : projected[s] = E * raw[s] - (N * beta[s] - B) * skew
  OBVIOUS
<1>05. projected = [s \in Symbols |-> projected[s]]
  OBVIOUS
<1>06. B = RowSum(beta) /\ N = Cardinality(Symbols)
  OBVIOUS
<1> HIDE DEF up, down, minus, raw, skew, E, B, N, projected
<1>6. RowSum(raw) = 0
  <2>1. RowSum(minus) = (-1) * RowSum(down)
    <3> DEFINE e == -1
    <3>0. e \in Int
      OBVIOUS
    <3>1. minus \in [Symbols -> Int] /\ down \in [Symbols -> Int]
      BY <1>1, <1>2
    <3>2. \A s \in Symbols : minus[s] = e * down[s]
      BY <1>2
    <3> HIDE DEF e
    <3>3. RowSum(minus) = e * RowSum(down)
      BY ONLY <3>0, <3>1, <3>2, CountIs, TotalScales
    <3> QED
      BY <3>3 DEF e
  <2>2. RowSum(raw) = RowSum(up) + RowSum(minus)
    <3>1. \A s \in Symbols : raw[s] = up[s] + minus[s]
      BY <1>2
    <3> QED
      BY ONLY <1>1, <1>2, <3>1, CountIs, TotalAdds
  <2> QED
    BY <1>1, <2>1, <2>2
<1> DEFINE c == skew * N
           k == B * skew
           a == [s \in Symbols |-> E * raw[s]]
           b == [s \in Symbols |-> (-c) * beta[s]]
           ab == [s \in Symbols |-> a[s] + b[s]]
           d == [s \in Symbols |-> k]
<1>7. c \in Int /\ -c \in Int /\ k \in Int
  BY <1>3, Times2
<1>8. /\ a \in [Symbols -> Int] /\ b \in [Symbols -> Int] /\ ab \in [Symbols -> Int] /\ d \in [Symbols -> Int]
      /\ \A s \in Symbols : a[s] = E * raw[s]
      /\ \A s \in Symbols : b[s] = (-c) * beta[s]
      /\ \A s \in Symbols : ab[s] = a[s] + b[s]
      /\ \A s \in Symbols : d[s] = k
  <2>1. \A s \in Symbols : raw[s] \in Int /\ beta[s] \in Int
    BY <1>2
  <2>2. \A s \in Symbols : E * raw[s] \in Int /\ (-c) * beta[s] \in Int
    BY <1>3, <1>7, <2>1, Times2
  <2> HIDE DEF c, k
  <2>3. a \in [Symbols -> Int] /\ b \in [Symbols -> Int] /\ d \in [Symbols -> Int]
    BY <1>7, <2>2
  <2>4. \A s \in Symbols : a[s] + b[s] \in Int
    BY <2>3
  <2> QED
    BY <2>3, <2>4
<1> HIDE DEF a, b, ab, d
<1>9. \A s \in Symbols : projected[s] = ab[s] + d[s]
  <2> TAKE s \in Symbols
  <2>1. raw[s] \in Int /\ beta[s] \in Int
    BY <1>2
  <2>2. \A x, y, e, m, v, w \in Int : e * x - (m * y - w) * v = (e * x + (-(v * m)) * y) + w * v
    OBVIOUS
  <2>3. ab[s] + d[s] = (E * raw[s] + (-(skew * N)) * beta[s]) + B * skew
    BY <1>8
  <2>4. projected[s] = E * raw[s] - (N * beta[s] - B) * skew
    BY <1>5
  <2>5. N \in Int
    BY <1>3
  <2> QED
    BY <1>3, <2>1, <2>2, <2>3, <2>4, <2>5
<1>10. projected \in [Symbols -> Int]
  <2>1. \A s \in Symbols : ab[s] + d[s] \in Int
    BY <1>8
  <2> QED
    BY <1>05, <1>9, <2>1
<1> HIDE DEF c, k
<1>11. RowSum(projected) = 0
  <2>1. RowSum(a) = E * RowSum(raw)
    <3>1. a \in [Symbols -> Int] /\ raw \in [Symbols -> Int] /\ E \in Int
      BY <1>2, <1>3, <1>8
    <3>2. \A s \in Symbols : a[s] = E * raw[s]
      BY <1>8
    <3> QED
      BY ONLY <3>1, <3>2, CountIs, TotalScales
  <2>2. RowSum(b) = (-c) * B
    <3>1. RowSum(b) = (-c) * RowSum(beta)
      BY <1>7, <1>8, CountIs, TotalScales
    <3> QED
      BY <1>06, <3>1
  <2>3. RowSum(ab) = RowSum(a) + RowSum(b)
    <3>1. \A s \in Symbols : ab[s] = a[s] + b[s]
      BY <1>8
    <3>2. a \in [Symbols -> Int] /\ b \in [Symbols -> Int] /\ ab \in [Symbols -> Int]
      BY <1>8
    <3> QED
      BY ONLY <3>1, <3>2, CountIs, TotalAdds
  <2>4. RowSum(d) = N * k
    <3>1. \A s \in Symbols : d[s] = k
      BY <1>8
    <3>2. d \in [Symbols -> Int] /\ IsFiniteSet(Symbols)
      BY <1>8, CountIs
    <3> QED
      BY ONLY <1>06, <1>7, <3>1, <3>2, ConstantTotal
  <2>5. RowSum(projected) = RowSum(ab) + RowSum(d)
    <3>1. ab \in [Symbols -> Int] /\ d \in [Symbols -> Int]
      BY <1>8
    <3> QED
      BY ONLY <1>9, <1>10, <3>1, CountIs, TotalAdds
  <2>6. (-c) * B + N * k = 0
    <3>1. \A x, y, z \in Int : (-(x * y)) * z + y * (z * x) = 0
      OBVIOUS
    <3> QED
      BY <1>3, <3>1 DEF c, k
  <2>7. E * RowSum(raw) = 0
    BY <1>3, <1>6
  <2>8. (-c) * B \in Int /\ N * k \in Int
    BY <1>3, <1>7, Times2
  <2> QED
    BY <2>1, <2>2, <2>3, <2>4, <2>5, <2>6, <2>7, <2>8
<1> QED
  BY <1>2, <1>4, <1>6, <1>10, <1>11

(* The highest and the lowest score are those of symbols. *)
LEMMA TailsAre ==
  ASSUME NEW row \in [Symbols -> Int]
  PROVE  ArgMax(row) \in Symbols /\ ArgMin(row) \in Symbols
<1> DEFINE K == {row[s] : s \in Symbols}
<1>1. K \in SUBSET Int /\ K # {}
  BY AnchorsAssumption
<1>2. IsFiniteSet(K)
  <2>1. \A y \in K : \E s \in Symbols : y = row[s]
    OBVIOUS
  <2> HIDE DEF K
  <2> QED
    BY <2>1, CountIs, FiniteImage
<1>3. \A s \in Symbols : row[s] \in K
  OBVIOUS
<1>4. \A y \in K : \E s \in Symbols : y = row[s]
  OBVIOUS
<1> HIDE DEF K
<1>5. Max(K) \in K /\ (\A y \in K : y <= Max(K)) /\ Min(K) \in K /\ (\A y \in K : Min(K) <= y)
  BY <1>1, <1>2, MaxIs, MinIs
<1>6. Symbols \in SUBSET Int
  BY SymbolsAssumption
<1> DEFINE U == {s \in Symbols : \A x \in Symbols : row[x] <= row[s]}
           L == {s \in Symbols : \A x \in Symbols : row[x] >= row[s]}
<1>7. U # {} /\ L # {}
  <2>1. PICK s \in Symbols : row[s] = Max(K)
    BY <1>4, <1>5
  <2>2. PICK t \in Symbols : row[t] = Min(K)
    BY <1>4, <1>5
  <2>3. \A x \in Symbols : row[x] \in Int /\ row[x] <= row[s] /\ row[x] >= row[t]
    <3> TAKE x \in Symbols
    <3>1. row[x] \in K /\ row[x] \in Int /\ row[s] \in Int /\ row[t] \in Int
      BY <1>3
    <3> QED
      BY <1>5, <2>1, <2>2, <3>1
  <2> QED
    BY <2>3
<1>8. U \in SUBSET Int /\ L \in SUBSET Int /\ IsFiniteSet(U) /\ IsFiniteSet(L)
  <2>1. U \subseteq Symbols /\ L \subseteq Symbols
    OBVIOUS
  <2> HIDE DEF U, L
  <2> QED
    BY <1>6, <2>1, CountIs, FS_Subset
<1>9. ArgMax(row) = Min(U) /\ ArgMin(row) = Min(L)
  BY DEF ArgMax, ArgMin, FirstOf
<1>10. U \subseteq Symbols /\ L \subseteq Symbols
  OBVIOUS
<1> HIDE DEF U, L
<1>11. Min(U) \in U /\ Min(L) \in L
  BY <1>7, <1>8, MinIs
<1> QED
  BY <1>9, <1>10, <1>11

LEMMA InverseIs ==
  ASSUME NEW volatility \in [Symbols -> Nat]
  PROVE  \A s \in Symbols : InverseVolatility(volatility)[s] \in Nat
<1> TAKE s \in Symbols
<1>1. volatility[s] \in Nat
  OBVIOUS
<1>2. \A v \in Nat : v # 0 => Unit \div v \in Nat
  BY DEF Unit
<1> QED
  BY <1>1, <1>2 DEF InverseVolatility

LEMMA DirectionalIs ==
  ASSUME NEW row, row.feature.volatility \in [Symbols -> Nat], NEW score
  PROVE  /\ Mandated(DirectionalWeights(score, row))
         /\ Mandated(LongFlatWeights(score, row))
         /\ \A s \in Symbols : LongFlatWeights(score, row)[s] >= 0
<1> DEFINE volatility == row.feature.volatility
           inverse == InverseVolatility(volatility)
           d == [s \in Symbols |-> IF Abs(score[s]) > Risk.threshold THEN Sign(score[s]) * inverse[s] ELSE 0]
           e == [s \in Symbols |-> IF score[s] > Risk.threshold THEN inverse[s] ELSE 0]
<1>1. DirectionalWeights(score, row) = ScaledWeights(d, volatility) /\ LongFlatWeights(score, row) = ScaledWeights(e, volatility)
  BY DEF DirectionalWeights, LongFlatWeights
<1>2. \A s \in Symbols : inverse[s] \in Nat
  BY InverseIs
<1> HIDE DEF volatility, inverse
<1>3. \A s \in Symbols : Sign(score[s]) * inverse[s] \in Int
  <2> TAKE s \in Symbols
  <2>1. Sign(score[s]) \in Int /\ inverse[s] \in Int
    BY <1>2, SignIs
  <2> QED
    BY <2>1, Times2
<1>4. d \in [Symbols -> Int]
  BY <1>3
<1>5. e \in [Symbols -> Int] /\ \A s \in Symbols : e[s] >= 0
  BY <1>2
<1> HIDE DEF d, e
<1> QED
  BY <1>1, <1>4, <1>5, ScaledIs

(* What the neutral policies carry from row to row. *)
Carried(c) ==
  /\ Mandated(c.weights) /\ Netted(c.weights)
  /\ c.top \in Symbols \cup {None} /\ c.bottom \in Symbols \cup {None}

LEMMA NeutralStep ==
  ASSUME NEW c, Carried(c), NEW score \in [Symbols -> Int], NEW row,
         row.feature.beta \in [Symbols -> Int], NEW interval, NEW minimum
  PROVE  Carried(NeutralRow(c, score, row, interval, minimum))
<1> DEFINE best == ArgMax(score)
           worst == ArgMin(score)
           top == IF c.top # None /\ score[best] - score[c.top] <= Risk.band THEN c.top ELSE best
           bottom == IF c.bottom # None /\ score[c.bottom] - score[worst] <= Risk.band THEN c.bottom ELSE worst
           w == ScaledWeights(NeutralDirection(top, bottom, row.feature.beta), row.feature.volatility)
           next == NeutralRow(c, score, row, interval, minimum)
<1>1. next = IF c.failed THEN c
             ELSE IF c.last # None /\ row.hour - c.last < interval THEN c
             ELSE IF score[best] - score[worst] < minimum THEN [Unopened EXCEPT !.last = row.hour]
             ELSE IF top = bottom THEN [c EXCEPT !.failed = TRUE]
             ELSE [weights |-> w, top |-> top, bottom |-> bottom, last |-> row.hour, failed |-> FALSE]
  BY DEF NeutralRow
<1>2. best \in Symbols /\ worst \in Symbols
  BY TailsAre
<1> HIDE DEF best, worst
<1>3. top \in Symbols /\ bottom \in Symbols
  BY <1>2 DEF Carried
<1> HIDE DEF top, bottom
<1>4. top # bottom => Mandated(w) /\ Netted(w)
  <2> SUFFICES ASSUME top # bottom PROVE Mandated(w) /\ Netted(w)
    OBVIOUS
  <2> DEFINE d == NeutralDirection(top, bottom, row.feature.beta)
  <2>1. d \in [Symbols -> Int] /\ RowSum(d) = 0
    BY <1>3, DirectionIs
  <2>2. w = ScaledWeights(d, row.feature.volatility)
    OBVIOUS
  <2> HIDE DEF d, w
  <2> QED
    BY <2>1, <2>2, ScaledIs
<1> HIDE DEF w, next
<1>5. CASE next = c
  BY <1>5 DEF next
<1>6. CASE next = [Unopened EXCEPT !.last = row.hour]
  <2>1. next.weights = NoWeights /\ next.top = None /\ next.bottom = None
    BY <1>6 DEF Unopened
  <2> QED
    BY <2>1, NoWeightsIs DEF Carried, next
<1>7. CASE next = [c EXCEPT !.failed = TRUE]
  <2>1. next.weights = c.weights /\ next.top = c.top /\ next.bottom = c.bottom
    BY <1>7
  <2> QED
    BY <2>1 DEF Carried, next
<1>8. CASE top # bottom /\ next = [weights |-> w, top |-> top, bottom |-> bottom, last |-> row.hour, failed |-> FALSE]
  <2>1. next.weights = w /\ next.top = top /\ next.bottom = bottom
    BY <1>8
  <2> QED
    BY <1>3, <1>4, <1>8, <2>1 DEF Carried, next
<1> QED
  BY <1>1, <1>5, <1>6, <1>7, <1>8

LEMMA NeutralRowsAre ==
  ASSUME NEW given, NEW rows, NEW interval, NEW minimum, NEW n \in Nat, Len(rows) = n
  PROVE  \E state :
           /\ state[0] = Unopened
           /\ \A r \in 1..n : state[r] = NeutralRow(state[r - 1], given[r], rows[r], interval, minimum)
           /\ NeutralRows(given, rows, interval, minimum) = [r \in 1..n |-> state[r]]
<1> DEFINE After(c, r) == NeutralRow(c, given[r], rows[r], interval, minimum)
           body(g, m) == [r \in 0..m |-> IF r = 0 THEN Unopened ELSE After(g[r - 1], r)]
           state == CHOOSE g : g = body(g, n)
<1>1. NeutralRows(given, rows, interval, minimum) = Evaluated([r \in 1..n |-> state[r]])
  BY DEF NeutralRows
<1>2. \A r, c : After(c, r) = NeutralRow(c, given[r], rows[r], interval, minimum)
  OBVIOUS
<1> HIDE DEF After
<1>3. \E g : g = body(g, n)
  <2> DEFINE P == {m \in Nat : \E g : g = body(g, m)}
  <2>1. 0 \in P
    <3> DEFINE g == [r \in 0..0 |-> Unopened]
    <3>1. g = body(g, 0)
      OBVIOUS
    <3> HIDE DEF g, body
    <3>2. \E k : k = body(k, 0)
      BY <3>1
    <3> QED
      BY <3>2
  <2>2. ASSUME NEW m \in Nat, m \in P PROVE m + 1 \in P
    <3>1. PICK g : g = body(g, m)
      BY <2>2
    <3> DEFINE h == [r \in 0..(m + 1) |-> IF r = 0 THEN Unopened ELSE After(g[r - 1], r)]
    <3>2. \A r \in 0..m : h[r] = g[r]
      <4>1. \A r \in 0..m : g[r] = IF r = 0 THEN Unopened ELSE After(g[r - 1], r)
        BY <3>1
      <4> QED
        BY <4>1
    <3>3. \A r \in 0..(m + 1) : r # 0 => r - 1 \in 0..m
      OBVIOUS
    <3>4. \A r \in 0..(m + 1) : h[r] = IF r = 0 THEN Unopened ELSE After(h[r - 1], r)
      BY <3>2, <3>3
    <3>5. h = body(h, m + 1)
      BY <3>4
    <3> HIDE DEF h, body
    <3>6. \E k : k = body(k, m + 1)
      BY <3>5
    <3> QED
      BY <3>6
  <2> HIDE DEF P
  <2>3. n \in P
    BY <2>1, <2>2, NumberInduction
  <2> QED
    BY <2>3 DEF P
<1>4. state = body(state, n)
  BY <1>3
<1> HIDE DEF state
<1>5. /\ state[0] = Unopened
      /\ \A r \in 1..n : state[r] = After(state[r - 1], r)
  BY <1>4
<1> DEFINE f == [r \in 1..n |-> state[r]]
<1>6. f = [r \in 1..n |-> f[r]]
  OBVIOUS
<1> HIDE DEF f
<1>7. Evaluated(f) = f
  BY <1>6, EvaluatedIs
<1>8. NeutralRows(given, rows, interval, minimum) = [r \in 1..n |-> state[r]]
  BY <1>1, <1>7 DEF f
<1> QED
  BY <1>2, <1>5, <1>8

LEMMA HeldRowsAre ==
  ASSUME NEW weights, NEW rows, NEW interval, NEW n \in Nat, Len(rows) = n
  PROVE  \E state :
           /\ state[0] = Unopened
           /\ \A r \in 1..n : state[r] = HeldRow(state[r - 1], weights[r], rows[r], interval)
           /\ HeldRows(weights, rows, interval) = [r \in 1..n |-> state[r]]
<1> DEFINE After(c, r) == HeldRow(c, weights[r], rows[r], interval)
           body(g, m) == [r \in 0..m |-> IF r = 0 THEN Unopened ELSE After(g[r - 1], r)]
           state == CHOOSE g : g = body(g, n)
<1>1. HeldRows(weights, rows, interval) = Evaluated([r \in 1..n |-> state[r]])
  BY DEF HeldRows
<1>2. \A r, c : After(c, r) = HeldRow(c, weights[r], rows[r], interval)
  OBVIOUS
<1> HIDE DEF After
<1>3. \E g : g = body(g, n)
  <2> DEFINE P == {m \in Nat : \E g : g = body(g, m)}
  <2>1. 0 \in P
    <3> DEFINE g == [r \in 0..0 |-> Unopened]
    <3>1. g = body(g, 0)
      OBVIOUS
    <3> HIDE DEF g, body
    <3>2. \E k : k = body(k, 0)
      BY <3>1
    <3> QED
      BY <3>2
  <2>2. ASSUME NEW m \in Nat, m \in P PROVE m + 1 \in P
    <3>1. PICK g : g = body(g, m)
      BY <2>2
    <3> DEFINE h == [r \in 0..(m + 1) |-> IF r = 0 THEN Unopened ELSE After(g[r - 1], r)]
    <3>2. \A r \in 0..m : h[r] = g[r]
      <4>1. \A r \in 0..m : g[r] = IF r = 0 THEN Unopened ELSE After(g[r - 1], r)
        BY <3>1
      <4> QED
        BY <4>1
    <3>3. \A r \in 0..(m + 1) : r # 0 => r - 1 \in 0..m
      OBVIOUS
    <3>4. \A r \in 0..(m + 1) : h[r] = IF r = 0 THEN Unopened ELSE After(h[r - 1], r)
      BY <3>2, <3>3
    <3>5. h = body(h, m + 1)
      BY <3>4
    <3> HIDE DEF h, body
    <3>6. \E k : k = body(k, m + 1)
      BY <3>5
    <3> QED
      BY <3>6
  <2> HIDE DEF P
  <2>3. n \in P
    BY <2>1, <2>2, NumberInduction
  <2> QED
    BY <2>3 DEF P
<1>4. state = body(state, n)
  BY <1>3
<1> HIDE DEF state
<1>5. /\ state[0] = Unopened
      /\ \A r \in 1..n : state[r] = After(state[r - 1], r)
  BY <1>4
<1> DEFINE f == [r \in 1..n |-> state[r]]
<1>6. f = [r \in 1..n |-> f[r]]
  OBVIOUS
<1> HIDE DEF f
<1>7. Evaluated(f) = f
  BY <1>6, EvaluatedIs
<1>8. HeldRows(weights, rows, interval) = [r \in 1..n |-> state[r]]
  BY <1>1, <1>7 DEF f
<1> QED
  BY <1>2, <1>5, <1>8

-----------------------------------------------------------------------------
(* The rows of every policy. *)
Scored(matrix, n) == \A r \in 1..n : matrix[r] \in [Symbols -> Int]

Readable(policy, columns, n) ==
  /\ policy \in {"neutral_long_short", "buffered_neutral_long_short", "buffered_pair_spread"} =>
       Scored(columns.score, n)
  /\ policy = "buffered_two_sleeve_neutral" => Scored(columns.carry, n) /\ Scored(columns.relative, n)
  /\ policy \in {"buffered_three_sleeve_neutral", "buffered_carry_regime"} =>
       Scored(columns.carry, n) /\ Scored(columns.fast, n) /\ Scored(columns.slow, n)

Weighable(rows, n) ==
  /\ Len(rows) = n /\ DOMAIN rows = 1..n
  /\ \A r \in 1..n : rows[r].feature.beta \in [Symbols -> Int] /\ rows[r].feature.volatility \in [Symbols -> Nat]

Meets(f, n) == DOMAIN f = 1..n /\ \A r \in 1..n : Mandated(f[r].weights)
Nets(f, n) == \A r \in 1..n : Netted(f[r].weights)
Balances(f, n) == \A r \in 1..n : Abs(RowSum(f[r].weights)) <= Rounding

LEMMA UnopenedIs == Carried(Unopened) /\ Unopened.weights = NoWeights
BY NoWeightsIs DEF Carried, Unopened

LEMMA NeutralMeets ==
  ASSUME NEW n \in Nat, NEW rows, Weighable(rows, n), NEW score, Scored(score, n),
         NEW interval, NEW minimum
  PROVE  Meets(NeutralRows(score, rows, interval, minimum), n) /\ Nets(NeutralRows(score, rows, interval, minimum), n)
<1>0. Len(rows) = n
  BY DEF Weighable
<1>1. PICK state :
        /\ state[0] = Unopened
        /\ \A r \in 1..n : state[r] = NeutralRow(state[r - 1], score[r], rows[r], interval, minimum)
        /\ NeutralRows(score, rows, interval, minimum) = [r \in 1..n |-> state[r]]
  BY <1>0, NeutralRowsAre
<1> DEFINE P == {r \in Nat : r <= n => Carried(state[r])}
<1>2. 0 \in P
  BY <1>1, UnopenedIs
<1>3. ASSUME NEW r \in Nat, r \in P PROVE r + 1 \in P
  <2> SUFFICES ASSUME r + 1 <= n PROVE Carried(state[r + 1])
    OBVIOUS
  <2> DEFINE k == r + 1
  <2>1. k \in 1..n /\ k - 1 = r
    OBVIOUS
  <2>2. Carried(state[r])
    BY <1>3
  <2> HIDE DEF k
  <2>3. state[k] = NeutralRow(state[r], score[k], rows[k], interval, minimum)
    BY <1>1, <2>1
  <2>4. score[k] \in [Symbols -> Int] /\ rows[k].feature.beta \in [Symbols -> Int]
    BY <2>1 DEF Scored, Weighable
  <2>5. Carried(state[k])
    BY <2>2, <2>3, <2>4, NeutralStep
  <2> QED
    BY <2>5 DEF k
<1> HIDE DEF P
<1>4. \A r \in Nat : r \in P
  BY <1>2, <1>3, NumberInduction
<1>5. \A r \in 1..n : Mandated(state[r].weights) /\ Netted(state[r].weights)
  <2>1. \A r \in 1..n : r \in P /\ r \in Nat /\ r <= n
    BY <1>4
  <2> QED
    BY <2>1 DEF P, Carried
<1> QED
  BY <1>1, <1>5 DEF Meets, Nets

(* Weights that are held keep what every row's weights have. *)
LEMMA HeldKeep ==
  ASSUME NEW n \in Nat, NEW rows, Len(rows) = n, NEW weights, NEW interval,
         NEW X, NoWeights \in X, \A r \in 1..n : weights[r] \in X
  PROVE  /\ DOMAIN HeldRows(weights, rows, interval) = 1..n
         /\ \A r \in 1..n : HeldRows(weights, rows, interval)[r].weights \in X
<1>1. PICK state :
        /\ state[0] = Unopened
        /\ \A r \in 1..n : state[r] = HeldRow(state[r - 1], weights[r], rows[r], interval)
        /\ HeldRows(weights, rows, interval) = [r \in 1..n |-> state[r]]
  BY HeldRowsAre
<1> DEFINE P == {r \in Nat : r <= n => state[r].weights \in X}
<1>2. 0 \in P
  BY <1>1, UnopenedIs
<1>3. ASSUME NEW r \in Nat, r \in P PROVE r + 1 \in P
  <2> SUFFICES ASSUME r + 1 <= n PROVE state[r + 1].weights \in X
    OBVIOUS
  <2> DEFINE k == r + 1
  <2>1. k \in 1..n /\ k - 1 = r
    OBVIOUS
  <2>2. state[r].weights \in X
    BY <1>3
  <2> HIDE DEF k
  <2>3. state[k] = HeldRow(state[r], weights[k], rows[k], interval) /\ weights[k] \in X
    BY <1>1, <2>1
  <2>4. state[k] = state[r] \/ state[k] = [Unopened EXCEPT !.weights = weights[k], !.last = rows[k].hour]
    BY <2>3 DEF HeldRow
  <2>5. state[k].weights \in X
    BY <2>2, <2>3, <2>4 DEF Unopened
  <2> QED
    BY <2>5 DEF k
<1> HIDE DEF P
<1>4. \A r \in Nat : r \in P
  BY <1>2, <1>3, NumberInduction
<1>5. \A r \in 1..n : state[r].weights \in X
  <2>1. \A r \in 1..n : r \in P /\ r \in Nat /\ r <= n
    BY <1>4
  <2> QED
    BY <2>1 DEF P
<1> QED
  BY <1>1, <1>5

LEMMA LongFlatMeets ==
  ASSUME NEW n \in Nat, NEW rows, Weighable(rows, n), NEW score, NEW interval,
         NEW weights, weights = [r \in DOMAIN rows |-> LongFlatWeights(score[r], rows[r])]
  PROVE  /\ Meets(HeldRows(weights, rows, interval), n)
         /\ \A r \in 1..n : \A s \in Symbols : HeldRows(weights, rows, interval)[r].weights[s] >= 0
<1> DEFINE X == {w \in [Symbols -> Int] : Mandated(w) /\ \A s \in Symbols : w[s] >= 0}
<1>1. \A w : Mandated(w) /\ (\A s \in Symbols : w[s] >= 0) => w \in X
  BY DEF Mandated
<1>2. \A w \in X : Mandated(w) /\ \A s \in Symbols : w[s] >= 0
  OBVIOUS
<1> HIDE DEF X
<1>3. NoWeights \in X
  BY <1>1, NoWeightsIs
<1>4. \A r \in 1..n : weights[r] \in X
  <2> TAKE r \in 1..n
  <2>1. weights[r] = LongFlatWeights(score[r], rows[r]) /\ rows[r].feature.volatility \in [Symbols -> Nat]
    BY DEF Weighable
  <2> QED
    BY <1>1, <2>1, DirectionalIs
<1>5. Len(rows) = n
  BY DEF Weighable
<1>6. /\ DOMAIN HeldRows(weights, rows, interval) = 1..n
      /\ \A r \in 1..n : HeldRows(weights, rows, interval)[r].weights \in X
  BY <1>3, <1>4, <1>5, HeldKeep
<1> QED
  BY <1>2, <1>6 DEF Meets

LEMMA DirectionalMeets ==
  ASSUME NEW n \in Nat, NEW rows, Weighable(rows, n), NEW score, NEW interval,
         NEW weights, weights = [r \in DOMAIN rows |-> DirectionalWeights(score[r], rows[r])]
  PROVE  Meets(HeldRows(weights, rows, interval), n)
<1> DEFINE X == {w \in [Symbols -> Int] : Mandated(w)}
<1>1. \A w : Mandated(w) => w \in X
  BY DEF Mandated
<1>2. \A w \in X : Mandated(w)
  OBVIOUS
<1> HIDE DEF X
<1>3. NoWeights \in X
  BY <1>1, NoWeightsIs
<1>4. \A r \in 1..n : weights[r] \in X
  <2> TAKE r \in 1..n
  <2>1. weights[r] = DirectionalWeights(score[r], rows[r]) /\ rows[r].feature.volatility \in [Symbols -> Nat]
    BY DEF Weighable
  <2> QED
    BY <1>1, <2>1, DirectionalIs
<1>5. Len(rows) = n
  BY DEF Weighable
<1>6. /\ DOMAIN HeldRows(weights, rows, interval) = 1..n
      /\ \A r \in 1..n : HeldRows(weights, rows, interval)[r].weights \in X
  BY <1>3, <1>4, <1>5, HeldKeep
<1> QED
  BY <1>2, <1>6 DEF Meets

LEMMA PairsMeet ==
  ASSUME NEW n \in Nat, NEW rows, Weighable(rows, n), NEW scored, Scored(scored, n)
  PROVE  Meets(PairRows(scored, rows), n)
<1>1. DOMAIN PairRows(scored, rows) = 1..n
  BY DEF PairRows, Weighable
<1>2. ASSUME NEW r \in 1..n PROVE Mandated(PairRows(scored, rows)[r].weights)
  <2> DEFINE w == ScaledWeights(scored[r], rows[r].feature.volatility)
  <2>1. PairRows(scored, rows)[r].weights = w
    BY DEF PairRows, Unopened, Weighable
  <2>2. scored[r] \in [Symbols -> Int]
    BY DEF Scored
  <2>3. Mandated(w)
    BY <2>2, ScaledIs
  <2> QED
    BY <2>1, <2>3
<1> QED
  BY <1>1, <1>2 DEF Meets

(* Sleeves that meet the mandate, blended. *)
LEMMA BlendMeets ==
  ASSUME NEW n \in Nat, NEW K \in Nat \ {0}, NEW sleeves, DOMAIN sleeves = 1..K,
         NEW parts \in [1..K -> Nat], RowSum(parts) > 0,
         \A i \in 1..K : Meets(sleeves[i], n)
  PROVE  /\ Meets(Blend(sleeves, parts), n)
         /\ (\A i \in 1..K : Nets(sleeves[i], n)) => Balances(Blend(sleeves, parts), n)
<1>1. DOMAIN Blend(sleeves, parts) = 1..n
  <2>1. 1 \in 1..K
    OBVIOUS
  <2> QED
    BY <2>1 DEF Blend, Meets
<1>2. ASSUME NEW r \in 1..n
      PROVE  /\ Mandated(Blend(sleeves, parts)[r].weights)
             /\ (\A i \in 1..K : Nets(sleeves[i], n)) => Abs(RowSum(Blend(sleeves, parts)[r].weights)) <= Rounding
  <2> DEFINE D == 1..K
             v == [i \in D |-> sleeves[i][r].weights]
             z == [s \in Symbols |-> RowSum(Weighted(parts, Across(v, s)))]
             w == [s \in Symbols |-> Quot(z[s], RowSum(parts))]
  <2>1. \A i \in D : Mandated(v[i])
    BY DEF Meets
  <2>2. v \in [D -> [Symbols -> Int]] /\ \A i \in D : v[i] = sleeves[i][r].weights
    BY <2>1 DEF Mandated
  <2>3. Blend(sleeves, parts)[r].weights = [s \in Symbols |->
           Quot(RowSum([i \in D |-> parts[i] * sleeves[i][r].weights[s]]), RowSum(parts))]
    BY <1>1 DEF Blend, Unopened
  <2>4. \A s \in Symbols : [i \in D |-> parts[i] * sleeves[i][r].weights[s]] = Weighted(parts, Across(v, s))
    BY <2>2 DEF Weighted, Across
  <2>5. Blend(sleeves, parts)[r].weights = w
    BY <2>3, <2>4
  <2>6. IsFiniteSet(D) /\ parts \in [D -> Nat]
    BY IntervalFinite
  <2>7. \A s \in Symbols : z[s] = RowSum(Weighted(parts, Across(v, s)))
    OBVIOUS
  <2>8. z = [s \in Symbols |-> z[s]] /\ w = [s \in Symbols |-> Quot(z[s], RowSum(parts))]
    OBVIOUS
  <2>9. (\A i \in 1..K : Nets(sleeves[i], n)) => \A i \in D : Netted(v[i])
    BY <2>2 DEF Nets
  <2> HIDE DEF D, v, z, w
  <2>10. z \in [Symbols -> Int]
    <3>1. ASSUME NEW s \in Symbols PROVE z[s] \in Int
      <4>1. Across(v, s) \in [D -> Int]
        BY <2>2, AcrossType
      <4> DEFINE p == Weighted(parts, Across(v, s))
      <4>2. p \in [D -> Int]
        BY <2>6, <4>1, WeightedType
      <4>3. z[s] = RowSum(p)
        BY <2>7
      <4> HIDE DEF p
      <4> QED
        BY <2>6, <4>2, <4>3, TotalIsSum
    <3> QED
      BY <2>8, <3>1
  <2>11. Mandated(w) /\ ((\A i \in D : Netted(v[i])) => Abs(RowSum(w)) <= Rounding)
    <3>1. RowSum(parts) > 0 /\ parts \in [D -> Nat] /\ IsFiniteSet(D)
      BY <2>6
    <3>2. w = [s \in Symbols |-> Quot(z[s], RowSum(parts))] /\ v \in [D -> [Symbols -> Int]]
      BY <2>2, <2>8
    <3> QED
      <4>1. Blended(D, parts, v, z, w)
        BY ONLY <2>1, <2>7, <2>10, <3>1, <3>2 DEF Blended
      <4> QED
        BY ONLY <4>1, BlendIs
  <2> QED
    BY <2>5, <2>9, <2>11
<1> QED
  BY <1>1, <1>2 DEF Meets, Balances

LEMMA NettedBalances == \A f : \A n : Nets(f, n) /\ Meets(f, n) => Balances(f, n)
<1> SUFFICES ASSUME NEW f, NEW n, Nets(f, n), Meets(f, n), NEW r \in 1..n
             PROVE  Abs(RowSum(f[r].weights)) <= Rounding
  BY DEF Balances
<1> DEFINE w == f[r].weights
<1>1. Netted(w) /\ w \in [Symbols -> Int]
  BY DEF Nets, Meets, Mandated
<1> HIDE DEF w
<1>2. RowSum(w) \in Int /\ Abs(RowSum(w)) \in Nat /\ Count \in Nat
  BY <1>1, CountIs, TotalIsSum, AbsIs
<1>3. Abs(RowSum(w)) <= Rounding
  BY <1>1, <1>2 DEF Netted, Tenths, Rounding, Count
<1> QED
  BY <1>3 DEF w

LEMMA ThreeSleeveMeets ==
  ASSUME NEW n \in Nat, NEW rows, Weighable(rows, n), NEW columns,
         Scored(columns.carry, n), Scored(columns.fast, n), Scored(columns.slow, n)
  PROVE  Meets(ThreeSleeve(columns, rows), n) /\ Balances(ThreeSleeve(columns, rows), n)
<1> DEFINE sleeves == <<NeutralRows(columns.carry, rows, Risk.interval, 0),
                        NeutralRows(columns.fast, rows, Risk.interval, 0),
                        NeutralRows(columns.slow, rows, Risk.interval, 0)>>
<1>1. DOMAIN sleeves = 1..3 /\ ThreeSleeve(columns, rows) = Blend(sleeves, Risk.sleeves)
  BY DEF ThreeSleeve
<1>2. Meets(sleeves[1], n) /\ Nets(sleeves[1], n)
  BY NeutralMeets
<1>3. Meets(sleeves[2], n) /\ Nets(sleeves[2], n)
  BY NeutralMeets
<1>4. Meets(sleeves[3], n) /\ Nets(sleeves[3], n)
  BY NeutralMeets
<1> HIDE DEF sleeves
<1>5. \A i \in 1..3 : Meets(sleeves[i], n) /\ Nets(sleeves[i], n)
  <2>1. \A i \in 1..3 : i = 1 \/ i = 2 \/ i = 3
    OBVIOUS
  <2> QED
    BY <1>2, <1>3, <1>4, <2>1
<1>6. Meets(Blend(sleeves, Risk.sleeves), n) /\ Balances(Blend(sleeves, Risk.sleeves), n)
  <2>1. Risk.sleeves \in [1..3 -> Nat] /\ RowSum(Risk.sleeves) > 0 /\ 3 \in Nat \ {0} /\ DOMAIN sleeves = 1..3
    BY <1>1, RiskAssumption
  <2>2. (\A i \in 1..3 : Meets(sleeves[i], n)) /\ (\A i \in 1..3 : Nets(sleeves[i], n))
    BY <1>5
  <2> QED
    BY ONLY n \in Nat, <2>1, <2>2, BlendMeets
<1> QED
  BY <1>1, <1>6

LEMMA TwoSleeveMeets ==
  ASSUME NEW n \in Nat, NEW a, NEW b, Meets(a, n), Meets(b, n),
         NEW parts \in [1..2 -> Nat], RowSum(parts) > 0
  PROVE  /\ Meets(Blend(<<a, b>>, parts), n)
         /\ Nets(a, n) /\ Nets(b, n) => Balances(Blend(<<a, b>>, parts), n)
<1> DEFINE sleeves == <<a, b>>
<1>1. DOMAIN sleeves = 1..2 /\ sleeves[1] = a /\ sleeves[2] = b
  OBVIOUS
<1> HIDE DEF sleeves
<1>2. \A i \in 1..2 : i = 1 \/ i = 2
  OBVIOUS
<1>3. \A i \in 1..2 : Meets(sleeves[i], n)
  BY <1>1, <1>2
<1>4. Nets(a, n) /\ Nets(b, n) => \A i \in 1..2 : Nets(sleeves[i], n)
  BY <1>1, <1>2
<1>5. /\ Meets(Blend(sleeves, parts), n)
      /\ (\A i \in 1..2 : Nets(sleeves[i], n)) => Balances(Blend(sleeves, parts), n)
  <2>1. DOMAIN sleeves = 1..2 /\ 2 \in Nat \ {0} /\ RowSum(parts) > 0 /\ parts \in [1..2 -> Nat]
    BY <1>1
  <2> QED
    BY ONLY n \in Nat, <1>3, <2>1, BlendMeets
<1> QED
  BY <1>4, <1>5 DEF sleeves

LEMMA TargetsMeet ==
  ASSUME NEW n \in Nat, NEW rows, Weighable(rows, n), NEW policy \in PolicyNames,
         NEW columns, Readable(policy, columns, n), NEW f, f = TargetRows(policy, columns, rows)
  PROVE  /\ Meets(f, n)
         /\ policy \in Neutral => Balances(f, n)
         /\ policy = "buffered_long_flat" => \A r \in 1..n : \A s \in Symbols : f[r].weights[s] >= 0
<1>1. CASE policy = "neutral_long_short"
  <2>1. f = NeutralRows(columns.score, rows, 1, 0) /\ Scored(columns.score, n)
    BY <1>1 DEF TargetRows, Readable
  <2> QED
    BY <1>1, <2>1, NeutralMeets, NettedBalances
<1>2. CASE policy = "buffered_neutral_long_short"
  <2>1. f = NeutralRows(columns.score, rows, Risk.interval, Risk.minimumSpread) /\ Scored(columns.score, n)
    BY <1>2 DEF TargetRows, Readable
  <2> QED
    BY <1>2, <2>1, NeutralMeets, NettedBalances
<1>3. CASE policy = "buffered_directional"
  <2> DEFINE weights == [r \in DOMAIN rows |-> DirectionalWeights(columns.score[r], rows[r])]
  <2>1. f = HeldRows(weights, rows, Risk.interval)
    BY <1>3 DEF TargetRows
  <2>2. Meets(HeldRows(weights, rows, Risk.interval), n)
    BY DirectionalMeets
  <2> QED
    BY <1>3, <2>1, <2>2 DEF Neutral
<1>4. CASE policy = "buffered_long_flat"
  <2> DEFINE weights == [r \in DOMAIN rows |-> LongFlatWeights(columns.score[r], rows[r])]
  <2>1. f = HeldRows(weights, rows, Risk.interval)
    BY <1>4 DEF TargetRows
  <2>2. /\ Meets(HeldRows(weights, rows, Risk.interval), n)
        /\ \A r \in 1..n : \A s \in Symbols : HeldRows(weights, rows, Risk.interval)[r].weights[s] >= 0
    BY LongFlatMeets
  <2> QED
    BY <1>4, <2>1, <2>2 DEF Neutral
<1>5. CASE policy = "buffered_pair_spread"
  <2>1. f = PairRows(columns.score, rows) /\ Scored(columns.score, n)
    BY <1>5 DEF TargetRows, Readable
  <2> QED
    BY <1>5, <2>1, PairsMeet DEF Neutral
<1>6. CASE policy = "buffered_two_sleeve_neutral"
  <2> DEFINE a == NeutralRows(columns.carry, rows, Risk.interval, 1)
             b == NeutralRows(columns.relative, rows, Risk.interval, 1)
  <2>1. f = Blend(<<a, b>>, Risk.pair) /\ Scored(columns.carry, n) /\ Scored(columns.relative, n)
    BY <1>6 DEF TargetRows, Readable
  <2>2. Meets(a, n) /\ Nets(a, n) /\ Meets(b, n) /\ Nets(b, n)
    BY <2>1, NeutralMeets
  <2> HIDE DEF a, b
  <2> QED
    BY <1>6, <2>1, <2>2, RiskAssumption, TwoSleeveMeets
<1>7. CASE policy = "buffered_three_sleeve_neutral"
  <2>1. f = ThreeSleeve(columns, rows) /\ Scored(columns.carry, n) /\ Scored(columns.fast, n) /\ Scored(columns.slow, n)
    BY <1>7 DEF TargetRows, Readable
  <2> QED
    BY <1>7, <2>1, ThreeSleeveMeets
<1>8. CASE policy = "buffered_carry_regime"
  <2> DEFINE weights == [r \in DOMAIN rows |-> LongFlatWeights(columns.regime[r], rows[r])]
             a == ThreeSleeve(columns, rows)
             b == HeldRows(weights, rows, Risk.interval)
  <2>1. f = Blend(<<a, b>>, Risk.regime) /\ Scored(columns.carry, n) /\ Scored(columns.fast, n) /\ Scored(columns.slow, n)
    BY <1>8 DEF TargetRows, Readable
  <2>2. Meets(a, n)
    BY <2>1, ThreeSleeveMeets
  <2>3. Meets(b, n)
    BY LongFlatMeets
  <2> HIDE DEF a, b, weights
  <2> QED
    BY <1>8, <2>1, <2>2, <2>3, RiskAssumption, TwoSleeveMeets DEF Neutral
<1> QED
  BY <1>1, <1>2, <1>3, <1>4, <1>5, <1>6, <1>7, <1>8 DEF PolicyNames

-----------------------------------------------------------------------------
(* What each score is, cell by cell. *)

LEMMA ZScoreIs ==
  ASSUME NEW m, NEW n \in Nat, DOMAIN m = 1..n
  PROVE  ZScore(m) = [r \in 1..n |-> [s \in Symbols |->
           ZScoreOf(m[r], s)]]
<1> DEFINE g == [r \in 1..n |-> [s \in Symbols |->
           ZScoreOf(m[r], s)]]
<1>1. ZScore(m) = Evaluated(g)
  BY DEF ZScore
<1>2. g = [r \in 1..n |-> g[r]]
  OBVIOUS
<1> HIDE DEF g
<1>3. Evaluated(g) = g
  BY <1>2, EvaluatedIs
<1> QED
  BY <1>1, <1>3 DEF g

LEMMA StandardisedIs ==
  ASSUME NEW table, NEW n \in Nat, Len(table) = n, DOMAIN table = 1..n, NEW f
  PROVE  Standardised(table, f) = [r \in 1..n |-> [s \in Symbols |-> ZScoreOf(table[r].feature[f], s)]]
<1> DEFINE m == FeatureMatrix(table, f)
<1>1. DOMAIN m = 1..n /\ \A r \in 1..n : m[r] = table[r].feature[f]
  BY DEF FeatureMatrix
<1> HIDE DEF m
<1>2. ZScore(m) = [r \in 1..n |-> [s \in Symbols |-> ZScoreOf(m[r], s)]]
  BY <1>1, ZScoreIs
<1>3. \A r \in 1..n : [s \in Symbols |-> ZScoreOf(m[r], s)] = [s \in Symbols |-> ZScoreOf(table[r].feature[f], s)]
  BY <1>1
<1> QED
  BY <1>2, <1>3 DEF Standardised, m

LEMMA ResidualMomentumIs ==
  ASSUME NEW table, NEW n \in Nat, Len(table) = n, DOMAIN table = 1..n
  PROVE  ResidualMomentum(table) = [r \in 1..n |-> [s \in Symbols |->
           Tuning.momentum[1] * Standardised(table, "residual_1h")[r][s] + Tuning.momentum[2] * Standardised(table, "residual_4h")[r][s]
             + Tuning.momentum[3] * Standardised(table, "residual_24h")[r][s]]]
<1> DEFINE g == [r \in 1..n |-> [s \in Symbols |->
           Tuning.momentum[1] * Standardised(table, "residual_1h")[r][s] + Tuning.momentum[2] * Standardised(table, "residual_4h")[r][s]
             + Tuning.momentum[3] * Standardised(table, "residual_24h")[r][s]]]
<1>1. ResidualMomentum(table) = Evaluated(g)
  BY DEF ResidualMomentum, Matrix
<1>2. g = [r \in 1..n |-> g[r]]
  OBVIOUS
<1> HIDE DEF g
<1>3. Evaluated(g) = g
  BY <1>2, EvaluatedIs
<1> QED
  BY <1>1, <1>3 DEF g

LEMMA FundingCarryIs ==
  ASSUME NEW table, NEW n \in Nat, Len(table) = n, DOMAIN table = 1..n
  PROVE  FundingCarry(table) = [r \in 1..n |-> [s \in Symbols |->
           Tuning.carry[3] * Standardised(table, "residual_4h")[r][s] - Tuning.carry[1] * Standardised(table, "funding_current")[r][s]
             - Tuning.carry[2] * Standardised(table, "funding_change")[r][s]]]
<1> DEFINE g == [r \in 1..n |-> [s \in Symbols |->
           Tuning.carry[3] * Standardised(table, "residual_4h")[r][s] - Tuning.carry[1] * Standardised(table, "funding_current")[r][s]
             - Tuning.carry[2] * Standardised(table, "funding_change")[r][s]]]
<1>1. FundingCarry(table) = Evaluated(g)
  BY DEF FundingCarry, Matrix
<1>2. g = [r \in 1..n |-> g[r]]
  OBVIOUS
<1> HIDE DEF g
<1>3. Evaluated(g) = g
  BY <1>2, EvaluatedIs
<1> QED
  BY <1>1, <1>3 DEF g

Reversed(table, r, s) ==
  -(Tuning.momentum[1] * Standardised(table, "residual_1h")[r][s]
      + Tuning.momentum[2] * Standardised(table, "residual_4h")[r][s])

LEMMA ResidualMeanReversionIs ==
  ASSUME NEW table, NEW n \in Nat, Len(table) = n, DOMAIN table = 1..n
  PROVE  ResidualMeanReversion(table) = [r \in 1..n |-> [s \in Symbols |->
           IF DoubledMedian(table[r].feature.volatility) = 0 THEN Reversed(table, r, s)
           ELSE Quot(Reversed(table, r, s) * DoubledMedian(table[r].feature.volatility),
                     2 * Max({table[r].feature.volatility[s], 1}))]]
<1> DEFINE g == [r \in 1..n |-> [s \in Symbols |->
           IF DoubledMedian(table[r].feature.volatility) = 0 THEN Reversed(table, r, s)
           ELSE Quot(Reversed(table, r, s) * DoubledMedian(table[r].feature.volatility),
                     2 * Max({table[r].feature.volatility[s], 1}))]]
<1>1. ResidualMeanReversion(table) = Evaluated(g)
  BY DEF ResidualMeanReversion, Matrix, Reversed
<1>2. g = [r \in 1..n |-> g[r]]
  OBVIOUS
<1> HIDE DEF g
<1>3. Evaluated(g) = g
  BY <1>2, EvaluatedIs
<1> QED
  BY <1>1, <1>3 DEF g

LEMMA StandardisedTrendIs ==
  ASSUME NEW m, NEW n \in Nat, DOMAIN m = 1..n
  PROVE  StandardisedTrend(m) = [r \in 1..n |-> [s \in Symbols |->
           IF \E x \in Symbols : m[r][x] = NaN THEN NaN ELSE ZScoreOf(m[r], s)]]
<1> DEFINE g == [r \in 1..n |-> [s \in Symbols |->
           IF \E x \in Symbols : m[r][x] = NaN THEN NaN ELSE ZScoreOf(m[r], s)]]
<1>1. StandardisedTrend(m) = Evaluated(g)
  BY DEF StandardisedTrend
<1>2. g = [r \in 1..n |-> g[r]]
  OBVIOUS
<1> HIDE DEF g
<1>3. Evaluated(g) = g
  BY <1>2, EvaluatedIs
<1> QED
  BY <1>1, <1>3 DEF g

LEMMA BreakoutIs ==
  ASSUME NEW table, NEW n \in Nat, Len(table) = n, DOMAIN table = 1..n
  PROVE  Breakout(table) = [r \in 1..n |-> [s \in Symbols |->
           SegmentSignal([k \in 1..(r - SegmentStart(Times(table), r) + 1) |->
               SegmentPrice(table, SegmentStart(Times(table), r) + k - 1, s)])[r - SegmentStart(Times(table), r) + 1]]]
<1> DEFINE g == [r \in 1..n |-> [s \in Symbols |->
           SegmentSignal([k \in 1..(r - SegmentStart(Times(table), r) + 1) |->
               SegmentPrice(table, SegmentStart(Times(table), r) + k - 1, s)])[r - SegmentStart(Times(table), r) + 1]]]
<1>1. Breakout(table) = Evaluated(g)
  BY DEF Breakout, Matrix
<1>2. g = [r \in 1..n |-> g[r]]
  OBVIOUS
<1> HIDE DEF g
<1>3. Evaluated(g) = g
  BY <1>2, EvaluatedIs
<1> QED
  BY <1>1, <1>3 DEF g

LEMMA RegimeTrendIs ==
  ASSUME NEW table, NEW n \in Nat, Len(table) = n, DOMAIN table = 1..n
  PROVE  RegimeTrend(table) = [r \in 1..n |-> [s \in Symbols |->
           IF \E x \in Symbols : NaN \in {Trend(table, Tuning.fast)[r][x], Trend(table, Tuning.slow)[r][x]} THEN NaN
           ELSE IF /\ RowSum(Trend(table, Tuning.slow)[r]) > 0
                   /\ Trend(table, Tuning.fast)[r][s] > 0 /\ Trend(table, Tuning.slow)[r][s] > 0
                THEN Tenths ELSE 0]]
<1> DEFINE g == [r \in 1..n |-> [s \in Symbols |->
           IF \E x \in Symbols : NaN \in {Trend(table, Tuning.fast)[r][x], Trend(table, Tuning.slow)[r][x]} THEN NaN
           ELSE IF /\ RowSum(Trend(table, Tuning.slow)[r]) > 0
                   /\ Trend(table, Tuning.fast)[r][s] > 0 /\ Trend(table, Tuning.slow)[r][s] > 0
                THEN Tenths ELSE 0]]
<1>1. RegimeTrend(table) = Evaluated(g)
  BY DEF RegimeTrend, Matrix
<1>2. g = [r \in 1..n |-> g[r]]
  OBVIOUS
<1> HIDE DEF g
<1>3. Evaluated(g) = g
  BY <1>2, EvaluatedIs
<1> QED
  BY <1>1, <1>3 DEF g

LEMMA HorizonVotesIs ==
  ASSUME NEW table, NEW n \in Nat, Len(table) = n, DOMAIN table = 1..n
  PROVE  HorizonVotes(table) = [r \in 1..n |-> [s \in Symbols |->
           IF \E i \in 1..3 : Trend(table, Tuning.horizons[i])[r][s] = NaN THEN NaN
           ELSE RowSum([i \in 1..3 |-> Tuning.votes[i] * Sign(Trend(table, Tuning.horizons[i])[r][s])])]]
<1> DEFINE g == [r \in 1..n |-> [s \in Symbols |->
           IF \E i \in 1..3 : Trend(table, Tuning.horizons[i])[r][s] = NaN THEN NaN
           ELSE RowSum([i \in 1..3 |-> Tuning.votes[i] * Sign(Trend(table, Tuning.horizons[i])[r][s])])]]
<1>1. HorizonVotes(table) = Evaluated(g)
  BY DEF HorizonVotes, Matrix
<1>2. g = [r \in 1..n |-> g[r]]
  OBVIOUS
<1> HIDE DEF g
<1>3. Evaluated(g) = g
  BY <1>2, EvaluatedIs
<1> QED
  BY <1>1, <1>3 DEF g

Calm(table, training) ==
  Quantile(SubSeq([r \in DOMAIN table |-> table[r].feature.regime[BTC]], 1, training), Tuning.calm[1], Tuning.calm[2])

FilteredCell(table, training, r, s) ==
  IF Calm(table, training) <= 0 THEN NaN
  ELSE IF Tuning.calm[2] * table[r].feature.regime[BTC] > Calm(table, training) THEN 0
  ELSE SmaGap(table)[r][s]

LEMMA FilteredSmaIs ==
  ASSUME NEW table, NEW n \in Nat, Len(table) = n, DOMAIN table = 1..n, NEW training
  PROVE  FilteredSma(table, training) = [r \in 1..n |-> [s \in Symbols |-> FilteredCell(table, training, r, s)]]
<1> DEFINE k == [r \in 1..n |-> [s \in Symbols |->
           IF Calm(table, training) <= 0 THEN NaN
           ELSE IF Tuning.calm[2] * table[r].feature.regime[BTC] > Calm(table, training) THEN 0
           ELSE SmaGap(table)[r][s]]]
           g == [r \in 1..n |-> [s \in Symbols |-> FilteredCell(table, training, r, s)]]
<1>1. FilteredSma(table, training) = Evaluated(k)
  BY DEF FilteredSma, Matrix, Calm
<1>2. k = g
  BY DEF FilteredCell
<1>3. g = [r \in 1..n |-> g[r]]
  OBVIOUS
<1> HIDE DEF g, k
<1>4. Evaluated(g) = g
  BY <1>3, EvaluatedIs
<1> QED
  BY <1>1, <1>2, <1>4 DEF g

Linear(table, coefficients, r, s) ==
  RowSum([i \in 1..6 |-> coefficients[i] * Standardised(table, LinearFeatures[i])[r][s]])

LEMMA LinearScoreIs ==
  ASSUME NEW table, NEW n \in Nat, Len(table) = n, DOMAIN table = 1..n, NEW coefficients
  PROVE  LinearScore(table, coefficients) = [r \in 1..n |-> [s \in Symbols |->
           ZScoreOf([x \in Symbols |-> Linear(table, coefficients, r, x)], s)]]
<1> DEFINE z == [i \in 1..6 |-> Standardised(table, LinearFeatures[i])]
           g == [r \in 1..n |-> [s \in Symbols |-> Linear(table, coefficients, r, s)]]
           h == [r \in 1..n |-> [s \in Symbols |-> RowSum([i \in 1..6 |-> coefficients[i] * z[i][r][s]])]]
<1>1. DOMAIN LinearFeatures = 1..6
  BY DEF LinearFeatures
<1>2. Evaluated(z) = z
  <2>1. z = [i \in 1..6 |-> z[i]]
    OBVIOUS
  <2> HIDE DEF z
  <2> QED
    BY <2>1, EvaluatedIs
<1> DEFINE D == DOMAIN LinearFeatures
           zz == Evaluated([i \in D |-> Standardised(table, LinearFeatures[i])])
           k == [r \in 1..n |-> [s \in Symbols |-> RowSum([i \in D |-> coefficients[i] * zz[i][r][s]])]]
<1>03. LinearScore(table, coefficients) = ZScore(Evaluated(k))
  BY DEF LinearScore, Matrix
<1>04. D = 1..6 /\ zz = z
  BY <1>1, <1>2
<1> HIDE DEF D, zz, z
<1>05. k = h
  BY <1>04
<1> HIDE DEF k, h
<1>3. LinearScore(table, coefficients) = ZScore(Evaluated(h))
  BY <1>03, <1>05
<1> USE DEF h, z
<1>4. h = g
  <2>1. \A r, s : [i \in 1..6 |-> coefficients[i] * z[i][r][s]]
                  = [i \in 1..6 |-> coefficients[i] * Standardised(table, LinearFeatures[i])[r][s]]
    OBVIOUS
  <2> HIDE DEF z
  <2> QED
    BY <2>1 DEF Linear
<1>5. g = [r \in 1..n |-> g[r]] /\ DOMAIN g = 1..n
  OBVIOUS
<1>6. \A r \in 1..n : g[r] = [x \in Symbols |-> Linear(table, coefficients, r, x)]
  OBVIOUS
<1> HIDE DEF g, h, z
<1>7. LinearScore(table, coefficients) = ZScore(g)
  BY <1>3, <1>4, <1>5, EvaluatedIs
<1>8. ZScore(g) = [r \in 1..n |-> [s \in Symbols |-> ZScoreOf(g[r], s)]]
  BY <1>5, ZScoreIs
<1> QED
  BY <1>6, <1>7, <1>8

LEMMA TrendIs ==
  ASSUME NEW table, NEW n \in Nat, Len(table) = n, DOMAIN table = 1..n, NEW lookback
  PROVE  Trend(table, lookback) = ForwardFill(SegmentReturn(Times(table), Returns(table), lookback))
<1> DEFINE g == SegmentReturn(Times(table), Returns(table), lookback)
           h == ForwardFill(g)
<1>1. g = [r \in 1..n |-> g[r]]
  BY DEF SegmentReturn, Returns, FeatureMatrix
<1>2. Trend(table, lookback) = Evaluated(ForwardFill(Evaluated(g)))
  BY DEF Trend, RollingReturn
<1>3. DOMAIN g = 1..n => h = [r \in 1..n |-> h[r]]
  BY DEF ForwardFill
<1> HIDE DEF g, h
<1>4. Evaluated(g) = g /\ DOMAIN g = 1..n
  BY <1>1, EvaluatedIs
<1>5. Evaluated(h) = h
  BY <1>3, <1>4, EvaluatedIs
<1> QED
  BY <1>2, <1>4, <1>5 DEF g, h

(* The gap of a row in a segment of enough rows, before it is carried on. *)
Gap(table, r, s) ==
  IF r - SegmentStart(Times(table), r) + 1 < Tuning.slow THEN NaN
  ELSE LET price == [k \in r - Tuning.slow + 1 .. r |-> SegmentPrice(table, k, s)]
       IN  Tuning.slow * SumOver(price, r - Tuning.fast + 1 .. r) - Tuning.fast * RowSum(price)
Gaps(table, n) == [r \in 1..n |-> [s \in Symbols |-> Gap(table, r, s)]]

LEMMA SmaGapIs ==
  ASSUME NEW table, NEW n \in Nat, Len(table) = n, DOMAIN table = 1..n
  PROVE  SmaGap(table) = ForwardFill(Gaps(table, n))
<1> DEFINE g == Gaps(table, n)
           h == ForwardFill(g)
<1>1. g = [r \in 1..n |-> g[r]]
  BY DEF Gaps
<1>2. SmaGap(table) = Evaluated(ForwardFill(Evaluated(g)))
  BY DEF SmaGap, Matrix, Gaps, Gap
<1>3. DOMAIN g = 1..n => h = [r \in 1..n |-> h[r]]
  BY DEF ForwardFill
<1> HIDE DEF g, h
<1>4. Evaluated(g) = g /\ DOMAIN g = 1..n
  BY <1>1, EvaluatedIs
<1>5. Evaluated(h) = h
  BY <1>3, <1>4, EvaluatedIs
<1> QED
  BY <1>2, <1>4, <1>5 DEF g, h

-----------------------------------------------------------------------------
(* Every score is a number or undefined. *)
Finite(row) == DOMAIN row = Symbols
Shaped(row) ==
  /\ Finite(row.feature.residual_1h) /\ Finite(row.feature.residual_4h) /\ Finite(row.feature.residual_24h)
  /\ Finite(row.feature.funding_current) /\ Finite(row.feature.funding_change)

Readings(table, n) ==
  /\ Len(table) = n /\ DOMAIN table = 1..n
  /\ \A r \in 1..n : Measured(table[r]) /\ Shaped(table[r])

LEMMA PanelReads ==
  ASSUME NEW past \in Seq(Hour), NEW table, table = BuildRows(past)
  PROVE  Readings(table, Len(table)) /\ Len(table) \in Nat
<1> DEFINE x == Features(past, FirstDecision)
           order == Ascending(Kept(past))
           returns == HourReturn(past, FirstDecision)
           residual == ResidualReturn(returns, RollingBeta(returns))
           n == Len(past) - FirstDecision + 1
<1>1. /\ Len(table) \in Nat /\ DOMAIN table = 1..Len(table) /\ DOMAIN order = 1..Len(table)
      /\ \A i \in 1..Len(table) : table[i] = RowOf(past, x, order[i]) /\ order[i] \in Kept(past)
  BY PanelRows
<1>2. /\ x.residual_1h = residual
      /\ x.residual_4h = TrailingSum(residual, ShortHours)
      /\ x.residual_24h = TrailingSum(residual, DayHours)
      /\ x.funding_current = FundingCurrent(past, FirstDecision)
      /\ x.funding_change = FundingChange(past, FirstDecision)
      /\ {"residual_1h", "residual_4h", "residual_24h", "funding_current", "funding_change"} \subseteq DOMAIN x
  BY DEF Features
<1>3. ASSUME NEW h \in Kept(past) PROVE Shaped(RowOf(past, x, h))
  <2> DEFINE d == h - FirstDecision + 1
             row == RowOf(past, x, h)
  <2>1. \A f \in DOMAIN x : row.feature[f] = x[f][d]
    BY DEF RowOf
  <2>2. d \in 1..n /\ n \in Int
    <3>1. h \in Nat /\ h >= FirstDecision /\ h <= Len(past) - 2
      <4>1. Kept(past) \in SUBSET DecisionHours(past)
        BY DEF Kept
      <4> QED
        BY <4>1, DecisionsFinite
    <3>2. FirstDecision \in Nat /\ Len(past) \in Nat
      BY WindowsAssumption, HoursAre DEF FirstDecision
    <3> QED
      BY <3>1, <3>2
  <2> HIDE DEF d, x, row
  <2>3. DOMAIN returns = 1..n
    BY DEF HourReturn
  <2> HIDE DEF returns
  <2>4. Finite(residual[d]) /\ DOMAIN residual = 1..n
    BY <2>2, <2>3 DEF ResidualReturn, Finite
  <2> HIDE DEF residual
  <2>5. Finite(TrailingSum(residual, ShortHours)[d]) /\ Finite(TrailingSum(residual, DayHours)[d])
    BY <2>2, <2>4 DEF TrailingSum, Finite
  <2>6. Finite(FundingCurrent(past, FirstDecision)[d]) /\ Finite(FundingChange(past, FirstDecision)[d])
    BY <2>2 DEF FundingCurrent, FundingChange, Finite
  <2>7. Shaped(row)
    BY <1>2, <2>1, <2>4, <2>5, <2>6 DEF Shaped
  <2> QED
    BY <2>7 DEF row
<1>4. \A i \in 1..Len(table) : Measured(table[i])
  BY PanelIsMeasured
<1> QED
  BY <1>1, <1>3, <1>4 DEF Readings

Value == Int \cup {NaN}
Valued(m, n) == m = [r \in 1..n |-> m[r]] /\ DOMAIN m = 1..n /\ \A r \in 1..n : m[r] \in [Symbols -> Value]
Numbered(m, n) == m = [r \in 1..n |-> m[r]] /\ DOMAIN m = 1..n /\ \A r \in 1..n : m[r] \in [Symbols -> Int]

LEMMA CellsValued ==
  ASSUME NEW n, NEW m, m = [r \in 1..n |-> [s \in Symbols |-> m[r][s]]],
         \A r \in 1..n : \A s \in Symbols : m[r][s] \in Value
  PROVE  Valued(m, n)
<1>1. ASSUME NEW r \in 1..n PROVE m[r] \in [Symbols -> Value]
  <2>1. m[r] = [s \in Symbols |-> m[r][s]]
    OBVIOUS
  <2> QED
    BY <2>1
<1>2. m = [r \in 1..n |-> m[r]] /\ DOMAIN m = 1..n
  <2> DEFINE g == [r \in 1..n |-> [s \in Symbols |-> m[r][s]]]
  <2>1. g = [r \in 1..n |-> g[r]] /\ DOMAIN g = 1..n
    OBVIOUS
  <2>2. m = g
    OBVIOUS
  <2> QED
    BY ONLY <2>1, <2>2
<1> QED
  BY <1>1, <1>2 DEF Valued

LEMMA CellsNumbered ==
  ASSUME NEW n, NEW m, m = [r \in 1..n |-> [s \in Symbols |-> m[r][s]]],
         \A r \in 1..n : \A s \in Symbols : m[r][s] \in Int
  PROVE  Numbered(m, n)
<1>1. ASSUME NEW r \in 1..n PROVE m[r] \in [Symbols -> Int]
  <2>1. m[r] = [s \in Symbols |-> m[r][s]]
    OBVIOUS
  <2> QED
    BY <2>1
<1>2. m = [r \in 1..n |-> m[r]] /\ DOMAIN m = 1..n
  <2> DEFINE g == [r \in 1..n |-> [s \in Symbols |-> m[r][s]]]
  <2>1. g = [r \in 1..n |-> g[r]] /\ DOMAIN g = 1..n
    OBVIOUS
  <2>2. m = g
    OBVIOUS
  <2> QED
    BY ONLY <2>1, <2>2
<1> QED
  BY <1>1, <1>2 DEF Numbered

LEMMA NumberedIsValued == \A m, n : Numbered(m, n) => Valued(m, n)
  BY DEF Numbered, Valued, Value

LEMMA StandardisedType ==
  ASSUME NEW table, NEW n \in Nat, Len(table) = n, DOMAIN table = 1..n, NEW f,
         \A r \in 1..n : Finite(table[r].feature[f])
  PROVE  \A r \in 1..n : \A s \in Symbols : Standardised(table, f)[r][s] \in Int
<1> TAKE r \in 1..n
<1> TAKE s \in Symbols
<1> DEFINE x == table[r].feature[f]
<1>1. Standardised(table, f)[r][s] = ZScoreOf(x, s)
  BY StandardisedIs
<1>2. DOMAIN x = Symbols
  BY DEF Finite
<1> HIDE DEF x
<1>3. IsFiniteSet(DOMAIN x)
  BY <1>2, CountIs
<1> QED
  BY <1>1, <1>3, ZScoreType

LEMMA Weight3 ==
  ASSUME NEW w \in [1..3 -> Int], NEW a \in Int, NEW b \in Int, NEW c \in Int
  PROVE  /\ w[1] * a + w[2] * b + w[3] * c \in Int
         /\ w[3] * c - w[1] * a - w[2] * b \in Int
         /\ -(w[1] * a + w[2] * b) \in Int
<1>1. w[1] \in Int /\ w[2] \in Int /\ w[3] \in Int
  OBVIOUS
<1>2. w[1] * a \in Int /\ w[2] * b \in Int /\ w[3] * c \in Int
  BY <1>1, Times2
<1> QED
  BY <1>2

LEMMA ResidualMomentumType ==
  ASSUME NEW table, NEW n \in Nat, Readings(table, n)
  PROVE  Numbered(ResidualMomentum(table), n)
<1> DEFINE m == ResidualMomentum(table)
           a == Standardised(table, "residual_1h")
           b == Standardised(table, "residual_4h")
           c == Standardised(table, "residual_24h")
<1>1. Len(table) = n /\ DOMAIN table = 1..n
  BY DEF Readings
<1>2. m = [r \in 1..n |-> [s \in Symbols |->
            Tuning.momentum[1] * a[r][s] + Tuning.momentum[2] * b[r][s] + Tuning.momentum[3] * c[r][s]]]
  BY <1>1, ResidualMomentumIs
<1>3. \A r \in 1..n : \A s \in Symbols : a[r][s] \in Int /\ b[r][s] \in Int /\ c[r][s] \in Int
  BY <1>1, StandardisedType DEF Readings, Shaped
<1>4. Tuning.momentum \in [1..3 -> Int]
  BY TuningAssumption
<1> HIDE DEF m, a, b, c
<1>5. \A r \in 1..n : \A s \in Symbols : m[r][s] \in Int
  BY <1>2, <1>3, <1>4, Weight3
<1>6. m = [r \in 1..n |-> [s \in Symbols |-> m[r][s]]]
  BY <1>2
<1>7. Numbered(m, n)
  BY <1>5, <1>6, CellsNumbered
<1> QED
  BY <1>7 DEF m

LEMMA FundingCarryType ==
  ASSUME NEW table, NEW n \in Nat, Readings(table, n)
  PROVE  Numbered(FundingCarry(table), n)
<1> DEFINE m == FundingCarry(table)
           a == Standardised(table, "funding_current")
           b == Standardised(table, "funding_change")
           c == Standardised(table, "residual_4h")
<1>1. Len(table) = n /\ DOMAIN table = 1..n
  BY DEF Readings
<1>2. m = [r \in 1..n |-> [s \in Symbols |->
            Tuning.carry[3] * c[r][s] - Tuning.carry[1] * a[r][s] - Tuning.carry[2] * b[r][s]]]
  BY <1>1, FundingCarryIs
<1>3. \A r \in 1..n : \A s \in Symbols : a[r][s] \in Int /\ b[r][s] \in Int /\ c[r][s] \in Int
  BY <1>1, StandardisedType DEF Readings, Shaped
<1>4. Tuning.carry \in [1..3 -> Int]
  BY TuningAssumption
<1> HIDE DEF m, a, b, c
<1>5. \A r \in 1..n : \A s \in Symbols : m[r][s] \in Int
  BY <1>2, <1>3, <1>4, Weight3
<1>6. m = [r \in 1..n |-> [s \in Symbols |-> m[r][s]]]
  BY <1>2
<1>7. Numbered(m, n)
  BY <1>5, <1>6, CellsNumbered
<1> QED
  BY <1>7 DEF m

(* The order statistics of a row are among its values. *)
LEMMA OrderStatisticIs ==
  ASSUME NEW row \in [Symbols -> Nat], NEW k \in 1..Count
  PROVE  OrderStatistic(row, k) \in Nat
<1> DEFINE K == {row[s] : s \in Symbols}
           Up(v) == {s \in Symbols : row[s] <= v}
           Below(v) == {s \in Symbols : row[s] < v}
           V == {v \in K : k <= Cardinality(Up(v))}
           m == Min(V)
<1>1. K \in SUBSET Int /\ K # {} /\ \A v \in K : v \in Nat /\ \E s \in Symbols : v = row[s]
  BY AnchorsAssumption
<1>2. \A s \in Symbols : row[s] \in K /\ row[s] \in Nat
  OBVIOUS
<1>3. \A v : /\ Up(v) \in SUBSET Symbols /\ Below(v) \in SUBSET Symbols
             /\ IsFiniteSet(Up(v)) /\ IsFiniteSet(Below(v))
             /\ Cardinality(Up(v)) \in Nat /\ Cardinality(Below(v)) \in Nat
  <2> TAKE v
  <2>1. Up(v) \in SUBSET Symbols /\ Below(v) \in SUBSET Symbols
    OBVIOUS
  <2> HIDE DEF Up, Below
  <2> QED
    BY <2>1, CountIs, FS_Subset, FS_CardinalityType
<1>4. \A v : \A s : (s \in Up(v) <=> s \in Symbols /\ row[s] <= v) /\ (s \in Below(v) <=> s \in Symbols /\ row[s] < v)
  OBVIOUS
<1>5. OrderStatistic(row, k) = CHOOSE v \in K : Cardinality(Below(v)) < k /\ k <= Cardinality(Up(v))
  BY DEF OrderStatistic
<1>6. \A v : v \in V <=> v \in K /\ k <= Cardinality(Up(v))
  OBVIOUS
<1>7. IsFiniteSet(K)
  <2>1. \A y \in K : \E s \in Symbols : y = row[s]
    BY <1>1
  <2> HIDE DEF K
  <2> QED
    BY <2>1, CountIs, FiniteImage
<1> HIDE DEF K, Up, Below, V, m
<1>8. Max(K) \in K /\ \A y \in K : y <= Max(K)
  BY <1>1, <1>7, MaxIs
<1>9. Max(K) \in V
  <2>1. Up(Max(K)) = Symbols
    <3>1. \A s \in Symbols : s \in Up(Max(K))
      BY <1>2, <1>4, <1>8
    <3> QED
      BY <1>3, <3>1
  <2> QED
    BY <1>6, <1>8, <2>1 DEF Count
<1>10. V \in SUBSET Int /\ IsFiniteSet(V)
  <2>1. V \in SUBSET K
    BY <1>6
  <2> QED
    BY <1>1, <1>7, <2>1, FS_Subset
<1>11. m \in V /\ \A y \in V : m <= y
  BY <1>9, <1>10, MinIs DEF m
<1>12. Cardinality(Below(m)) < k
  <2>1. CASE Below(m) = {}
    BY <2>1, FS_EmptySet
  <2>2. CASE Below(m) # {}
    <3> DEFINE B == {v \in K : v < m}
               y == Max(B)
    <3>1. m \in Int /\ B \in SUBSET K /\ B \in SUBSET Int
      BY <1>1, <1>6, <1>11
    <3>2. IsFiniteSet(B)
      BY <1>7, <3>1, FS_Subset
    <3>3. B # {}
      BY <1>2, <1>4, <2>2
    <3>4. y \in B /\ \A x \in B : x <= y
      <4> HIDE DEF B
      <4> QED
        BY <3>1, <3>2, <3>3, MaxIs
    <3>5. y \in K /\ y < m /\ y \in Int
      BY <3>1, <3>4
    <3>6. \A s \in Symbols : row[s] < m => row[s] <= y
      BY <1>2, <3>4
    <3> HIDE DEF B, y
    <3>7. Below(m) \in SUBSET Up(y)
      BY <1>4, <3>6
    <3>8. Cardinality(Below(m)) <= Cardinality(Up(y))
      BY <1>3, <3>7, FS_Subset
    <3>9. ~(k <= Cardinality(Up(y)))
      <4>1. y \notin V
        BY <1>10, <1>11, <3>1, <3>5
      <4> QED
        BY <1>6, <3>5, <4>1
    <3>10. Cardinality(Below(m)) \in Nat /\ Cardinality(Up(y)) \in Nat
      BY <1>3
    <3> QED
      BY <3>8, <3>9, <3>10
  <2> QED
    BY <2>1, <2>2
<1>13. m \in K /\ Cardinality(Below(m)) < k /\ k <= Cardinality(Up(m))
  BY <1>6, <1>11, <1>12
<1>14. OrderStatistic(row, k) \in K
  BY <1>5, <1>13
<1> QED
  BY <1>1, <1>14

LEMMA DoubledMedianType ==
  ASSUME NEW row \in [Symbols -> Nat]
  PROVE  DoubledMedian(row) \in Nat
<1> DEFINE a == (Count + 1) \div 2
           b == Count \div 2 + 1
<1>1. a \in 1..Count /\ b \in 1..Count
  BY CountIs
<1>2. DoubledMedian(row) = OrderStatistic(row, a) + OrderStatistic(row, b)
  BY DEF DoubledMedian, Count
<1> HIDE DEF a, b
<1>3. OrderStatistic(row, a) \in Nat /\ OrderStatistic(row, b) \in Nat
  BY <1>1, OrderStatisticIs
<1> QED
  BY <1>2, <1>3

LEMMA MaxOfTwo == \A a \in Nat : Max({a, 1}) \in Nat /\ Max({a, 1}) >= 1
<1> TAKE a \in Nat
<1> DEFINE S == {a, 1}
<1>1. S \in SUBSET Int /\ S # {} /\ 1 \in S /\ a \in S
  OBVIOUS
<1>2. IsFiniteSet(S)
  <2>1. IsFiniteSet({a}) /\ IsFiniteSet({1})
    BY FS_Singleton
  <2>2. S = {a} \cup {1}
    OBVIOUS
  <2> QED
    BY <2>1, <2>2, FS_Union
<1>3. \A x \in S : x \in Nat
  OBVIOUS
<1> HIDE DEF S
<1>4. Max(S) \in S /\ \A y \in S : y <= Max(S)
  BY <1>1, <1>2, MaxIs
<1>5. Max(S) \in Nat /\ Max(S) >= 1
  BY <1>1, <1>3, <1>4
<1> QED
  BY <1>5 DEF S

LEMMA ResidualMeanReversionType ==
  ASSUME NEW table, NEW n \in Nat, Readings(table, n)
  PROVE  Numbered(ResidualMeanReversion(table), n)
<1> DEFINE m == ResidualMeanReversion(table)
           vol(r) == table[r].feature.volatility
           D(r) == DoubledMedian(vol(r))
<1>1. Len(table) = n /\ DOMAIN table = 1..n
  BY DEF Readings
<1>2. m = [r \in 1..n |-> [s \in Symbols |->
            IF D(r) = 0 THEN Reversed(table, r, s)
            ELSE Quot(Reversed(table, r, s) * D(r), 2 * Max({vol(r)[s], 1}))]]
  BY <1>1, ResidualMeanReversionIs
<1>3. \A r \in 1..n : \A s \in Symbols :
        Standardised(table, "residual_1h")[r][s] \in Int /\ Standardised(table, "residual_4h")[r][s] \in Int
  BY <1>1, StandardisedType DEF Readings, Shaped
<1>4. Tuning.momentum \in [1..3 -> Int]
  BY TuningAssumption
<1>5. \A r \in 1..n : \A s \in Symbols : Reversed(table, r, s) \in Int
  BY <1>3, <1>4, Weight3 DEF Reversed
<1>6. \A r \in 1..n : vol(r) \in [Symbols -> Nat]
  BY DEF Readings, Measured
<1> HIDE DEF m, vol
<1>7. \A r \in 1..n : D(r) \in Nat
  BY <1>6, DoubledMedianType
<1> HIDE DEF D
<1>8. \A r \in 1..n : \A s \in Symbols : m[r][s] \in Int
  <2> TAKE r \in 1..n
  <2> TAKE s \in Symbols
  <2> DEFINE a == Reversed(table, r, s) * D(r)
             b == 2 * Max({vol(r)[s], 1})
  <2>1. m[r][s] = IF D(r) = 0 THEN Reversed(table, r, s) ELSE Quot(a, b)
    BY <1>2
  <2>2. a \in Int
    BY <1>5, <1>7, Times2
  <2>3. b \in Int /\ b > 0
    <3>1. vol(r)[s] \in Nat
      BY <1>6
    <3>2. Max({vol(r)[s], 1}) \in Nat /\ Max({vol(r)[s], 1}) >= 1
      BY <3>1, MaxOfTwo
    <3> QED
      BY <3>2
  <2> HIDE DEF a, b
  <2>4. Quot(a, b) \in Int
    BY <2>2, <2>3, QuotIs
  <2> QED
    BY <1>5, <2>1, <2>4
<1>9. m = [r \in 1..n |-> [s \in Symbols |-> m[r][s]]]
  BY <1>2
<1>10. Numbered(m, n)
  BY <1>8, <1>9, CellsNumbered
<1> QED
  BY <1>10 DEF m

-----------------------------------------------------------------------------
(* Trends over a segment. *)

LEMMA PartOfInterval ==
  ASSUME NEW a \in Int, NEW b \in Int, NEW K \in SUBSET (a..b)
  PROVE  IsFiniteSet(K) /\ K \in SUBSET Int
<1>1. IsFiniteSet(a..b)
  BY IntervalFinite
<1>2. IsFiniteSet(K)
  BY <1>1, FS_Subset
<1> QED
  BY <1>2

LEMMA SegmentStartIs ==
  ASSUME NEW times, NEW r \in Nat \ {0}
  PROVE  SegmentStart(times, r) \in 1..r
<1> DEFINE K == {k \in 1..r : k = 1 \/ times[k] # times[k - 1] + 1}
<1>1. K \in SUBSET (1..r) /\ 1 \in K
  OBVIOUS
<1>2. SegmentStart(times, r) = Max(K)
  BY DEF SegmentStart
<1> HIDE DEF K
<1>3. IsFiniteSet(K) /\ K \in SUBSET Int
  <2>1. 1 \in Int /\ r \in Int
    OBVIOUS
  <2> QED
    BY ONLY <1>1, <2>1, PartOfInterval
<1>4. Max(K) \in K
  BY <1>1, <1>3, MaxIs
<1> QED
  BY <1>1, <1>2, <1>4

LEMMA ForwardFillValued ==
  ASSUME NEW n \in Nat, NEW m, Valued(m, n)
  PROVE  Valued(ForwardFill(m), n)
<1> DEFINE finite(r, s) == {k \in 1..r : m[k][s] # NaN}
           cell(r, s) == IF finite(r, s) = {} THEN NaN ELSE m[Max(finite(r, s))][s]
           f == ForwardFill(m)
<1>1. DOMAIN m = 1..n /\ \A r \in 1..n : m[r] \in [Symbols -> Value]
  BY DEF Valued
<1>2. f = [r \in 1..n |-> [s \in Symbols |-> cell(r, s)]]
  BY <1>1 DEF ForwardFill
<1>3. ASSUME NEW r \in 1..n, NEW s \in Symbols PROVE cell(r, s) \in Value
  <2> DEFINE K == finite(r, s)
  <2> SUFFICES ASSUME K # {} PROVE m[Max(K)][s] \in Value
    BY DEF Value
  <2>1. K \in SUBSET (1..r) /\ r \in Int /\ K # {}
    OBVIOUS
  <2> HIDE DEF K
  <2>2. IsFiniteSet(K) /\ K \in SUBSET Int
    <3>1. 1 \in Int
      OBVIOUS
    <3> QED
      BY ONLY <2>1, <3>1, PartOfInterval
  <2>3. Max(K) \in K
    BY <2>1, <2>2, MaxIs
  <2>03. \A k \in K : k \in 1..n
    BY <2>1
  <2>4. Max(K) \in 1..n
    BY <2>3, <2>03
  <2> QED
    BY <1>1, <2>4
<1> HIDE DEF f, cell
<1>4. f = [r \in 1..n |-> [s \in Symbols |-> f[r][s]]]
  BY <1>2
<1>5. \A r \in 1..n : \A s \in Symbols : f[r][s] \in Value
  BY <1>2, <1>3
<1>6. Valued(f, n)
  BY <1>4, <1>5, CellsValued
<1> QED
  BY <1>6 DEF f

(* The sum of a window that lies inside the column. *)
LEMMA WindowTotal ==
  ASSUME NEW m, NEW n \in Nat, NEW s, \A k \in 1..n : m[k][s] \in Int, NEW r \in 1..n, NEW w \in Int, r - w >= 0
  PROVE  RowSum(Window(m, s, r, w)) \in Int
<1> DEFINE D == r - w + 1 .. r
<1>1. \A k \in D : m[k][s] \in Int
  OBVIOUS
<1>2. Window(m, s, r, w) \in [D -> Int]
  BY <1>1, WindowIs
<1>3. IsFiniteSet(D)
  <2>1. r - w + 1 \in Int /\ r \in Int
    OBVIOUS
  <2> QED
    BY <2>1, IntervalFinite
<1> HIDE DEF D
<1> QED
  BY <1>2, <1>3, TotalIsSum

LEMMA SegmentReturnValued ==
  ASSUME NEW n \in Nat, NEW m, Numbered(m, n), NEW times, NEW w \in Nat \ {0}
  PROVE  Valued(SegmentReturn(times, m, w), n)
<1> DEFINE cell(r, s) == IF r - SegmentStart(times, r) + 1 >= w THEN RowSum(Window(m, s, r, w)) ELSE NaN
           f == SegmentReturn(times, m, w)
<1>1. DOMAIN m = 1..n /\ \A r \in 1..n : m[r] \in [Symbols -> Int]
  BY DEF Numbered
<1>2. f = [r \in 1..n |-> [s \in Symbols |-> cell(r, s)]]
  BY <1>1 DEF SegmentReturn
<1>3. ASSUME NEW r \in 1..n, NEW s \in Symbols PROVE cell(r, s) \in Value
  <2> SUFFICES ASSUME r - SegmentStart(times, r) + 1 >= w PROVE RowSum(Window(m, s, r, w)) \in Int
    BY DEF Value
  <2>1. SegmentStart(times, r) \in 1..r
    BY SegmentStartIs
  <2>2. r - w >= 0
    BY <2>1
  <2>3. \A k \in 1..n : m[k][s] \in Int
    BY <1>1
  <2> QED
    BY <2>2, <2>3, WindowTotal
<1> HIDE DEF f, cell
<1>4. f = [r \in 1..n |-> [s \in Symbols |-> f[r][s]]]
  BY <1>2
<1>5. \A r \in 1..n : \A s \in Symbols : f[r][s] \in Value
  BY <1>2, <1>3
<1>6. Valued(f, n)
  BY <1>4, <1>5, CellsValued
<1> QED
  BY <1>6 DEF f

LEMMA ReturnsNumbered ==
  ASSUME NEW table, NEW n \in Nat, Readings(table, n)
  PROVE  /\ Numbered(Returns(table), n)
         /\ \A k \in 1..n : \A s \in Symbols : Returns(table)[k][s] \in Int
<1>1. /\ DOMAIN Returns(table) = 1..n /\ \A r \in 1..n : Returns(table)[r] = table[r].feature.log_return
      /\ Returns(table) = [r \in 1..n |-> Returns(table)[r]]
  BY DEF Readings, Returns, FeatureMatrix
<1>2. \A r \in 1..n : Returns(table)[r] \in [Symbols -> Int]
  BY <1>1 DEF Readings, Measured
<1>3. Numbered(Returns(table), n)
  BY <1>1, <1>2 DEF Numbered
<1> QED
  BY <1>2, <1>3

LEMMA TrendValued ==
  ASSUME NEW table, NEW n \in Nat, Readings(table, n), NEW w \in Nat \ {0}
  PROVE  Valued(Trend(table, w), n)
<1>1. Len(table) = n /\ DOMAIN table = 1..n
  BY DEF Readings
<1>2. Trend(table, w) = ForwardFill(SegmentReturn(Times(table), Returns(table), w))
  BY <1>1, TrendIs
<1> QED
  BY <1>2, ReturnsNumbered, SegmentReturnValued, ForwardFillValued

LEMMA SegmentPriceType ==
  ASSUME NEW table, NEW n \in Nat, Readings(table, n), NEW r \in 1..n, NEW s \in Symbols
  PROVE  SegmentPrice(table, r, s) \in Int
<1> DEFINE a == SegmentStart(Times(table), r) + 1
           D == a .. r
           col == [k \in 1..r |-> Returns(table)[k][s]]
           f == [k \in D |-> col[k]]
<1>1. a \in Int /\ a >= 1
  BY SegmentStartIs
<1>2. SegmentPrice(table, r, s) = RowSum(f)
  BY DEF SegmentPrice, SumOver
<1> HIDE DEF a
<1>3. \A k \in D : k \in 1..r /\ k \in 1..n
  BY <1>1
<1>4. \A k \in D : col[k] \in Int
  BY <1>3, ReturnsNumbered
<1> HIDE DEF col
<1>5. f \in [D -> Int] /\ IsFiniteSet(D)
  BY <1>1, <1>4, IntervalFinite
<1> HIDE DEF f, D
<1> QED
  BY <1>2, <1>5, TotalIsSum

LEMMA GapType ==
  ASSUME NEW table, NEW n \in Nat, Readings(table, n), NEW r \in 1..n, NEW s \in Symbols
  PROVE  Gap(table, r, s) \in Value
<1> DEFINE D == r - Tuning.slow + 1 .. r
           E == r - Tuning.fast + 1 .. r
           price == [k \in D |-> SegmentPrice(table, k, s)]
           f == [k \in E |-> price[k]]
<1>1. Tuning.slow \in Nat \ {0} /\ Tuning.fast \in Nat \ {0} /\ Tuning.fast < Tuning.slow
  BY TuningAssumption
<1> SUFFICES ASSUME ~(r - SegmentStart(Times(table), r) + 1 < Tuning.slow)
             PROVE  Tuning.slow * RowSum(f) - Tuning.fast * RowSum(price) \in Int
  BY DEF Gap, Value, SumOver
<1>2. SegmentStart(Times(table), r) \in 1..r
  BY SegmentStartIs
<1>3. \A k \in D : k \in 1..n
  BY <1>1, <1>2
<1>4. price \in [D -> Int]
  BY <1>3, SegmentPriceType
<1>5. \A k \in E : k \in D
  BY <1>1
<1>6. f \in [E -> Int]
  <2> HIDE DEF price, D
  <2> QED
    BY <1>4, <1>5
<1>7. IsFiniteSet(D) /\ IsFiniteSet(E)
  BY <1>1, IntervalFinite
<1> HIDE DEF D, E, f, price
<1>8. RowSum(f) \in Int /\ RowSum(price) \in Int
  BY <1>4, <1>6, <1>7, TotalIsSum
<1>9. Tuning.slow * RowSum(f) \in Int /\ Tuning.fast * RowSum(price) \in Int
  BY <1>1, <1>8, Times2
<1> QED
  BY <1>9

LEMMA SmaGapValued ==
  ASSUME NEW table, NEW n \in Nat, Readings(table, n)
  PROVE  Valued(SmaGap(table), n)
<1> DEFINE g == Gaps(table, n)
<1>1. SmaGap(table) = ForwardFill(g)
  BY SmaGapIs DEF Readings
<1>2. g = [r \in 1..n |-> [s \in Symbols |-> g[r][s]]] /\ \A r \in 1..n : \A s \in Symbols : g[r][s] \in Value
  BY GapType DEF Gaps
<1> HIDE DEF g
<1>3. Valued(g, n)
  BY <1>2, CellsValued
<1> QED
  BY <1>1, <1>3, ForwardFillValued

(* The breakout rule's positions are unit positions. *)
LEMMA SignalIs ==
  ASSUME NEW price, NEW n \in Nat, Len(price) = n
  PROVE  \A r \in 0..n : SegmentSignal(price)[r] \in {-1, 0, 1}
<1> DEFINE high == PriorHigh(price, Tuning.slow)
           low == PriorLow(price, Tuning.slow)
           exitHigh == PriorHigh(price, Tuning.fast)
           exitLow == PriorLow(price, Tuning.fast)
           Moved(held, r) ==
             IF price[r] > high[r] THEN 1
             ELSE IF price[r] < low[r] THEN -1
             ELSE IF \/ held > 0 /\ price[r] < exitLow[r]
                     \/ held < 0 /\ price[r] > exitHigh[r] THEN 0
             ELSE held
           body(g, m) == [r \in 0..m |-> IF r <= Tuning.slow THEN 0 ELSE Moved(g[r - 1], r)]
           state == CHOOSE g : g = body(g, n)
<1>1. SegmentSignal(price) = state
  BY DEF SegmentSignal
<1>2. \A held, r : Moved(held, r) \in {1, -1, 0, held}
  OBVIOUS
<1> HIDE DEF high, low, exitHigh, exitLow, Moved
<1>03. Tuning.slow \in Nat \ {0}
  BY TuningAssumption
<1>3. \E g : g = body(g, n)
  <2> DEFINE P == {m \in Nat : \E g : g = body(g, m)}
  <2>1. 0 \in P
    <3> DEFINE g == [r \in 0..0 |-> 0]
    <3>1. g = body(g, 0)
      BY <1>03
    <3> HIDE DEF g, body
    <3>2. \E k : k = body(k, 0)
      BY <3>1
    <3> QED
      BY <3>2
  <2>2. ASSUME NEW m \in Nat, m \in P PROVE m + 1 \in P
    <3>1. PICK g : g = body(g, m)
      BY <2>2
    <3> DEFINE h == [r \in 0..(m + 1) |-> IF r <= Tuning.slow THEN 0 ELSE Moved(g[r - 1], r)]
    <3>2. \A r \in 0..m : h[r] = g[r]
      <4>1. \A r \in 0..m : g[r] = IF r <= Tuning.slow THEN 0 ELSE Moved(g[r - 1], r)
        BY <3>1
      <4> QED
        BY <4>1
    <3>3. \A r \in 0..(m + 1) : ~(r <= Tuning.slow) => r - 1 \in 0..m
      BY <1>03
    <3>4. \A r \in 0..(m + 1) : h[r] = IF r <= Tuning.slow THEN 0 ELSE Moved(h[r - 1], r)
      BY <3>2, <3>3
    <3>5. h = body(h, m + 1)
      BY <3>4
    <3> HIDE DEF h, body
    <3>6. \E k : k = body(k, m + 1)
      BY <3>5
    <3> QED
      BY <3>6
  <2> HIDE DEF P
  <2>3. n \in P
    BY <2>1, <2>2, NumberInduction
  <2> QED
    BY <2>3 DEF P
<1>4. state = body(state, n)
  BY <1>3
<1> HIDE DEF state
<1>5. \A r \in 0..n : state[r] = IF r <= Tuning.slow THEN 0 ELSE Moved(state[r - 1], r)
  BY <1>4
<1> DEFINE Q == {m \in Nat : m <= n => state[m] \in {-1, 0, 1}}
<1>6. 0 \in Q
  BY <1>03, <1>5
<1>7. ASSUME NEW m \in Nat, m \in Q PROVE m + 1 \in Q
  <2> SUFFICES ASSUME m + 1 <= n PROVE state[m + 1] \in {-1, 0, 1}
    OBVIOUS
  <2>1. state[m + 1] = IF m + 1 <= Tuning.slow THEN 0 ELSE Moved(state[m], m + 1)
    BY <1>5
  <2>2. state[m] \in {-1, 0, 1}
    BY <1>7
  <2>3. Moved(state[m], m + 1) \in {1, -1, 0, state[m]}
    BY <1>2
  <2> QED
    BY <2>1, <2>2, <2>3
<1> HIDE DEF Q
<1>8. \A m \in Nat : m \in Q
  BY <1>6, <1>7, NumberInduction
<1>9. \A r \in 0..n : state[r] \in {-1, 0, 1}
  <2>1. \A r \in 0..n : r \in Q /\ r \in Nat /\ r <= n
    BY <1>8
  <2> QED
    BY <2>1 DEF Q
<1> QED
  BY <1>1, <1>9

LEMMA BreakoutType ==
  ASSUME NEW table, NEW n \in Nat, Readings(table, n)
  PROVE  Numbered(Breakout(table), n)
<1> DEFINE m == Breakout(table)
           start(r) == SegmentStart(Times(table), r)
           price(r, s) == [k \in 1..(r - start(r) + 1) |-> SegmentPrice(table, start(r) + k - 1, s)]
<1>1. Len(table) = n /\ DOMAIN table = 1..n
  BY DEF Readings
<1>2. m = [r \in 1..n |-> [s \in Symbols |-> SegmentSignal(price(r, s))[r - start(r) + 1]]]
  BY <1>1, BreakoutIs
<1>3. ASSUME NEW r \in 1..n, NEW s \in Symbols
      PROVE  SegmentSignal(price(r, s))[r - start(r) + 1] \in {-1, 0, 1}
  <2> DEFINE l == r - start(r) + 1
  <2>1. l \in Nat /\ l \in 0..l
    BY SegmentStartIs
  <2>2. Len(price(r, s)) = l
    BY <2>1
  <2> HIDE DEF l, price
  <2>3. SegmentSignal(price(r, s))[l] \in {-1, 0, 1}
    BY <2>1, <2>2, SignalIs
  <2> QED
    BY <2>3 DEF l
<1> HIDE DEF m, price
<1>4. \A r \in 1..n : \A s \in Symbols : m[r][s] \in Int
  <2>1. \A r \in 1..n : \A s \in Symbols : m[r][s] \in {-1, 0, 1}
    BY <1>2, <1>3
  <2> QED
    BY <2>1
<1>5. m = [r \in 1..n |-> [s \in Symbols |-> m[r][s]]]
  BY <1>2
<1>6. Numbered(m, n)
  BY <1>4, <1>5, CellsNumbered
<1> QED
  BY <1>6 DEF m

LEMMA RegimeTrendValued ==
  ASSUME NEW table, NEW n \in Nat, Readings(table, n)
  PROVE  Valued(RegimeTrend(table), n)
<1> DEFINE m == RegimeTrend(table)
<1>1. Len(table) = n /\ DOMAIN table = 1..n
  BY DEF Readings
<1>2. /\ m = [r \in 1..n |-> [s \in Symbols |-> m[r][s]]]
      /\ \A r \in 1..n : \A s \in Symbols : m[r][s] \in {NaN, Tenths, 0}
  BY <1>1, RegimeTrendIs
<1> HIDE DEF m
<1>3. \A r \in 1..n : \A s \in Symbols : m[r][s] \in Value
  BY <1>2 DEF Tenths, Value
<1>4. Valued(m, n)
  BY <1>2, <1>3, CellsValued
<1> QED
  BY <1>4 DEF m

LEMMA HorizonVotesValued ==
  ASSUME NEW table, NEW n \in Nat, Readings(table, n)
  PROVE  Valued(HorizonVotes(table), n)
<1> DEFINE m == HorizonVotes(table)
           vote(r, s) == [i \in 1..3 |-> Tuning.votes[i] * Sign(Trend(table, Tuning.horizons[i])[r][s])]
<1>1. Len(table) = n /\ DOMAIN table = 1..n
  BY DEF Readings
<1>2. /\ m = [r \in 1..n |-> [s \in Symbols |-> m[r][s]]]
      /\ \A r \in 1..n : \A s \in Symbols : m[r][s] = NaN \/ m[r][s] = RowSum(vote(r, s))
  BY <1>1, HorizonVotesIs
<1>3. ASSUME NEW r, NEW s PROVE RowSum(vote(r, s)) \in Int
  <2> DEFINE v == vote(r, s)
  <2>1. \A i \in 1..3 : Tuning.votes[i] \in Int
    BY TuningAssumption
  <2>2. \A x : Sign(x) \in Int
    BY SignIs
  <2>02. ASSUME NEW i \in 1..3
         PROVE  Tuning.votes[i] * Sign(Trend(table, Tuning.horizons[i])[r][s]) \in Int
    BY ONLY i \in 1..3, <2>1, <2>2, Times2
  <2>03. v = [i \in 1..3 |-> v[i]] /\ \A i \in 1..3 : v[i] \in Int
    BY <2>02
  <2>3. v \in [1..3 -> Int]
    <3> HIDE DEF v
    <3> QED
      BY ONLY <2>03
  <2> HIDE DEF v
  <2>04. IsFiniteSet(1..3)
    <3>1. 1 \in Int /\ 3 \in Int /\ (1..3) \in SUBSET (1..3)
      OBVIOUS
    <3> QED
      BY ONLY <3>1, PartOfInterval
  <2>4. RowSum(v) \in Int
    BY <2>3, <2>04, TotalIsSum
  <2> QED
    BY <2>4 DEF v
<1> HIDE DEF m, vote
<1>4. \A r \in 1..n : \A s \in Symbols : m[r][s] \in Value
  BY <1>2, <1>3 DEF Value
<1>5. Valued(m, n)
  BY <1>2, <1>4, CellsValued
<1> QED
  BY <1>5 DEF m

LEMMA FilteredSmaValued ==
  ASSUME NEW table, NEW n \in Nat, Readings(table, n), NEW training
  PROVE  Valued(FilteredSma(table, training), n)
<1> DEFINE m == FilteredSma(table, training)
           gap == SmaGap(table)
<1>1. Len(table) = n /\ DOMAIN table = 1..n
  BY DEF Readings
<1>2. m = [r \in 1..n |-> [s \in Symbols |-> FilteredCell(table, training, r, s)]]
  BY <1>1, FilteredSmaIs
<1>3. \A r \in 1..n : \A s \in Symbols : gap[r][s] \in Value
  BY SmaGapValued DEF Valued
<1>04. \A r, s : FilteredCell(table, training, r, s) \in {NaN, 0, gap[r][s]}
  BY DEF FilteredCell
<1> HIDE DEF m, gap
<1>4. \A r \in 1..n : \A s \in Symbols : m[r][s] \in Value
  BY <1>2, <1>3, <1>04 DEF Value
<1>05. m = [r \in 1..n |-> [s \in Symbols |-> m[r][s]]]
  BY <1>2
<1>5. Valued(m, n)
  BY <1>05, <1>4, CellsValued
<1> QED
  BY <1>5 DEF m

LEMMA StandardisedTrendValued ==
  ASSUME NEW n \in Nat, NEW x, Valued(x, n)
  PROVE  Valued(StandardisedTrend(x), n)
<1> DEFINE m == StandardisedTrend(x)
<1>1. DOMAIN x = 1..n /\ \A r \in 1..n : DOMAIN x[r] = Symbols
  BY DEF Valued
<1>2. /\ m = [r \in 1..n |-> [s \in Symbols |-> m[r][s]]]
      /\ \A r \in 1..n : \A s \in Symbols : m[r][s] \in {NaN, ZScoreOf(x[r], s)}
  BY <1>1, StandardisedTrendIs
<1>3. \A r \in 1..n : \A s \in Symbols : ZScoreOf(x[r], s) \in Int
  BY <1>1, CountIs, ZScoreType
<1> HIDE DEF m
<1>4. \A r \in 1..n : \A s \in Symbols : m[r][s] \in Value
  BY <1>2, <1>3 DEF Value
<1>5. Valued(m, n)
  BY <1>2, <1>4, CellsValued
<1> QED
  BY <1>5 DEF m

LEMMA LinearScoreType ==
  ASSUME NEW table, NEW n \in Nat, Readings(table, n), NEW coefficients
  PROVE  Numbered(LinearScore(table, coefficients), n)
<1> DEFINE m == LinearScore(table, coefficients)
           row(r) == [x \in Symbols |-> Linear(table, coefficients, r, x)]
<1>1. Len(table) = n /\ DOMAIN table = 1..n
  BY DEF Readings
<1>2. m = [r \in 1..n |-> [s \in Symbols |-> ZScoreOf(row(r), s)]]
  BY <1>1, LinearScoreIs
<1>3. \A r : DOMAIN row(r) = Symbols
  OBVIOUS
<1> HIDE DEF m, row
<1>4. \A r \in 1..n : \A s \in Symbols : ZScoreOf(row(r), s) \in Int
  BY <1>3, CountIs, ZScoreType
<1>5. /\ m = [r \in 1..n |-> [s \in Symbols |-> m[r][s]]]
      /\ \A r \in 1..n : \A s \in Symbols : m[r][s] \in Int
  BY <1>2, <1>4
<1>6. Numbered(m, n)
  BY <1>5, CellsNumbered
<1> QED
  BY <1>6 DEF m

-----------------------------------------------------------------------------
(* Composites. *)

LEMMA ValuedRows == \A n \in Nat : \A m : Valued(m, n) => Rows(m, n)
<1> SUFFICES ASSUME NEW n \in Nat, NEW m, Valued(m, n) PROVE Rows(m, n)
  OBVIOUS
<1>1. m = [r \in 1..n |-> m[r]] /\ DOMAIN m = 1..n
  BY DEF Valued
<1>2. Len(m) = n
  BY ONLY n \in Nat, <1>1, EvaluatedIs
<1> QED
  BY <1>1, <1>2 DEF Rows

Mean(sleeves, r, s) ==
  IF \E c \in DOMAIN sleeves : sleeves[c][r][s] = NaN THEN NaN
  ELSE Quot(RowSum([c \in DOMAIN sleeves |-> sleeves[c][r][s]]), Cardinality(DOMAIN sleeves))
Means(sleeves, n) == [r \in 1..n |-> [s \in Symbols |-> Mean(sleeves, r, s)]]

LEMMA CompositeIs ==
  ASSUME NEW sleeves, NEW n \in Nat, DOMAIN sleeves # {}, \A c \in DOMAIN sleeves : Rows(sleeves[c], n)
  PROVE  /\ DOMAIN Composite(sleeves) = DOMAIN sleeves \union {"score"}
         /\ \A c \in DOMAIN sleeves : c # "score" => Composite(sleeves)[c] = sleeves[c]
         /\ Composite(sleeves)["score"] = Means(sleeves, n)
<1> DEFINE any == CHOOSE c \in DOMAIN sleeves : TRUE
           g == Means(sleeves, n)
           k == [r \in 1..Len(sleeves[any]) |-> [s \in Symbols |->
                    IF \E c \in DOMAIN sleeves : sleeves[c][r][s] = NaN THEN NaN
                    ELSE Quot(RowSum([c \in DOMAIN sleeves |-> sleeves[c][r][s]]), Cardinality(DOMAIN sleeves))]]
<1>1. Composite(sleeves) = [c \in DOMAIN sleeves \union {"score"} |-> IF c = "score" THEN Evaluated(k) ELSE sleeves[c]]
  BY DEF Composite, Matrix
<1>2. Len(sleeves[any]) = n
  BY DEF Rows
<1>3. k = g
  BY <1>2 DEF Mean, Means
<1>4. g = [r \in 1..n |-> g[r]]
  BY DEF Means
<1> HIDE DEF g, k, any
<1>5. Evaluated(k) = g
  BY <1>3, <1>4, EvaluatedIs
<1> QED
  BY <1>1, <1>5 DEF g

LEMMA CompositeValued ==
  ASSUME NEW sleeves, NEW n \in Nat, DOMAIN sleeves # {}, IsFiniteSet(DOMAIN sleeves), "score" \notin DOMAIN sleeves,
         \A c \in DOMAIN sleeves : Valued(sleeves[c], n),
         NEW m, m = Composite(sleeves)
  PROVE  /\ DOMAIN m = DOMAIN sleeves \union {"score"}
         /\ \A c \in DOMAIN sleeves : m[c] = sleeves[c]
         /\ \A c \in DOMAIN m : Valued(m[c], n)
<1> DEFINE D == DOMAIN sleeves
           g == Means(sleeves, n)
<1>01. \A c \in DOMAIN sleeves : Rows(sleeves[c], n)
  BY ValuedRows
<1>1. /\ DOMAIN m = DOMAIN sleeves \union {"score"} /\ m["score"] = g
      /\ \A c \in DOMAIN sleeves : c # "score" => m[c] = sleeves[c]
  BY ONLY n \in Nat, m = Composite(sleeves), DOMAIN sleeves # {}, <1>01, CompositeIs
<1>2. Cardinality(D) \in Nat /\ Cardinality(D) > 0
  BY FS_CardinalityType, FS_EmptySet
<1>3. ASSUME NEW r \in 1..n, NEW s \in Symbols PROVE Mean(sleeves, r, s) \in Value
  <2> DEFINE f == [c \in D |-> sleeves[c][r][s]]
  <2>1. \A c \in D : sleeves[c][r][s] \in Value
    BY DEF Valued
  <2> SUFFICES ASSUME \A c \in D : sleeves[c][r][s] # NaN PROVE Quot(RowSum(f), Cardinality(D)) \in Int
    BY DEF Mean, Value
  <2>2. f \in [D -> Int]
    <3>1. \A c \in D : sleeves[c][r][s] \in Int
      BY <2>1 DEF Value
    <3> QED
      BY ONLY <3>1
  <2>3. IsFiniteSet(D)
    OBVIOUS
  <2> HIDE DEF f, D
  <2>4. RowSum(f) \in Int
    BY <2>2, <2>3, TotalIsSum
  <2> QED
    BY <1>2, <2>4, QuotIs
<1>4. g = [r \in 1..n |-> [s \in Symbols |-> g[r][s]]]
  BY DEF Means
<1>5. \A r \in 1..n : \A s \in Symbols : g[r][s] \in Value
  BY <1>3 DEF Means
<1> HIDE DEF g
<1>6. Valued(g, n)
  BY <1>4, <1>5, CellsValued
<1> QED
  BY <1>1, <1>6

LEMMA FundingCarryValued ==
  ASSUME NEW table, NEW n \in Nat, Readings(table, n)
  PROVE  Valued(FundingCarry(table), n)
BY FundingCarryType, NumberedIsValued

LEMMA RelativeStrengthValued ==
  ASSUME NEW table, NEW n \in Nat, Readings(table, n), NEW w \in Nat \ {0}
  PROVE  Valued(RelativeStrength(table, w), n)
<1>1. Valued(Trend(table, w), n)
  BY TrendValued
<1> QED
  BY <1>1, StandardisedTrendValued DEF RelativeStrength

LEMMA SmaCrossoverValued ==
  ASSUME NEW table, NEW n \in Nat, Readings(table, n)
  PROVE  Valued(SmaCrossover(table), n)
<1>1. Valued(SmaGap(table), n)
  BY SmaGapValued
<1> QED
  BY <1>1, StandardisedTrendValued DEF SmaCrossover

TwoSleeves(m, n) == DOMAIN m = {"score", "carry", "relative"} /\ \A c \in DOMAIN m : Valued(m[c], n)
ThreeSleeves(m, n) == DOMAIN m = {"score", "carry", "fast", "slow"} /\ \A c \in DOMAIN m : Valued(m[c], n)

LEMMA CompositeOfTwo ==
  ASSUME NEW n \in Nat, NEW a, NEW b, Valued(a, n), Valued(b, n)
  PROVE  TwoSleeves(Composite([carry |-> a, relative |-> b]), n)
<1> DEFINE sleeves == [carry |-> a, relative |-> b]
           m == Composite(sleeves)
<1>1. DOMAIN sleeves = {"carry", "relative"} /\ sleeves["carry"] = a /\ sleeves["relative"] = b
  OBVIOUS
<1>2. IsFiniteSet({"carry", "relative"})
  <2>1. IsFiniteSet({"carry"}) /\ IsFiniteSet({"relative"}) /\ {"carry", "relative"} = {"carry"} \cup {"relative"}
    BY FS_Singleton
  <2> QED
    BY <2>1, FS_Union
<1> HIDE DEF sleeves
<1>3. /\ DOMAIN sleeves # {} /\ IsFiniteSet(DOMAIN sleeves) /\ "score" \notin DOMAIN sleeves
      /\ \A c \in DOMAIN sleeves : Valued(sleeves[c], n)
  BY <1>1, <1>2
<1>4. DOMAIN m = DOMAIN sleeves \union {"score"} /\ \A c \in DOMAIN m : Valued(m[c], n)
  BY <1>3, CompositeValued
<1>5. TwoSleeves(m, n)
  <2> HIDE DEF m
  <2> QED
    BY <1>1, <1>4 DEF TwoSleeves
<1> QED
  BY <1>5 DEF sleeves

LEMMA CompositeOfThree ==
  ASSUME NEW n \in Nat, NEW a, NEW b, NEW c, Valued(a, n), Valued(b, n), Valued(c, n)
  PROVE  /\ ThreeSleeves(Composite([carry |-> a, fast |-> b, slow |-> c]), n)
         /\ Composite([carry |-> a, fast |-> b, slow |-> c]).carry = a
         /\ Composite([carry |-> a, fast |-> b, slow |-> c]).fast = b
         /\ Composite([carry |-> a, fast |-> b, slow |-> c]).slow = c
<1> DEFINE sleeves == [carry |-> a, fast |-> b, slow |-> c]
           m == Composite(sleeves)
<1>1. DOMAIN sleeves = {"carry", "fast", "slow"} /\ sleeves["carry"] = a /\ sleeves["fast"] = b /\ sleeves["slow"] = c
  OBVIOUS
<1>2. IsFiniteSet({"carry", "fast", "slow"})
  <2>1. IsFiniteSet({"carry"}) /\ IsFiniteSet({"fast"}) /\ IsFiniteSet({"slow"})
    BY FS_Singleton
  <2>2. IsFiniteSet({"carry"} \cup {"fast"})
    BY <2>1, FS_Union
  <2>3. IsFiniteSet(({"carry"} \cup {"fast"}) \cup {"slow"})
    BY <2>1, <2>2, FS_Union
  <2>4. {"carry", "fast", "slow"} = ({"carry"} \cup {"fast"}) \cup {"slow"}
    OBVIOUS
  <2> QED
    BY <2>3, <2>4
<1> HIDE DEF sleeves
<1>3. /\ DOMAIN sleeves # {} /\ IsFiniteSet(DOMAIN sleeves) /\ "score" \notin DOMAIN sleeves
      /\ \A x \in DOMAIN sleeves : Valued(sleeves[x], n)
  BY <1>1, <1>2
<1>4. /\ DOMAIN m = DOMAIN sleeves \union {"score"} /\ \A x \in DOMAIN m : Valued(m[x], n)
      /\ \A x \in DOMAIN sleeves : m[x] = sleeves[x]
  BY <1>3, CompositeValued
<1>5. ThreeSleeves(m, n) /\ m.carry = a /\ m.fast = b /\ m.slow = c
  <2> HIDE DEF m
  <2>1. "carry" \in DOMAIN sleeves /\ "fast" \in DOMAIN sleeves /\ "slow" \in DOMAIN sleeves
    BY <1>1
  <2> QED
    BY <1>1, <1>4, <2>1 DEF ThreeSleeves
<1> QED
  BY <1>5 DEF sleeves

LEMMA CarryRelativeStrengthValued ==
  ASSUME NEW table, NEW n \in Nat, Readings(table, n)
  PROVE  TwoSleeves(CarryRelativeStrength(table), n)
<1>1. Tuning.slow \in Nat \ {0}
  BY TuningAssumption
<1>2. Valued(FundingCarry(table), n) /\ Valued(RelativeStrength(table, Tuning.slow), n)
  BY <1>1, FundingCarryValued, RelativeStrengthValued
<1> QED
  BY <1>2, CompositeOfTwo DEF CarryRelativeStrength

LEMMA CarryMultiHorizonValued ==
  ASSUME NEW table, NEW n \in Nat, Readings(table, n)
  PROVE  /\ ThreeSleeves(CarryMultiHorizon(table), n)
         /\ CarryMultiHorizon(table).carry = FundingCarry(table)
         /\ CarryMultiHorizon(table).fast = RelativeStrength(table, Tuning.fast)
         /\ CarryMultiHorizon(table).slow = RelativeStrength(table, Tuning.slow)
<1>1. Tuning.slow \in Nat \ {0} /\ Tuning.fast \in Nat \ {0}
  BY TuningAssumption
<1>2. Valued(FundingCarry(table), n) /\ Valued(RelativeStrength(table, Tuning.fast), n) /\ Valued(RelativeStrength(table, Tuning.slow), n)
  BY <1>1, FundingCarryValued, RelativeStrengthValued
<1> QED
  BY <1>2, CompositeOfThree DEF CarryMultiHorizon

LEMMA CarryDualTrendValued ==
  ASSUME NEW table, NEW n \in Nat, Readings(table, n)
  PROVE  ThreeSleeves(CarryDualTrend(table), n)
<1>1. Tuning.slow \in Nat \ {0}
  BY TuningAssumption
<1>2. Valued(FundingCarry(table), n) /\ Valued(RelativeStrength(table, Tuning.slow), n) /\ Valued(SmaCrossover(table), n)
  BY <1>1, FundingCarryValued, RelativeStrengthValued, SmaCrossoverValued
<1> QED
  BY <1>2, CompositeOfThree DEF CarryDualTrend

(* Fast and slow where they agree. *)
Agreed(a, b) ==
  IF NaN \in {a, b} THEN NaN
  ELSE IF Sign(a) # Sign(b) THEN 0
  ELSE Quot(a + b, 2)

Consensus(table, n) ==
  [r \in 1..n |-> [s \in Symbols |->
     Agreed(RelativeStrength(table, Tuning.fast)[r][s], RelativeStrength(table, Tuning.slow)[r][s])]]

LEMMA AgreedType == \A a, b \in Value : Agreed(a, b) \in Value
<1> SUFFICES ASSUME NEW a \in Value, NEW b \in Value, a # NaN, b # NaN PROVE Quot(a + b, 2) \in Int
  BY DEF Agreed, Value
<1>1. a + b \in Int
  BY DEF Value
<1> QED
  BY <1>1, QuotIs

LEMMA ConsensusIs ==
  ASSUME NEW table, NEW n \in Nat, Readings(table, n)
  PROVE  CarryConsensusStrength(table) = Composite([carry |-> FundingCarry(table), relative |-> Consensus(table, n)])
<1> DEFINE core == CarryMultiHorizon(table)
           k == [r \in 1..Len(table) |-> [s \in Symbols |->
            IF NaN \in {core.fast[r][s], core.slow[r][s]} THEN NaN
            ELSE IF Sign(core.fast[r][s]) # Sign(core.slow[r][s]) THEN 0
            ELSE Quot(core.fast[r][s] + core.slow[r][s], 2)]]
           g == Consensus(table, n)
<1>1. CarryConsensusStrength(table) = Composite([carry |-> core.carry, relative |-> Evaluated(k)])
  BY DEF CarryConsensusStrength, Matrix
<1>2. Len(table) = n
  BY DEF Readings
<1>3. core.carry = FundingCarry(table) /\ core.fast = RelativeStrength(table, Tuning.fast) /\ core.slow = RelativeStrength(table, Tuning.slow)
  BY CarryMultiHorizonValued
<1> HIDE DEF core
<1>4. k = g
  BY <1>2, <1>3 DEF Consensus, Agreed
<1>5. g = [r \in 1..n |-> g[r]]
  BY DEF Consensus
<1> HIDE DEF g, k
<1>6. Evaluated(k) = g
  BY <1>4, <1>5, EvaluatedIs
<1> QED
  BY <1>1, <1>3, <1>6 DEF g

LEMMA CarryConsensusValued ==
  ASSUME NEW table, NEW n \in Nat, Readings(table, n)
  PROVE  TwoSleeves(CarryConsensusStrength(table), n)
<1> DEFINE a == RelativeStrength(table, Tuning.fast)
           b == RelativeStrength(table, Tuning.slow)
           g == Consensus(table, n)
<1>1. Tuning.slow \in Nat \ {0} /\ Tuning.fast \in Nat \ {0}
  BY TuningAssumption
<1>2. Valued(a, n) /\ Valued(b, n) /\ Valued(FundingCarry(table), n)
  BY <1>1, FundingCarryValued, RelativeStrengthValued
<1>3. g = [r \in 1..n |-> [s \in Symbols |-> Agreed(a[r][s], b[r][s])]]
  BY DEF Consensus
<1> HIDE DEF a, b, g
<1>4. \A r \in 1..n : \A s \in Symbols : a[r][s] \in Value /\ b[r][s] \in Value
  BY <1>2 DEF Valued
<1>5. \A r \in 1..n : \A s \in Symbols : g[r][s] \in Value
  BY <1>3, <1>4, AgreedType
<1>6. g = [r \in 1..n |-> [s \in Symbols |-> g[r][s]]]
  BY <1>3
<1>7. Valued(g, n)
  BY <1>5, <1>6, CellsValued
<1>8. TwoSleeves(Composite([carry |-> FundingCarry(table), relative |-> g]), n)
  BY <1>2, <1>7, CompositeOfTwo
<1> QED
  BY <1>8, ConsensusIs DEF g

LEMMA CarryMultiRegimeValued ==
  ASSUME NEW table, NEW n \in Nat, Readings(table, n), NEW m, m = CarryMultiRegime(table)
  PROVE  DOMAIN m = {"score", "carry", "fast", "slow", "regime"} /\ \A c \in DOMAIN m : Valued(m[c], n)
<1> DEFINE core == CarryMultiHorizon(table)
           g == RegimeTrend(table)
<1>1. DOMAIN core = {"score", "carry", "fast", "slow"} /\ \A c \in DOMAIN core : Valued(core[c], n)
  BY CarryMultiHorizonValued DEF ThreeSleeves
<1>2. Valued(g, n)
  BY RegimeTrendValued
<1>3. m = [c \in DOMAIN core \union {"regime"} |-> IF c = "regime" THEN g ELSE core[c]]
  BY DEF CarryMultiRegime
<1> HIDE DEF core, g
<1> QED
  BY <1>1, <1>2, <1>3

-----------------------------------------------------------------------------
(* Event-driven scores. *)

(* A state only takes the values of the entries. *)
LEMMA SparseValues ==
  ASSUME NEW n \in Nat, NEW entries, Len(entries) = n, NEW exits, NEW hold, NEW X, 0 \in X,
         \A r \in 1..n : entries[r] \in X
  PROVE  \A r \in 1..n : SparseColumn(entries, exits, hold)[r].value \in X
<1> DEFINE row == SparseColumn(entries, exits, hold)
           from(r) == IF r = 1 THEN Flat ELSE row[r - 1]
           P == {r \in Nat : r \in 1..n => row[r].value \in X}
<1>1. \A r \in 1..n : row[r] = SparseRow(from(r), entries[r], exits[r], hold)
  BY ColumnIs DEF RowAfter
<1>2. Flat.value = 0
  BY DEF Flat
<1>3. \A c, e, x : c.value \in X /\ e \in X => SparseRow(c, e, x, hold).value \in X
  BY DEF SparseRow
<1> HIDE DEF row
<1>4. 0 \in P
  OBVIOUS
<1>5. ASSUME NEW r \in Nat, r \in P PROVE r + 1 \in P
  <2> SUFFICES ASSUME r + 1 \in 1..n PROVE row[r + 1].value \in X
    OBVIOUS
  <2>1. from(r + 1).value \in X
    <3>1. CASE r = 0
      BY <1>2, <3>1
    <3>2. CASE r # 0
      <4>1. r \in 1..n /\ r + 1 # 1 /\ r + 1 - 1 = r
        BY <3>2
      <4> QED
        BY <1>5, <4>1
    <3> QED
      BY <3>1, <3>2
  <2> HIDE DEF from
  <2> QED
    BY <1>1, <1>3, <2>1
<1> HIDE DEF P
<1>6. \A r \in Nat : r \in P
  BY <1>4, <1>5, NumberInduction
<1> QED
  BY <1>6 DEF P, row

LEMMA SparseMatrixForm ==
  ASSUME NEW entries, NEW exits, NEW hold, NEW n \in Nat, Rows(entries, n),
         NEW m, m = SparseMatrix(entries, exits, hold)
  PROVE  m = [r \in 1..n |-> [s \in Symbols |-> m[r][s]]]
<1> DEFINE column == [x \in Symbols |->
             SparseColumn([r \in DOMAIN entries |-> entries[r][x]],
                          [r \in DOMAIN exits |-> exits[r][x]], hold)]
           f == [r \in 1..n |-> [x \in Symbols |-> column[x][r].value]]
<1>1. m = Evaluated(f)
  BY DEF SparseMatrix, Matrix, Rows
<1>2. f = [r \in 1..n |-> f[r]]
  OBVIOUS
<1>3. f = [r \in 1..n |-> [x \in Symbols |-> f[r][x]]]
  OBVIOUS
<1> HIDE DEF f
<1>4. Evaluated(f) = f
  BY <1>2, EvaluatedIs
<1> QED
  BY <1>1, <1>3, <1>4

LEMMA SparseMatrixValued ==
  ASSUME NEW entries, NEW exits, NEW hold, NEW n \in Nat, Rows(entries, n),
         \A r \in 1..n : \A s \in Symbols : entries[r][s] \in Value
  PROVE  Valued(SparseMatrix(entries, exits, hold), n)
<1> DEFINE m == SparseMatrix(entries, exits, hold)
<1>1. ASSUME NEW r \in 1..n, NEW s \in Symbols PROVE m[r][s] \in Value
  <2> DEFINE E == [k \in DOMAIN entries |-> entries[k][s]]
             X == [k \in DOMAIN exits |-> exits[k][s]]
  <2>1. m[r][s] = SparseColumn(E, X, hold)[r].value
    BY SparseMatrixIs
  <2>2. Len(E) = n /\ \A k \in 1..n : E[k] \in Value
    BY DEF Rows
  <2>3. 0 \in Value
    BY DEF Value
  <2> HIDE DEF E, X, m
  <2> QED
    BY <2>1, <2>2, <2>3, SparseValues
<1>2. m = [r \in 1..n |-> [s \in Symbols |-> m[r][s]]]
  BY SparseMatrixForm
<1> HIDE DEF m
<1>3. Valued(m, n)
  BY <1>1, <1>2, CellsValued
<1> QED
  BY <1>3 DEF m

LEMMA ClipType == \A x, b \in Int : Clip(x, b) \in Int /\ -Clip(x, b) \in Int
  BY DEF Clip

(* A fold of n rows inside the panel. *)
Inside(f, size, n) ==
  /\ f.testStart \in Nat \ {0} /\ f.testEnd \in Nat /\ f.testEnd <= size
  /\ n \in Nat \ {0} /\ f.testEnd - f.testStart + 1 = n

LEMMA FlowAbsorptionValued ==
  ASSUME NEW table, NEW size \in Nat, Readings(table, size), NEW f, NEW n, Inside(f, size, n)
  PROVE  Valued(FlowAbsorption(table, f), n)
<1> DEFINE entries == AbsorptionEntries(table, f.testStart, n)
<1>1. n \in Nat /\ f.testEnd - f.testStart + 1 = n
  BY DEF Inside
<1>2. \A r \in 1..n : f.testStart + r - 1 \in 1..size
  BY DEF Inside
<1>3. \A r \in 1..n : table[f.testStart + r - 1].feature.flow_z \in [Symbols -> Int]
  BY <1>2 DEF Readings, Measured
<1>4. \A x, s : x.flow_z[s] \in Int => AbsorptionCell(x, s) \in Int
  <2> TAKE x, s
  <2> SUFFICES ASSUME x.flow_z[s] \in Int PROVE AbsorptionCell(x, s) \in Int
    OBVIOUS
  <2>1. 3 * Tenths \in Int
    BY DEF Tenths
  <2>2. -Clip(x.flow_z[s], 3 * Tenths) \in Int
    BY <2>1, ClipType
  <2> QED
    BY <2>2 DEF AbsorptionCell
<1>5. \A r \in 1..n : \A s \in Symbols : entries[r][s] \in Value
  <2>1. \A r \in 1..n : \A s \in Symbols : entries[r][s] = AbsorptionCell(table[f.testStart + r - 1].feature, s)
    BY DEF AbsorptionEntries
  <2> HIDE DEF entries
  <2> QED
    BY <1>3, <1>4, <2>1 DEF Value
<1>6. /\ Rows(entries, n)
      /\ FlowAbsorption(table, f) = SparseMatrix(entries, NoExits(entries), Tuning.hold)
  BY <1>1, AbsorptionIsSparse
<1> HIDE DEF entries
<1> QED
  BY <1>1, <1>5, <1>6, SparseMatrixValued

LEMMA CompressionBreakoutValued ==
  ASSUME NEW table, NEW f, NEW size \in Nat, NEW n, Inside(f, size, n)
  PROVE  Valued(CompressionBreakout(table, f), n)
<1> DEFINE entries == CompressionEntries(table, f.trainEnd, f.testStart, n)
<1>1. n \in Nat /\ f.testEnd - f.testStart + 1 = n
  BY DEF Inside
<1>2. \A b, x, t, s : CompressionCell(b, x, t, s) \in Value
  BY DEF CompressionCell, Value, Tenths
<1>3. \A r \in 1..n : \A s \in Symbols : entries[r][s] \in Value
  BY <1>2 DEF CompressionEntries
<1>4. /\ Rows(entries, n)
      /\ CompressionBreakout(table, f) = SparseMatrix(entries, NoExits(entries), Tuning.hold)
  BY <1>1, BreakoutIsSparse
<1> HIDE DEF entries
<1> QED
  BY <1>1, <1>3, <1>4, SparseMatrixValued

(* The rows from a to b. *)
LEMMA SubSeqIs ==
  ASSUME NEW m, NEW a \in Nat \ {0}, NEW b \in Nat, a <= b
  PROVE  /\ SubSeq(m, a, b) = [r \in 1..(b - a + 1) |-> m[a + r - 1]]
         /\ Len(SubSeq(m, a, b)) = b - a + 1 /\ DOMAIN SubSeq(m, a, b) = 1..(b - a + 1)
OBVIOUS

RowsFrom(m, a, n) == [r \in 1..n |-> m[a + r - 1]]

LEMMA TestRowsAre ==
  ASSUME NEW m, NEW f, NEW size, NEW n, Inside(f, size, n)
  PROVE  /\ TestRows(m, f) = RowsFrom(m, f.testStart, n)
         /\ Rows(TestRows(m, f), n)
<1> DEFINE a == f.testStart
           b == f.testEnd
<1>1. a \in Nat \ {0} /\ b \in Nat /\ a <= b /\ b - a + 1 = n /\ TestRows(m, f) = SubSeq(m, a, b)
  BY DEF Inside, TestRows
<1>01. n \in Nat /\ f.testStart = a
  BY DEF Inside
<1> HIDE DEF a, b
<1>2. SubSeq(m, a, b) = [r \in 1..n |-> m[a + r - 1]]
  BY <1>1, SubSeqIs
<1>3. Len(SubSeq(m, a, b)) = n /\ DOMAIN SubSeq(m, a, b) = 1..n
  BY <1>1, SubSeqIs
<1>4. Rows(TestRows(m, f), n)
  BY ONLY <1>1, <1>3 DEF Rows
<1>5. TestRows(m, f) = RowsFrom(m, a, n)
  BY ONLY <1>1, <1>2 DEF RowsFrom
<1>6. TestRows(m, f) = RowsFrom(m, f.testStart, n)
  BY ONLY <1>5 DEF a
<1> QED
  BY ONLY <1>4, <1>6

LEMMA TestRowsValued ==
  ASSUME NEW m, NEW size \in Nat, Valued(m, size), NEW f, NEW n, Inside(f, size, n)
  PROVE  Valued(TestRows(m, f), n)
<1> DEFINE x == TestRows(m, f)
<1>1. x = [r \in 1..n |-> m[f.testStart + r - 1]]
  <2>1. x = RowsFrom(m, f.testStart, n)
    BY TestRowsAre
  <2> QED
    BY <2>1 DEF RowsFrom
<1>2. \A r \in 1..n : f.testStart + r - 1 \in 1..size
  BY DEF Inside
<1>3. \A r \in 1..n : x[r] \in [Symbols -> Value]
  BY <1>1, <1>2 DEF Valued
<1>4. x = [r \in 1..n |-> x[r]] /\ DOMAIN x = 1..n
  BY <1>1
<1> HIDE DEF x
<1>5. Valued(x, n)
  BY <1>3, <1>4 DEF Valued
<1> QED
  BY <1>5 DEF x

LEMMA FlowSumsValued ==
  ASSUME NEW table, NEW size \in Nat, Readings(table, size)
  PROVE  Valued(FlowSums(table), size)
<1> DEFINE q == FeatureMatrix(table, "quarter_z")
           w == Tuning.aggregation
           m == FlowSums(table)
<1>1. DOMAIN q = 1..size /\ \A r \in 1..size : q[r] = table[r].feature.quarter_z
  BY DEF Readings, FeatureMatrix
<1>2. \A k \in 1..size : \A s \in Symbols : q[k][s] \in Int
  BY <1>1 DEF Readings, Measured
<1>3. w \in Nat \ {0}
  BY TuningAssumption
<1>4. m = TrailingSum(q, w)
  BY DEF FlowSums
<1> HIDE DEF q, w, m
<1>5. m = [r \in 1..size |-> [s \in Symbols |->
        IF FullWindow(q, s, r, w) THEN RowSum(Window(q, s, r, w)) ELSE NaN]]
  BY <1>1, <1>4 DEF TrailingSum
<1>6. \A r \in 1..size : \A s \in Symbols : FullWindow(q, s, r, w) => RowSum(Window(q, s, r, w)) \in Int
  <2> SUFFICES ASSUME NEW r \in 1..size, NEW s \in Symbols, FullWindow(q, s, r, w)
               PROVE  RowSum(Window(q, s, r, w)) \in Int
    OBVIOUS
  <2>1. w \in Int /\ r - w >= 0
    BY <1>3 DEF FullWindow
  <2>2. \A k \in 1..size : q[k][s] \in Int
    BY <1>2
  <2> QED
    BY <2>1, <2>2, WindowTotal
<1>7. \A r \in 1..size : \A s \in Symbols : m[r][s] \in Value
  BY <1>5, <1>6 DEF Value
<1>8. m = [r \in 1..size |-> [s \in Symbols |-> m[r][s]]]
  BY <1>5
<1>9. Valued(m, size)
  BY <1>7, <1>8, CellsValued
<1> QED
  BY <1>9 DEF m

LEMMA FlowCellType == \A x \in Value : FlowCell(x) \in Value
<1> SUFFICES ASSUME NEW x \in Int PROVE FlowCell(x) \in Value
  BY DEF Value, FlowCell
<1> DEFINE raw == Quot(x, Tuning.aggregation)
<1>1. Tuning.aggregation \in Int /\ Tuning.aggregation > 0
  BY TuningAssumption
<1>2. raw \in Int /\ 3 * Tenths \in Int
  BY <1>1, QuotIs DEF Tenths
<1>3. FlowCell(x) \in {NaN, Clip(raw, 3 * Tenths), 0}
  BY DEF FlowCell
<1> HIDE DEF raw
<1>4. Clip(raw, 3 * Tenths) \in Int
  BY <1>2, ClipType
<1> QED
  BY <1>3, <1>4 DEF Value

LEMMA QuarterHourFlowValued ==
  ASSUME NEW table, NEW size \in Nat, Readings(table, size), NEW f, NEW n, Inside(f, size, n)
  PROVE  Valued(QuarterHourFlow(table, f), n)
<1> DEFINE sums == TestRows(FlowSums(table), f)
           entries == FlowEntries(sums, n)
<1>1. n \in Nat /\ f.testEnd - f.testStart + 1 = n /\ f.testStart \in Nat \ {0} /\ f.testEnd \in Nat
  BY DEF Inside
<1>2. Valued(sums, n)
  BY FlowSumsValued, TestRowsValued
<1>3. \A r \in 1..n : \A s \in Symbols : entries[r][s] = FlowCell(sums[r][s])
  BY DEF FlowEntries
<1>4. entries = [r \in 1..n |-> [s \in Symbols |-> entries[r][s]]]
  BY DEF FlowEntries
<1>5. /\ Rows(entries, n)
      /\ QuarterHourFlow(table, f)
                = IF \E r \in DOMAIN entries : \E s \in Symbols : entries[r][s] = NaN THEN entries
                  ELSE SparseMatrix(entries, NoExits(entries), Tuning.hold)
  <2> HIDE DEF entries
  <2>1. entries = FlowEntries(TestRows(FlowSums(table), f), n)
    BY DEF entries
  <2> QED
    BY <1>1, <2>1, FlowIsSparse
<1> HIDE DEF sums, entries
<1>6. \A r \in 1..n : \A s \in Symbols : entries[r][s] \in Value
  BY <1>2, <1>3, FlowCellType DEF Valued
<1>7. Valued(entries, n)
  BY <1>4, <1>6, CellsValued
<1>8. Valued(SparseMatrix(entries, NoExits(entries), Tuning.hold), n)
  BY <1>1, <1>5, <1>6, SparseMatrixValued
<1> QED
  BY <1>5, <1>7, <1>8

-----------------------------------------------------------------------------
(* Pairs and the scores of a plan. *)
PairSpread(table, start, alt, model, r) ==
  Tenths * table[start + r - 1].feature.level[alt] - model.beta * table[start + r - 1].feature.level[BTC] - model.mean
PairEntry(table, start, alt, model, r) ==
  IF Tenths * Abs(PairSpread(table, start, alt, model, r)) >= Tuning.entryZ * model.std
  THEN -Sign(PairSpread(table, start, alt, model, r)) ELSE 0
PairExit(table, start, alt, model, r) == 2 * Abs(PairSpread(table, start, alt, model, r)) <= model.std
PairColumn(table, start, alt, model, n) ==
  SparseColumn([r \in 1..n |-> PairEntry(table, start, alt, model, r)],
               [r \in 1..n |-> PairExit(table, start, alt, model, r)], Tuning.maxHold)
PairValue(table, start, alt, models, n, r) ==
  IF models[alt].eligible THEN PairColumn(table, start, alt, models[alt], n)[r].value ELSE 0
Hedged(value, beta, alt, s) ==
  IF s = alt THEN Tenths * value ELSE IF s = BTC THEN -beta * value ELSE 0
Hedges(table, start, models, n, r, s) ==
  RowSum([alt \in Alts |-> Hedged(PairValue(table, start, alt, models, n, r), models[alt].beta, alt, s)])
PairScores(table, start, models, n) ==
  [r \in 1..n |-> [s \in Symbols |-> Hedges(table, start, models, n, r, s)]]

LEMMA PairScoreIs ==
  ASSUME NEW table, NEW f, NEW models, NEW n \in Nat, f.testEnd - f.testStart + 1 = n
  PROVE  /\ DOMAIN PairSpreadReversion(table, f, models) = {"score", "pairs"}
         /\ PairSpreadReversion(table, f, models).score = PairScores(table, f.testStart, models, n)
<1> DEFINE state == [alt \in Alts |-> IF models[alt].eligible
                                      THEN PairState(table, f, alt, models[alt])
                                      ELSE [r \in 1..n |-> 0]]
           flat(alt) == [r \in 1..n |-> [s \in Symbols |->
                          IF s = alt THEN Tenths * state[alt][r]
                          ELSE IF s = BTC THEN -models[alt].beta * state[alt][r] ELSE 0]]
           k == [r \in 1..n |-> [s \in Symbols |-> RowSum([alt \in Alts |-> Evaluated(flat(alt))[r][s]])]]
           g == PairScores(table, f.testStart, models, n)
<1>1. /\ DOMAIN PairSpreadReversion(table, f, models) = {"score", "pairs"}
      /\ PairSpreadReversion(table, f, models).score = Evaluated(k)
  <2> DEFINE N == f.testEnd - f.testStart + 1
             stateN == [alt \in Alts |-> IF models[alt].eligible
                                      THEN PairState(table, f, alt, models[alt])
                                      ELSE [r \in 1..N |-> 0]]
             flatN(alt) == Evaluated([r \in 1..N |-> [s \in Symbols |->
                          IF s = alt THEN Tenths * stateN[alt][r]
                          ELSE IF s = BTC THEN -models[alt].beta * stateN[alt][r] ELSE 0]])
             kN == Evaluated([r \in 1..N |-> [s \in Symbols |-> RowSum([alt \in Alts |-> flatN(alt)[r][s]])]])
  <2>1. PairSpreadReversion(table, f, models) = [score |-> kN, pairs |-> [alt \in Alts |-> flatN(alt)]]
    BY DEF PairSpreadReversion, Matrix
  <2>2. N = n
    OBVIOUS
  <2>3. stateN = state
    BY <2>2
  <2>4. ASSUME NEW alt PROVE flatN(alt) = Evaluated(flat(alt))
    <3> HIDE DEF N, stateN, state
    <3>1. [r \in 1..N |-> [s \in Symbols |->
                          IF s = alt THEN Tenths * stateN[alt][r]
                          ELSE IF s = BTC THEN -models[alt].beta * stateN[alt][r] ELSE 0]] = flat(alt)
      BY <2>2, <2>3
    <3> QED
      BY <3>1
  <2> HIDE DEF N, stateN, flatN, flat, state
  <2>5. kN = Evaluated(k)
    BY <2>2, <2>4
  <2> HIDE DEF kN, k
  <2> QED
    BY <2>1, <2>5
<1>2. \A alt \in Alts : \A r \in 1..n : state[alt][r] = PairValue(table, f.testStart, alt, models, n, r)
  <2> TAKE alt \in Alts
  <2> TAKE r \in 1..n
  <2>1. PairState(table, f, alt, models[alt]) = [i \in 1..n |-> PairColumn(table, f.testStart, alt, models[alt], n)[i].value]
    BY DEF PairState, PairColumn, PairEntry, PairExit, PairSpread
  <2>2. state[alt] = IF models[alt].eligible THEN PairState(table, f, alt, models[alt]) ELSE [i \in 1..n |-> 0]
    OBVIOUS
  <2> HIDE DEF state
  <2> QED
    BY <2>1, <2>2 DEF PairValue
<1>3. \A alt \in Alts : Evaluated(flat(alt)) = flat(alt)
  <2> TAKE alt \in Alts
  <2> DEFINE h == flat(alt)
  <2>1. h = [r \in 1..n |-> h[r]]
    OBVIOUS
  <2> HIDE DEF h
  <2>2. Evaluated(h) = h
    BY <2>1, EvaluatedIs
  <2> QED
    BY <2>2 DEF h
<1> HIDE DEF state
<1>4. \A r \in 1..n : \A s \in Symbols : \A alt \in Alts :
         Evaluated(flat(alt))[r][s] = Hedged(PairValue(table, f.testStart, alt, models, n, r), models[alt].beta, alt, s)
  <2> TAKE r \in 1..n
  <2> TAKE s \in Symbols
  <2> TAKE alt \in Alts
  <2>1. flat(alt)[r][s] = IF s = alt THEN Tenths * state[alt][r]
                          ELSE IF s = BTC THEN -models[alt].beta * state[alt][r] ELSE 0
    OBVIOUS
  <2> HIDE DEF flat
  <2> QED
    BY <1>2, <1>3, <2>1 DEF Hedged
<1> HIDE DEF flat
<1>5. k = g
  <2>1. \A r \in 1..n : \A s \in Symbols :
          [alt \in Alts |-> Evaluated(flat(alt))[r][s]]
            = [alt \in Alts |-> Hedged(PairValue(table, f.testStart, alt, models, n, r), models[alt].beta, alt, s)]
    BY <1>4
  <2>2. \A r \in 1..n : \A s \in Symbols : k[r][s] = Hedges(table, f.testStart, models, n, r, s)
    BY <2>1 DEF Hedges
  <2>3. k = [r \in 1..n |-> [s \in Symbols |-> k[r][s]]]
    OBVIOUS
  <2> HIDE DEF k
  <2> QED
    BY <2>2, <2>3 DEF PairScores
<1>6. g = [r \in 1..n |-> g[r]]
  BY DEF PairScores
<1> HIDE DEF k, g
<1>7. Evaluated(k) = g
  BY <1>5, <1>6, EvaluatedIs
<1> QED
  BY <1>1, <1>7 DEF g

LEMMA PairValueType ==
  ASSUME NEW table, NEW start, NEW alt, NEW models, NEW n \in Nat
  PROVE  \A r \in 1..n : PairValue(table, start, alt, models, n, r) \in {-1, 0, 1}
<1> DEFINE E == [r \in 1..n |-> PairEntry(table, start, alt, models[alt], r)]
           X == [r \in 1..n |-> PairExit(table, start, alt, models[alt], r)]
           V == {-1, 0, 1}
<1>1. Len(E) = n /\ \A r \in 1..n : E[r] \in V
  BY SignIs DEF PairEntry
<1>2. 0 \in V /\ PairColumn(table, start, alt, models[alt], n) = SparseColumn(E, X, Tuning.maxHold)
  BY DEF PairColumn
<1> HIDE DEF E, X, V
<1>3. \A r \in 1..n : SparseColumn(E, X, Tuning.maxHold)[r].value \in V
  BY <1>1, <1>2, SparseValues
<1> QED
  BY <1>2, <1>3 DEF PairValue, V

LEMMA PairScoresValued ==
  ASSUME NEW table, NEW start, NEW models \in [Alts -> Tuning.pairModels], NEW n \in Nat
  PROVE  Valued(PairScores(table, start, models, n), n)
<1> DEFINE m == PairScores(table, start, models, n)
<1>1. \A alt \in Alts : models[alt].beta \in Int
  BY TuningAssumption
<1>2. \A r \in 1..n : \A s \in Symbols : Hedges(table, start, models, n, r, s) \in Int
  <2> TAKE r \in 1..n
  <2> TAKE s \in Symbols
  <2> DEFINE h == [alt \in Alts |-> Hedged(PairValue(table, start, alt, models, n, r), models[alt].beta, alt, s)]
  <2>1. \A v \in {-1, 0, 1} : \A b \in Int : \A alt : Hedged(v, b, alt, s) \in Int
    BY DEF Hedged, Tenths
  <2>2. \A alt \in Alts : PairValue(table, start, alt, models, n, r) \in {-1, 0, 1}
    BY PairValueType
  <2>3. \A alt \in Alts : Hedged(PairValue(table, start, alt, models, n, r), models[alt].beta, alt, s) \in Int
    BY <1>1, <2>1, <2>2
  <2>4. h \in [Alts -> Int]
    BY <2>3
  <2>5. IsFiniteSet(Alts)
    BY CountIs, FS_Subset DEF Alts
  <2> HIDE DEF h
  <2>6. RowSum(h) \in Int
    BY <2>4, <2>5, TotalIsSum
  <2> QED
    BY <2>6 DEF Hedges, h
<1>3. m = [r \in 1..n |-> [s \in Symbols |-> m[r][s]]]
  BY DEF PairScores
<1>4. \A r \in 1..n : \A s \in Symbols : m[r][s] \in Value
  BY <1>2 DEF PairScores, Value
<1> HIDE DEF m
<1>5. Valued(m, n)
  BY <1>3, <1>4, CellsValued
<1> QED
  BY <1>5 DEF m

(* The columns of a plan's strategy. *)
Charted(columns, names, n) ==
  /\ DOMAIN columns = names
  /\ \A c \in names \ {"pairs"} : Valued(columns[c], n)

LEMMA SlicedChart ==
  ASSUME NEW columns, NEW names, NEW size \in Nat, DOMAIN columns = names,
         \A c \in names : Valued(columns[c], size), NEW f, NEW n, Inside(f, size, n),
         NEW m, m = [c \in DOMAIN columns |-> TestRows(columns[c], f)]
  PROVE  Charted(m, names, n)
<1>1. \A c \in names : Valued(TestRows(columns[c], f), n)
  BY TestRowsValued
<1> QED
  BY <1>1 DEF Charted

LEMMA SingleChart ==
  ASSUME NEW x, NEW size \in Nat, Valued(x, size), NEW f, NEW n, Inside(f, size, n),
         NEW m, m = [c \in DOMAIN Single(x) |-> TestRows(Single(x)[c], f)]
  PROVE  Charted(m, {"score"}, n)
<1>1. DOMAIN Single(x) = {"score"} /\ Single(x)["score"] = x
  BY DEF Single
<1>2. \A c \in {"score"} : Valued(Single(x)[c], size)
  BY <1>1
<1> QED
  BY <1>1, <1>2, SlicedChart

LEMMA EventChart ==
  ASSUME NEW x, NEW n, Valued(x, n)
  PROVE  Charted(Single(x), {"score"}, n)
BY DEF Charted, Single

(* Every score column of every strategy has a row per test row, of numbers  *)
(* and gaps.                                                                *)
LEMMA ScoresCharted ==
  ASSUME NEW strategy \in StrategyNames, NEW table, NEW size \in Nat, Readings(table, size),
         NEW f, NEW n, Inside(f, size, n), NEW fitted \in Fits(strategy),
         NEW m, m = ScorePanel(strategy, table, f, fitted)
  PROVE  Charted(m, ColumnsOf(strategy), n)
<1>0. Tuning.slow \in Nat \ {0}
  BY TuningAssumption
<1>1. CASE strategy = "residual_momentum"
  <2> DEFINE x == ResidualMomentum(table)
  <2>1. m = [c \in DOMAIN Single(x) |-> TestRows(Single(x)[c], f)] /\ ColumnsOf(strategy) = {"score"}
    BY <1>1 DEF ScorePanel, ColumnsOf
  <2>2. Valued(x, size)
    BY ResidualMomentumType, NumberedIsValued
  <2> HIDE DEF x
  <2> QED
    BY <2>1, <2>2, SingleChart
<1>2. CASE strategy = "residual_mean_reversion"
  <2> DEFINE x == ResidualMeanReversion(table)
  <2>1. m = [c \in DOMAIN Single(x) |-> TestRows(Single(x)[c], f)] /\ ColumnsOf(strategy) = {"score"}
    BY <1>2 DEF ScorePanel, ColumnsOf
  <2>2. Valued(x, size)
    BY ResidualMeanReversionType, NumberedIsValued
  <2> HIDE DEF x
  <2> QED
    BY <2>1, <2>2, SingleChart
<1>3. CASE strategy = "funding_carry"
  <2> DEFINE x == FundingCarry(table)
  <2>1. m = [c \in DOMAIN Single(x) |-> TestRows(Single(x)[c], f)] /\ ColumnsOf(strategy) = {"score"}
    BY <1>3 DEF ScorePanel, ColumnsOf
  <2>2. Valued(x, size)
    BY FundingCarryValued
  <2> HIDE DEF x
  <2> QED
    BY <2>1, <2>2, SingleChart
<1>4. CASE strategy = "relative_strength"
  <2> DEFINE x == RelativeStrength(table, Tuning.slow)
  <2>1. m = [c \in DOMAIN Single(x) |-> TestRows(Single(x)[c], f)] /\ ColumnsOf(strategy) = {"score"}
    BY <1>4 DEF ScorePanel, ColumnsOf
  <2>2. Valued(x, size)
    BY <1>0, RelativeStrengthValued
  <2> HIDE DEF x
  <2> QED
    BY <2>1, <2>2, SingleChart
<1>5. CASE strategy = "linear_cross_sectional"
  <2> DEFINE x == LinearScore(table, fitted)
  <2>1. m = [c \in DOMAIN Single(x) |-> TestRows(Single(x)[c], f)] /\ ColumnsOf(strategy) = {"score"}
    BY <1>5 DEF ScorePanel, ColumnsOf
  <2>2. Valued(x, size)
    BY LinearScoreType, NumberedIsValued
  <2> HIDE DEF x
  <2> QED
    BY <2>1, <2>2, SingleChart
<1>6. CASE strategy = "sma_crossover"
  <2> DEFINE x == SmaCrossover(table)
  <2>1. m = [c \in DOMAIN Single(x) |-> TestRows(Single(x)[c], f)] /\ ColumnsOf(strategy) = {"score"}
    BY <1>6 DEF ScorePanel, ColumnsOf
  <2>2. Valued(x, size)
    BY SmaCrossoverValued
  <2> HIDE DEF x
  <2> QED
    BY <2>1, <2>2, SingleChart
<1>7. CASE strategy = "sma_trend_strength"
  <2> DEFINE x == SmaGap(table)
  <2>1. m = [c \in DOMAIN Single(x) |-> TestRows(Single(x)[c], f)] /\ ColumnsOf(strategy) = {"score"}
    BY <1>7 DEF ScorePanel, ColumnsOf
  <2>2. Valued(x, size)
    BY SmaGapValued
  <2> HIDE DEF x
  <2> QED
    BY <2>1, <2>2, SingleChart
<1>8. CASE strategy = "volatility_filtered_sma"
  <2> DEFINE x == FilteredSma(table, f.trainEnd)
  <2>1. m = [c \in DOMAIN Single(x) |-> TestRows(Single(x)[c], f)] /\ ColumnsOf(strategy) = {"score"}
    BY <1>8 DEF ScorePanel, ColumnsOf
  <2>2. Valued(x, size)
    BY FilteredSmaValued
  <2> HIDE DEF x
  <2> QED
    BY <2>1, <2>2, SingleChart
<1>9. CASE strategy = "donchian_breakout"
  <2> DEFINE x == Breakout(table)
  <2>1. m = [c \in DOMAIN Single(x) |-> TestRows(Single(x)[c], f)] /\ ColumnsOf(strategy) = {"score"}
    BY <1>9 DEF ScorePanel, ColumnsOf
  <2>2. Valued(x, size)
    BY BreakoutType, NumberedIsValued
  <2> HIDE DEF x
  <2> QED
    BY <2>1, <2>2, SingleChart
<1>10. CASE strategy = "market_regime_trend"
  <2> DEFINE x == RegimeTrend(table)
  <2>1. m = [c \in DOMAIN Single(x) |-> TestRows(Single(x)[c], f)] /\ ColumnsOf(strategy) = {"score"}
    BY <1>10 DEF ScorePanel, ColumnsOf
  <2>2. Valued(x, size)
    BY RegimeTrendValued
  <2> HIDE DEF x
  <2> QED
    BY <2>1, <2>2, SingleChart
<1>11. CASE strategy = "multi_horizon_trend"
  <2> DEFINE x == HorizonVotes(table)
  <2>1. m = [c \in DOMAIN Single(x) |-> TestRows(Single(x)[c], f)] /\ ColumnsOf(strategy) = {"score"}
    BY <1>11 DEF ScorePanel, ColumnsOf
  <2>2. Valued(x, size)
    BY HorizonVotesValued
  <2> HIDE DEF x
  <2> QED
    BY <2>1, <2>2, SingleChart
<1>12. CASE strategy = "carry_relative_strength"
  <2> DEFINE x == CarryRelativeStrength(table)
             names == {"score", "carry", "relative"}
  <2>1. m = [c \in DOMAIN x |-> TestRows(x[c], f)] /\ ColumnsOf(strategy) = names
    BY <1>12 DEF ScorePanel, ColumnsOf
  <2>2. DOMAIN x = names /\ \A c \in names : Valued(x[c], size)
    BY CarryRelativeStrengthValued DEF TwoSleeves
  <2> HIDE DEF x, names
  <2>3. Charted(m, names, n)
    BY <2>1, <2>2, SlicedChart
  <2> QED
    BY <2>1, <2>3
<1>13. CASE strategy = "carry_consensus_strength"
  <2> DEFINE x == CarryConsensusStrength(table)
             names == {"score", "carry", "relative"}
  <2>1. m = [c \in DOMAIN x |-> TestRows(x[c], f)] /\ ColumnsOf(strategy) = names
    BY <1>13 DEF ScorePanel, ColumnsOf
  <2>2. DOMAIN x = names /\ \A c \in names : Valued(x[c], size)
    BY CarryConsensusValued DEF TwoSleeves
  <2> HIDE DEF x, names
  <2>3. Charted(m, names, n)
    BY <2>1, <2>2, SlicedChart
  <2> QED
    BY <2>1, <2>3
<1>14. CASE strategy = "carry_multi_horizon"
  <2> DEFINE x == CarryMultiHorizon(table)
             names == {"score", "carry", "fast", "slow"}
  <2>1. m = [c \in DOMAIN x |-> TestRows(x[c], f)] /\ ColumnsOf(strategy) = names
    BY <1>14 DEF ScorePanel, ColumnsOf
  <2>2. DOMAIN x = names /\ \A c \in names : Valued(x[c], size)
    BY CarryMultiHorizonValued DEF ThreeSleeves
  <2> HIDE DEF x, names
  <2>3. Charted(m, names, n)
    BY <2>1, <2>2, SlicedChart
  <2> QED
    BY <2>1, <2>3
<1>15. CASE strategy = "carry_dual_trend"
  <2> DEFINE x == CarryDualTrend(table)
             names == {"score", "carry", "fast", "slow"}
  <2>1. m = [c \in DOMAIN x |-> TestRows(x[c], f)] /\ ColumnsOf(strategy) = names
    BY <1>15 DEF ScorePanel, ColumnsOf
  <2>2. DOMAIN x = names /\ \A c \in names : Valued(x[c], size)
    BY CarryDualTrendValued DEF ThreeSleeves
  <2> HIDE DEF x, names
  <2>3. Charted(m, names, n)
    BY <2>1, <2>2, SlicedChart
  <2> QED
    BY <2>1, <2>3
<1>16. CASE strategy = "carry_multi_regime"
  <2> DEFINE x == CarryMultiRegime(table)
             names == {"score", "carry", "fast", "slow", "regime"}
  <2>1. m = [c \in DOMAIN x |-> TestRows(x[c], f)] /\ ColumnsOf(strategy) = names
    BY <1>16 DEF ScorePanel, ColumnsOf
  <2>2. DOMAIN x = names /\ \A c \in names : Valued(x[c], size)
    BY CarryMultiRegimeValued
  <2> HIDE DEF x, names
  <2>3. Charted(m, names, n)
    BY <2>1, <2>2, SlicedChart
  <2> QED
    BY <2>1, <2>3
<1>17. CASE strategy = "quarter_hour_flow"
  <2>1. m = Single(QuarterHourFlow(table, f)) /\ ColumnsOf(strategy) = {"score"}
    BY <1>17 DEF ScorePanel, ColumnsOf
  <2> QED
    BY <2>1, QuarterHourFlowValued, EventChart
<1>18. CASE strategy = "flow_absorption"
  <2>1. m = Single(FlowAbsorption(table, f)) /\ ColumnsOf(strategy) = {"score"}
    BY <1>18 DEF ScorePanel, ColumnsOf
  <2> QED
    BY <2>1, FlowAbsorptionValued, EventChart
<1>19. CASE strategy = "volatility_compression_breakout"
  <2>1. m = Single(CompressionBreakout(table, f)) /\ ColumnsOf(strategy) = {"score"}
    BY <1>19 DEF ScorePanel, ColumnsOf
  <2> QED
    BY <2>1, CompressionBreakoutValued, EventChart
<1>20. CASE strategy = "pair_spread_reversion"
  <2>1. m = PairSpreadReversion(table, f, fitted) /\ ColumnsOf(strategy) = {"score", "pairs"}
    BY <1>20 DEF ScorePanel, ColumnsOf
  <2>2. fitted \in [Alts -> Tuning.pairModels]
    BY <1>20 DEF Fits
  <2>3. n \in Nat /\ f.testEnd - f.testStart + 1 = n
    BY DEF Inside
  <2>4. DOMAIN m = {"score", "pairs"} /\ m.score = PairScores(table, f.testStart, fitted, n)
    BY <2>1, <2>3, PairScoreIs
  <2>5. Valued(m.score, n)
    BY <2>2, <2>3, <2>4, PairScoresValued
  <2> QED
    BY <2>1, <2>4, <2>5 DEF Charted
<1> QED
  BY <1>1, <1>2, <1>3, <1>4, <1>5, <1>6, <1>7, <1>8, <1>9, <1>10, <1>11, <1>12, <1>13, <1>14, <1>15, <1>16, <1>17, <1>18, <1>19, <1>20 DEF StrategyNames

(* A chart without gaps reads as the policy expects. *)
LEMMA ChartReads ==
  ASSUME NEW columns, NEW names, NEW n \in Nat, Charted(columns, names, n), ~HistoryMissing(columns),
         NEW policy \in PolicyNames, ColumnsRead(policy) \subseteq names
  PROVE  Readable(policy, columns, n)
<1>1. ASSUME NEW c \in names \ {"pairs"} PROVE Scored(columns[c], n)
  <2> SUFFICES ASSUME NEW r \in 1..n PROVE columns[c][r] \in [Symbols -> Int]
    BY DEF Scored
  <2>1. columns[c][r] \in [Symbols -> Value] /\ DOMAIN columns[c] = 1..n /\ DOMAIN columns = names
    BY <1>1 DEF Charted, Valued
  <2>2. ASSUME NEW s \in Symbols PROVE columns[c][r][s] # NaN
    <3> SUFFICES ASSUME columns[c][r][s] = NaN PROVE HistoryMissing(columns)
      OBVIOUS
    <3> DEFINE cell == <<c, r, s>>
    <3>1. cell \in {c} \X (DOMAIN columns[c]) \X Symbols
      BY <2>1
    <3>2. columns[cell[1]][cell[2]][cell[3]] = NaN
      OBVIOUS
    <3> HIDE DEF cell
    <3>3. c \in DOMAIN columns \ {"pairs"}
      BY <1>1, <2>1
    <3>4. cell \in UNION {{d} \X (DOMAIN columns[d]) \X Symbols : d \in DOMAIN columns \ {"pairs"}}
      BY <3>1, <3>3
    <3> QED
      BY <3>2, <3>4 DEF HistoryMissing
  <2>3. \A s \in Symbols : columns[c][r][s] \in Int
    BY <2>1, <2>2 DEF Value
  <2> DEFINE x == columns[c][r]
  <2>4. x \in [Symbols -> Value] /\ \A s \in Symbols : x[s] \in Int
    BY <2>1, <2>3
  <2> HIDE DEF x
  <2>5. x \in [Symbols -> Int]
    BY <2>4
  <2> QED
    BY <2>5 DEF x
<1>2. CASE policy = "buffered_two_sleeve_neutral"
  <2>1. "carry" \in names /\ "relative" \in names
    BY <1>2 DEF ColumnsRead
  <2> QED
    BY <1>1, <1>2, <2>1 DEF Readable
<1>3. CASE policy = "buffered_three_sleeve_neutral"
  <2>1. "carry" \in names /\ "fast" \in names /\ "slow" \in names
    BY <1>3 DEF ColumnsRead
  <2> QED
    BY <1>1, <1>3, <2>1 DEF Readable
<1>4. CASE policy = "buffered_carry_regime"
  <2>1. "carry" \in names /\ "fast" \in names /\ "slow" \in names
    BY <1>4 DEF ColumnsRead
  <2> QED
    BY <1>1, <1>4, <2>1 DEF Readable
<1>5. CASE policy \in {"neutral_long_short", "buffered_neutral_long_short", "buffered_directional", "buffered_long_flat", "buffered_pair_spread"}
  <2>1. "score" \in names
    BY <1>5 DEF ColumnsRead
  <2> QED
    BY <1>1, <1>5, <2>1 DEF Readable
<1> QED
  BY <1>2, <1>3, <1>4, <1>5 DEF PolicyNames

-----------------------------------------------------------------------------
(* The weights of a run. *)
Lawful(w, policy) ==
  /\ Mandated(w)
  /\ policy \in Neutral => Abs(RowSum(w)) <= Rounding
  /\ policy = "buffered_long_flat" => \A s \in Symbols : w[s] >= 0

(* Beside what ResearchInv says: a run follows one of the plans, the scores *)
(* are those of what was fitted for the fold, and the targets of the fold   *)
(* in hand keep to the mandate of the plan's policy.                        *)
RunInv ==
  /\ ResearchInv
  /\ status \in {"recorded", "ready"} => targets = <<>>
  /\ status \in {"folding", "scored", "trading"} => plan \in Plans /\ delay \in Delays
  /\ status = "scored" =>
        scores.fitted \in Fits(plan[1]) /\ scores.columns = ScorePanel(plan[1], panel, Fold, scores.fitted)
  /\ \A r \in DOMAIN targets : Lawful(targets[r], plan[2])
  /\ status = "trading" => FoldExists(fold) /\ DOMAIN targets = 1..TestBars /\ Len(targets) = TestBars

LEMMA FoldIsInside ==
  ASSUME ResearchInv, status \notin {"recorded", "rejected"}, fold \in Nat \ {0}, FoldExists(fold)
  PROVE  /\ Inside(Fold, Len(panel), TestBars) /\ Readings(panel, Len(panel)) /\ Len(panel) \in Nat
         /\ Fold.testStart = TrainBars + EmbargoBars + (fold - 1) * TestBars + 1
         /\ (fold - 1) * TestBars \in Nat /\ TestBars \in Nat \ {0}
<1>1. hours \in Seq(Hour) /\ panel = BuildRows(hours)
  BY HistoriesAssumption DEF ResearchInv
<1>2. Readings(panel, Len(panel)) /\ Len(panel) \in Nat
  BY <1>1, PanelReads
<1> DEFINE past == (fold - 1) * TestBars
<1>3. TrainBars \in Nat \ {0} /\ TestBars \in Nat \ {0} /\ EmbargoBars \in Nat \ {0} /\ past \in Nat
  <2>1. \A a, b \in Nat : a * b \in Nat
    OBVIOUS
  <2> QED
    BY <2>1, FoldsAssumption
<1>4. /\ Fold.testStart = TrainBars + past + 1 + EmbargoBars
      /\ Fold.testEnd = TrainBars + past + EmbargoBars + TestBars
      /\ Fold.testEnd <= Len(panel)
  BY DEF Fold, FoldRows, FoldExists
<1>5. past = (fold - 1) * TestBars
  OBVIOUS
<1> HIDE DEF past
<1>6. Inside(Fold, Len(panel), TestBars)
  BY <1>3, <1>4 DEF Inside
<1> QED
  BY <1>2, <1>3, <1>4, <1>5, <1>6

LEMMA TestPanelWeighable ==
  ASSUME NEW size \in Nat, Readings(panel, size), Inside(Fold, size, TestBars)
  PROVE  /\ Weighable(TestPanel, TestBars)
         /\ \A r \in 1..TestBars : TestPanel[r] = panel[Fold.testStart + r - 1] /\ Fold.testStart + r - 1 \in 1..size
<1> DEFINE x == TestPanel
<1>1. x = TestRows(panel, Fold)
  BY DEF TestPanel, TestRows
<1>2. x = RowsFrom(panel, Fold.testStart, TestBars) /\ Rows(x, TestBars)
  BY <1>1, TestRowsAre
<1>3. \A r \in 1..TestBars : x[r] = panel[Fold.testStart + r - 1]
  BY <1>2 DEF RowsFrom
<1>4. \A r \in 1..TestBars : Fold.testStart + r - 1 \in 1..size
  BY DEF Inside
<1>5. \A r \in 1..TestBars : x[r].feature.beta \in [Symbols -> Int] /\ x[r].feature.volatility \in [Symbols -> Nat]
  BY <1>3, <1>4 DEF Readings, Measured
<1> HIDE DEF x
<1>6. Weighable(x, TestBars)
  BY <1>2, <1>5 DEF Weighable, Rows
<1> QED
  BY <1>3, <1>4, <1>6 DEF x

LEMMA WeighedIs ==
  ASSUME RunInv, status = "scored", ~HistoryMissing(scores.columns)
  PROVE  /\ DOMAIN Delayed(Weighed) = 1..TestBars /\ Len(Delayed(Weighed)) = TestBars
         /\ \A r \in DOMAIN Delayed(Weighed) : Lawful(Delayed(Weighed)[r], plan[2])
<1> DEFINE f == Weighed
           w == Delayed(f)
           n == TestBars
<1>1. ResearchInv /\ plan \in Plans /\ delay \in Nat /\ fold \in Nat \ {0} /\ FoldExists(fold)
  BY FoldsAssumption DEF RunInv, ResearchInv
<1>2. /\ Inside(Fold, Len(panel), n) /\ Readings(panel, Len(panel)) /\ Len(panel) \in Nat /\ n \in Nat
  BY <1>1, FoldIsInside
<1>3. plan[1] \in StrategyNames /\ plan[2] \in PolicyNames /\ ColumnsRead(plan[2]) \subseteq ColumnsOf(plan[1])
  BY <1>1, PlansAssumption
<1>4. Charted(scores.columns, ColumnsOf(plan[1]), n)
  <2>1. scores.fitted \in Fits(plan[1]) /\ scores.columns = ScorePanel(plan[1], panel, Fold, scores.fitted)
    BY DEF RunInv
  <2> QED
    BY <1>2, <1>3, <2>1, ScoresCharted
<1>5. Readable(plan[2], scores.columns, n)
  BY <1>2, <1>3, <1>4, ChartReads
<1>6. Weighable(TestPanel, n)
  BY <1>2, TestPanelWeighable
<1>7. /\ Meets(f, n)
      /\ plan[2] \in Neutral => Balances(f, n)
      /\ plan[2] = "buffered_long_flat" => \A r \in 1..n : \A s \in Symbols : f[r].weights[s] >= 0
  BY <1>2, <1>3, <1>5, <1>6, TargetsMeet DEF Weighed
<1> HIDE DEF f
<1>8. DOMAIN f = 1..n /\ \A r \in 1..n : Lawful(f[r].weights, plan[2])
  BY <1>7 DEF Meets, Balances, Lawful
<1>9. Lawful(NoWeights, plan[2])
  <2>1. Abs(0) <= Rounding
    BY CountIs, AbsIs DEF Rounding, Count
  <2> QED
    BY <2>1, NoWeightsIs DEF Lawful
<1>10. w = [r \in 1..n |-> IF r > delay THEN f[r - delay].weights ELSE NoWeights]
  BY <1>8 DEF Delayed
<1>11. DOMAIN w = 1..n /\ Len(w) = n
  BY <1>2, <1>10
<1>12. \A r \in 1..n : Lawful(w[r], plan[2])
  <2> TAKE r \in 1..n
  <2>1. w[r] = IF r > delay THEN f[r - delay].weights ELSE NoWeights
    BY <1>10
  <2>2. r > delay => r - delay \in 1..n
    BY <1>1, <1>2
  <2> HIDE DEF w
  <2> QED
    BY <1>8, <1>9, <2>1, <2>2
<1> QED
  BY <1>11, <1>12 DEF f

LEMMA RunStep ==
  ASSUME RunInv, [Next]_vars
  PROVE  RunInv'
<1>0. ResearchInv /\ ResearchInv'
  BY ResearchStep DEF RunInv
<1>00. UNCHANGED targets /\ UNCHANGED plan => \A r \in DOMAIN targets' : Lawful(targets'[r], plan'[2])
  BY DEF RunInv
<1>1. CASE BuildPanel
  BY <1>0, <1>00, <1>1 DEF BuildPanel, RunInv
<1>2. CASE RefuseHistory
  BY <1>0, <1>00, <1>2 DEF RefuseHistory, Reject, RunInv
<1>3. CASE StartRun
  <2>1. targets' = <<>> /\ plan' \in Plans /\ delay' \in Delays /\ status' = "folding"
    BY <1>3 DEF StartRun, RunInv
  <2> QED
    BY <1>0, <2>1 DEF RunInv
<1>4. CASE TooFewDecisions
  BY <1>0, <1>00, <1>4 DEF TooFewDecisions, Reject, RunInv
<1>5. CASE FitAndScore
  <2>1. PICK fitted \in Fits(plan[1]) :
          scores' = [fitted |-> fitted, columns |-> ScorePanel(plan[1], panel, Fold, fitted)]
    BY <1>5 DEF FitAndScore
  <2>2. scores'.columns = ScorePanel(plan[1], panel, Fold, scores'.fitted) /\ scores'.fitted \in Fits(plan[1])
    BY <2>1
  <2>3. status = "folding" /\ status' = "scored" /\ UNCHANGED <<hours, panel, plan, delay, fold, targets>>
    BY <1>5 DEF FitAndScore
  <2>4. Fold' = Fold
    BY <2>3 DEF Fold, FoldRows
  <2>5. scores'.fitted \in Fits(plan'[1]) /\ scores'.columns = ScorePanel(plan'[1], panel', Fold', scores'.fitted)
    BY <2>2, <2>3, <2>4
  <2> QED
    BY <1>0, <1>00, <2>3, <2>5 DEF RunInv
<1>6. CASE FitFails
  BY <1>0, <1>00, <1>6 DEF FitFails, Reject, RunInv
<1>7. CASE WeighScores
  <2>1. /\ status = "scored" /\ ~HistoryMissing(scores.columns) /\ targets' = Delayed(Weighed)
        /\ status' = "trading" /\ UNCHANGED <<hours, panel, plan, delay, fold>>
    BY <1>7 DEF WeighScores
  <2>2. /\ DOMAIN targets' = 1..TestBars /\ Len(targets') = TestBars
        /\ \A r \in DOMAIN targets' : Lawful(targets'[r], plan'[2])
    BY <2>1, WeighedIs
  <2>3. FoldExists(fold)' /\ plan' \in Plans /\ delay' \in Delays
    BY <2>1 DEF RunInv, ResearchInv, FoldExists, FoldRows
  <2> QED
    BY <1>0, <2>1, <2>2, <2>3 DEF RunInv
<1>8. CASE ScoringFails
  BY <1>0, <1>00, <1>8 DEF ScoringFails, Reject, RunInv
<1>9. CASE WeighingFails
  BY <1>0, <1>00, <1>9 DEF WeighingFails, Reject, RunInv
<1>10. CASE Bar
  <2>1. status = "trading" /\ UNCHANGED <<status, hours, panel, plan, delay, fold, scores, targets>>
    BY <1>10 DEF Bar
  <2>2. FoldExists(fold)' <=> FoldExists(fold)
    BY <2>1 DEF FoldExists, FoldRows
  <2> QED
    BY <1>0, <1>00, <2>1, <2>2 DEF RunInv
<1>11. CASE BarRefused
  BY <1>0, <1>00, <1>11 DEF BarRefused, Reject, RunInv
<1>12. CASE NextFold
  BY <1>0, <1>00, <1>12 DEF NextFold, RunInv
<1>13. CASE FinishRun
  BY <1>0, <1>00, <1>13 DEF FinishRun, RunInv
<1>14. CASE ReportTrades
  BY <1>0, <1>00, <1>14 DEF ReportTrades, RunInv
<1>15. CASE UNCHANGED vars
  <2>1. (FoldExists(fold)' <=> FoldExists(fold)) /\ Fold' = Fold
    BY <1>15 DEF vars, FoldExists, Fold, FoldRows
  <2> QED
    BY <1>0, <1>00, <1>15, <2>1 DEF vars, RunInv
<1> QED
  BY <1>1, <1>2, <1>3, <1>4, <1>5, <1>6, <1>7, <1>8, <1>9, <1>10, <1>11, <1>12, <1>13, <1>14, <1>15
  DEF Next

(* In every reachable state the fold in hand follows one of the plans, its  *)
(* scores come from what was fitted for it, and its targets are lawful      *)
(* weights for each of its rows (backtest.py, portfolio).                   *)
THEOREM RunInvariant == Spec => []RunInv
<1>1. Init => RunInv
  BY DEF Init, RunInv, ResearchInv
<1> QED
  BY <1>1, RunStep, PTL DEF Spec

(* The mandate of portfolio/: for every number of symbols, every history,   *)
(* strategy, policy that accepts its scores, delay, window and risk limits, *)
(* the target weights that act in a fold keep to the gross exposure and to  *)
(* the largest weight, those of a neutral policy net to zero up to rounding *)
(* and those of a long-flat policy are never short.                         *)
THEOREM MandateKept == Spec => []WeightsWithinMandate
<1>1. RunInv => WeightsWithinMandate
  BY DEF RunInv, Lawful, Mandated, WeightsWithinMandate
<1> QED
  BY <1>1, RunInvariant, PTL

-----------------------------------------------------------------------------
(* The positions and the curve. *)

LEMMA AppendIs ==
  ASSUME NEW n \in Nat, NEW s, s = [i \in 1..n |-> s[i]], NEW e
  PROVE  /\ Len(Append(s, e)) = n + 1 /\ DOMAIN Append(s, e) = 1..(n + 1)
         /\ Append(s, e) = [i \in 1..(n + 1) |-> Append(s, e)[i]]
         /\ \A i \in 1..n : Append(s, e)[i] = s[i]
         /\ Append(s, e)[n + 1] = e
<1> DEFINE X == {s[i] : i \in 1..n} \cup {e}
<1>1. \A i \in 1..n : s[i] \in X
  OBVIOUS
<1>2. e \in X
  OBVIOUS
<1> HIDE DEF X
<1>3. s \in Seq(X) /\ Len(s) = n
  BY <1>1
<1> DEFINE t == Append(s, e)
<1>4. t \in Seq(X) /\ Len(t) = n + 1 /\ DOMAIN t = 1..(n + 1)
  BY <1>2, <1>3
<1>5. (\A i \in 1..n : t[i] = s[i]) /\ t[n + 1] = e
  BY <1>2, <1>3
<1> HIDE DEF t
<1>6. t = [i \in 1..(n + 1) |-> t[i]]
  BY <1>4
<1> QED
  BY <1>4, <1>5, <1>6 DEF t

(* What each row of the positions records: row r of its fold, the weights   *)
(* held over the row of the panel that lies as far behind the first test    *)
(* row, what they were before, and what was traded and earned.              *)
Turn(i, k) == i - (k - 1) * TestBars
Settled(i, bar, before, row, points) ==
  LET r == Turn(i, bar.fold)
      turnover == RowSum(bar.traded)
  IN  /\ bar.fold \in Nat \ {0} /\ r \in 1..TestBars
      /\ bar.execution = row.execution /\ bar.labelEnd = row.labelEnd
      /\ bar.target \in [Symbols -> Int]
      /\ bar.previous = IF r = 1 THEN NoWeights ELSE before
      /\ bar.traded = [s \in Symbols |-> Abs(bar.target[s] - bar.previous[s])
                                          + (IF r = TestBars THEN Abs(bar.target[s]) ELSE 0)]
      /\ bar.price = [s \in Symbols |-> bar.target[s] * row.future[s]]
      /\ bar.funding = [s \in Symbols |-> -bar.target[s] * row.funding[s]]
      /\ points.fold = bar.fold
      /\ points.price = RowSum(bar.price) /\ points.funding = RowSum(bar.funding)
      /\ points.turnover = turnover /\ points.fees = turnover * Costs.fee
      /\ points.spread = turnover * Costs.spread /\ points.slippage = turnover * Costs.slippage

Offset == TrainBars + EmbargoBars

Listed(n) ==
  /\ n \in Nat
  /\ positions = [i \in 1..n |-> positions[i]] /\ curve = [i \in 1..n |-> curve[i]]
  /\ n > 0 => panel = BuildRows(hours)
  /\ n = 0 \/ Offset + n <= Len(panel)
  /\ \A i \in 1..n : Settled(i, positions[i], positions[i - 1].target, panel[Offset + i], curve[i])

Reported ==
  trades = {[fold |-> k, symbol |-> s, events |-> Reconstruct(SymbolRows(k, s))] :
               k \in {positions[i].fold : i \in DOMAIN positions}, s \in Symbols}

Ledger(n) ==
  /\ Listed(n)
  /\ status \in {"recorded", "ready"} => n = 0
  /\ status # "reported" => trades = {}
  /\ status \in {"folding", "scored", "trading", "finished", "reported"} => fold \in Nat \ {0}
  /\ status \in {"folding", "scored", "finished", "reported"} => n = (fold - 1) * TestBars
  /\ status = "trading" =>
        /\ period \in 0..TestBars /\ n = (fold - 1) * TestBars + period
        /\ period > 0 => positions[n].target = targets[period]
  /\ status = "reported" => Reported

LedgerInv == RunInv /\ Ledger(Len(positions))

LEMMA BarIsSettled ==
  ASSUME RunInv, status = "trading", period \in 0..TestBars, period < TestBars, fold \in Nat \ {0},
         NEW n, n = (fold - 1) * TestBars + period, NEW before, period > 0 => before = targets[period],
         NEW bar, bar = BarOf(period + 1)
  PROVE  /\ Settled(n + 1, bar, before, panel[Offset + n + 1], CurveRow(bar))
         /\ bar.target = targets[period + 1] /\ bar.fold = fold
         /\ n \in Nat /\ Offset + n + 1 <= Len(panel)
<1> DEFINE r == period + 1
           past == (fold - 1) * TestBars
           row == TestPanel[r]
           w == targets[r]
<1>1. /\ FoldExists(fold) /\ DOMAIN targets = 1..TestBars /\ Len(targets) = TestBars /\ ResearchInv
      /\ \A i \in DOMAIN targets : Lawful(targets[i], plan[2])
  BY DEF RunInv
<1>2. /\ Inside(Fold, Len(panel), TestBars) /\ Readings(panel, Len(panel)) /\ Len(panel) \in Nat
      /\ Fold.testStart = Offset + past + 1 /\ past \in Nat /\ TestBars \in Nat \ {0}
  BY <1>1, FoldIsInside DEF Offset
<1>3. r \in 1..TestBars /\ r # 0 /\ r - 1 = period /\ Offset \in Nat
  BY <1>2, FoldsAssumption DEF Offset
<1>4. row = panel[Fold.testStart + r - 1] /\ Fold.testStart + r - 1 \in 1..Len(panel)
  BY <1>2, <1>3, TestPanelWeighable
<1>5. Fold.testStart + r - 1 = Offset + n + 1 /\ n \in Nat /\ n = past + period
  BY <1>2, <1>3
<1>6. row = panel[Offset + n + 1] /\ Offset + n + 1 <= Len(panel)
  BY <1>4, <1>5
<1>7. Turn(n + 1, fold) = r
  <2>1. past = (fold - 1) * TestBars
    OBVIOUS
  <2> HIDE DEF past
  <2> QED
    BY <1>2, <1>5, <2>1 DEF Turn
<1>8. w \in [Symbols -> Int]
  BY <1>1, <1>3 DEF Lawful, Mandated
<1>9. /\ bar.fold = fold /\ bar.execution = row.execution /\ bar.labelEnd = row.labelEnd
      /\ bar.previous = Previous /\ bar.target = w
      /\ bar.traded = [s \in Symbols |-> Abs(w[s] - Previous[s]) + (IF r = Len(targets) THEN Abs(w[s]) ELSE 0)]
      /\ bar.price = [s \in Symbols |-> w[s] * row.future[s]]
      /\ bar.funding = [s \in Symbols |-> -w[s] * row.funding[s]]
  BY DEF BarOf
<1>10. Previous = IF r = 1 THEN NoWeights ELSE before
  BY <1>3 DEF Previous
<1>11. /\ CurveRow(bar).fold = fold
       /\ CurveRow(bar).price = RowSum(bar.price) /\ CurveRow(bar).funding = RowSum(bar.funding)
       /\ CurveRow(bar).turnover = RowSum(bar.traded) /\ CurveRow(bar).fees = RowSum(bar.traded) * Costs.fee
       /\ CurveRow(bar).spread = RowSum(bar.traded) * Costs.spread
       /\ CurveRow(bar).slippage = RowSum(bar.traded) * Costs.slippage
  BY DEF CurveRow
<1> HIDE DEF r, past, row, w
<1>12. bar.traded = [s \in Symbols |-> Abs(bar.target[s] - bar.previous[s]) + (IF r = TestBars THEN Abs(bar.target[s]) ELSE 0)]
  BY <1>1, <1>9
<1>13. bar.price = [s \in Symbols |-> bar.target[s] * row.future[s]]
       /\ bar.funding = [s \in Symbols |-> -bar.target[s] * row.funding[s]]
  BY <1>9
<1>14. Settled(n + 1, bar, before, row, CurveRow(bar))
  <2>1. Turn(n + 1, bar.fold) = r /\ bar.fold \in Nat \ {0} /\ r \in 1..TestBars /\ bar.target \in [Symbols -> Int]
    BY <1>3, <1>7, <1>8, <1>9
  <2>2. bar.previous = (IF r = 1 THEN NoWeights ELSE before) /\ bar.execution = row.execution /\ bar.labelEnd = row.labelEnd
    BY <1>9, <1>10
  <2>3. CurveRow(bar).fold = bar.fold
    BY <1>9, <1>11
  <2> QED
    BY ONLY <1>11, <1>12, <1>13, <2>1, <2>2, <2>3 DEF Settled
<1> QED
  BY <1>5, <1>6, <1>9, <1>14 DEF r, w

LEMMA ListedStays ==
  ASSUME Listed(Len(positions)), UNCHANGED <<positions, curve, hours>>,
         UNCHANGED panel \/ Len(positions) = 0
  PROVE  Listed(Len(positions))'
<1> DEFINE n == Len(positions)
<1>1. n' = n
  OBVIOUS
<1>2. CASE UNCHANGED panel
  BY <1>2 DEF Listed
<1>3. CASE n = 0
  <2>1. /\ n' = 0
        /\ positions' = [i \in 1..0 |-> positions'[i]] /\ curve' = [i \in 1..0 |-> curve'[i]]
    BY <1>3 DEF Listed
  <2> HIDE DEF n
  <2> QED
    BY <2>1 DEF Listed
<1> QED
  BY <1>2, <1>3

LEMMA ListedGrows ==
  ASSUME Listed(Len(positions)), status # "recorded", ResearchInv, status # "rejected",
         NEW bar, NEW points,
         positions' = Append(positions, bar), curve' = Append(curve, points), UNCHANGED <<hours, panel>>,
         Offset + Len(positions) + 1 <= Len(panel),
         Settled(Len(positions) + 1, bar, positions[Len(positions)].target, panel[Offset + Len(positions) + 1], points)
  PROVE  Listed(Len(positions))' /\ Len(positions)' = Len(positions) + 1 /\ positions'[Len(positions) + 1] = bar
<1> DEFINE n == Len(positions)
<1>1. n \in Nat /\ positions = [i \in 1..n |-> positions[i]] /\ curve = [i \in 1..n |-> curve[i]]
  BY DEF Listed
<1> DEFINE m == n + 1
<1>2. /\ Len(positions') = m /\ positions' = [i \in 1..m |-> positions'[i]]
      /\ \A i \in 1..n : positions'[i] = positions[i]
      /\ positions'[m] = bar
  BY <1>1, AppendIs
<1>3. /\ curve' = [i \in 1..m |-> curve'[i]]
      /\ \A i \in 1..n : curve'[i] = curve[i]
      /\ curve'[m] = points
  BY <1>1, AppendIs
<1>4. panel' = BuildRows(hours')
  BY DEF ResearchInv
<1>5. Settled(m, bar, positions[n].target, panel[Offset + m], points) /\ Offset + m <= Len(panel)
  <2>1. Offset \in Nat
    BY FoldsAssumption DEF Offset
  <2>2. Offset + n + 1 = Offset + m
    BY <1>1, <2>1
  <2> QED
    BY <2>2
<1>6. \A i \in 1..n : Settled(i, positions[i], positions[i - 1].target, panel[Offset + i], curve[i])
  BY DEF Listed
<1>7. m \in Nat /\ \A i \in 1..m : i \in 1..n \/ i = m
  BY <1>1
<1>07. m - 1 = n
  BY <1>1
<1> HIDE DEF n, m
<1>8. \A i \in 1..m : Settled(i, positions'[i], positions'[i - 1].target, panel'[Offset + i], curve'[i])
  <2> SUFFICES ASSUME NEW i \in 1..m
               PROVE  Settled(i, positions'[i], positions'[i - 1].target, panel'[Offset + i], curve'[i])
    OBVIOUS
  <2>1. CASE i \in 1..n /\ i # 1
    <3>1. i - 1 \in 1..n
      BY <1>1, <2>1
    <3>2. Settled(i, positions[i], positions[i - 1].target, panel[Offset + i], curve[i])
      BY <1>6, <2>1
    <3> QED
      BY <1>2, <1>3, <2>1, <3>1, <3>2
  <2>2. CASE i \in 1..n /\ i = 1
    <3>1. Settled(1, positions[1], positions[1 - 1].target, panel[Offset + 1], curve[1])
      BY <1>6, <2>2
    <3> DEFINE x == positions[1]
    <3>2. Turn(1, x.fold) = 1
      <4>1. x.fold \in Nat \ {0} /\ Turn(1, x.fold) \in 1..TestBars
        BY <3>1 DEF Settled
      <4>2. (x.fold - 1) * TestBars \in Nat
        <5>1. \A a, b \in Nat : a * b \in Nat
          OBVIOUS
        <5>2. x.fold - 1 \in Nat /\ TestBars \in Nat
          BY <4>1, FoldsAssumption
        <5> QED
          BY ONLY <5>1, <5>2
      <4> QED
        BY <4>1, <4>2 DEF Turn
    <3>3. positions'[1] = x /\ curve'[1] = curve[1] /\ panel'[Offset + 1] = panel[Offset + 1]
      BY <1>2, <1>3, <2>2
    <3>4. \A a, b : Settled(1, x, a, panel[Offset + 1], curve[1]) => Settled(1, x, b, panel[Offset + 1], curve[1])
      <4> HIDE DEF x
      <4> QED
        BY <3>2 DEF Settled
    <3> QED
      BY <2>2, <3>1, <3>3, <3>4
  <2>3. CASE i = m /\ i # 1
    <3>1. n \in 1..n
      BY <1>1, <1>07, <2>3
    <3> QED
      BY <1>07, <1>2, <1>3, <1>5, <2>3, <3>1
  <2>4. CASE i = m /\ i = 1
    <3>1. Settled(1, bar, positions[n].target, panel[Offset + 1], points)
      BY <1>5, <2>4
    <3>2. Turn(1, bar.fold) = 1
      <4>1. bar.fold \in Nat \ {0} /\ Turn(1, bar.fold) \in 1..TestBars
        BY <3>1 DEF Settled
      <4>2. (bar.fold - 1) * TestBars \in Nat
        <5>1. \A a, b \in Nat : a * b \in Nat
          OBVIOUS
        <5>2. bar.fold - 1 \in Nat /\ TestBars \in Nat
          BY <4>1, FoldsAssumption
        <5> QED
          BY ONLY <5>1, <5>2
      <4> QED
        BY <4>1, <4>2 DEF Turn
    <3>3. \A a, b : Settled(1, bar, a, panel[Offset + 1], points) => Settled(1, bar, b, panel[Offset + 1], points)
      BY <3>2 DEF Settled
    <3> QED
      BY <1>2, <1>3, <2>4, <3>1, <3>3
  <2> QED
    BY <1>7, <2>1, <2>2, <2>3, <2>4
<1>9. Len(positions)' = m
  BY <1>2
<1>10. Listed(Len(positions))'
  BY <1>2, <1>3, <1>4, <1>5, <1>7, <1>8, <1>9 DEF Listed, Offset
<1> QED
  BY <1>2, <1>9, <1>10 DEF m, n

LEMMA NextPast ==
  ASSUME NEW k \in Nat \ {0}
  PROVE  /\ (k - 1) * TestBars \in Nat /\ TestBars \in Nat \ {0}
         /\ k * TestBars = (k - 1) * TestBars + TestBars
         /\ k + 1 - 1 = k
<1>1. \A a, b \in Nat : a * b \in Nat /\ (a + 1) * b = a * b + b
  OBVIOUS
<1>2. k - 1 \in Nat /\ TestBars \in Nat \ {0} /\ (k - 1) + 1 = k
  BY FoldsAssumption
<1>3. (k - 1) * TestBars \in Nat /\ ((k - 1) + 1) * TestBars = (k - 1) * TestBars + TestBars
  BY ONLY <1>1, <1>2
<1> QED
  BY <1>2, <1>3

LEMMA LedgerStep ==
  ASSUME LedgerInv, [Next]_vars
  PROVE  LedgerInv'
<1> DEFINE n == Len(positions)
<1>0. RunInv /\ RunInv' /\ ResearchInv
  BY RunStep DEF LedgerInv, RunInv
<1>00. Ledger(n) /\ Listed(n) /\ n \in Nat
  BY DEF LedgerInv, Ledger, Listed
<1>1. CASE BuildPanel
  <2>1. n = 0 /\ UNCHANGED <<positions, curve, hours, trades>> /\ status = "recorded" /\ status' = "ready"
    BY <1>00, <1>1 DEF BuildPanel, Ledger
  <2>2. Listed(Len(positions))'
    BY <1>00, <2>1, ListedStays
  <2> QED
    BY <1>0, <1>00, <2>1, <2>2 DEF LedgerInv, Ledger
<1> DEFINE kept == UNCHANGED <<positions, curve, hours, panel>>
<1>2. ASSUME kept PROVE Listed(Len(positions))' /\ Len(positions)' = n
  BY <1>00, <1>2, ListedStays
<1>3. ASSUME Reject, status # "reported" PROVE LedgerInv'
  <2>1. kept /\ status' = "rejected" /\ UNCHANGED trades
    BY <1>3 DEF Reject
  <2> QED
    BY <1>0, <1>00, <1>2, <1>3, <2>1 DEF LedgerInv, Ledger
<1>4. CASE StartRun
  <2>1. kept /\ UNCHANGED trades /\ status = "ready" /\ status' = "folding" /\ fold' = 1
    BY <1>4 DEF StartRun
  <2>2. (1 - 1) * TestBars = 0
    BY FoldsAssumption
  <2> QED
    BY <1>0, <1>00, <1>2, <2>1, <2>2 DEF LedgerInv, Ledger
<1>5. CASE FitAndScore
  <2>1. kept /\ UNCHANGED <<trades, fold>> /\ status = "folding" /\ status' = "scored"
    BY <1>5 DEF FitAndScore
  <2> QED
    BY <1>0, <1>00, <1>2, <2>1 DEF LedgerInv, Ledger
<1>6. CASE WeighScores
  <2>1. kept /\ UNCHANGED <<trades, fold>> /\ status = "scored" /\ status' = "trading" /\ period' = 0
    BY <1>6 DEF WeighScores
  <2>2. n = (fold - 1) * TestBars /\ 0 \in 0..TestBars /\ fold \in Nat \ {0}
    BY <1>00, <2>1, FoldsAssumption DEF Ledger
  <2>3. n = (fold - 1) * TestBars + 0
    BY <1>00, <2>2
  <2> QED
    BY <1>0, <1>00, <1>2, <2>1, <2>2, <2>3 DEF LedgerInv, Ledger
<1>7. CASE Bar
  <2> DEFINE bar == BarOf(period + 1)
             points == CurveRow(bar)
             before == positions[n].target
  <2>1. /\ status = "trading" /\ status' = "trading" /\ period < Len(targets) /\ period' = period + 1
        /\ UNCHANGED <<hours, panel, fold, targets, trades>>
        /\ positions' = Append(positions, bar) /\ curve' = Append(curve, points)
    BY <1>7 DEF Bar
  <2>2. /\ period \in 0..TestBars /\ fold \in Nat \ {0} /\ n = (fold - 1) * TestBars + period
        /\ period > 0 => before = targets[period]
    BY <1>00, <2>1 DEF Ledger
  <2>3. period < TestBars
    BY <1>0, <2>1 DEF RunInv
  <2>4. /\ Settled(n + 1, bar, before, panel[Offset + n + 1], points)
        /\ bar.target = targets[period + 1] /\ bar.fold = fold
        /\ Offset + n + 1 <= Len(panel)
    BY <1>0, <2>1, <2>2, <2>3, BarIsSettled
  <2> HIDE DEF bar, points
  <2>5. Listed(Len(positions))' /\ Len(positions)' = n + 1 /\ positions'[n + 1] = bar
    BY <1>0, <1>00, <2>1, <2>4, ListedGrows
  <2>6. period' \in 0..TestBars /\ period' = period + 1
    BY <2>1, <2>2, <2>3, FoldsAssumption
  <2>7. n + 1 = (fold - 1) * TestBars + (period + 1)
    <3> DEFINE past == (fold - 1) * TestBars
    <3>1. past \in Nat
      BY <2>2, NextPast
    <3>2. n = past + period
      BY <2>2
    <3> HIDE DEF past
    <3>3. n + 1 = past + (period + 1)
      BY <2>2, <3>1, <3>2
    <3> QED
      BY <3>3 DEF past
  <2>8. positions'[n + 1].target = targets'[period']
    BY <2>1, <2>4, <2>5
  <2>9. fold' \in Nat \ {0} /\ trades' = {}
    BY <1>00, <2>1, <2>2 DEF Ledger
  <2>10. (fold' - 1) * TestBars + period' = n + 1
    BY <2>1, <2>7
  <2> HIDE DEF n
  <2>11. Ledger(Len(positions))'
    BY <2>1, <2>5, <2>6, <2>8, <2>9, <2>10 DEF Ledger
  <2> QED
    BY <1>0, <2>11 DEF LedgerInv
<1>8. CASE NextFold
  <2>1. kept /\ UNCHANGED trades /\ status = "trading" /\ status' = "folding" /\ fold' = fold + 1 /\ period = Len(targets)
    BY <1>8 DEF NextFold
  <2>2. fold \in Nat \ {0} /\ n = (fold - 1) * TestBars + period /\ period = TestBars
    BY <1>0, <1>00, <2>1 DEF Ledger, RunInv
  <2>3. n = (fold' - 1) * TestBars
    BY <2>1, <2>2, NextPast
  <2>4. fold' \in Nat \ {0} /\ trades' = {}
    BY <1>00, <2>1, <2>2 DEF Ledger
  <2> QED
    BY <1>0, <1>2, <2>1, <2>3, <2>4 DEF LedgerInv, Ledger
<1>9. CASE FinishRun
  <2>1. kept /\ UNCHANGED <<trades, fold>> /\ status = "folding" /\ status' = "finished"
    BY <1>9 DEF FinishRun
  <2> QED
    BY <1>0, <1>00, <1>2, <2>1 DEF LedgerInv, Ledger
<1>10. CASE ReportTrades
  <2>1. kept /\ UNCHANGED fold /\ status = "finished" /\ status' = "reported"
    BY <1>10 DEF ReportTrades
  <2>2. \A k, s : SymbolRows(k, s)' = SymbolRows(k, s)
    BY <2>1 DEF SymbolRows
  <2>3. Reported'
    BY <1>10, <2>1, <2>2 DEF ReportTrades, Reported
  <2> QED
    BY <1>0, <1>00, <1>2, <2>1, <2>3 DEF LedgerInv, Ledger
<1>11. CASE UNCHANGED vars
  <2>1. kept /\ UNCHANGED <<trades, fold, period, status, targets>>
    BY <1>11 DEF vars
  <2>2. \A k, s : SymbolRows(k, s)' = SymbolRows(k, s)
    BY <2>1 DEF SymbolRows
  <2>3. Reported' <=> Reported
    BY <2>1, <2>2 DEF Reported
  <2> QED
    BY <1>0, <1>00, <1>2, <2>1, <2>3 DEF LedgerInv, Ledger
<1>12. CASE RefuseHistory
  BY <1>3, <1>12 DEF RefuseHistory
<1>13. CASE TooFewDecisions
  BY <1>3, <1>13 DEF TooFewDecisions
<1>14. CASE FitFails
  BY <1>3, <1>14 DEF FitFails
<1>15. CASE ScoringFails
  BY <1>3, <1>15 DEF ScoringFails
<1>16. CASE WeighingFails
  BY <1>3, <1>16 DEF WeighingFails
<1>17. CASE BarRefused
  BY <1>3, <1>17 DEF BarRefused
<1> QED
  BY <1>1, <1>4, <1>5, <1>6, <1>7, <1>8, <1>9, <1>10, <1>11, <1>12, <1>13, <1>14, <1>15, <1>16, <1>17
  DEF Next

(* In every reachable state row i of the positions and of the curve is the  *)
(* settlement of one row of the panel: the folds follow each other without  *)
(* gap or overlap, each starts flat, every later row starts from the        *)
(* weights of the one before it, and prices, funding, turnover and costs    *)
(* are those of the held weights; the reported trades are those positions   *)
(* cut into episodes (backtest.py, trades.py).                              *)
THEOREM LedgerInvariant == Spec => []LedgerInv
<1>1. Init => LedgerInv
  <2> SUFFICES ASSUME Init PROVE LedgerInv
    OBVIOUS
  <2>1. RunInv
    BY DEF Init, RunInv, ResearchInv
  <2>2. Len(positions) = 0 /\ positions = <<>> /\ curve = <<>> /\ status = "recorded" /\ trades = {}
    BY DEF Init
  <2>3. positions = [i \in 1..0 |-> positions[i]] /\ curve = [i \in 1..0 |-> curve[i]]
    BY <2>2
  <2>4. Listed(0)
    BY <2>3 DEF Listed
  <2> QED
    BY <2>1, <2>2, <2>4 DEF LedgerInv, Ledger
<1> QED
  BY <1>1, LedgerStep, PTL DEF Spec

-----------------------------------------------------------------------------
(* The funding. *)

(* Row i of the positions is held over the hour after the one it was decided *)
(* in, later rows over later hours, and is charged what was paid in it.      *)
RowHour(i) == panel[Offset + i].hour
HeldOver(i) ==
  /\ RowHour(i) \in Nat
  /\ positions[i].execution = OpenTime(RowHour(i) + 1) /\ positions[i].labelEnd = OpenTime(RowHour(i) + 2)
  /\ positions[i].target \in [Symbols -> Int]
  /\ positions[i].funding = [s \in Symbols |-> -positions[i].target[s] * OutcomeFunding(hours, RowHour(i), s)]

LEMMA RowsAreHeld ==
  ASSUME LedgerInv
  PROVE  /\ hours \in Seq(Hour) /\ Len(positions) \in Nat /\ DOMAIN positions = 1..Len(positions)
         /\ \A i \in 1..Len(positions) : HeldOver(i)
         /\ \A i, j \in 1..Len(positions) : i < j => RowHour(i) < RowHour(j)
<1> DEFINE n == Len(positions)
<1>1. hours \in Seq(Hour)
  BY HistoriesAssumption DEF LedgerInv, RunInv, ResearchInv
<1>2. Listed(n)
  BY DEF LedgerInv, Ledger
<1>3. n \in Nat /\ positions = [i \in 1..n |-> positions[i]]
  BY <1>2 DEF Listed
<1>4. DOMAIN positions = 1..n
  BY <1>3
<1> HIDE DEF n
<1>5. ASSUME NEW i \in 1..n
      PROVE  Offset + i \in 1..Len(panel) /\ panel = BuildRows(hours) /\ Dated(panel)
  <2>1. n > 0
    BY <1>3
  <2>2. panel = BuildRows(hours) /\ Offset + n <= Len(panel)
    BY <1>2, <1>3, <2>1 DEF Listed
  <2>3. Dated(panel)
    BY <1>1, <2>2, PanelIsDated
  <2>4. Offset \in Nat /\ Len(panel) \in Nat
    BY <2>3, FoldsAssumption DEF Offset, Dated
  <2> QED
    BY <1>3, <2>2, <2>3, <2>4
<1>6. ASSUME NEW i \in 1..n
      PROVE  HeldOver(i)
  <2> DEFINE row == panel[Offset + i]
             bar == positions[i]
  <2>1. Settled(i, bar, positions[i - 1].target, row, curve[i])
    BY <1>2 DEF Listed
  <2>2. /\ bar.execution = row.execution /\ bar.labelEnd = row.labelEnd /\ bar.target \in [Symbols -> Int]
        /\ bar.funding = [s \in Symbols |-> -bar.target[s] * row.funding[s]]
    BY <2>1 DEF Settled
  <2>3. row.hour \in Nat /\ row.execution = OpenTime(row.hour + 1) /\ row.labelEnd = OpenTime(row.hour + 2)
    BY <1>5 DEF Dated
  <2>4. \E h : row = RowOf(hours, Features(hours, FirstDecision), h)
    BY <1>1, <1>5, PanelRows
  <2>5. row.funding = [s \in Symbols |-> OutcomeFunding(hours, row.hour, s)]
    <3>1. PICK h : row = RowOf(hours, Features(hours, FirstDecision), h)
      BY <2>4
    <3>2. row.hour = h /\ row.funding = [s \in Symbols |-> OutcomeFunding(hours, h, s)]
      BY <3>1 DEF RowOf
    <3> QED
      BY <3>2
  <2> HIDE DEF row, bar
  <2>6. bar.funding = [s \in Symbols |-> -bar.target[s] * OutcomeFunding(hours, row.hour, s)]
    BY <2>2, <2>5
  <2> QED
    BY <2>2, <2>3, <2>6 DEF HeldOver, RowHour, row, bar
<1>7. ASSUME NEW i \in 1..n, NEW j \in 1..n, i < j
      PROVE  RowHour(i) < RowHour(j)
  <2>1. Offset + i \in 1..Len(panel) /\ Offset + j \in 1..Len(panel) /\ Dated(panel) /\ Offset \in Nat
    BY <1>5, FoldsAssumption DEF Offset
  <2>2. Offset + i < Offset + j
    BY <1>3, <1>7, <2>1
  <2> QED
    BY <2>1, <2>2 DEF Dated, RowHour
<1> QED
  BY <1>1, <1>3, <1>4, <1>6, <1>7 DEF n

LEMMA PaymentsAre ==
  ASSUME hours \in Seq(Hour)
  PROVE  /\ Payments = Paying(hours) /\ IsFiniteSet(Payments)
         /\ \A p \in Payments : /\ PaidTime(p) \in Int
                                /\ hours[p[1]].funding[p[2]].rate \in [Symbols -> Int]
<1>1. Payments = Paying(hours)
  <2>1. \A p : p \in Payments <=> \E k \in DOMAIN hours : \E i \in DOMAIN hours[k].funding : p = <<k, i>>
    BY DEF Payments
  <2>2. \A p : p \in Paying(hours) <=> \E k \in DOMAIN hours : \E i \in DOMAIN hours[k].funding : p = <<k, i>>
    BY DEF Paying
  <2> QED
    BY <2>1, <2>2
<1>2. ASSUME NEW p \in Payments PROVE PaidTime(p) \in Int
  <2>1. p[1] \in Nat
    BY <1>1, PayingIs
  <2> QED
    BY <2>1 DEF PaidTime, EventTime, OpenTime
<1> QED
  BY <1>1, <1>2, PayingIs

(* A position is carried at least to its label's end, and not beyond the     *)
(* execution of the next row of the panel or of any later position.          *)
LEMMA CarriedIs ==
  ASSUME LedgerInv, NEW r \in 1..Len(positions)
  PROVE  /\ \E h \in Nat : /\ CarriedUntil(r) = OpenTime(h) /\ h >= RowHour(r) + 2
                           /\ \/ h = RowHour(r) + 2
                              \/ r + 1 \in 1..Len(positions) /\ h = RowHour(r + 1) + 1
         /\ \A j \in 1..Len(positions) : r < j => CarriedUntil(r) <= positions[j].execution
<1> DEFINE n == Len(positions)
<1>1. /\ n \in Nat /\ DOMAIN positions = 1..n
      /\ \A i \in 1..n : HeldOver(i)
      /\ \A i, j \in 1..n : i < j => RowHour(i) < RowHour(j)
  BY RowsAreHeld
<1>2. RowHour(r) \in Nat /\ positions[r].labelEnd = OpenTime(RowHour(r) + 2)
  BY <1>1 DEF HeldOver
<1>3. \A j \in 1..n : RowHour(j) \in Nat /\ positions[j].execution = OpenTime(RowHour(j) + 1)
  BY <1>1 DEF HeldOver
<1>4. \A a, b \in Nat : a < b => a + 2 <= b + 1
  OBVIOUS
<1>5. \A a, b \in Nat : a <= b => OpenTime(a) <= OpenTime(b)
  BY DEF OpenTime
<1> HIDE DEF n
<1>6. CASE r + 1 \in 1..n /\ positions[r + 1].fold = positions[r].fold
  <2>1. CarriedUntil(r) = OpenTime(RowHour(r + 1) + 1) /\ RowHour(r + 1) \in Nat
    BY <1>1, <1>3, <1>6 DEF CarriedUntil
  <2>2. RowHour(r) < RowHour(r + 1)
    BY <1>1, <1>6
  <2>3. RowHour(r) + 2 <= RowHour(r + 1) + 1 /\ RowHour(r + 1) + 1 \in Nat
    BY <1>2, <1>4, <2>1, <2>2
  <2>4. ASSUME NEW j \in 1..n, r < j PROVE CarriedUntil(r) <= positions[j].execution
    <3>1. RowHour(r + 1) <= RowHour(j)
      <4>1. CASE r + 1 = j
        BY <1>3, <4>1
      <4>2. CASE r + 1 < j
        BY <1>1, <1>3, <1>6, <4>2
      <4> QED
        BY <1>1, <2>4, <4>1, <4>2
    <3>2. RowHour(r + 1) + 1 <= RowHour(j) + 1 /\ RowHour(j) + 1 \in Nat
      BY <1>3, <2>1, <3>1
    <3> QED
      BY <1>3, <1>5, <2>1, <2>3, <3>2
  <2> QED
    BY <1>6, <2>1, <2>3, <2>4 DEF n
<1>7. CASE ~(r + 1 \in 1..n /\ positions[r + 1].fold = positions[r].fold)
  <2>1. CarriedUntil(r) = OpenTime(RowHour(r) + 2) /\ RowHour(r) + 2 \in Nat
    BY <1>1, <1>2, <1>7 DEF CarriedUntil
  <2>2. ASSUME NEW j \in 1..n, r < j PROVE CarriedUntil(r) <= positions[j].execution
    <3>1. RowHour(r) + 2 <= RowHour(j) + 1 /\ RowHour(j) + 1 \in Nat
      BY <1>1, <1>2, <1>3, <1>4, <2>2 DEF n
    <3> QED
      BY <1>3, <1>5, <2>1, <3>1
  <2> QED
    BY <1>2, <2>1, <2>2 DEF n
<1> QED
  BY <1>6, <1>7

LEMMA AtMostOneHolder ==
  ASSUME LedgerInv, NEW p \in Payments
  PROVE  Cardinality(Holder(p)) <= 1
<1> DEFINE n == Len(positions)
           H == Holder(p)
           t == PaidTime(p)
<1>1. hours \in Seq(Hour) /\ n \in Nat /\ DOMAIN positions = 1..n
  BY RowsAreHeld
<1>2. t \in Int
  BY <1>1, PaymentsAre
<1>3. H \in SUBSET (1..n)
  BY <1>1 DEF Holder
<1>4. \A i \in H : /\ positions[i].execution < t /\ t <= CarriedUntil(i)
                   /\ positions[i].execution \in Int /\ CarriedUntil(i) \in Int
  <2> SUFFICES ASSUME NEW i \in H
               PROVE  /\ positions[i].execution < t /\ t <= CarriedUntil(i)
                      /\ positions[i].execution \in Int /\ CarriedUntil(i) \in Int
    OBVIOUS
  <2>1. positions[i].execution < t /\ t <= CarriedUntil(i)
    BY DEF Holder
  <2>2. positions[i].execution \in Int
    <3>1. RowHour(i) \in Nat /\ positions[i].execution = OpenTime(RowHour(i) + 1)
      BY <1>3, RowsAreHeld DEF HeldOver
    <3> QED
      BY <3>1 DEF OpenTime
  <2>3. CarriedUntil(i) \in Int
    BY <1>3, CarriedIs DEF OpenTime
  <2> QED
    BY <2>1, <2>2, <2>3
<1>5. \A i, j \in H : i < j => CarriedUntil(i) <= positions[j].execution
  BY <1>3, CarriedIs
<1>6. \A i \in H : i \in Int
  BY <1>1, <1>3
<1> HIDE DEF H, t
<1>7. \A i, j \in H : ~(i < j)
  BY <1>2, <1>4, <1>5
<1>8. \A i, j \in H : i = j
  BY <1>6, <1>7
<1>9. Cardinality(H) <= 1
  <2>1. CASE H = {}
    BY <2>1, FS_EmptySet
  <2>2. CASE H # {}
    <3>1. PICK i \in H : H = {i}
      BY <1>8, <2>2
    <3>2. Cardinality(H) = 1
      BY <3>1, FS_Singleton
    <3> QED
      BY <3>2
  <2> QED
    BY <2>1, <2>2
<1> QED
  BY <1>9 DEF H

ScaledBy(D, c, f, h) ==
  IsFiniteSet(D) /\ c \in Int /\ f \in [D -> Int] /\ h \in [D -> Int] /\ \A x \in D : h[x] = c * f[x]

LEMMA ScaledTotal ==
  ASSUME NEW D, NEW c, NEW f, NEW h, ScaledBy(D, c, f, h)
  PROVE  RowSum(h) = c * RowSum(f)
BY TotalScales DEF ScaledBy

(* The payments of the hour a row is held for are those that fall due while  *)
(* its position is in force, less those of hours without a row.              *)
LEMMA DueIs ==
  ASSUME LedgerInv, NEW p \in Payments
  PROVE  /\ DueHour(p) \in Int
         /\ OpenTime(DueHour(p) + 1) < PaidTime(p) /\ PaidTime(p) <= OpenTime(DueHour(p) + 2)
<1>1. hours \in Seq(Hour)
  BY RowsAreHeld
<1>2. p[1] \in Nat /\ hours[p[1]].funding[p[2]].boundary \in BOOLEAN
  BY <1>1, PaymentsAre, PayingIs DEF FundingEvent
<1>3. CASE hours[p[1]].funding[p[2]].boundary
  BY <1>2, <1>3 DEF DueHour, PaidTime, EventTime, OpenTime
<1>4. CASE ~hours[p[1]].funding[p[2]].boundary
  BY <1>2, <1>4 DEF DueHour, PaidTime, EventTime, OpenTime
<1> QED
  BY <1>2, <1>3, <1>4

LEMMA TickOrder ==
  ASSUME NEW a \in Int, NEW b \in Int, NEW t \in Int, OpenTime(a + 1) < t, t <= OpenTime(b + 2)
  PROVE  a <= b
BY DEF OpenTime

LEMMA HeldForIs ==
  ASSUME LedgerInv, NEW r \in 1..Len(positions), NEW p \in Payments
  PROVE  (r \in Holder(p) /\ ~InGap(p))
           <=> OpenTime(RowHour(r) + 1) < PaidTime(p) /\ PaidTime(p) <= OpenTime(RowHour(r) + 2)
<1> DEFINE n == Len(positions)
           t == PaidTime(p)
           d == DueHour(p)
           h == RowHour(r)
<1>1. /\ DOMAIN positions = 1..n /\ n \in Nat /\ hours \in Seq(Hour)
      /\ h \in Nat /\ positions[r].execution = OpenTime(h + 1)
  BY RowsAreHeld DEF HeldOver
<1>2. t \in Int /\ d \in Int /\ OpenTime(d + 1) < t /\ t <= OpenTime(d + 2)
  BY <1>1, DueIs, PaymentsAre
<1>3. PICK u \in Nat : /\ CarriedUntil(r) = OpenTime(u) /\ u >= h + 2
                       /\ u = h + 2 \/ (r + 1 \in 1..n /\ u = RowHour(r + 1) + 1)
  BY CarriedIs
<1>4. r \in Holder(p) <=> OpenTime(h + 1) < t /\ t <= OpenTime(u)
  BY <1>1, <1>3 DEF Holder
<1>5. /\ Dated(panel) /\ Offset \in Nat /\ Offset + r \in 1..Len(panel)
      /\ \A i \in 1..n : Offset + i \in 1..Len(panel)
  <2>1. Listed(n) /\ n > 0
    BY <1>1 DEF LedgerInv, Ledger
  <2>2. panel = BuildRows(hours) /\ Offset + n <= Len(panel)
    BY <1>1, <2>1 DEF Listed
  <2>3. Dated(panel)
    BY <1>1, <2>2, PanelIsDated
  <2>4. Offset \in Nat /\ Len(panel) \in Nat
    BY <2>3, FoldsAssumption DEF Offset, Dated
  <2> QED
    BY <1>1, <2>2, <2>3, <2>4
<1>6. InGap(p) <=> \A i \in 1..Len(panel) : panel[i].hour # d
  BY <1>5 DEF InGap, Dated
<1>7. \A a, b \in 1..Len(panel) : a < b => panel[a].hour < panel[b].hour
  BY <1>5 DEF Dated
<1>8. panel[Offset + r].hour = h
  BY DEF RowHour
<1>9. r + 1 \in 1..n => RowHour(r + 1) \in Nat /\ RowHour(r + 1) = panel[Offset + (r + 1)].hour
  BY RowsAreHeld DEF HeldOver, RowHour
<1> HIDE DEF n, t, d, h
<1>10. ASSUME OpenTime(h + 1) < t, t <= OpenTime(h + 2)
       PROVE  t <= OpenTime(u) /\ d = h
  <2>1. h <= d /\ d <= h
    BY <1>1, <1>2, <1>10, TickOrder
  <2>2. OpenTime(h + 2) <= OpenTime(u) /\ OpenTime(h + 2) \in Int /\ OpenTime(u) \in Int
    BY <1>1, <1>3 DEF OpenTime
  <2> QED
    BY <1>1, <1>2, <1>10, <2>1, <2>2
<1>11. ASSUME OpenTime(h + 1) < t, t <= OpenTime(u), NEW i \in 1..Len(panel), panel[i].hour = d
       PROVE  t <= OpenTime(h + 2)
  <2>1. CASE u = h + 2
    BY <1>11, <2>1
  <2>2. CASE r + 1 \in 1..n /\ u = RowHour(r + 1) + 1
    <3>1. PICK v \in Nat : u = v + 1 /\ panel[Offset + (r + 1)].hour = v
      BY <1>9, <2>2
    <3>2. h <= d
      BY <1>1, <1>2, <1>11, TickOrder
    <3>3. d < v
      <4>1. v - 1 \in Int /\ (v - 1) + 2 = u
        BY <3>1
      <4>2. d <= v - 1
        BY <1>2, <1>11, <4>1, TickOrder
      <4> QED
        BY <1>2, <3>1, <4>2
    <3>4. Offset + (r + 1) \in 1..Len(panel)
      BY <1>5, <2>2
    <3>5. i \in Nat /\ Offset + r \in Nat /\ Offset + (r + 1) = (Offset + r) + 1
      BY <1>1, <1>5
    <3>6. ~(i < Offset + r)
      BY <1>1, <1>2, <1>5, <1>7, <1>8, <1>11, <3>2
    <3>7. ~(Offset + (r + 1) < i) /\ i # Offset + (r + 1)
      BY <1>2, <1>7, <1>11, <3>1, <3>3, <3>4
    <3>8. i = Offset + r
      BY <3>5, <3>6, <3>7
    <3>9. d = h
      BY <1>8, <1>11, <3>8
    <3> QED
      BY <1>2, <3>9
  <2> QED
    BY <1>3, <2>1, <2>2
<1>12. ASSUME d = h PROVE ~InGap(p)
  BY <1>5, <1>6, <1>8, <1>12
<1> QED
  BY <1>4, <1>6, <1>10, <1>11, <1>12 DEF t, h

LEMMA RowIsCharged ==
  ASSUME LedgerInv, NEW s \in Symbols, NEW i \in 1..Len(positions)
  PROVE  positions[i].funding[s]
           = Charge(i, s, {p \in Payments : i \in Holder(p) /\ ~InGap(p)})
<1> DEFINE t == positions[i].target[s]
           c == (-1) * t
           h == RowHour(i)
           rated(p) == hours[p[1]].funding[p[2]].rate[s]
           paid == {p \in Paying(hours) :
                      /\ EventTime(p[1], hours[p[1]].funding[p[2]]) > Execution(h)
                      /\ EventTime(p[1], hours[p[1]].funding[p[2]]) <= LabelEnd(h)}
           f == [p \in paid |-> rated(p)]
           g == [p \in paid |-> -t * rated(p)]
<1>1. hours \in Seq(Hour) /\ HeldOver(i)
  BY RowsAreHeld
<1>2. Payments = Paying(hours) /\ IsFiniteSet(Payments)
  BY <1>1, PaymentsAre
<1>3. t \in Int /\ c \in Int /\ h \in Nat
  BY <1>1 DEF HeldOver
<1>4. paid = {p \in Payments : i \in Holder(p) /\ ~InGap(p)}
  <2>1. \A p \in Payments : p \in paid <=> OpenTime(h + 1) < PaidTime(p) /\ PaidTime(p) <= OpenTime(h + 2)
    <3>1. \A p \in Payments : PaidTime(p) \in Int
      BY <1>1, PaymentsAre
    <3>2. OpenTime(h + 1) \in Int
      BY <1>3 DEF OpenTime
    <3> QED
      BY <1>2, <3>1, <3>2 DEF PaidTime, Execution, LabelEnd
  <2>2. paid \in SUBSET Payments
    BY <1>2
  <2> HIDE DEF paid
  <2> QED
    BY <2>1, <2>2, HeldForIs DEF h
<1>5. OutcomeFunding(hours, h, s) = RowSum(f)
  BY DEF OutcomeFunding, Paying
<1>6. Charge(i, s, paid) = RowSum(g)
  BY DEF Charge
<1>7. positions[i].funding[s] = -t * OutcomeFunding(hours, h, s)
  BY <1>1 DEF HeldOver
<1>8. \A a, b \in Int : (-1) * a * b = -a * b /\ a * b \in Int
  OBVIOUS
<1>9. \A p \in paid : rated(p) \in Int
  BY <1>1, <1>4, PaymentsAre
<1>10. IsFiniteSet(paid)
  BY <1>2, <1>4, FS_Subset
<1> HIDE DEF t, h, paid, rated
<1>11. \A p \in paid : c * rated(p) = -t * rated(p) /\ -t * rated(p) \in Int
  BY <1>3, <1>8, <1>9
<1>12. /\ f \in [paid -> Int] /\ g \in [paid -> Int]
       /\ \A p \in paid : g[p] = c * f[p]
  BY <1>9, <1>11
<1> HIDE DEF c, f, g
<1>13. RowSum(f) \in Int
  BY <1>10, <1>12, TotalIsSum
<1>14. ScaledBy(paid, c, f, g)
  BY <1>3, <1>10, <1>12 DEF ScaledBy
<1>15. RowSum(g) = c * RowSum(f)
  BY <1>14, ScaledTotal
<1>16. c * RowSum(f) = -t * RowSum(f)
  <2>1. (-1) * t * RowSum(f) = -t * RowSum(f)
    BY ONLY <1>3, <1>8, <1>13
  <2> QED
    BY <2>1 DEF c
<1> QED
  BY <1>4, <1>5, <1>6, <1>7, <1>15, <1>16

(* The funding of dataset.py and backtest.py: for every recorded history, at *)
(* most one position is in force when a payment falls due, also when         *)
(* positions change at its moment, and each position is charged exactly the  *)
(* payments that fall due while it is in force, except those of hours the    *)
(* panel has no row for.                                                     *)
THEOREM FundingIsPaidOnce == Spec => []FundingPaidByHolder
<1>1. ASSUME LedgerInv PROVE FundingPaidByHolder
  <2>1. DOMAIN positions = 1..Len(positions)
    BY <1>1, RowsAreHeld
  <2>2. \A p \in Payments : Cardinality(Holder(p)) <= 1
    BY <1>1, AtMostOneHolder
  <2>3. \A r \in DOMAIN positions, s \in Symbols :
           positions[r].funding[s] = Charge(r, s, {p \in Payments : r \in Holder(p) /\ ~InGap(p)})
    BY <1>1, <2>1, RowIsCharged
  <2> QED
    BY <2>2, <2>3 DEF FundingPaidByHolder
<1> QED
  BY <1>1, LedgerInvariant, PTL

-----------------------------------------------------------------------------
(* The rows of one fold. *)

LEMMA AscendingOfInterval ==
  ASSUME NEW a \in Nat, NEW n \in Nat
  PROVE  /\ DOMAIN Ascending(a + 1 .. a + n) = 1..n /\ Len(Ascending(a + 1 .. a + n)) = n
         /\ \A i \in 1..n : Ascending(a + 1 .. a + n)[i] = a + i
<1> DEFINE K == a + 1 .. a + n
<1>1. \A x, y \in Int : IsFiniteSet(x..y) /\ Cardinality(x..y) = IF x > y THEN 0 ELSE y - x + 1
  BY FS_Interval
<1>2. a + 1 \in Int /\ a + n \in Int
  OBVIOUS
<1>3. IsFiniteSet(K) /\ Cardinality(K) = IF a + 1 > a + n THEN 0 ELSE a + n - (a + 1) + 1
  BY <1>1, <1>2
<1>4. Cardinality(K) = n
  BY <1>3
<1>5. K \in SUBSET Nat /\ \A k \in K : k - a \in 1..n
  OBVIOUS
<1>6. ASSUME NEW k \in K PROVE Cardinality(Under(K, k)) = k - a - 1
  <2>1. Under(K, k) = a + 1 .. k - 1
    BY DEF Under
  <2>2. k \in Int /\ k - 1 \in Int
    OBVIOUS
  <2>3. Cardinality(a + 1 .. k - 1) = IF a + 1 > k - 1 THEN 0 ELSE k - 1 - (a + 1) + 1
    BY <1>1, <1>2, <2>2
  <2> QED
    BY <2>1, <2>2, <2>3
<1> HIDE DEF K
<1> DEFINE order == Ascending(K)
<1>7. /\ DOMAIN order = 1..n /\ Len(order) = n
      /\ \A i \in 1..n : order[i] \in K /\ Cardinality(Under(K, order[i])) = i - 1
  BY <1>3, <1>4, <1>5, AscendingIs
<1> HIDE DEF order
<1>8. ASSUME NEW i \in 1..n PROVE order[i] = a + i
  <2>1. order[i] \in K /\ order[i] - a - 1 = i - 1
    BY <1>6, <1>7
  <2>2. order[i] \in Nat
    BY <1>5, <2>1
  <2> QED
    BY <2>1, <2>2
<1> QED
  BY <1>7, <1>8 DEF order, K

(* The rows of fold k follow those of the folds before it. *)
Past(k) == (k - 1) * TestBars
TradedRows(k) == Past(k) + 1 .. Past(k) + TestBars

LEMMA FoldsApart ==
  ASSUME NEW k \in Nat \ {0}, NEW f \in Nat \ {0}, NEW i \in Nat,
         Turn(i, f) \in 1..TestBars, Turn(i, k) \in 1..TestBars
  PROVE  f = k
<1>1. \A a, b, c \in Nat : (a <= b => a * c <= b * c) /\ a * c \in Nat
  <2>1. \A a, b, c \in Nat : a * c \in Nat
    OBVIOUS
  <2> SUFFICES ASSUME NEW a \in Nat, NEW b \in Nat, NEW c \in Nat, a <= b PROVE a * c <= b * c
    BY <2>1
  <2>2. PICK d \in Nat : b = a + d
    <3>1. b - a \in Nat /\ b = a + (b - a)
      OBVIOUS
    <3> QED
      BY <3>1
  <2>3. b * c = a * c + d * c
    BY <2>2
  <2>4. d * c \in Nat /\ a * c \in Nat
    BY <2>1
  <2> QED
    BY <2>3, <2>4
<1>2. ASSUME NEW x \in Nat \ {0}, NEW y \in Nat \ {0}, x < y,
             Turn(i, x) \in 1..TestBars, Turn(i, y) \in 1..TestBars
      PROVE  FALSE
  <2>1. x * TestBars = Past(x) + TestBars /\ Past(x) \in Nat /\ Past(y) \in Nat /\ TestBars \in Nat
    BY NextPast DEF Past
  <2>2. x * TestBars <= Past(y)
    <3>1. x <= y - 1 /\ y - 1 \in Nat /\ x \in Nat /\ TestBars \in Nat
      BY <1>2, <2>1
    <3> QED
      BY <1>1, <3>1 DEF Past
  <2>3. i - Past(x) <= TestBars /\ i - Past(y) >= 1
    BY <1>2, <2>1 DEF Turn, Past
  <2> QED
    BY <2>1, <2>2, <2>3
<1>3. ~(f < k) /\ ~(k < f)
  BY <1>2
<1> QED
  BY <1>3

LEMMA FoldSpan ==
  ASSUME LedgerInv, status = "reported", NEW k \in 1..(fold - 1)
  PROVE  /\ {i \in DOMAIN positions : positions[i].fold = k} = TradedRows(k)
         /\ FoldCurve(k) = TradedRows(k)
         /\ Past(k) \in Nat /\ TestBars \in Nat \ {0} /\ k \in Nat \ {0}
         /\ \A i \in TradedRows(k) : i \in 1..Len(positions)
         /\ \A i \in TradedRows(k) : Turn(i, k) = i - Past(k) /\ Turn(i, k) \in 1..TestBars
<1> DEFINE n == Len(positions)
<1>1. /\ Listed(n) /\ fold \in Nat \ {0} /\ n = (fold - 1) * TestBars
  BY DEF LedgerInv, Ledger
<1>2. /\ n \in Nat /\ positions = [i \in 1..n |-> positions[i]] /\ curve = [i \in 1..n |-> curve[i]]
      /\ \A i \in 1..n : Settled(i, positions[i], positions[i - 1].target, panel[Offset + i], curve[i])
  BY <1>1 DEF Listed
<1>3. DOMAIN positions = 1..n /\ DOMAIN curve = 1..n
  BY <1>2
<1>4. \A i \in 1..n : /\ positions[i].fold \in Nat \ {0} /\ curve[i].fold = positions[i].fold
                      /\ Turn(i, positions[i].fold) \in 1..TestBars
  BY <1>2 DEF Settled
<1>5. /\ k \in Nat \ {0} /\ k \in Nat /\ k <= fold - 1 /\ fold - 1 \in Nat
  BY <1>1
<1>6. Past(k) \in Nat /\ TestBars \in Nat \ {0} /\ k * TestBars = Past(k) + TestBars
  BY <1>5, NextPast DEF Past
<1>7. k * TestBars <= n
  <2>1. PICK d \in Nat : fold - 1 = k + d
    <3>1. fold - 1 - k \in Nat /\ fold - 1 = k + (fold - 1 - k)
      BY <1>5
    <3> QED
      BY <3>1
  <2>2. (fold - 1) * TestBars = k * TestBars + d * TestBars
    <3>1. \A a, b, c \in Nat : (a + b) * c = a * c + b * c
      OBVIOUS
    <3>2. TestBars \in Nat
      BY <1>6
    <3> QED
      BY <1>5, <2>1, <3>1, <3>2
  <2>3. d * TestBars \in Nat /\ k * TestBars \in Nat
    <3>1. \A a, b \in Nat : a * b \in Nat
      OBVIOUS
    <3>2. TestBars \in Nat
      BY <1>6
    <3> QED
      BY <1>5, <3>1, <3>2
  <2> QED
    BY <1>1, <2>2, <2>3
<1> HIDE DEF n
<1>8. \A i \in TradedRows(k) : i \in 1..n /\ i \in Nat
  BY <1>2, <1>6, <1>7 DEF TradedRows
<1>9. \A i \in Nat : i \in TradedRows(k) <=> Turn(i, k) \in 1..TestBars
  BY <1>6 DEF TradedRows, Turn, Past
<1>10. \A i \in 1..n : positions[i].fold = k <=> i \in TradedRows(k)
  <2> TAKE i \in 1..n
  <2>1. i \in Nat
    BY <1>2
  <2>2. positions[i].fold = k => i \in TradedRows(k)
    BY <1>4, <1>9, <2>1
  <2>3. ASSUME i \in TradedRows(k) PROVE positions[i].fold = k
    BY <1>4, <1>5, <1>9, <2>1, <2>3, FoldsApart
  <2> QED
    BY <2>2, <2>3
<1>11. {i \in DOMAIN positions : positions[i].fold = k} = TradedRows(k)
  BY <1>3, <1>8, <1>10
<1>12. FoldCurve(k) = TradedRows(k)
  BY <1>3, <1>4, <1>8, <1>10 DEF FoldCurve
<1>13. \A i \in TradedRows(k) : Turn(i, k) = i - Past(k) /\ Turn(i, k) \in 1..TestBars
  BY <1>8, <1>9 DEF Turn, Past
<1> QED
  BY <1>5, <1>6, <1>8, <1>11, <1>12, <1>13 DEF n

(* One symbol's rows of a fold as the episodes are cut from them. *)
BookRow(row) ==
  /\ row.previous \in Int /\ row.target \in Int /\ row.price \in Int /\ row.funding \in Int
  /\ row.rate = Rate /\ row.execution \in Int /\ row.labelEnd \in Int /\ row.execution <= row.labelEnd
  /\ row.target = 0 => row.price = 0 /\ row.funding = 0
Booked(rows, n) ==
  /\ n \in Nat \ {0} /\ rows = [j \in 1..n |-> rows[j]] /\ Len(rows) = n
  /\ \A j \in 1..n : /\ BookRow(rows[j])
                     /\ rows[j].previous = IF j = 1 THEN 0 ELSE rows[j - 1].target
  /\ \A i, j \in 1..n : i < j => rows[i].execution <= rows[j].execution

(* What a bar records of one symbol. *)
PositionOf(bar, s) ==
  [previous |-> bar.previous[s], target |-> bar.target[s], rate |-> Rate,
   price |-> bar.price[s], funding |-> bar.funding[s],
   execution |-> bar.execution, labelEnd |-> bar.labelEnd]

LEMMA SymbolRowsAre ==
  ASSUME LedgerInv, status = "reported", NEW k \in 1..(fold - 1), NEW s \in Symbols
  PROVE  /\ SymbolRows(k, s) = [j \in 1..TestBars |-> PositionOf(positions[Past(k) + j], s)]
         /\ Len(SymbolRows(k, s)) = TestBars
<1> DEFINE K == {i \in DOMAIN positions : positions[i].fold = k}
           order == Ascending(K)
<1>1. K = TradedRows(k) /\ Past(k) \in Nat /\ TestBars \in Nat
  BY FoldSpan
<1>2. K = Past(k) + 1 .. Past(k) + TestBars
  BY <1>1 DEF TradedRows
<1>3. SymbolRows(k, s) = [i \in DOMAIN order |-> PositionOf(positions[order[i]], s)]
  BY DEF SymbolRows, PositionOf
<1> HIDE DEF K
<1>4. DOMAIN order = 1..TestBars /\ Len(order) = TestBars /\ \A i \in 1..TestBars : order[i] = Past(k) + i
  BY <1>1, <1>2, AscendingOfInterval
<1> HIDE DEF order
<1> DEFINE rows == [j \in 1..TestBars |-> PositionOf(positions[Past(k) + j], s)]
<1>5. SymbolRows(k, s) = rows
  BY <1>3, <1>4
<1>6. Len(rows) = TestBars
  BY <1>1
<1> QED
  BY <1>5, <1>6

(* A traded row, the j-th test row of its fold. *)
Filled(j, bar, before, row, points) ==
  /\ bar.target \in [Symbols -> Int]
  /\ bar.previous = IF j = 1 THEN NoWeights ELSE before
  /\ bar.traded = [s \in Symbols |-> Abs(bar.target[s] - bar.previous[s])
                                      + (IF j = TestBars THEN Abs(bar.target[s]) ELSE 0)]
  /\ bar.price = [s \in Symbols |-> bar.target[s] * row.future[s]]
  /\ bar.funding = [s \in Symbols |-> -bar.target[s] * row.funding[s]]
  /\ row.future \in [Symbols -> Int] /\ row.funding \in [Symbols -> Int]
  /\ points.price = RowSum(bar.price) /\ points.funding = RowSum(bar.funding)
  /\ points.turnover = RowSum(bar.traded) /\ points.fees = RowSum(bar.traded) * Costs.fee
  /\ points.spread = RowSum(bar.traded) * Costs.spread
  /\ points.slippage = RowSum(bar.traded) * Costs.slippage
  /\ bar.execution \in Int /\ bar.labelEnd \in Int /\ bar.execution <= bar.labelEnd

LEMMA RowsAreFilled ==
  ASSUME LedgerInv, status = "reported", NEW k \in 1..(fold - 1), NEW i \in TradedRows(k)
  PROVE  Filled(Turn(i, k), positions[i], positions[i - 1].target, panel[Offset + i], curve[i])
<1> DEFINE bar == positions[i]
           row == panel[Offset + i]
           j == Turn(i, k)
<1>3. i \in 1..Len(positions) /\ bar.fold = k
  BY FoldSpan
<1>4. Listed(Len(positions)) /\ Len(positions) \in Nat
  BY DEF LedgerInv, Ledger, Listed
<1>5. Settled(i, bar, positions[i - 1].target, row, curve[i])
  BY <1>3, <1>4 DEF Listed
<1>6. hours \in Seq(Hour)
  BY RowsAreHeld
<1>7. panel = BuildRows(hours) /\ Offset + Len(positions) <= Len(panel) /\ Offset \in Nat
  <2>1. Len(positions) > 0
    BY <1>3, <1>4
  <2> QED
    BY <1>4, <2>1, FoldsAssumption DEF Listed, Offset
<1>8. Len(panel) \in Nat
  BY <1>6, <1>7, PanelRows
<1>9. Offset + i \in 1..Len(panel)
  BY <1>3, <1>4, <1>7, <1>8
<1>10. Measured(row)
  BY <1>6, <1>7, <1>9, PanelIsMeasured
<1>11. row.future \in [Symbols -> Int] /\ row.funding \in [Symbols -> Int]
  BY <1>10 DEF Measured
<1>12. bar.execution \in Int /\ bar.labelEnd \in Int /\ bar.execution <= bar.labelEnd
  <2>1. HeldOver(i)
    BY <1>3, RowsAreHeld
  <2> QED
    BY <2>1 DEF HeldOver, OpenTime
<1> HIDE DEF row, bar
<1>13. Filled(j, bar, positions[i - 1].target, row, curve[i])
  BY <1>3, <1>5, <1>11, <1>12 DEF Settled, Filled
<1> QED
  BY <1>13 DEF row, bar

LEMMA SymbolRowsBooked ==
  ASSUME LedgerInv, status = "reported", NEW k \in 1..(fold - 1), NEW s \in Symbols
  PROVE  Booked(SymbolRows(k, s), TestBars)
<1> DEFINE n == TestBars
           bars == [j \in 0..n |-> positions[Past(k) + j]]
           rows == SymbolRows(k, s)
<1>1. n \in Nat \ {0} /\ Past(k) \in Nat /\ k \in Nat \ {0}
  BY FoldSpan
<1>2. rows = [j \in 1..n |-> PositionOf(bars[j], s)] /\ Len(rows) = n
  BY SymbolRowsAre
<1>3. \A j \in 1..n : j - 1 \in 0..n /\ Past(k) + (j - 1) = Past(k) + j - 1
  BY <1>1
<1>4. \A j \in 1..n : \E row, points : Filled(j, bars[j], bars[j - 1].target, row, points)
  <2> TAKE j \in 1..n
  <2> DEFINE i == Past(k) + j
  <2>0. i \in TradedRows(k) /\ i - Past(k) = j
    BY <1>1 DEF TradedRows
  <2>1. Turn(i, k) = j /\ Filled(j, positions[i], positions[i - 1].target, panel[Offset + i], curve[i])
    BY <2>0, FoldSpan, RowsAreFilled
  <2>2. bars[j] = positions[i] /\ bars[j - 1] = positions[i - 1]
    BY <1>1, <1>3
  <2> HIDE DEF bars, i
  <2>3. Filled(j, bars[j], bars[j - 1].target, panel[Offset + i], curve[i])
    BY <2>1, <2>2
  <2> QED
    BY <2>3
<1>5. \A i, j \in 1..n : i < j => bars[i].execution <= bars[j].execution
  <2> TAKE i, j \in 1..n
  <2> HAVE i < j
  <2> DEFINE a == Past(k) + i
             b == Past(k) + j
  <2>1. a < b
    BY <1>1
  <2>2. a \in 1..Len(positions) /\ b \in 1..Len(positions)
    <3>1. a \in TradedRows(k) /\ b \in TradedRows(k)
      BY <1>1 DEF TradedRows
    <3> HIDE DEF a, b
    <3> QED
      BY <3>1, FoldSpan
  <2>3. HeldOver(a) /\ HeldOver(b) /\ RowHour(a) < RowHour(b)
    BY <2>1, <2>2, RowsAreHeld
  <2> HIDE DEF a, b
  <2>4. positions[a].execution <= positions[b].execution
    BY <2>3 DEF HeldOver, OpenTime
  <2> QED
    BY <2>4 DEF a, b
<1> HIDE DEF bars, rows, n
<1>6. ASSUME NEW j \in 1..n
      PROVE  BookRow(rows[j]) /\ rows[j].previous = IF j = 1 THEN 0 ELSE rows[j - 1].target
  <2> DEFINE bar == bars[j]
             before == bars[j - 1].target
  <2>1. PICK row, points : Filled(j, bar, before, row, points)
    BY <1>4
  <2>2. rows[j] = PositionOf(bar, s)
    BY <1>2
  <2>3. j # 1 => rows[j - 1].target = before[s] /\ before \in [Symbols -> Int]
    <3> SUFFICES ASSUME j # 1 PROVE rows[j - 1].target = before[s] /\ before \in [Symbols -> Int]
      OBVIOUS
    <3>1. j - 1 \in 1..n
      BY <1>1 DEF n
    <3>2. \E r, p : Filled(j - 1, bars[j - 1], bars[j - 1 - 1].target, r, p)
      BY <1>4, <3>1
    <3>3. before \in [Symbols -> Int]
      BY <3>2 DEF Filled
    <3>4. rows[j - 1] = PositionOf(bars[j - 1], s)
      BY <1>2, <3>1
    <3> QED
      BY <3>3, <3>4 DEF PositionOf
  <2>4. /\ bar.target[s] \in Int /\ row.future[s] \in Int /\ row.funding[s] \in Int
        /\ bar.execution \in Int /\ bar.labelEnd \in Int /\ bar.execution <= bar.labelEnd
        /\ bar.price[s] = bar.target[s] * row.future[s]
        /\ bar.funding[s] = -bar.target[s] * row.funding[s]
        /\ bar.previous = IF j = 1 THEN NoWeights ELSE before
    BY <2>1 DEF Filled
  <2> HIDE DEF bar, before
  <2>5. bar.price[s] \in Int /\ bar.funding[s] \in Int
        /\ (bar.target[s] = 0 => bar.price[s] = 0 /\ bar.funding[s] = 0)
    <3>1. \A x, y \in Int : x * y \in Int /\ -x * y \in Int /\ (x = 0 => x * y = 0 /\ -x * y = 0)
      OBVIOUS
    <3> QED
      BY <2>4, <3>1
  <2>6. bar.previous[s] = IF j = 1 THEN 0 ELSE rows[j - 1].target
    BY <2>3, <2>4 DEF NoWeights
  <2>7. bar.previous[s] \in Int
    BY <2>3, <2>6
  <2> QED
    BY <2>2, <2>4, <2>5, <2>6, <2>7 DEF BookRow, PositionOf
<1>7. \A i, j \in 1..n : i < j => rows[i].execution <= rows[j].execution
  BY <1>2, <1>5 DEF PositionOf
<1>8. rows = [j \in 1..n |-> rows[j]]
  BY <1>2
<1> QED
  BY <1>1, <1>2, <1>6, <1>7, <1>8 DEF Booked, n, rows

-----------------------------------------------------------------------------
(* The episodes of one fold and symbol. *)

Unstarted == [active |-> NoTrade, events |-> <<>>]
Stepped(state, rows, r) ==
  CloseFold(Earn(Enter(Leave(state, rows[r]), rows[r]), rows[r]), rows[r], r = Len(rows))

LEMMA ReconstructIs ==
  ASSUME NEW rows, NEW n \in Nat, Len(rows) = n
  PROVE  \E state : /\ state[0] = Unstarted
                    /\ \A r \in 1..n : state[r] = Stepped(state[r - 1], rows, r)
                    /\ Reconstruct(rows) = state[n].events
<1> DEFINE After(c, r) == Stepped(c, rows, r)
           body(g, m) == [r \in 0..m |-> IF r = 0 THEN Unstarted ELSE After(g[r - 1], r)]
           state == CHOOSE g : g = body(g, n)
<1>1. Reconstruct(rows) = state[n].events
  BY DEF Reconstruct, Stepped, Unstarted
<1>2. \A r, c : After(c, r) = Stepped(c, rows, r)
  OBVIOUS
<1> HIDE DEF After
<1>3. \E g : g = body(g, n)
  <2> DEFINE P == {m \in Nat : \E g : g = body(g, m)}
  <2>1. 0 \in P
    <3> DEFINE g == [r \in 0..0 |-> Unstarted]
    <3>1. g = body(g, 0)
      OBVIOUS
    <3> HIDE DEF g, body
    <3>2. \E k : k = body(k, 0)
      BY <3>1
    <3> QED
      BY <3>2
  <2>2. ASSUME NEW m \in Nat, m \in P PROVE m + 1 \in P
    <3>1. PICK g : g = body(g, m)
      BY <2>2
    <3> DEFINE h == [r \in 0..(m + 1) |-> IF r = 0 THEN Unstarted ELSE After(g[r - 1], r)]
    <3>2. \A r \in 0..m : h[r] = g[r]
      <4>1. \A r \in 0..m : g[r] = IF r = 0 THEN Unstarted ELSE After(g[r - 1], r)
        BY <3>1
      <4> QED
        BY <4>1
    <3>3. \A r \in 0..(m + 1) : r # 0 => r - 1 \in 0..m
      OBVIOUS
    <3>4. \A r \in 0..(m + 1) : h[r] = IF r = 0 THEN Unstarted ELSE After(h[r - 1], r)
      BY <3>2, <3>3
    <3>5. h = body(h, m + 1)
      BY <3>4
    <3> HIDE DEF h, body
    <3>6. \E k : k = body(k, m + 1)
      BY <3>5
    <3> QED
      BY <3>6
  <2> HIDE DEF P
  <2>3. n \in P
    BY <2>1, <2>2, NumberInduction
  <2> QED
    BY <2>3 DEF P
<1>4. state = body(state, n)
  BY <1>3
<1> HIDE DEF state
<1>5. /\ state[0] = Unstarted
      /\ \A r \in 1..n : state[r] = After(state[r - 1], r)
  BY <1>4
<1>6. /\ state[0] = Unstarted
      /\ \A r \in 1..n : state[r] = Stepped(state[r - 1], rows, r)
      /\ Reconstruct(rows) = state[n].events
  BY <1>1, <1>2, <1>5
<1> QED
  BY <1>6

LEMMA PrefixTotal ==
  ASSUME NEW n \in Nat, NEW f, \A j \in 1..(n + 1) : f[j] \in Int
  PROVE  /\ RowSum(Over(f, 1..n)) \in Int
         /\ RowSum(Over(f, 1..(n + 1))) = RowSum(Over(f, 1..n)) + f[n + 1]
<1> DEFINE D == 1..(n + 1)
           A == 1..n
           B == {n + 1}
           g == Over(f, D)
<1>1. IsFiniteSet(D) /\ IsFiniteSet(A)
  <2>1. n \in Int /\ n + 1 \in Int /\ 1 \in Int
    OBVIOUS
  <2> QED
    BY <2>1, IntervalFinite
<1>2. g \in [D -> Int] /\ A \cup B = D /\ A \cap B = {}
  BY DEF Over
<1>3. Split(D, A, B, g)
  BY <1>1, <1>2 DEF Split
<1>4. RowSum(g) = RowSum(Over(g, A)) + RowSum(Over(g, B))
  BY <1>3, TotalOfUnion
<1>5. Over(g, A) = Over(f, A) /\ Over(f, A) \in [A -> Int]
  BY DEF Over
<1>6. Over(g, B) \in [{n + 1} -> Int] /\ Over(g, B)[n + 1] = f[n + 1]
  BY DEF Over
<1>7. RowSum(Over(g, B)) = f[n + 1]
  BY <1>6, TotalOfOne
<1>8. RowSum(Over(f, A)) \in Int
  BY <1>1, <1>5, TotalIsSum
<1> QED
  BY <1>4, <1>5, <1>7, <1>8

LEMMA EmptyTotal == \A f : RowSum(Over(f, {})) = 0
<1> TAKE f
<1> DEFINE D == {}
           g == Over(f, D)
<1>1. IsFiniteSet(D) /\ g \in [D -> Int] /\ D \in SUBSET D
  BY FS_EmptySet DEF Over
<1> HIDE DEF g
<1>2. RowSum(g) = PartSum(g, D)
  BY <1>1, TotalIsSum
<1>3. PartSum(g, D) = 0
  BY <1>1, SumStep
<1> QED
  BY <1>2, <1>3 DEF g

(* The total of a field over closed episodes, and with the open one. *)
Entries(events, field) == [e \in DOMAIN events |-> events[e][field]]
Total(events, field) == RowSum(Entries(events, field))
Accrued(state, field) ==
  Total(state.events, field) + (IF state.active.open THEN state.active[field] ELSE 0)

LEMMA AppendTotal ==
  ASSUME NEW n \in Nat, NEW events, events = [e \in 1..n |-> events[e]], NEW x, NEW field,
         \A e \in 1..n : events[e][field] \in Int, x[field] \in Int
  PROVE  Total(events, field) \in Int /\ Total(Append(events, x), field) = Total(events, field) + x[field]
<1> DEFINE more == Append(events, x)
           f == Entries(more, field)
<1>1. /\ DOMAIN more = 1..(n + 1)
      /\ \A i \in 1..n : more[i] = events[i]
      /\ more[n + 1] = x
  BY AppendIs
<1> HIDE DEF more
<1>2. DOMAIN events = 1..n
  OBVIOUS
<1>3. \A j \in 1..(n + 1) : j \in 1..n \/ j = n + 1
  OBVIOUS
<1>4. \A j \in 1..(n + 1) : f[j] = more[j][field]
  BY <1>1 DEF Entries
<1>5. f[n + 1] = x[field] /\ \A j \in 1..n : f[j] = events[j][field]
  <2>1. n + 1 \in 1..(n + 1) /\ \A j \in 1..n : j \in 1..(n + 1)
    OBVIOUS
  <2> QED
    BY <1>1, <1>4, <2>1
<1>6. \A j \in 1..(n + 1) : f[j] \in Int
  BY <1>3, <1>5
<1>7. Over(f, 1..(n + 1)) = f
  BY <1>1 DEF Over, Entries
<1> HIDE DEF f
<1>8. Over(f, 1..n) = Entries(events, field)
  BY <1>2, <1>5 DEF Over, Entries
<1>9. RowSum(Over(f, 1..n)) \in Int /\ RowSum(Over(f, 1..(n + 1))) = RowSum(Over(f, 1..n)) + f[n + 1]
  BY <1>6, PrefixTotal
<1> QED
  BY <1>5, <1>7, <1>8, <1>9 DEF Total, f, more

(* An open episode, a closed one, and a state of the reconstruction whose   *)
(* episodes follow each other and started or ended by time T.               *)
Going(t) ==
  /\ t = [open |-> TRUE, entered |-> t.entered, side |-> t.side, price |-> t.price,
          funding |-> t.funding, turnover |-> t.turnover, cost |-> t.cost]
  /\ t.entered \in Int /\ t.price \in Int /\ t.funding \in Int /\ t.turnover \in Int
  /\ t.cost = t.turnover * Rate
Episode(e) ==
  /\ e.entered \in Int /\ e.exited \in Int /\ e.price \in Int /\ e.funding \in Int /\ e.turnover \in Int
  /\ e.cost = e.turnover * Rate
Told(events, n) ==
  /\ n \in Nat /\ Len(events) = n /\ events = [e \in 1..n |-> events[e]]
  /\ \A e \in 1..n : Episode(events[e])
  /\ \A e \in 1..(n - 1) : events[e].exited <= events[e + 1].entered
Sound(state, T) ==
  /\ state = [active |-> state.active, events |-> state.events] /\ T \in Int
  /\ Told(state.events, Len(state.events))
  /\ state.active = NoTrade \/ (Going(state.active) /\ state.active.entered <= T)
  /\ Len(state.events) > 0 =>
       /\ state.events[Len(state.events)].exited <= T
       /\ Going(state.active) => state.events[Len(state.events)].exited <= state.active.entered

LEMMA RateIs == Rate \in Nat /\ Costs.fee \in Nat /\ Costs.spread \in Nat /\ Costs.slippage \in Nat
BY FoldsAssumption DEF Rate

Ticket(a, b, p, f, u, v) ==
  [open |-> TRUE, entered |-> a, side |-> b, price |-> p, funding |-> f, turnover |-> u, cost |-> v]

LEMMA ChargedTicket ==
  ASSUME NEW a, NEW b, NEW p, NEW f, NEW u, NEW v, NEW units, NEW t, t = Ticket(a, b, p, f, u, v)
  PROVE  Charged(t, units, Rate) = Ticket(a, b, p, f, u + units, v + units * Rate)
<1>0. t = [open |-> TRUE, entered |-> a, side |-> b, price |-> p, funding |-> f, turnover |-> u, cost |-> v]
  BY DEF Ticket
<1> DEFINE c == Charged(t, units, Rate)
           x == [open |-> TRUE, entered |-> a, side |-> b, price |-> p, funding |-> f,
                 turnover |-> u + units, cost |-> v + units * Rate]
<1>1. DOMAIN t = {"open", "entered", "side", "price", "funding", "turnover", "cost"}
  BY <1>0
<1>2. c = [y \in DOMAIN t |-> c[y]] /\ DOMAIN c = DOMAIN t
  BY DEF Charged
<1>3. x = [y \in DOMAIN t |-> x[y]]
  BY <1>1
<1> DEFINE d == units * Rate
<1>4. c["turnover"] = u + units /\ c["cost"] = v + d
  <2>1. t["turnover"] = u /\ t["cost"] = v
    BY <1>0
  <2> HIDE DEF d
  <2>2. c = [[t EXCEPT !.turnover = u + units] EXCEPT !.cost = v + d]
    BY <2>1 DEF Charged, d
  <2> QED
    BY <1>1, <2>2
<1>5. \A y \in DOMAIN t : y # "turnover" /\ y # "cost" => c[y] = t[y]
  BY DEF Charged
<1>6. \A y \in DOMAIN t : c[y] = x[y]
  <2>1. /\ x["turnover"] = u + units /\ x["cost"] = v + d /\ x["open"] = t["open"] /\ x["entered"] = t["entered"]
        /\ x["side"] = t["side"] /\ x["price"] = t["price"] /\ x["funding"] = t["funding"]
    BY <1>0
  <2> HIDE DEF c, x, d
  <2> QED
    BY ONLY <1>1, <1>4, <1>5, <2>1
<1> HIDE DEF c, x
<1>7. c = x
  BY <1>2, <1>3, <1>6
<1> QED
  BY <1>7 DEF c, x, Ticket

LEMMA ChargedIs ==
  ASSUME NEW t, Going(t), NEW units \in Int
  PROVE  LET c == Charged(t, units, Rate)
         IN  /\ Going(c) /\ c.entered = t.entered /\ c.side = t.side /\ c.price = t.price /\ c.funding = t.funding
             /\ c.turnover = t.turnover + units
<1> DEFINE c == Charged(t, units, Rate)
<1>1. c = [open |-> TRUE, entered |-> t.entered, side |-> t.side, price |-> t.price,
           funding |-> t.funding, turnover |-> t.turnover + units, cost |-> t.cost + units * Rate]
  <2> DEFINE a == t.entered
             b == t.side
             p == t.price
             f == t.funding
             u == t.turnover
             v == t.cost
  <2>1. t = Ticket(a, b, p, f, u, v)
    BY DEF Going, Ticket
  <2> HIDE DEF a, b, p, f, u, v
  <2>2. c = Ticket(a, b, p, f, u + units, v + units * Rate)
    BY <2>1, ChargedTicket
  <2> QED
    BY <2>2 DEF a, b, p, f, u, v, Ticket
<1>2. t.cost + units * Rate = (t.turnover + units) * Rate
  <2>1. \A a, b, x \in Int : a * x + b * x = (a + b) * x
    OBVIOUS
  <2>2. t.turnover \in Int /\ Rate \in Int /\ t.cost = t.turnover * Rate
    BY RateIs DEF Going
  <2> QED
    BY <2>1, <2>2
<1> HIDE DEF c
<1>3. /\ c.entered = t.entered /\ c.side = t.side /\ c.price = t.price /\ c.funding = t.funding
      /\ c.turnover = t.turnover + units /\ c.cost = t.cost + units * Rate /\ c.open = TRUE
  BY <1>1
<1>4. c = [open |-> TRUE, entered |-> c.entered, side |-> c.side, price |-> c.price,
           funding |-> c.funding, turnover |-> c.turnover, cost |-> c.cost]
  BY <1>1, <1>3
<1>5. Going(c)
  BY <1>2, <1>3, <1>4 DEF Going
<1> QED
  BY <1>3, <1>5 DEF c

LEMMA OpenIs ==
  /\ ~NoTrade.open /\ ~Going(NoTrade)
  /\ \A t : Going(t) => t.open /\ t # NoTrade
<1>1. NoTrade.open = FALSE
  BY DEF NoTrade
<1>2. \A t : Going(t) => t.open = TRUE
  BY DEF Going
<1> QED
  BY <1>1, <1>2

LEMMA SoundTotals ==
  ASSUME NEW state, NEW T, Sound(state, T), NEW field \in {"price", "funding", "turnover"}
  PROVE  Total(state.events, field) \in Int /\ Accrued(state, field) \in Int
<1> DEFINE events == state.events
           n == Len(events)
           zero == [f \in {"price", "funding", "turnover"} |-> 0]
<1>1. n \in Nat /\ events = [e \in 1..n |-> events[e]] /\ \A e \in 1..n : Episode(events[e])
  BY DEF Sound, Told
<1>2. \A e \in 1..n : events[e][field] \in Int
  BY <1>1 DEF Episode
<1>3. zero[field] \in Int
  OBVIOUS
<1> HIDE DEF zero, n
<1>4. Total(events, field) \in Int
  BY <1>1, <1>2, <1>3, AppendTotal
<1>5. Going(state.active) => state.active[field] \in Int
  BY DEF Going
<1>6. state.active = NoTrade \/ Going(state.active)
  BY DEF Sound
<1> QED
  BY <1>4, <1>5, <1>6, OpenIs DEF Accrued

LEMMA Later ==
  ASSUME NEW state, NEW T, Sound(state, T), NEW U \in Int, T <= U
  PROVE  Sound(state, U)
<1> DEFINE n == Len(state.events)
<1>1. /\ state = [active |-> state.active, events |-> state.events] /\ T \in Int
      /\ Told(state.events, n)
      /\ state.active = NoTrade \/ (Going(state.active) /\ state.active.entered <= T)
      /\ n > 0 => /\ state.events[n].exited <= T
                  /\ Going(state.active) => state.events[n].exited <= state.active.entered
  BY DEF Sound
<1>2. Going(state.active) => state.active.entered \in Int
  BY DEF Going
<1>3. n > 0 => state.events[n].exited \in Int
  <2>1. n \in Nat /\ \A e \in 1..n : Episode(state.events[e])
    BY <1>1 DEF Told
  <2> HIDE DEF n
  <2>2. n > 0 => n \in 1..n
    BY <2>1
  <2> QED
    BY <2>1, <2>2 DEF Episode
<1> HIDE DEF n
<1>4. state.active = NoTrade \/ (Going(state.active) /\ state.active.entered <= U)
  <2>1. T \in Int /\ (state.active = NoTrade \/ (Going(state.active) /\ state.active.entered <= T))
    BY <1>1
  <2>2. CASE Going(state.active) /\ state.active.entered <= T
    <3> DEFINE a == state.active.entered
    <3>1. a \in Int /\ T \in Int /\ U \in Int /\ a <= T /\ T <= U
      BY <1>2, <2>1, <2>2
    <3> HIDE DEF a
    <3>2. a <= U
      BY <3>1
    <3> QED
      BY <2>2, <3>2 DEF a
  <2> QED
    BY <2>1, <2>2
<1>5. n > 0 => state.events[n].exited <= U
  BY <1>1, <1>3
<1> QED
  BY <1>1, <1>4, <1>5 DEF Sound, n

Cut(state, units, exited, reason) ==
  [active |-> NoTrade,
   events |-> Append(state.events, Closed(Charged(state.active, units, Rate), exited, reason))]

LEMMA CloseEffect ==
  ASSUME NEW state, NEW T, Sound(state, T), Going(state.active), NEW units \in Int,
         NEW exited \in Int, T <= exited, NEW reason, NEW next,
         next = Cut(state, units, exited, reason)
  PROVE  /\ Sound(next, exited) /\ ~next.active.open
         /\ Accrued(next, "price") = Accrued(state, "price")
         /\ Accrued(next, "funding") = Accrued(state, "funding")
         /\ Accrued(next, "turnover") = Accrued(state, "turnover") + units
<1> DEFINE t == state.active
           c == Charged(t, units, Rate)
           x == Closed(c, exited, reason)
           events == state.events
           n == Len(events)
           more == Append(events, x)
           m == n + 1
<1>1. /\ Going(c) /\ c.entered = t.entered /\ c.price = t.price /\ c.funding = t.funding
      /\ c.turnover = t.turnover + units
  BY ChargedIs
<1>2. /\ n \in Nat /\ events = [e \in 1..n |-> events[e]] /\ \A e \in 1..n : Episode(events[e])
      /\ \A e \in 1..(n - 1) : events[e].exited <= events[e + 1].entered
  BY DEF Sound, Told
<1>3. /\ t.entered \in Int /\ t.entered <= T /\ T \in Int
      /\ n > 0 => events[n].exited <= t.entered
  <2>1. t # NoTrade
    BY OpenIs
  <2> QED
    BY <2>1 DEF Sound, Going
<1> HIDE DEF c
<1>4. /\ x.entered = c.entered /\ x.exited = exited /\ x.price = c.price /\ x.funding = c.funding
      /\ x.turnover = c.turnover /\ x.cost = c.cost
  BY DEF Closed
<1> HIDE DEF x
<1>5. Episode(x)
  BY <1>1, <1>4 DEF Episode, Going
<1> HIDE DEF t, n
<1>6. /\ Len(more) = m /\ more = [i \in 1..m |-> more[i]]
      /\ \A i \in 1..n : more[i] = events[i]
      /\ more[m] = x /\ m \in Nat
  BY <1>2, AppendIs
<1>7. \A field \in {"price", "funding", "turnover"} :
        Total(events, field) \in Int /\ Total(more, field) = Total(events, field) + x[field] /\ x[field] \in Int
  <2> TAKE field \in {"price", "funding", "turnover"}
  <2>1. \A e \in 1..n : events[e][field] \in Int
    BY <1>2 DEF Episode
  <2>2. x[field] \in Int
    BY <1>5 DEF Episode
  <2>3. n \in Nat /\ events = [e \in 1..n |-> events[e]]
    BY <1>2
  <2> HIDE DEF events
  <2>4. Total(events, field) \in Int /\ Total(Append(events, x), field) = Total(events, field) + x[field]
    BY ONLY <2>1, <2>2, <2>3, AppendTotal
  <2> QED
    BY <2>2, <2>4
<1>8. next.active = NoTrade /\ next.events = more /\ next = [active |-> next.active, events |-> next.events]
  BY DEF c, x, t, Cut
<1> HIDE DEF more, m
<1>9. Told(more, m)
  <2>1. \A e \in 1..m : e \in 1..n \/ e = m
    BY <1>2 DEF m
  <2>2. \A e \in 1..m : Episode(more[e])
    BY <1>2, <1>5, <1>6, <2>1
  <2>3. \A e \in 1..(m - 1) : more[e].exited <= more[e + 1].entered
    <3> TAKE e \in 1..(m - 1)
    <3>0. n \in Nat /\ m - 1 = n
      BY <1>2 DEF m
    <3>01. e \in 1..n /\ e \in Nat
      BY <3>0
    <3>02. e # n => e \in 1..(n - 1) /\ e + 1 \in 1..n
      BY ONLY <3>0, <3>01
    <3>1. e \in 1..n /\ (e = n \/ (e \in 1..(n - 1) /\ e + 1 \in 1..n))
      BY <3>01, <3>02
    <3>2. CASE e = n
      <4>0. n \in 1..n /\ n > 0 /\ e + 1 = m
        BY <3>0, <3>01, <3>2 DEF m
      <4>1. more[e] = events[n] /\ more[e + 1] = x /\ n > 0
        BY <1>6, <3>2, <4>0
      <4> QED
        BY <1>1, <1>3, <1>4, <4>1
    <3>3. CASE e \in 1..(n - 1) /\ e + 1 \in 1..n
      BY <1>2, <1>6, <3>1, <3>3
    <3> QED
      BY <3>1, <3>2, <3>3
  <2> QED
    BY <1>6, <2>2, <2>3 DEF Told
<1>10. Sound(next, exited)
  <2>1. more[m].exited <= exited
    BY <1>4, <1>6
  <2>2. Len(next.events) = m /\ Told(next.events, Len(next.events))
    BY <1>6, <1>8, <1>9
  <2>3. next.events[Len(next.events)].exited <= exited
    BY <1>8, <2>1, <2>2
  <2>4. ~Going(next.active)
    BY <1>8, OpenIs
  <2>5. next = [active |-> next.active, events |-> next.events] /\ exited \in Int /\ next.active = NoTrade
    BY <1>8
  <2> HIDE DEF events
  <2> QED
    BY <2>2, <2>3, <2>4, <2>5 DEF Sound
<1>11. ~next.active.open
  BY <1>8, OpenIs
<1>12. \A field : Accrued(next, field) = Total(more, field) + 0
  BY <1>8, <1>11 DEF Accrued
<1>13. \A field : Accrued(state, field) = Total(events, field) + t[field]
  BY OpenIs DEF Accrued, t
<1>14. t.price \in Int /\ t.funding \in Int /\ t.turnover \in Int
  BY DEF t, Going
<1>15. Accrued(next, "price") = Accrued(state, "price")
  <2>3. Accrued(next, "price") = Total(more, "price") + 0 /\ Accrued(state, "price") = Total(events, "price") + t.price
    BY <1>12, <1>13
  <2>1. Total(events, "price") \in Int /\ Total(more, "price") = Total(events, "price") + x.price
    BY <1>7
  <2>2. x.price = t.price
    BY <1>1, <1>4
  <2> QED
    BY <1>14, <2>1, <2>2, <2>3
<1>16. Accrued(next, "funding") = Accrued(state, "funding")
  <2>3. Accrued(next, "funding") = Total(more, "funding") + 0 /\ Accrued(state, "funding") = Total(events, "funding") + t.funding
    BY <1>12, <1>13
  <2>1. Total(events, "funding") \in Int /\ Total(more, "funding") = Total(events, "funding") + x.funding
    BY <1>7
  <2>2. x.funding = t.funding
    BY <1>1, <1>4
  <2> QED
    BY <1>14, <2>1, <2>2, <2>3
<1>17. Accrued(next, "turnover") = Accrued(state, "turnover") + units
  <2>3. Accrued(next, "turnover") = Total(more, "turnover") + 0 /\ Accrued(state, "turnover") = Total(events, "turnover") + t.turnover
    BY <1>12, <1>13
  <2>1. Total(events, "turnover") \in Int /\ Total(more, "turnover") = Total(events, "turnover") + x.turnover
    BY <1>7
  <2>2. x.turnover = t.turnover + units
    BY <1>1, <1>4
  <2> QED
    BY <1>14, <2>1, <2>2, <2>3
<1> QED
  BY <1>10, <1>11, <1>15, <1>16, <1>17

(* How a state differs from the one before: a trade is open or not, and what *)
(* was added to each of the three totals.                                    *)
Adds(before, after, price, funding, turnover) ==
  /\ Accrued(after, "price") = Accrued(before, "price") + price
  /\ Accrued(after, "funding") = Accrued(before, "funding") + funding
  /\ Accrued(after, "turnover") = Accrued(before, "turnover") + turnover

SameSide(row) == row.previous # 0 /\ TradeSign(row.previous) = TradeSign(row.target)

LEMMA SizeIs == \A x \in Int : Size(x) \in Int /\ Size(x) = Abs(x)
BY DEF Size, Abs

LEMMA AddsNothing ==
  ASSUME NEW state, NEW T, Sound(state, T)
  PROVE  Adds(state, state, 0, 0, 0)
<1>1. /\ Accrued(state, "price") \in Int /\ Accrued(state, "funding") \in Int /\ Accrued(state, "turnover") \in Int
  BY SoundTotals
<1> QED
  BY <1>1 DEF Adds

LEMMA SoundOpen ==
  ASSUME NEW state, NEW T, Sound(state, T)
  PROVE  state.active.open <=> Going(state.active)
<1>1. state.active = NoTrade \/ Going(state.active)
  BY DEF Sound
<1> QED
  BY <1>1, OpenIs

LEMMA LeaveEffect ==
  ASSUME NEW state, NEW T, Sound(state, T), NEW row, BookRow(row), T <= row.execution,
         Going(state.active) <=> row.previous # 0,
         NEW next, next = Leave(state, row)
  PROVE  /\ Sound(next, row.execution)
         /\ Going(next.active) <=> SameSide(row)
         /\ Adds(state, next, 0, 0,
                 IF row.previous # 0 /\ ~SameSide(row) THEN Size(row.previous) ELSE 0)
<1>1. /\ row.previous \in Int /\ row.execution \in Int /\ row.rate = Rate
  BY DEF BookRow
<1>2. state.active.open <=> row.previous # 0
  BY SoundOpen
<1>3. CASE row.previous # 0 /\ ~SameSide(row)
  <2> DEFINE reason == IF row.target # 0 THEN "direction_flip" ELSE "signal_exit"
             units == Size(row.previous)
  <2>1. next = Cut(state, units, row.execution, reason)
    BY <1>1, <1>2, <1>3 DEF Leave, SameSide, Cut
  <2>2. units \in Int /\ Going(state.active) /\ row.execution \in Int
    BY <1>1, <1>3, SizeIs
  <2> HIDE DEF units, reason
  <2>3. /\ Sound(next, row.execution) /\ ~next.active.open
        /\ Accrued(next, "price") = Accrued(state, "price")
        /\ Accrued(next, "funding") = Accrued(state, "funding")
        /\ Accrued(next, "turnover") = Accrued(state, "turnover") + units
    BY <2>1, <2>2, CloseEffect
  <2>4. /\ Accrued(state, "price") \in Int /\ Accrued(state, "funding") \in Int
    BY SoundTotals
  <2>5. Adds(state, next, 0, 0, units)
    BY <2>3, <2>4 DEF Adds
  <2>6. ~Going(next.active)
    BY <2>3, SoundOpen
  <2>7. ~SameSide(row) /\ Sound(next, row.execution)
    BY <1>3, <2>3
  <2>8. Adds(state, next, 0, 0, IF row.previous # 0 /\ ~SameSide(row) THEN Size(row.previous) ELSE 0)
    BY <1>3, <2>5 DEF units
  <2> QED
    BY <2>6, <2>7, <2>8
<1>4. CASE ~(row.previous # 0 /\ ~SameSide(row))
  <2>1. next = state
    BY <1>2, <1>4 DEF Leave, SameSide
  <2>2. Sound(next, row.execution)
    BY <1>1, <2>1, Later
  <2>3. Adds(state, next, 0, 0, 0)
    BY <2>1, AddsNothing
  <2>4. Going(next.active) <=> SameSide(row)
    BY <1>4, <2>1 DEF SameSide
  <2> QED
    BY <1>4, <2>2, <2>3, <2>4
<1> QED
  BY <1>3, <1>4

(* Another open trade in the place of the one before. *)
LEMMA ActiveEffect ==
  ASSUME NEW state, NEW T, Sound(state, T), NEW t, Going(t), t.entered <= T,
         NEW next, next = [active |-> t, events |-> state.events],
         Going(state.active) => t.entered = state.active.entered,
         ~Going(state.active) => t.entered = T
  PROVE  /\ Sound(next, T) /\ Going(next.active)
         /\ \A field \in {"price", "funding", "turnover"} :
              Accrued(next, field)
                = Accrued(state, field) - (IF Going(state.active) THEN state.active[field] ELSE 0) + t[field]
<1> DEFINE n == Len(state.events)
<1>1. next.active = t /\ next.events = state.events /\ next = [active |-> next.active, events |-> next.events]
  OBVIOUS
<1>2. /\ T \in Int /\ Told(state.events, n)
      /\ state.active = NoTrade \/ (Going(state.active) /\ state.active.entered <= T)
      /\ n > 0 => /\ state.events[n].exited <= T
                  /\ Going(state.active) => state.events[n].exited <= state.active.entered
  BY DEF Sound
<1> HIDE DEF n
<1>3. n > 0 => state.events[n].exited <= t.entered
  BY <1>2
<1>4. Sound(next, T)
  <2>1. Len(next.events) = n
    BY <1>1 DEF n
  <2> QED
    BY <1>1, <1>2, <1>3, <2>1 DEF Sound
<1>5. Going(next.active)
  BY <1>1
<1>6. ASSUME NEW field \in {"price", "funding", "turnover"}
      PROVE  Accrued(next, field)
               = Accrued(state, field) - (IF Going(state.active) THEN state.active[field] ELSE 0) + t[field]
  <2> DEFINE total == Total(state.events, field)
             old == state.active[field]
             new == t[field]
  <2>1. total \in Int
    BY SoundTotals
  <2>2. new \in Int /\ (Going(state.active) => old \in Int)
    BY DEF Going
  <2> DEFINE was == IF Going(state.active) THEN old ELSE 0
  <2>3. Accrued(next, field) = total + new
    BY <1>1, <1>5, OpenIs DEF Accrued
  <2>4. Accrued(state, field) = total + was
    BY SoundOpen DEF Accrued
  <2>5. was \in Int
    BY <2>2
  <2> HIDE DEF total, was, new
  <2>6. total + new = total + was - was + new
    <3>1. total \in Int /\ new \in Int /\ was \in Int
      BY <2>1, <2>2, <2>5
    <3> QED
      BY ONLY <3>1
  <2>7. Accrued(next, field) = Accrued(state, field) - was + new
    <3>1. total \in Int /\ new \in Int /\ was \in Int
      BY <2>1, <2>2, <2>5
    <3> QED
      BY ONLY <2>3, <2>4, <2>6, <3>1
  <2> QED
    BY <2>7 DEF was, new
<1> QED
  BY <1>4, <1>5, <1>6

Pair(a, b) == [active |-> a, events |-> b]
Earning(t, x, y) == [t EXCEPT !.price = @ + x, !.funding = @ + y]

LEMMA EarningTicket ==
  ASSUME NEW a, NEW b, NEW p, NEW f, NEW u, NEW v, NEW x, NEW y, NEW t, t = Ticket(a, b, p, f, u, v)
  PROVE  Earning(t, x, y) = Ticket(a, b, p + x, f + y, u, v)
<1> DEFINE c == Earning(t, x, y)
           z == Ticket(a, b, p + x, f + y, u, v)
<1>0. t = [open |-> TRUE, entered |-> a, side |-> b, price |-> p, funding |-> f, turnover |-> u, cost |-> v]
  BY DEF Ticket
<1>1. DOMAIN t = {"open", "entered", "side", "price", "funding", "turnover", "cost"}
  BY <1>0
<1>2. c = [k \in DOMAIN t |-> c[k]] /\ DOMAIN c = DOMAIN t
  BY DEF Earning
<1>3. z = [k \in DOMAIN t |-> z[k]]
  BY <1>1 DEF Ticket
<1>4. c["price"] = p + x /\ c["funding"] = f + y
  <2>1. t["price"] = p /\ t["funding"] = f
    BY <1>0
  <2>2. c = [[t EXCEPT !.price = p + x] EXCEPT !.funding = f + y]
    BY <2>1 DEF Earning
  <2> QED
    BY <1>1, <2>2
<1>5. \A k \in DOMAIN t : k # "price" /\ k # "funding" => c[k] = t[k]
  BY DEF Earning
<1>6. \A k \in DOMAIN t : c[k] = z[k]
  <2>1. /\ z["price"] = p + x /\ z["funding"] = f + y /\ z["open"] = t["open"] /\ z["entered"] = t["entered"]
        /\ z["side"] = t["side"] /\ z["turnover"] = t["turnover"] /\ z["cost"] = t["cost"]
    BY <1>0 DEF Ticket
  <2> HIDE DEF c, z
  <2> QED
    BY ONLY <1>1, <1>4, <1>5, <2>1
<1> HIDE DEF c, z
<1>7. c = z
  BY <1>2, <1>3, <1>6
<1> QED
  BY <1>7 DEF c, z

LEMMA EarningIs ==
  ASSUME NEW t, Going(t), NEW x \in Int, NEW y \in Int
  PROVE  LET c == Earning(t, x, y)
         IN  /\ Going(c) /\ c.entered = t.entered
             /\ c.price = t.price + x /\ c.funding = t.funding + y /\ c.turnover = t.turnover
<1> DEFINE c == Earning(t, x, y)
           a == t.entered
           b == t.side
           p == t.price
           f == t.funding
           u == t.turnover
           v == t.cost
<1>1. t = Ticket(a, b, p, f, u, v) /\ a \in Int /\ p \in Int /\ f \in Int /\ u \in Int /\ v = u * Rate
  BY DEF Going, Ticket
<1> HIDE DEF a, b, p, f, u, v
<1>2. c = Ticket(a, b, p + x, f + y, u, v)
  BY <1>1, EarningTicket
<1> HIDE DEF c
<1>3. c.entered = a /\ c.side = b /\ c.price = p + x /\ c.funding = f + y /\ c.turnover = u /\ c.cost = v
  BY <1>2 DEF Ticket
<1>4. c = Ticket(c.entered, c.side, c.price, c.funding, c.turnover, c.cost)
  BY <1>2, <1>3
<1>5. Going(c)
  BY <1>1, <1>3, <1>4 DEF Going, Ticket
<1> QED
  BY <1>3, <1>5 DEF a, p, f, u, c

LEMMA PairReplaced ==
  \A a, b, x : [Pair(a, b) EXCEPT !.active = x] = Pair(x, b)
BY DEF Pair

(* What Earn does to an open trade. *)
Earned(state, x, y) == [state EXCEPT !.active.price = @ + x, !.active.funding = @ + y]

LEMMA EarnedPair ==
  ASSUME NEW q, NEW a, NEW b, q = Pair(a, b), NEW x, NEW y
  PROVE  Earned(q, x, y) = Pair(Earning(a, x, y), b)
<1> DEFINE e == Earned(q, x, y)
<1>1. DOMAIN q = {"active", "events"} /\ q["active"] = a /\ q["events"] = b
      /\ q = [k \in {"active", "events"} |-> q[k]]
  BY DEF Pair
<1>2. e["active"] = [q["active"] EXCEPT !.price = @ + x, !.funding = @ + y]
  BY ONLY <1>1, Zenon DEF Earned
<1>3. e["events"] = q["events"]
  BY ONLY <1>1, Zenon DEF Earned
<1>4. DOMAIN e = DOMAIN q /\ e = [k \in DOMAIN q |-> e[k]]
  BY ONLY <1>1, Zenon DEF Earned
<1>5. e["active"] = Earning(a, x, y)
  BY <1>1, <1>2 DEF Earning
<1> HIDE DEF e
<1>6. e = Pair(Earning(a, x, y), b)
  BY <1>1, <1>3, <1>4, <1>5 DEF Pair
<1> QED
  BY <1>6 DEF e

LEMMA ActiveAdds ==
  ASSUME NEW state, NEW T, Sound(state, T), NEW t, Going(t), Going(state.active), t.entered = state.active.entered,
         NEW next, next = Pair(t, state.events), NEW x \in Int, NEW y \in Int, NEW u \in Int,
         t.price = state.active.price + x, t.funding = state.active.funding + y,
         t.turnover = state.active.turnover + u
  PROVE  Sound(next, T) /\ Going(next.active) /\ Adds(state, next, x, y, u)
<1>1. t.entered <= T
  BY OpenIs DEF Sound
<1>2. next = [active |-> t, events |-> state.events]
  BY DEF Pair
<1>3. /\ Sound(next, T) /\ Going(next.active)
      /\ \A field \in {"price", "funding", "turnover"} :
           Accrued(next, field) = Accrued(state, field) - state.active[field] + t[field]
  BY <1>1, <1>2, ActiveEffect
<1>4. \A field \in {"price", "funding", "turnover"} : state.active[field] \in Int /\ Accrued(state, field) \in Int
  BY SoundTotals DEF Going
<1>5. Accrued(next, "price") = Accrued(state, "price") + x
  BY <1>3, <1>4
<1>6. Accrued(next, "funding") = Accrued(state, "funding") + y
  BY <1>3, <1>4
<1>7. Accrued(next, "turnover") = Accrued(state, "turnover") + u
  BY <1>3, <1>4
<1> QED
  BY <1>3, <1>5, <1>6, <1>7 DEF Adds

LEMMA SignIsZero ==
  ASSUME NEW x \in Int, NEW y \in Int, TradeSign(x) = TradeSign(y)
  PROVE  x = 0 <=> y = 0
<1>1. x = 0 => y = 0
  BY DEF TradeSign
<1>2. y = 0 => x = 0
  BY DEF TradeSign
<1> QED
  BY <1>1, <1>2

LEMMA SignsDiffer ==
  ASSUME NEW x \in Int, NEW y \in Int, TradeSign(x) # TradeSign(y)
  PROVE  ~(x > 0 /\ y > 0) /\ ~(x < 0 /\ y < 0)
<1>1. ~(x > 0 /\ y > 0)
  BY DEF TradeSign
<1>2. ~(x < 0 /\ y < 0)
  BY DEF TradeSign
<1> QED
  BY <1>1, <1>2

LEMMA GoingFields ==
  \A t : Going(t) => /\ t.price \in Int /\ t.funding \in Int /\ t.turnover \in Int
                      /\ t.price + 0 = t.price /\ t.funding + 0 = t.funding /\ t.turnover + 0 = t.turnover
<1> TAKE t
<1> HAVE Going(t)
<1>1. t.price \in Int /\ t.funding \in Int /\ t.turnover \in Int
  BY DEF Going
<1> QED
  BY <1>1

LEMMA SoundPair ==
  ASSUME NEW state, NEW T, Sound(state, T)
  PROVE  state = Pair(state.active, state.events)
BY DEF Sound, Pair

LEMMA OpenedIs ==
  ASSUME NEW row, BookRow(row)
  PROVE  LET t == Opened(row)
         IN  /\ Going(t) /\ t.entered = row.execution /\ t.price = 0 /\ t.funding = 0
             /\ t.turnover = Size(row.target)
<1> DEFINE t == Opened(row)
           u == Size(row.target)
<1>1. row.target \in Int /\ row.execution \in Int /\ row.rate = Rate
  BY DEF BookRow
<1>2. u \in Int
  BY <1>1, SizeIs
<1> HIDE DEF u
<1>3. t = [open |-> TRUE, entered |-> row.execution, side |-> TradeSign(row.target),
           price |-> 0, funding |-> 0, turnover |-> u, cost |-> u * Rate]
  BY <1>1 DEF Opened, u
<1> HIDE DEF t
<1>4. /\ t.open = TRUE /\ t.entered = row.execution /\ t.side = TradeSign(row.target)
      /\ t.price = 0 /\ t.funding = 0 /\ t.turnover = u /\ t.cost = u * Rate
  BY <1>3
<1>5. t = [open |-> TRUE, entered |-> t.entered, side |-> t.side, price |-> t.price,
           funding |-> t.funding, turnover |-> t.turnover, cost |-> t.cost]
  BY <1>3, <1>4
<1>6. Going(t)
  BY <1>1, <1>2, <1>4, <1>5 DEF Going
<1> QED
  BY <1>4, <1>6 DEF t, u

LEMMA EnterEffect ==
  ASSUME NEW state, NEW row, BookRow(row), Sound(state, row.execution),
         Going(state.active) <=> SameSide(row),
         NEW next, next = Enter(state, row)
  PROVE  /\ Sound(next, row.execution)
         /\ Going(next.active) <=> row.target # 0
         /\ Adds(state, next, 0, 0,
                 IF SameSide(row) THEN Size(row.target - row.previous) ELSE Size(row.target))
<1> DEFINE T == row.execution
<1>1. /\ row.previous \in Int /\ row.target \in Int /\ T \in Int /\ row.rate = Rate
  BY DEF BookRow
<1>2. state.active.open <=> Going(state.active)
  BY SoundOpen
<1>3. state = Pair(state.active, state.events)
  BY SoundPair
<1>4. CASE SameSide(row)
  <2> DEFINE units == Size(row.target - row.previous)
             t == Charged(state.active, units, Rate)
  <2>1. row.target # 0 /\ TradeSign(row.previous) = TradeSign(row.target) /\ Going(state.active)
    BY <1>1, <1>4, SignIsZero DEF SameSide
  <2>2. next = [state EXCEPT !.active = t]
    BY <1>1, <1>2, <2>1 DEF Enter
  <2>3. units \in Int
    <3>1. row.target - row.previous \in Int
      BY <1>1
    <3> QED
      BY <3>1, SizeIs
  <2> HIDE DEF units
  <2>4. /\ Going(t) /\ t.entered = state.active.entered /\ t.price = state.active.price
        /\ t.funding = state.active.funding /\ t.turnover = state.active.turnover + units
    BY <2>1, <2>3, ChargedIs
  <2> HIDE DEF t
  <2>5. next = Pair(t, state.events)
    <3>1. [Pair(state.active, state.events) EXCEPT !.active = t] = Pair(t, state.events)
      BY PairReplaced
    <3> QED
      BY <1>3, <2>2, <3>1
  <2>6. t.price = state.active.price + 0 /\ t.funding = state.active.funding + 0 /\ 0 \in Int
    <3>1. state.active.price + 0 = state.active.price /\ state.active.funding + 0 = state.active.funding
      BY <2>1, GoingFields
    <3> QED
      BY ONLY <2>4, <3>1
  <2>7. Sound(next, T) /\ Going(next.active) /\ Adds(state, next, 0, 0, units)
    BY <2>1, <2>3, <2>4, <2>5, <2>6, ActiveAdds
  <2>8. Adds(state, next, 0, 0, IF SameSide(row) THEN Size(row.target - row.previous) ELSE Size(row.target))
    BY <1>4, <2>7 DEF units
  <2> QED
    BY <2>1, <2>7, <2>8
<1>5. CASE ~SameSide(row) /\ row.target # 0
  <2> DEFINE units == Size(row.target)
             t == Opened(row)
  <2>1. ~Going(state.active)
    BY <1>5
  <2>2. next = [state EXCEPT !.active = t]
    BY <1>2, <1>5, <2>1 DEF Enter
  <2>3. units \in Int
    BY <1>1, SizeIs
  <2> HIDE DEF units
  <2>4. Going(t) /\ t.entered = T /\ t.price = 0 /\ t.funding = 0 /\ t.turnover = units
    BY OpenedIs DEF units
  <2> HIDE DEF t
  <2>5. next = Pair(t, state.events)
    <3>1. [Pair(state.active, state.events) EXCEPT !.active = t] = Pair(t, state.events)
      BY PairReplaced
    <3> QED
      BY <1>3, <2>2, <3>1
  <2>6. next = [active |-> t, events |-> state.events] /\ t.entered <= T
    BY <1>1, <2>4, <2>5 DEF Pair
  <2>7. /\ Sound(next, T) /\ Going(next.active)
        /\ \A field \in {"price", "funding", "turnover"} :
             Accrued(next, field)
               = Accrued(state, field) - (IF Going(state.active) THEN state.active[field] ELSE 0) + t[field]
    BY <2>1, <2>4, <2>6, ActiveEffect
  <2>8. \A field \in {"price", "funding", "turnover"} :
          Accrued(next, field) = Accrued(state, field) + t[field]
    <3> TAKE field \in {"price", "funding", "turnover"}
    <3>1. Accrued(state, field) \in Int
      BY SoundTotals
    <3>2. t[field] \in Int
      BY <2>4 DEF Going
    <3> QED
      BY <2>1, <2>7, <3>1, <3>2
  <2>9. Adds(state, next, 0, 0, units)
    BY <2>4, <2>8 DEF Adds
  <2>10. Adds(state, next, 0, 0, IF SameSide(row) THEN Size(row.target - row.previous) ELSE Size(row.target))
    BY <1>5, <2>9 DEF units
  <2> QED
    BY <1>5, <2>7, <2>10
<1>6. CASE ~SameSide(row) /\ row.target = 0
  <2>1. next = state
    BY <1>2, <1>6 DEF Enter
  <2>2. Size(row.target) = 0
    BY <1>6 DEF Size
  <2>3. Adds(state, next, 0, 0, 0)
    BY <2>1, AddsNothing
  <2>4. Adds(state, next, 0, 0, IF SameSide(row) THEN Size(row.target - row.previous) ELSE Size(row.target))
    BY <1>6, <2>2, <2>3
  <2>5. Sound(next, T) /\ (Going(next.active) <=> row.target # 0)
    BY <1>6, <2>1
  <2> QED
    BY <2>4, <2>5
<1> QED
  BY <1>4, <1>5, <1>6

LEMMA EarnEffect ==
  ASSUME NEW state, NEW T, NEW row, BookRow(row), Sound(state, T),
         Going(state.active) <=> row.target # 0,
         NEW next, next = Earn(state, row)
  PROVE  /\ Sound(next, T)
         /\ Going(next.active) <=> row.target # 0
         /\ Adds(state, next, row.price, row.funding, 0)
<1>1. /\ row.price \in Int /\ row.funding \in Int /\ 0 \in Int
      /\ row.target = 0 => row.price = 0 /\ row.funding = 0
  BY DEF BookRow
<1>2. state.active.open <=> Going(state.active)
  BY SoundOpen
<1>3. CASE row.target # 0
  <2> DEFINE x == row.price
             y == row.funding
             t == Earning(state.active, x, y)
  <2>1. Going(state.active)
    BY <1>3
  <2>2. next = Earned(state, x, y)
    BY <1>2, <1>3, <2>1 DEF Earn, Earned
  <2>3. state = Pair(state.active, state.events)
    BY SoundPair
  <2>30. x \in Int /\ y \in Int
    BY <1>1
  <2> HIDE DEF x, y
  <2>4. next = Pair(t, state.events)
    BY <2>2, <2>3, EarnedPair
  <2>5. /\ Going(t) /\ t.entered = state.active.entered /\ t.price = state.active.price + x
        /\ t.funding = state.active.funding + y /\ t.turnover = state.active.turnover
    BY <2>1, <2>30, EarningIs
  <2> HIDE DEF t
  <2>6. t.turnover = state.active.turnover + 0
    BY <2>1, <2>5, GoingFields
  <2>7. Sound(next, T) /\ Going(next.active) /\ Adds(state, next, x, y, 0)
    BY <1>1, <2>1, <2>30, <2>4, <2>5, <2>6, ActiveAdds
  <2> QED
    BY <1>3, <2>7 DEF x, y
<1>4. CASE row.target = 0
  <2>1. next = state
    BY <1>4 DEF Earn
  <2>2. Adds(state, next, row.price, row.funding, 0)
    BY <1>1, <1>4, <2>1, AddsNothing
  <2> QED
    BY <2>1, <2>2
<1> QED
  BY <1>3, <1>4

LEMMA LastEffect ==
  ASSUME NEW state, NEW T, NEW row, BookRow(row), Sound(state, T), T <= row.labelEnd,
         Going(state.active) <=> row.target # 0,
         NEW last \in BOOLEAN, last, NEW next, next = CloseFold(state, row, last)
  PROVE  /\ Sound(next, row.labelEnd)
         /\ ~next.active.open
         /\ Adds(state, next, 0, 0, Size(row.target))
<1>1. /\ row.target \in Int /\ row.labelEnd \in Int /\ row.rate = Rate
  BY DEF BookRow
<1>2. state.active.open <=> Going(state.active)
  BY SoundOpen
<1>3. CASE row.target # 0
  <2> DEFINE units == Size(row.target)
  <2>1. next = Cut(state, units, row.labelEnd, "fold_close") /\ Going(state.active)
    BY <1>1, <1>2, <1>3 DEF CloseFold, Cut
  <2>2. units \in Int
    BY <1>1, SizeIs
  <2> DEFINE U == row.labelEnd
             reason == "fold_close"
  <2>20. Sound(state, T) /\ U \in Int /\ T <= U /\ next = Cut(state, units, U, reason)
    BY <1>1, <2>1
  <2> HIDE DEF units, U, reason
  <2>3. /\ Sound(next, U) /\ ~next.active.open
        /\ Accrued(next, "price") = Accrued(state, "price")
        /\ Accrued(next, "funding") = Accrued(state, "funding")
        /\ Accrued(next, "turnover") = Accrued(state, "turnover") + units
    BY ONLY <2>1, <2>2, <2>20, CloseEffect
  <2>4. /\ Accrued(state, "price") \in Int /\ Accrued(state, "funding") \in Int
    BY SoundTotals
  <2>5. Adds(state, next, 0, 0, units)
    BY ONLY <2>2, <2>3, <2>4 DEF Adds
  <2> QED
    BY <2>3, <2>5 DEF units, U
<1>4. CASE row.target = 0
  <2>1. next = state /\ ~state.active.open
    BY <1>2, <1>4 DEF CloseFold
  <2>2. Size(row.target) = 0
    BY <1>4 DEF Size
  <2>3. Sound(next, row.labelEnd)
    BY <1>1, <2>1, Later
  <2> QED
    BY <2>1, <2>2, <2>3, AddsNothing
<1> QED
  BY <1>3, <1>4

LEMMA AddsThen ==
  ASSUME NEW a, NEW b, NEW c, NEW T, Sound(a, T),
         NEW p \in Int, NEW f \in Int, NEW u \in Int, Adds(a, b, p, f, u),
         NEW q \in Int, NEW g \in Int, NEW v \in Int, Adds(b, c, q, g, v)
  PROVE  Adds(a, c, p + q, f + g, u + v)
<1>1. /\ Accrued(a, "price") \in Int /\ Accrued(a, "funding") \in Int /\ Accrued(a, "turnover") \in Int
  BY SoundTotals
<1>2. /\ Accrued(b, "price") = Accrued(a, "price") + p
      /\ Accrued(b, "funding") = Accrued(a, "funding") + f
      /\ Accrued(b, "turnover") = Accrued(a, "turnover") + u
      /\ Accrued(c, "price") = Accrued(b, "price") + q
      /\ Accrued(c, "funding") = Accrued(b, "funding") + g
      /\ Accrued(c, "turnover") = Accrued(b, "turnover") + v
  BY DEF Adds
<1>3. Accrued(c, "price") = Accrued(a, "price") + (p + q)
  BY <1>1, <1>2
<1>4. Accrued(c, "funding") = Accrued(a, "funding") + (f + g)
  BY <1>1, <1>2
<1>5. Accrued(c, "turnover") = Accrued(a, "turnover") + (u + v)
  BY <1>1, <1>2
<1> QED
  BY <1>3, <1>4, <1>5 DEF Adds

(* What leaving and entering charge is the change of the weight. *)
LeftUnits(row) == IF row.previous # 0 /\ ~SameSide(row) THEN Size(row.previous) ELSE 0
EnteredUnits(row) == IF SameSide(row) THEN Size(row.target - row.previous) ELSE Size(row.target)

LEMMA UnitsTraded ==
  ASSUME NEW row, BookRow(row)
  PROVE  /\ LeftUnits(row) \in Int /\ EnteredUnits(row) \in Int
         /\ LeftUnits(row) + EnteredUnits(row) = Abs(row.target - row.previous)
<1> DEFINE p == row.previous
           t == row.target
<1>1. p \in Int /\ t \in Int
  BY DEF BookRow
<1>2. SameSide(row) <=> p # 0 /\ TradeSign(p) = TradeSign(t)
  BY DEF SameSide
<1>3. LeftUnits(row) = IF p # 0 /\ ~SameSide(row) THEN Size(p) ELSE 0
  BY DEF LeftUnits
<1>4. EnteredUnits(row) = IF SameSide(row) THEN Size(t - p) ELSE Size(t)
  BY DEF EnteredUnits
<1> HIDE DEF p, t
<1>5. CASE SameSide(row)
  <2>1. Size(t - p) \in Int /\ Size(t - p) = Abs(t - p)
    <3>1. t - p \in Int
      BY <1>1
    <3> QED
      BY <3>1, SizeIs
  <2>2. LeftUnits(row) = 0 /\ EnteredUnits(row) = Size(t - p)
    BY <1>3, <1>4, <1>5
  <2>3. LeftUnits(row) \in Int /\ EnteredUnits(row) \in Int /\ LeftUnits(row) + EnteredUnits(row) = Abs(t - p)
    BY <2>1, <2>2
  <2> QED
    BY <2>3 DEF p, t
<1>6. CASE p = 0
  <2>1. Size(t) \in Int /\ Size(t) = Abs(t)
    BY <1>1, SizeIs
  <2>2. LeftUnits(row) = 0 /\ EnteredUnits(row) = Size(t)
    BY <1>2, <1>3, <1>4, <1>6
  <2>3. t - p = t
    BY <1>1, <1>6
  <2>4. LeftUnits(row) \in Int /\ EnteredUnits(row) \in Int /\ LeftUnits(row) + EnteredUnits(row) = Abs(t - p)
    BY <2>1, <2>2, <2>3
  <2> QED
    BY <2>4 DEF p, t
<1>7. CASE p # 0 /\ ~SameSide(row)
  <2>1. TradeSign(p) # TradeSign(t)
    BY <1>2, <1>7
  <2>2. ~(p > 0 /\ t > 0) /\ ~(p < 0 /\ t < 0)
    BY <1>1, <2>1, SignsDiffer
  <2>3. LeftUnits(row) = Size(p) /\ EnteredUnits(row) = Size(t)
    BY <1>3, <1>4, <1>7
  <2>4. Size(p) \in Int /\ Size(t) \in Int
    BY <1>1, SizeIs
  <2>5. Size(p) + Size(t) = Abs(t - p)
    <3>1. CASE p > 0
      <4>1. t <= 0
        BY <1>1, <2>2, <3>1
      <4>2. Size(p) = p /\ Size(t) = -t
        BY <1>1, <3>1, <4>1 DEF Size
      <4>3. t - p < 0 /\ -(t - p) = p + -t
        BY <1>1, <3>1, <4>1
      <4>4. Abs(t - p) = -(t - p)
        BY <1>1, <4>3 DEF Abs
      <4> QED
        BY <4>2, <4>3, <4>4
    <3>2. CASE p < 0
      <4>1. t >= 0
        BY <1>1, <2>2, <3>2
      <4>2. Size(p) = -p /\ Size(t) = t
        BY <1>1, <3>2, <4>1 DEF Size
      <4>3. ~(t - p < 0) /\ t - p = -p + t
        BY <1>1, <3>2, <4>1
      <4>4. Abs(t - p) = t - p
        BY <1>1, <4>3 DEF Abs
      <4> QED
        BY <4>2, <4>3, <4>4
    <3> QED
      BY <1>1, <1>7, <3>1, <3>2
  <2>6. LeftUnits(row) \in Int /\ EnteredUnits(row) \in Int /\ LeftUnits(row) + EnteredUnits(row) = Abs(t - p)
    BY <2>3, <2>4, <2>5
  <2> QED
    BY <2>6 DEF p, t
<1> QED
  BY <1>5, <1>6, <1>7

(* One row, before the close of the fold. *)
LEMMA RowEffect ==
  ASSUME NEW state, NEW T, NEW row, BookRow(row), Sound(state, T), T <= row.execution,
         Going(state.active) <=> row.previous # 0,
         NEW next, next = Earn(Enter(Leave(state, row), row), row)
  PROVE  /\ Sound(next, row.execution)
         /\ Going(next.active) <=> row.target # 0
         /\ Adds(state, next, row.price, row.funding, Abs(row.target - row.previous))
<1> DEFINE left == Leave(state, row)
           entered == Enter(left, row)
           u == LeftUnits(row)
           v == EnteredUnits(row)
<1>1. /\ Sound(left, row.execution)
      /\ Going(left.active) <=> SameSide(row)
      /\ Adds(state, left, 0, 0, u)
  BY LeaveEffect DEF LeftUnits
<1> HIDE DEF left
<1>2. /\ Sound(entered, row.execution)
      /\ Going(entered.active) <=> row.target # 0
      /\ Adds(left, entered, 0, 0, v)
  BY <1>1, EnterEffect DEF EnteredUnits
<1>3. next = Earn(entered, row)
  BY DEF left
<1> HIDE DEF entered
<1>4. /\ Sound(next, row.execution)
      /\ Going(next.active) <=> row.target # 0
      /\ Adds(entered, next, row.price, row.funding, 0)
  BY <1>2, <1>3, EarnEffect
<1>5. u \in Int /\ v \in Int /\ 0 \in Int /\ row.price \in Int /\ row.funding \in Int
      /\ u + v = Abs(row.target - row.previous)
  BY UnitsTraded DEF BookRow
<1> HIDE DEF u, v
<1>6. Adds(state, entered, 0 + 0, 0 + 0, u + v)
  BY <1>1, <1>2, <1>5, AddsThen
<1>7. 0 + 0 \in Int /\ u + v \in Int
  BY <1>5
<1>8. Adds(state, next, 0 + 0 + row.price, 0 + 0 + row.funding, u + v + 0)
  BY <1>4, <1>5, <1>6, <1>7, AddsThen
<1>9. 0 + 0 + row.price = row.price /\ 0 + 0 + row.funding = row.funding /\ u + v + 0 = u + v
  BY <1>5
<1> QED
  BY <1>4, <1>5, <1>8, <1>9

LEMMA StepEffect ==
  ASSUME NEW state, NEW T, NEW row, BookRow(row), Sound(state, T), T <= row.execution,
         Going(state.active) <=> row.previous # 0, NEW last \in BOOLEAN,
         NEW next, next = CloseFold(Earn(Enter(Leave(state, row), row), row), row, last)
  PROVE  /\ ~last => /\ Sound(next, row.execution) /\ (Going(next.active) <=> row.target # 0)
                     /\ Adds(state, next, row.price, row.funding, Abs(row.target - row.previous))
         /\ last => /\ Sound(next, row.labelEnd) /\ ~next.active.open
                    /\ Adds(state, next, row.price, row.funding,
                            Abs(row.target - row.previous) + Abs(row.target))
<1> DEFINE earned == Earn(Enter(Leave(state, row), row), row)
           d == Abs(row.target - row.previous)
           v == Size(row.target)
<1>1. /\ Sound(earned, row.execution)
      /\ Going(earned.active) <=> row.target # 0
      /\ Adds(state, earned, row.price, row.funding, d)
  BY RowEffect
<1> HIDE DEF earned
<1>2. next = CloseFold(earned, row, last)
  BY DEF earned
<1>3. ~last => next = earned
  BY <1>2 DEF CloseFold
<1>4. row.execution <= row.labelEnd /\ row.price \in Int /\ row.funding \in Int /\ 0 \in Int /\ row.target \in Int
  BY DEF BookRow
<1>5. v \in Int /\ v = Abs(row.target) /\ d \in Int
  <2>1. d \in Int
    BY UnitsTraded
  <2> QED
    BY <1>4, <2>1, SizeIs
<1> HIDE DEF d, v
<1>6. ASSUME last
      PROVE  /\ Sound(next, row.labelEnd) /\ ~next.active.open
             /\ Adds(state, next, row.price, row.funding, d + v)
  <2>1. Sound(next, row.labelEnd) /\ ~next.active.open /\ Adds(earned, next, 0, 0, v)
    BY <1>1, <1>2, <1>4, <1>6, LastEffect DEF v
  <2>2. Adds(state, next, row.price + 0, row.funding + 0, d + v)
    BY <1>1, <1>4, <1>5, <2>1, AddsThen
  <2>3. row.price + 0 = row.price /\ row.funding + 0 = row.funding
    BY <1>4
  <2> QED
    BY <2>1, <2>2, <2>3
<1>7. ~last => /\ Sound(next, row.execution) /\ (Going(next.active) <=> row.target # 0)
               /\ Adds(state, next, row.price, row.funding, d)
  BY <1>1, <1>3
<1> QED
  BY <1>5, <1>6, <1>7 DEF d

(* What the rows of a symbol book, and what a state reached after r of them *)
(* has accrued.                                                             *)
RowPrices(rows, n) == [j \in 1..n |-> rows[j].price]
RowFundings(rows, n) == [j \in 1..n |-> rows[j].funding]
RowUnits(rows, n) ==
  [j \in 1..n |-> Abs(rows[j].target - rows[j].previous) + (IF j = n THEN Abs(rows[j].target) ELSE 0)]
Reached(state, rows, n, r) ==
  /\ \E T \in Int : Sound(state, T) /\ (r < n => T <= rows[r + 1].execution)
  /\ r < n => (Going(state.active) <=> rows[r + 1].previous # 0)
  /\ r = n => ~state.active.open
  /\ Accrued(state, "price") = RowSum(Over(RowPrices(rows, n), 1..r))
  /\ Accrued(state, "funding") = RowSum(Over(RowFundings(rows, n), 1..r))
  /\ Accrued(state, "turnover") = RowSum(Over(RowUnits(rows, n), 1..r))

LEMMA RowAmounts ==
  ASSUME NEW rows, NEW n, Booked(rows, n), NEW j \in 1..n
  PROVE  /\ RowPrices(rows, n)[j] = rows[j].price /\ RowPrices(rows, n)[j] \in Int
         /\ RowFundings(rows, n)[j] = rows[j].funding /\ RowFundings(rows, n)[j] \in Int
         /\ RowUnits(rows, n)[j] = Abs(rows[j].target - rows[j].previous)
                                     + (IF j = n THEN Abs(rows[j].target) ELSE 0)
         /\ RowUnits(rows, n)[j] \in Int
<1>1. /\ rows[j].price \in Int /\ rows[j].funding \in Int /\ rows[j].target \in Int /\ rows[j].previous \in Int
  BY DEF Booked, BookRow
<1>2. \A x \in Int : Abs(x) \in Int
  BY DEF Abs
<1>3. Abs(rows[j].target - rows[j].previous) \in Int /\ Abs(rows[j].target) \in Int
  <2>1. rows[j].target - rows[j].previous \in Int
    BY <1>1
  <2> QED
    BY <1>1, <1>2, <2>1
<1>4. RowPrices(rows, n)[j] = rows[j].price
  BY DEF RowPrices
<1>5. RowFundings(rows, n)[j] = rows[j].funding
  BY DEF RowFundings
<1>6. RowUnits(rows, n)[j] = Abs(rows[j].target - rows[j].previous) + (IF j = n THEN Abs(rows[j].target) ELSE 0)
  BY DEF RowUnits
<1>7. RowUnits(rows, n)[j] \in Int
  BY <1>3, <1>6
<1> QED
  BY <1>1, <1>4, <1>5, <1>6, <1>7

LEMMA AmountStep ==
  ASSUME NEW rows, NEW n, Booked(rows, n), NEW r \in Nat, r < n
  PROVE  /\ RowSum(Over(RowPrices(rows, n), 1..(r + 1)))
              = RowSum(Over(RowPrices(rows, n), 1..r)) + rows[r + 1].price
         /\ RowSum(Over(RowFundings(rows, n), 1..(r + 1)))
              = RowSum(Over(RowFundings(rows, n), 1..r)) + rows[r + 1].funding
         /\ RowSum(Over(RowUnits(rows, n), 1..(r + 1)))
              = RowSum(Over(RowUnits(rows, n), 1..r)) + RowUnits(rows, n)[r + 1]
<1>1. n \in Nat
  BY DEF Booked
<1>2. r + 1 \in 1..n /\ \A j \in 1..(r + 1) : j \in 1..n
  BY <1>1
<1> DEFINE p == RowPrices(rows, n)
           f == RowFundings(rows, n)
           u == RowUnits(rows, n)
<1>3. \A j \in 1..(r + 1) : p[j] \in Int /\ f[j] \in Int /\ u[j] \in Int
  BY <1>2, RowAmounts
<1>4. p[r + 1] = rows[r + 1].price /\ f[r + 1] = rows[r + 1].funding
  BY <1>2, RowAmounts
<1> HIDE DEF p, f, u
<1>5. RowSum(Over(p, 1..(r + 1))) = RowSum(Over(p, 1..r)) + p[r + 1]
  BY <1>3, PrefixTotal
<1>6. RowSum(Over(f, 1..(r + 1))) = RowSum(Over(f, 1..r)) + f[r + 1]
  BY <1>3, PrefixTotal
<1>7. RowSum(Over(u, 1..(r + 1))) = RowSum(Over(u, 1..r)) + u[r + 1]
  BY <1>3, PrefixTotal
<1> QED
  BY <1>4, <1>5, <1>6, <1>7 DEF p, f, u

LEMMA NothingReached ==
  ASSUME NEW rows, NEW n, Booked(rows, n)
  PROVE  Reached(Unstarted, rows, n, 0)
<1> DEFINE state == Unstarted
           T == rows[1].execution
<1>1. n \in Nat \ {0} /\ 0 < n /\ 0 + 1 = 1
  BY DEF Booked
<1>2. 1 \in 1..n
  BY <1>1
<1>3. T \in Int /\ rows[1].previous = 0
  BY <1>2 DEF Booked, BookRow
<1>4. /\ state.active = NoTrade /\ state.events = <<>> /\ Len(state.events) = 0
      /\ state = [active |-> state.active, events |-> state.events]
  BY DEF Unstarted
<1>5. Told(<<>>, 0)
  <2>1. <<>> = [e \in 1..0 |-> <<>>[e]] /\ Len(<<>>) = 0
    OBVIOUS
  <2>2. 0 \in Nat /\ \A e \in 1..0 : FALSE
    OBVIOUS
  <2>3. \A e \in 1..(0 - 1) : FALSE
    OBVIOUS
  <2> QED
    BY <2>1, <2>2, <2>3 DEF Told
<1> HIDE DEF state, T
<1>6. Sound(state, T)
  BY <1>3, <1>4, <1>5 DEF Sound
<1>7. ~Going(state.active) /\ ~state.active.open
  BY <1>4, OpenIs
<1>8. \A f : RowSum(Over(f, 1..0)) = 0
  <2>1. 1..0 = {}
    OBVIOUS
  <2> QED
    BY <2>1, EmptyTotal
<1>9. \A field : Total(state.events, field) = 0
  <2> TAKE field
  <2>1. Entries(<<>>, field) = Over([e \in {} |-> 0], {})
    <3>1. DOMAIN <<>> = {}
      OBVIOUS
    <3> QED
      BY <3>1 DEF Entries, Over
  <2> QED
    BY <1>4, <2>1, EmptyTotal DEF Total
<1>10. \A field : Accrued(state, field) = 0
  BY <1>7, <1>9 DEF Accrued
<1>11. \E U \in Int : Sound(state, U) /\ (0 < n => U <= rows[0 + 1].execution)
  <2>1. T <= rows[0 + 1].execution
    BY <1>1, <1>3 DEF T
  <2> QED
    BY <1>3, <1>6, <2>1
<1>12. 0 < n => (Going(state.active) <=> rows[0 + 1].previous # 0)
  BY <1>1, <1>3, <1>7
<1>13. Reached(state, rows, n, 0)
  BY <1>7, <1>8, <1>10, <1>11, <1>12 DEF Reached
<1> QED
  BY <1>13 DEF state

LEMMA OneMoreReached ==
  ASSUME NEW rows, NEW n, Booked(rows, n), NEW r \in Nat, r < n,
         NEW state, Reached(state, rows, n, r),
         NEW next, next = Stepped(state, rows, r + 1)
  PROVE  Reached(next, rows, n, r + 1)
<1> DEFINE row == rows[r + 1]
           last == r + 1 = n
           p == RowPrices(rows, n)
           f == RowFundings(rows, n)
           u == RowUnits(rows, n)
           units == u[r + 1]
           d == Abs(row.target - row.previous)
<1>1. n \in Nat /\ Len(rows) = n /\ r + 1 \in 1..n
  BY DEF Booked
<1>2. BookRow(row)
  BY <1>1 DEF Booked
<1>3. PICK T \in Int : Sound(state, T) /\ T <= row.execution
  BY DEF Reached
<1>4. Going(state.active) <=> row.previous # 0
  BY DEF Reached
<1>5. last \in BOOLEAN /\ next = CloseFold(Earn(Enter(Leave(state, row), row), row), row, last)
  BY <1>1 DEF Stepped
<1>6. /\ row.execution \in Int /\ row.labelEnd \in Int /\ row.price \in Int /\ row.funding \in Int
  BY <1>2 DEF BookRow
<1>7. units = d + (IF last THEN Abs(row.target) ELSE 0) /\ units \in Int
  BY <1>1, RowAmounts
<1>8. /\ Accrued(state, "price") = RowSum(Over(p, 1..r))
      /\ Accrued(state, "funding") = RowSum(Over(f, 1..r))
      /\ Accrued(state, "turnover") = RowSum(Over(u, 1..r))
  BY DEF Reached
<1>9. /\ RowSum(Over(p, 1..(r + 1))) = RowSum(Over(p, 1..r)) + row.price
      /\ RowSum(Over(f, 1..(r + 1))) = RowSum(Over(f, 1..r)) + row.funding
      /\ RowSum(Over(u, 1..(r + 1))) = RowSum(Over(u, 1..r)) + units
  BY AmountStep
<1>10. ~last => /\ row.execution <= rows[r + 1 + 1].execution
                /\ rows[r + 1 + 1].previous = row.target
  <2> SUFFICES ASSUME ~last PROVE /\ row.execution <= rows[r + 1 + 1].execution
                                  /\ rows[r + 1 + 1].previous = row.target
    OBVIOUS
  <2> DEFINE a == r + 1
             b == a + 1
  <2>1. a \in 1..n /\ b \in 1..n /\ a < b /\ b # 1 /\ b - 1 = a
    BY <1>1
  <2> HIDE DEF a, b
  <2>2. rows[a].execution <= rows[b].execution /\ rows[b].previous = rows[a].target
    BY <2>1 DEF Booked
  <2> QED
    BY <2>2 DEF a, b
<1> HIDE DEF p, f, u, units, last, row
<1>11. /\ ~last => /\ Sound(next, row.execution) /\ (Going(next.active) <=> row.target # 0)
                   /\ Adds(state, next, row.price, row.funding, d)
       /\ last => /\ Sound(next, row.labelEnd) /\ ~next.active.open
                  /\ Adds(state, next, row.price, row.funding, d + Abs(row.target))
  BY <1>2, <1>3, <1>4, <1>5, StepEffect
<1>12. Adds(state, next, row.price, row.funding, units)
  <2>1. CASE last
    BY <1>7, <1>11, <2>1
  <2>2. CASE ~last
    <3>1. units = d
      <4>1. d \in Int
        <5>1. row.target - row.previous \in Int
          BY <1>2 DEF BookRow
        <5> QED
          BY <5>1 DEF Abs
      <4> HIDE DEF d
      <4> QED
        BY <1>7, <2>2, <4>1
    <3> QED
      BY <1>11, <2>2, <3>1
  <2> QED
    BY <1>5, <2>1, <2>2
<1>13. /\ Accrued(next, "price") = RowSum(Over(p, 1..(r + 1)))
       /\ Accrued(next, "funding") = RowSum(Over(f, 1..(r + 1)))
       /\ Accrued(next, "turnover") = RowSum(Over(u, 1..(r + 1)))
  BY <1>8, <1>9, <1>12 DEF Adds
<1>14. r + 1 < n => ~last
  BY <1>1 DEF last
<1>15. r + 1 = n => last
  BY DEF last
<1>16. \E U \in Int : Sound(next, U) /\ (r + 1 < n => U <= rows[r + 1 + 1].execution)
  <2>1. CASE last
    <3>1. ~(r + 1 < n)
      BY <1>14, <2>1
    <3> QED
      BY <1>6, <1>11, <2>1, <3>1
  <2>2. CASE ~last
    BY <1>6, <1>10, <1>11, <2>2
  <2> QED
    BY <1>5, <2>1, <2>2
<1>17. r + 1 < n => (Going(next.active) <=> rows[r + 1 + 1].previous # 0)
  BY <1>10, <1>11, <1>14
<1>18. r + 1 = n => ~next.active.open
  BY <1>11, <1>15
<1> QED
  BY <1>13, <1>16, <1>17, <1>18 DEF Reached, p, f, u

(* The episodes of a symbol hold what its rows booked. *)
LEMMA EpisodesHoldRows ==
  ASSUME NEW rows, NEW n, Booked(rows, n)
  PROVE  LET events == Reconstruct(rows)
         IN  /\ Told(events, Len(events))
             /\ Total(events, "price") = RowSum(RowPrices(rows, n))
             /\ Total(events, "funding") = RowSum(RowFundings(rows, n))
             /\ Total(events, "turnover") = RowSum(RowUnits(rows, n))
<1> DEFINE events == Reconstruct(rows)
<1>1. n \in Nat /\ Len(rows) = n
  BY DEF Booked
<1>2. PICK state : /\ state[0] = Unstarted
                   /\ \A r \in 1..n : state[r] = Stepped(state[r - 1], rows, r)
                   /\ events = state[n].events
  BY <1>1, ReconstructIs
<1> HIDE DEF events
<1> DEFINE P == {r \in Nat : r <= n => Reached(state[r], rows, n, r)}
<1>3. 0 \in P
  BY <1>2, NothingReached
<1>4. ASSUME NEW r \in Nat, r \in P PROVE r + 1 \in P
  <2> SUFFICES ASSUME r + 1 <= n PROVE Reached(state[r + 1], rows, n, r + 1)
    OBVIOUS
  <2>1. r < n /\ r <= n /\ r + 1 \in 1..n /\ r + 1 - 1 = r
    BY <1>1
  <2>2. state[r + 1] = Stepped(state[r], rows, r + 1)
    BY <1>2, <2>1
  <2>3. Reached(state[r], rows, n, r)
    BY <1>4, <2>1
  <2> QED
    BY <2>1, <2>2, <2>3, OneMoreReached
<1> HIDE DEF P
<1>5. n \in P
  BY <1>1, <1>3, <1>4, NumberInduction
<1>6. Reached(state[n], rows, n, n)
  BY <1>1, <1>5 DEF P
<1>7. \A field : Accrued(state[n], field) = Total(events, field) + 0
  BY <1>2, <1>6 DEF Reached, Accrued
<1>8. Told(events, Len(events)) /\ \A field \in {"price", "funding", "turnover"} : Total(events, field) \in Int
  <2>1. PICK T : Sound(state[n], T)
    BY <1>6 DEF Reached
  <2>2. Told(events, Len(events))
    BY <1>2, <2>1 DEF Sound
  <2>3. \A field \in {"price", "funding", "turnover"} : Total(events, field) \in Int
    BY <1>2, <2>1, SoundTotals
  <2> QED
    BY <2>2, <2>3
<1>9. /\ Over(RowPrices(rows, n), 1..n) = RowPrices(rows, n)
      /\ Over(RowFundings(rows, n), 1..n) = RowFundings(rows, n)
      /\ Over(RowUnits(rows, n), 1..n) = RowUnits(rows, n)
  BY DEF Over, RowPrices, RowFundings, RowUnits
<1>10. /\ Total(events, "price") + 0 = RowSum(RowPrices(rows, n))
       /\ Total(events, "funding") + 0 = RowSum(RowFundings(rows, n))
       /\ Total(events, "turnover") + 0 = RowSum(RowUnits(rows, n))
  BY <1>6, <1>7, <1>9 DEF Reached
<1>11. /\ Total(events, "price") = RowSum(RowPrices(rows, n))
       /\ Total(events, "funding") = RowSum(RowFundings(rows, n))
       /\ Total(events, "turnover") = RowSum(RowUnits(rows, n))
  BY <1>8, <1>10
<1> QED
  BY <1>8, <1>11 DEF events

-----------------------------------------------------------------------------
(* The books of one fold. *)

(* The total over a set that is divided among owners. *)
Owns(S, E, owner, f) == IsFiniteSet(S) /\ IsFiniteSet(E) /\ owner \in [E -> S] /\ f \in [E -> Int]
OwnedBy(owner, s) == {e \in DOMAIN owner : owner[e] = s}

LEMMA TotalOfOwners ==
  ASSUME NEW S, NEW E, NEW owner, NEW f, Owns(S, E, owner, f)
  PROVE  RowSum(f) = RowSum([s \in S |-> RowSum(Over(f, OwnedBy(owner, s)))])
<1> DEFINE m == [s \in S |-> [e \in E |-> IF owner[e] = s THEN f[e] ELSE 0]]
<1>1. IsFiniteSet(S) /\ IsFiniteSet(E) /\ owner \in [E -> S] /\ f \in [E -> Int] /\ DOMAIN owner = E
  BY DEF Owns
<1>2. m \in [S -> [E -> Int]]
  BY <1>1
<1>3. RowTotals(m) = [s \in S |-> RowSum(Over(f, OwnedBy(owner, s)))]
  <2>1. ASSUME NEW s \in S PROVE RowSum(m[s]) = RowSum(Over(f, OwnedBy(owner, s)))
    <3> DEFINE P == OwnedBy(owner, s)
               g == Over(f, P)
               h == m[s]
    <3>1. P \in SUBSET E /\ \A e \in E : e \in P <=> owner[e] = s
      BY <1>1 DEF OwnedBy
    <3>2. h \in [E -> Int] /\ \A e \in E : h[e] = IF owner[e] = s THEN f[e] ELSE 0
      BY <1>1, <2>1
    <3> HIDE DEF P, h
    <3>3. g \in [P -> Int] /\ \A e \in P : g[e] = f[e]
      BY <1>1, <3>1 DEF Over
    <3> HIDE DEF g
    <3>4. \A e \in E : IF e \in P THEN h[e] = g[e] ELSE h[e] = 0
      BY <3>1, <3>2, <3>3
    <3>5. RowSum(h) = RowSum(g)
      BY ONLY <1>1, <3>1, <3>2, <3>3, <3>4, TotalOfSupport
    <3> QED
      BY <3>5 DEF g, h, P
  <2>2. DOMAIN m = S
    OBVIOUS
  <2> HIDE DEF m
  <2> QED
    BY <2>1, <2>2 DEF RowTotals
<1>4. ColumnTotals(m, E) = f
  <2>1. ASSUME NEW e \in E PROVE RowSum(Column(m, e)) = f[e]
    <3> DEFINE t == owner[e]
               h == Column(m, e)
               g == [s \in {t} |-> f[e]]
    <3>1. t \in S /\ f[e] \in Int /\ {t} \in SUBSET S
      BY <1>1
    <3>2. h \in [S -> Int] /\ \A s \in S : h[s] = IF t = s THEN f[e] ELSE 0
      BY <1>1, <2>1 DEF Column
    <3>3. g \in [{t} -> Int] /\ g[t] = f[e]
      BY <3>1
    <3> HIDE DEF t, h, g
    <3>4. \A s \in S : IF s \in {t} THEN h[s] = g[s] ELSE h[s] = 0
      BY <3>2, <3>3
    <3>5. RowSum(h) = RowSum(g)
      BY ONLY <1>1, <3>1, <3>2, <3>3, <3>4, TotalOfSupport
    <3>6. RowSum(g) = g[t]
      BY <3>3, TotalOfOne
    <3> QED
      BY <3>3, <3>5, <3>6 DEF h
  <2>2. ColumnTotals(m, E) = [e \in E |-> RowSum(Column(m, e))]
    BY DEF ColumnTotals
  <2> HIDE DEF m
  <2>3. ColumnTotals(m, E) = [e \in E |-> f[e]]
    BY <2>1, <2>2
  <2> QED
    BY <1>1, <2>3
<1> HIDE DEF m
<1>5. RowSum(RowTotals(m)) = RowSum(ColumnTotals(m, E))
  BY <1>1, <1>2, TableTotals
<1> QED
  BY <1>3, <1>4, <1>5

(* The reported trades of a fold. *)
Story(k, s) == Reconstruct(SymbolRows(k, s))
Account(k, s) == [fold |-> k, symbol |-> s, events |-> Story(k, s)]

LEMMA FoldTradesAre ==
  ASSUME LedgerInv, status = "reported", NEW k \in 1..(fold - 1)
  PROVE  FoldTrades(k) = {Account(k, s) : s \in Symbols}
<1> DEFINE F == {positions[i].fold : i \in DOMAIN positions}
<1>1. trades = {[fold |-> f, symbol |-> s, events |-> Reconstruct(SymbolRows(f, s))] : f \in F, s \in Symbols}
  BY DEF LedgerInv, Ledger, Reported
<1>2. k \in F
  <2>1. {i \in DOMAIN positions : positions[i].fold = k} = TradedRows(k) /\ Past(k) \in Nat /\ TestBars \in Nat \ {0}
    BY FoldSpan
  <2>2. Past(k) + 1 \in TradedRows(k)
    BY <2>1 DEF TradedRows
  <2> QED
    BY <2>1, <2>2
<1> HIDE DEF F
<1>3. \A t : t \in trades <=> \E f \in F : \E s \in Symbols : t = Account(f, s)
  BY <1>1 DEF Account, Story
<1>4. \A f, s : Account(f, s).fold = f
  BY DEF Account
<1>5. \A t : t \in FoldTrades(k) <=> t \in trades /\ t.fold = k
  BY DEF FoldTrades
<1>6. \A t : t \in FoldTrades(k) <=> \E s \in Symbols : t = Account(k, s)
  BY <1>2, <1>3, <1>4, <1>5
<1> QED
  BY <1>6

LEMMA StoryIs ==
  ASSUME LedgerInv, status = "reported", NEW k \in 1..(fold - 1), NEW s \in Symbols
  PROVE  /\ Told(Story(k, s), Len(Story(k, s)))
         /\ Total(Story(k, s), "price") = RowSum(RowPrices(SymbolRows(k, s), TestBars))
         /\ Total(Story(k, s), "funding") = RowSum(RowFundings(SymbolRows(k, s), TestBars))
         /\ Total(Story(k, s), "turnover") = RowSum(RowUnits(SymbolRows(k, s), TestBars))
BY SymbolRowsBooked, EpisodesHoldRows DEF Story

(* The closed episodes of a fold, each owned by its symbol. *)
LEMMA EpisodesAre ==
  ASSUME LedgerInv, status = "reported", NEW k \in 1..(fold - 1)
  PROVE  /\ IsFiniteSet(Episodes(k))
         /\ \A e : e \in Episodes(k) <=> \E s \in Symbols : \E i \in 1..Len(Story(k, s)) : e = <<Account(k, s), i>>
<1>1. FoldTrades(k) = {Account(k, s) : s \in Symbols}
  BY FoldTradesAre
<1>2. ASSUME NEW s \in Symbols
      PROVE  Account(k, s).events = Story(k, s) /\ DOMAIN Story(k, s) = 1..Len(Story(k, s))
             /\ Len(Story(k, s)) \in Nat
  <2>1. Told(Story(k, s), Len(Story(k, s)))
    BY StoryIs
  <2> QED
    BY <2>1 DEF Told, Account
<1> DEFINE Batch(s) == {<<Account(k, s), i>> : i \in 1..Len(Story(k, s))}
           K == {Batch(s) : s \in Symbols}
<1>3. \A e : e \in Episodes(k) <=> \E s \in Symbols : \E i \in 1..Len(Story(k, s)) : e = <<Account(k, s), i>>
  <2>1. \A e : e \in Episodes(k) <=> \E t \in FoldTrades(k) : \E i \in DOMAIN t.events : e = <<t, i>>
    BY DEF Episodes
  <2> QED
    BY <1>1, <1>2, <2>1
<1>4. \A s \in Symbols : IsFiniteSet(Batch(s))
  <2> TAKE s \in Symbols
  <2> DEFINE D == 1..Len(Story(k, s))
             g == [i \in D |-> <<Account(k, s), i>>]
             B == Batch(s)
  <2>1. IsFiniteSet(D)
    <3>1. Len(Story(k, s)) \in Int /\ 1 \in Int
      BY <1>2
    <3> QED
      BY <3>1, IntervalFinite
  <2>2. \A e \in B : \E i \in D : e = g[i]
    OBVIOUS
  <2> HIDE DEF D, g, B
  <2>3. IsFiniteSet(B)
    BY <2>1, <2>2, FiniteImage
  <2> QED
    BY <2>3 DEF B
<1>5. IsFiniteSet(K)
  <2> DEFINE g == [s \in Symbols |-> Batch(s)]
  <2>1. \A B \in K : \E s \in Symbols : B = g[s]
    OBVIOUS
  <2> HIDE DEF K, g
  <2> QED
    BY <2>1, CountIs, FiniteImage
<1>6. IsFiniteSet(UNION K)
  <2>1. \A B \in K : IsFiniteSet(B)
    BY <1>4
  <2> HIDE DEF K
  <2> QED
    BY <1>5, <2>1, FS_UNION
<1>7. UNION K = Episodes(k)
  <2>1. \A e : e \in UNION K <=> \E s \in Symbols : \E i \in 1..Len(Story(k, s)) : e = <<Account(k, s), i>>
    OBVIOUS
  <2> HIDE DEF K
  <2> QED
    BY <1>3, <2>1
<1> QED
  BY <1>3, <1>6, <1>7

LEMMA EpisodeAt ==
  ASSUME LedgerInv, status = "reported", NEW k \in 1..(fold - 1),
         NEW s \in Symbols, NEW i \in 1..Len(Story(k, s)), NEW e, e = <<Account(k, s), i>>
  PROVE  /\ e[1].symbol = s /\ e[1] = Account(k, s) /\ e[2] = i /\ e[1].events[e[2]] = Story(k, s)[i]
         /\ Episode(Story(k, s)[i])
<1>1. Told(Story(k, s), Len(Story(k, s)))
  BY StoryIs
<1>2. Episode(Story(k, s)[i])
  BY <1>1 DEF Told
<1>3. e[1] = Account(k, s) /\ e[2] = i
  OBVIOUS
<1>4. Account(k, s).symbol = s /\ Account(k, s).events = Story(k, s)
  BY DEF Account
<1> QED
  BY <1>2, <1>3, <1>4

LEMMA EpisodesTyped ==
  ASSUME LedgerInv, status = "reported", NEW k \in 1..(fold - 1), NEW e \in Episodes(k)
  PROVE  Episode(e[1].events[e[2]]) /\ e[1].symbol \in Symbols
<1>1. PICK s \in Symbols : \E i \in 1..Len(Story(k, s)) : e = <<Account(k, s), i>>
  BY EpisodesAre
<1> QED
  BY <1>1, EpisodeAt

LEMMA TradedTotalIs ==
  ASSUME LedgerInv, status = "reported", NEW k \in 1..(fold - 1),
         NEW field \in {"price", "funding", "turnover"}
  PROVE  TradedTotal(k, field) = RowSum([s \in Symbols |-> Total(Story(k, s), field)])
<1> DEFINE E == Episodes(k)
           owner == [e \in E |-> e[1].symbol]
           f == [e \in E |-> e[1].events[e[2]][field]]
<1>1. \A e \in E : e[1].symbol \in Symbols /\ e[1].events[e[2]][field] \in Int
  BY EpisodesTyped DEF Episode
<1>2. Owns(Symbols, E, owner, f)
  BY <1>1, CountIs, EpisodesAre DEF Owns
<1>3. RowSum(f) = RowSum([s \in Symbols |-> RowSum(Over(f, OwnedBy(owner, s)))])
  BY <1>2, TotalOfOwners
<1>4. ASSUME NEW s \in Symbols
      PROVE  RowSum(Over(f, OwnedBy(owner, s))) = Total(Story(k, s), field)
  <2> DEFINE n == Len(Story(k, s))
             D == 1..n
             A == Account(k, s)
             B == OwnedBy(owner, s)
             b == [i \in D |-> <<A, i>>]
             g == Over(f, B)
             h == Entries(Story(k, s), field)
  <2>1. n \in Nat /\ DOMAIN Story(k, s) = D /\ IsFiniteSet(D)
    <3>1. Told(Story(k, s), n)
      BY StoryIs
    <3>2. n \in Nat /\ DOMAIN Story(k, s) = D
      BY <3>1 DEF Told
    <3>3. n \in Int /\ 1 \in Int
      BY <3>2
    <3> QED
      BY <3>2, <3>3, IntervalFinite
  <2>2. \A e : e \in B <=> e \in E /\ e[1].symbol = s
    BY DEF OwnedBy
  <2>3. \A i \in D : b[i] \in B /\ f[b[i]] = Story(k, s)[i][field]
    <3> TAKE i \in D
    <3> DEFINE e == <<A, i>>
    <3>1. e \in E
      BY <1>4, EpisodesAre
    <3>3. b[i] = e
      OBVIOUS
    <3>4. e = <<Account(k, s), i>> /\ i \in 1..Len(Story(k, s))
      OBVIOUS
    <3>2. e[1].symbol = s /\ e[1].events[e[2]] = Story(k, s)[i]
      <4> HIDE DEF e, D, E, owner, f, b, B, h, g, n
      <4> QED
        BY <1>4, <3>4, EpisodeAt
    <3> HIDE DEF e, b, B
    <3> QED
      BY <2>2, <3>1, <3>2, <3>3
  <2>4. \A e \in B : \E i \in D : e = b[i]
    <3> TAKE e \in B
    <3>1. e \in E /\ e[1].symbol = s
      BY <2>2
    <3>02. PICK t \in Symbols : \E i \in 1..Len(Story(k, t)) : e = <<Account(k, t), i>>
      BY <3>1, EpisodesAre
    <3>2. PICK i \in 1..Len(Story(k, t)) : e = <<Account(k, t), i>>
      BY <3>02
    <3>3. e[1].symbol = t
      BY <3>2, EpisodeAt
    <3>4. i \in D /\ e = b[i]
      BY <3>1, <3>2, <3>3
    <3> QED
      BY <3>4
  <2>5. \A i, j \in D : b[i] = b[j] => i = j
    <3>1. \A i \in D : b[i][2] = i
      OBVIOUS
    <3> HIDE DEF b, D
    <3> QED
      BY <3>1
  <2>6. b \in [D -> B]
    <3>1. b = [i \in D |-> b[i]]
      OBVIOUS
    <3> HIDE DEF b, B, D
    <3> QED
      BY <2>3, <3>1
  <2> HIDE DEF b, B
  <2>7. b \in Bijection(D, B)
    BY <2>4, <2>5, <2>6 DEF Bijection, Injection, Surjection, IsInjective
  <2>8. h \in [D -> Int] /\ \A i \in D : h[i] = Story(k, s)[i][field]
    <3>1. \A i \in D : Story(k, s)[i][field] \in Int
      BY <1>4, EpisodeAt DEF Episode
    <3> QED
      BY <2>1, <3>1 DEF Entries
  <2>9. g \in [B -> Int] /\ \A e \in B : g[e] = f[e]
    BY <1>1, <2>2 DEF Over
  <2> HIDE DEF D, g, h, f
  <2>10. \A i \in D : h[i] = g[b[i]]
    BY <2>3, <2>8, <2>9
  <2>11. RowSum(h) = RowSum(g)
    BY <2>1, <2>7, <2>8, <2>9, <2>10, TotalRenamed
  <2> QED
    BY <2>11 DEF g, h, B, Total
<1>5. TradedTotal(k, field) = RowSum(f)
  BY DEF TradedTotal
<1> HIDE DEF f, owner
<1>6. [s \in Symbols |-> RowSum(Over(f, OwnedBy(owner, s)))] = [s \in Symbols |-> Total(Story(k, s), field)]
  BY <1>4
<1> QED
  BY <1>3, <1>5, <1>6

(* The cost of the episodes is what their turnover costs. *)
LEMMA TradedCost ==
  ASSUME LedgerInv, status = "reported", NEW k \in 1..(fold - 1)
  PROVE  TradedTotal(k, "turnover") \in Int /\ TradedTotal(k, "cost") = Rate * TradedTotal(k, "turnover")
<1> DEFINE E == Episodes(k)
           f == [e \in E |-> e[1].events[e[2]]["turnover"]]
           h == [e \in E |-> e[1].events[e[2]]["cost"]]
<1>1. \A e \in E : f[e] \in Int /\ h[e] = f[e] * Rate
  BY EpisodesTyped DEF Episode
<1>2. Rate \in Int
  BY RateIs
<1>3. IsFiniteSet(E)
  BY EpisodesAre
<1>4. TradedTotal(k, "turnover") = RowSum(f) /\ TradedTotal(k, "cost") = RowSum(h)
  BY DEF TradedTotal
<1>5. f = [e \in E |-> f[e]] /\ h = [e \in E |-> h[e]]
  OBVIOUS
<1> HIDE DEF E, f, h
<1>6. \A a, b \in Int : a * b = b * a /\ a * b \in Int
  OBVIOUS
<1>7. \A e \in E : h[e] \in Int /\ h[e] = Rate * f[e]
  BY <1>1, <1>2, <1>6
<1>8. ScaledBy(E, Rate, f, h)
  BY <1>1, <1>2, <1>3, <1>5, <1>7 DEF ScaledBy
<1>9. RowSum(h) = Rate * RowSum(f)
  BY <1>8, ScaledTotal
<1>10. RowSum(f) \in Int
  BY <1>1, <1>3, <1>5, TotalIsSum
<1> QED
  BY <1>4, <1>9, <1>10

(* What the bars of a fold book, row by row and symbol by symbol. *)
Booking(k, field) == [i \in TradedRows(k) |-> positions[i][field]]
SymbolBooked(k, s, field) == RowSum(Column(Booking(k, field), s))

LEMMA TradedRowsFinite ==
  ASSUME LedgerInv, status = "reported", NEW k \in 1..(fold - 1)
  PROVE  IsFiniteSet(TradedRows(k))
<1>1. Past(k) \in Nat /\ TestBars \in Nat
  BY FoldSpan
<1>2. Past(k) + 1 \in Int /\ Past(k) + TestBars \in Int
  BY <1>1
<1> QED
  BY <1>2, IntervalFinite DEF TradedRows

LEMMA BarAmounts ==
  ASSUME LedgerInv, status = "reported", NEW k \in 1..(fold - 1), NEW i \in TradedRows(k)
  PROVE  /\ positions[i].price \in [Symbols -> Int] /\ positions[i].funding \in [Symbols -> Int]
         /\ positions[i].traded \in [Symbols -> Int]
         /\ \A s \in Symbols :
              positions[i].traded[s] = Abs(positions[i].target[s] - positions[i].previous[s])
                                         + (IF i = Past(k) + TestBars THEN Abs(positions[i].target[s]) ELSE 0)
<1> DEFINE bar == positions[i]
           before == positions[i - 1].target
           row == panel[Offset + i]
           j == Turn(i, k)
<1>1. Filled(j, bar, before, row, curve[i])
  BY RowsAreFilled
<1>2. /\ bar.target \in [Symbols -> Int] /\ row.future \in [Symbols -> Int] /\ row.funding \in [Symbols -> Int]
      /\ bar.price = [s \in Symbols |-> bar.target[s] * row.future[s]]
      /\ bar.funding = [s \in Symbols |-> -bar.target[s] * row.funding[s]]
      /\ bar.traded = [s \in Symbols |-> Abs(bar.target[s] - bar.previous[s])
                                           + (IF j = TestBars THEN Abs(bar.target[s]) ELSE 0)]
      /\ bar.previous = IF j = 1 THEN NoWeights ELSE before
  BY <1>1 DEF Filled
<1>3. \A a, b \in Int : a * b \in Int /\ -a * b \in Int /\ Abs(a - b) \in Int /\ Abs(a) \in Int
  <2>1. \A a, b \in Int : a * b \in Int /\ -a * b \in Int /\ a - b \in Int
    OBVIOUS
  <2>2. \A a \in Int : Abs(a) \in Int
    BY DEF Abs
  <2> QED
    BY <2>1, <2>2
<1>4. bar.previous \in [Symbols -> Int]
  <2>1. CASE j = 1
    BY <1>2, <2>1 DEF NoWeights
  <2>2. CASE j # 1
    <3>1. Past(k) \in Nat /\ j = i - Past(k) /\ j \in 1..TestBars /\ TestBars \in Nat
      BY FoldSpan
    <3>2. i - 1 \in TradedRows(k)
      BY <2>2, <3>1 DEF TradedRows
    <3>3. Filled(Turn(i - 1, k), positions[i - 1], positions[i - 1 - 1].target, panel[Offset + (i - 1)], curve[i - 1])
      BY <3>2, RowsAreFilled
    <3>4. before \in [Symbols -> Int]
      BY <3>3 DEF Filled
    <3> QED
      BY <1>2, <2>2, <3>4
  <2> QED
    BY <2>1, <2>2
<1>5. j = TestBars <=> i = Past(k) + TestBars
  <2>1. Past(k) \in Nat /\ TestBars \in Nat /\ j = i - Past(k)
    BY FoldSpan
  <2>2. i \in Int
    BY <2>1 DEF TradedRows
  <2> HIDE DEF j
  <2> QED
    BY <2>1, <2>2
<1> HIDE DEF bar, before, row, j
<1>6. \A s \in Symbols : bar.target[s] \in Int /\ bar.previous[s] \in Int /\ row.future[s] \in Int /\ row.funding[s] \in Int
  BY <1>2, <1>4
<1>7. \A s \in Symbols : bar.target[s] * row.future[s] \in Int /\ -bar.target[s] * row.funding[s] \in Int
  BY <1>3, <1>6
<1>8. bar.price \in [Symbols -> Int] /\ bar.funding \in [Symbols -> Int]
  BY <1>2, <1>7
<1>9. \A s \in Symbols :
        bar.traded[s] = Abs(bar.target[s] - bar.previous[s])
                          + (IF i = Past(k) + TestBars THEN Abs(bar.target[s]) ELSE 0)
  BY <1>2, <1>5
<1>10. \A s \in Symbols : Abs(bar.target[s] - bar.previous[s]) \in Int /\ Abs(bar.target[s]) \in Int
  BY <1>3, <1>6
<1>11. \A s \in Symbols : bar.traded[s] \in Int
  BY <1>9, <1>10
<1>12. bar.traded \in [Symbols -> Int]
  BY <1>2, <1>11
<1> QED
  BY <1>8, <1>9, <1>12 DEF bar

LEMMA BookingTotals ==
  ASSUME LedgerInv, status = "reported", NEW k \in 1..(fold - 1), NEW field \in {"price", "funding", "traded"}
  PROVE  /\ RowSum([i \in TradedRows(k) |-> RowSum(positions[i][field])])
              = RowSum([s \in Symbols |-> SymbolBooked(k, s, field)])
         /\ RowSum([i \in TradedRows(k) |-> RowSum(positions[i][field])]) \in Int
<1> DEFINE D == TradedRows(k)
           m == Booking(k, field)
           f == [i \in D |-> RowSum(positions[i][field])]
<1>1. \A i \in D : positions[i][field] \in [Symbols -> Int]
  BY BarAmounts
<1>2. m \in [D -> [Symbols -> Int]] /\ IsFiniteSet(D) /\ IsFiniteSet(Symbols)
  BY <1>1, TradedRowsFinite, CountIs DEF Booking
<1>3. RowTotals(m) = f
  BY DEF RowTotals, Booking
<1>4. ColumnTotals(m, Symbols) = [s \in Symbols |-> SymbolBooked(k, s, field)]
  BY DEF ColumnTotals, SymbolBooked
<1>5. \A i \in D : RowSum(positions[i][field]) \in Int
  BY <1>1, CountIs, TotalIsSum
<1>6. f \in [D -> Int]
  BY <1>5
<1> HIDE DEF D, m, f
<1>7. RowSum(RowTotals(m)) = RowSum(ColumnTotals(m, Symbols))
  BY <1>2, TableTotals
<1>8. RowSum(f) \in Int
  BY <1>2, <1>6, TotalIsSum
<1> QED
  BY <1>3, <1>4, <1>7, <1>8 DEF f, D

(* One symbol's column of the booking is what its rows book. *)
Same(k, s, field, amounts) ==
  /\ amounts = [j \in 1..TestBars |-> amounts[j]]
  /\ \A j \in 1..TestBars : amounts[j] = positions[Past(k) + j][field][s]

LEMMA ColumnBooked ==
  ASSUME LedgerInv, status = "reported", NEW k \in 1..(fold - 1), NEW s \in Symbols,
         NEW field \in {"price", "funding", "traded"}, NEW amounts, Same(k, s, field, amounts)
  PROVE  RowSum(amounts) = SymbolBooked(k, s, field)
<1> DEFINE D == 1..TestBars
           E == TradedRows(k)
           b == [j \in D |-> Past(k) + j]
           g == Column(Booking(k, field), s)
<1>1. Past(k) \in Nat /\ TestBars \in Nat
  BY FoldSpan
<1>2. IsFiniteSet(D)
  <2>1. TestBars \in Int /\ 1 \in Int
    BY <1>1
  <2> QED
    BY <2>1, IntervalFinite
<1>3. /\ \A j \in D : b[j] \in E /\ b[j] = Past(k) + j
      /\ \A i \in E : i - Past(k) \in D /\ b[i - Past(k)] = i
      /\ \A i, j \in D : b[i] = b[j] => i = j
      /\ b = [j \in D |-> b[j]]
  BY <1>1 DEF TradedRows
<1>4. \A i \in E : positions[i][field] \in [Symbols -> Int]
  BY BarAmounts
<1>5. g \in [E -> Int] /\ \A i \in E : g[i] = positions[i][field][s]
  BY <1>4 DEF Column, Booking
<1>6. amounts = [j \in D |-> amounts[j]] /\ \A j \in D : amounts[j] = positions[Past(k) + j][field][s]
  BY DEF Same
<1> HIDE DEF D, E, b, g
<1>7. b \in Bijection(D, E)
  <2>1. b \in [D -> E]
    BY <1>3
  <2>2. \A i \in E : \E j \in D : b[j] = i
    BY <1>3
  <2> QED
    BY <1>3, <2>1, <2>2 DEF Bijection, Injection, Surjection, IsInjective
<1>8. \A j \in D : amounts[j] = g[b[j]] /\ g[b[j]] \in Int
  BY <1>3, <1>5, <1>6
<1>9. amounts \in [D -> Int]
  BY <1>6, <1>8
<1>10. RowSum(amounts) = RowSum(g)
  BY <1>2, <1>5, <1>7, <1>8, <1>9, TotalRenamed
<1> QED
  BY <1>10 DEF g, SymbolBooked

LEMMA SymbolBooks ==
  ASSUME LedgerInv, status = "reported", NEW k \in 1..(fold - 1), NEW s \in Symbols
  PROVE  /\ Total(Story(k, s), "price") = SymbolBooked(k, s, "price")
         /\ Total(Story(k, s), "funding") = SymbolBooked(k, s, "funding")
         /\ Total(Story(k, s), "turnover") = SymbolBooked(k, s, "traded")
<1> DEFINE n == TestBars
           rows == SymbolRows(k, s)
<1>1. rows = [j \in 1..n |-> PositionOf(positions[Past(k) + j], s)]
  BY SymbolRowsAre
<1> HIDE DEF rows
<1>2. \A j \in 1..n : /\ rows[j].price = positions[Past(k) + j].price[s]
                      /\ rows[j].funding = positions[Past(k) + j].funding[s]
                      /\ rows[j].target = positions[Past(k) + j].target[s]
                      /\ rows[j].previous = positions[Past(k) + j].previous[s]
  BY <1>1 DEF PositionOf
<1>3. Past(k) \in Nat /\ n \in Nat
  BY FoldSpan
<1>4. Same(k, s, "price", RowPrices(rows, n))
  BY <1>2 DEF Same, RowPrices
<1>5. Same(k, s, "funding", RowFundings(rows, n))
  BY <1>2 DEF Same, RowFundings
<1>6. Same(k, s, "traded", RowUnits(rows, n))
  <2>1. \A j \in 1..n : RowUnits(rows, n)[j] = positions[Past(k) + j].traded[s]
    <3> TAKE j \in 1..n
    <3> DEFINE i == Past(k) + j
               d == Abs(positions[i].target[s] - positions[i].previous[s])
               v == Abs(positions[i].target[s])
    <3>1. i \in TradedRows(k)
      BY <1>3 DEF TradedRows
    <3>2. positions[i].traded[s] = d + (IF i = Past(k) + TestBars THEN v ELSE 0)
      BY <3>1, BarAmounts
    <3>3. RowUnits(rows, n)[j] = d + (IF j = n THEN v ELSE 0)
      BY <1>2 DEF RowUnits
    <3>4. i = Past(k) + TestBars <=> j = n
      BY <1>3
    <3> HIDE DEF i, d, v
    <3>5. RowUnits(rows, n)[j] = positions[i].traded[s]
      BY <3>2, <3>3, <3>4
    <3> QED
      BY <3>5 DEF i
  <2>2. RowUnits(rows, n) = [j \in 1..n |-> RowUnits(rows, n)[j]]
    BY DEF RowUnits
  <2> QED
    BY <2>1, <2>2 DEF Same
<1>7. /\ Total(Story(k, s), "price") = RowSum(RowPrices(rows, n))
      /\ Total(Story(k, s), "funding") = RowSum(RowFundings(rows, n))
      /\ Total(Story(k, s), "turnover") = RowSum(RowUnits(rows, n))
  BY StoryIs DEF rows
<1>8. RowSum(RowPrices(rows, n)) = SymbolBooked(k, s, "price")
  BY <1>4, ColumnBooked
<1>9. RowSum(RowFundings(rows, n)) = SymbolBooked(k, s, "funding")
  BY <1>5, ColumnBooked
<1>10. RowSum(RowUnits(rows, n)) = SymbolBooked(k, s, "traded")
  BY <1>6, ColumnBooked
<1> QED
  BY <1>7, <1>8, <1>9, <1>10

LEMMA CurvePoints ==
  ASSUME LedgerInv, status = "reported", NEW k \in 1..(fold - 1), NEW i \in TradedRows(k)
  PROVE  /\ curve[i].price = RowSum(positions[i].price) /\ curve[i].funding = RowSum(positions[i].funding)
         /\ curve[i].turnover = RowSum(positions[i].traded) /\ curve[i].turnover \in Int
         /\ curve[i].fees = Costs.fee * curve[i].turnover
         /\ curve[i].spread = Costs.spread * curve[i].turnover
         /\ curve[i].slippage = Costs.slippage * curve[i].turnover
<1> DEFINE t == RowSum(positions[i].traded)
           point == curve[i]
<1>1. Filled(Turn(i, k), positions[i], positions[i - 1].target, panel[Offset + i], point)
  BY RowsAreFilled
<1>2. /\ point.price = RowSum(positions[i].price) /\ point.funding = RowSum(positions[i].funding)
      /\ point.turnover = t /\ point.fees = t * Costs.fee
      /\ point.spread = t * Costs.spread /\ point.slippage = t * Costs.slippage
  BY <1>1 DEF Filled
<1>3. t \in Int
  BY BarAmounts, CountIs, TotalIsSum
<1>4. \A a, b \in Int : a * b = b * a
  OBVIOUS
<1>5. Costs.fee \in Int /\ Costs.spread \in Int /\ Costs.slippage \in Int
  BY RateIs
<1> HIDE DEF t, point
<1> QED
  BY <1>2, <1>3, <1>4, <1>5 DEF t, point

LEMMA CurveTotalIs ==
  ASSUME LedgerInv, status = "reported", NEW k \in 1..(fold - 1)
  PROVE  /\ CurveTotal(k, "price") = RowSum([s \in Symbols |-> SymbolBooked(k, s, "price")])
         /\ CurveTotal(k, "funding") = RowSum([s \in Symbols |-> SymbolBooked(k, s, "funding")])
         /\ CurveTotal(k, "turnover") = RowSum([s \in Symbols |-> SymbolBooked(k, s, "traded")])
         /\ CurveTotal(k, "turnover") \in Int
<1> DEFINE D == TradedRows(k)
<1>1. FoldCurve(k) = D
  BY FoldSpan
<1>2. \A field : CurveTotal(k, field) = RowSum([i \in D |-> curve[i][field]])
  BY <1>1 DEF CurveTotal
<1>3. [i \in D |-> curve[i]["price"]] = [i \in D |-> RowSum(positions[i]["price"])]
  BY CurvePoints
<1>4. [i \in D |-> curve[i]["funding"]] = [i \in D |-> RowSum(positions[i]["funding"])]
  BY CurvePoints
<1>5. [i \in D |-> curve[i]["turnover"]] = [i \in D |-> RowSum(positions[i]["traded"])]
  BY CurvePoints
<1>6. /\ RowSum([i \in D |-> RowSum(positions[i]["price"])]) = RowSum([s \in Symbols |-> SymbolBooked(k, s, "price")])
      /\ RowSum([i \in D |-> RowSum(positions[i]["funding"])]) = RowSum([s \in Symbols |-> SymbolBooked(k, s, "funding")])
      /\ RowSum([i \in D |-> RowSum(positions[i]["traded"])]) = RowSum([s \in Symbols |-> SymbolBooked(k, s, "traded")])
      /\ RowSum([i \in D |-> RowSum(positions[i]["traded"])]) \in Int
  BY BookingTotals
<1> HIDE DEF D
<1>7. CurveTotal(k, "price") = RowSum([s \in Symbols |-> SymbolBooked(k, s, "price")])
  BY <1>2, <1>3, <1>6
<1>8. CurveTotal(k, "funding") = RowSum([s \in Symbols |-> SymbolBooked(k, s, "funding")])
  BY <1>2, <1>4, <1>6
<1>9. /\ CurveTotal(k, "turnover") = RowSum([s \in Symbols |-> SymbolBooked(k, s, "traded")])
      /\ CurveTotal(k, "turnover") \in Int
  BY <1>2, <1>5, <1>6
<1> QED
  BY <1>7, <1>8, <1>9

(* The three charges of the curve are parts of what its turnover costs. *)
LEMMA CurveCharge ==
  ASSUME LedgerInv, status = "reported", NEW k \in 1..(fold - 1),
         NEW field, NEW c \in Int, \A i \in TradedRows(k) : curve[i][field] = c * curve[i].turnover
  PROVE  CurveTotal(k, field) = c * CurveTotal(k, "turnover")
<1> DEFINE D == TradedRows(k)
           f == [i \in D |-> curve[i]["turnover"]]
           h == [i \in D |-> curve[i][field]]
<1>1. \A i \in D : curve[i]["turnover"] \in Int
  BY CurvePoints
<1>2. \A a, b \in Int : a * b \in Int
  OBVIOUS
<1>3. \A i \in D : h[i] = c * f[i] /\ f[i] \in Int
  BY <1>1
<1>4. IsFiniteSet(D)
  BY TradedRowsFinite
<1>5. CurveTotal(k, "turnover") = RowSum(f) /\ CurveTotal(k, field) = RowSum(h)
  BY FoldSpan DEF CurveTotal
<1>6. f = [i \in D |-> f[i]] /\ h = [i \in D |-> h[i]]
  OBVIOUS
<1> HIDE DEF D, f, h
<1>7. f \in [D -> Int] /\ h \in [D -> Int]
  BY <1>2, <1>3, <1>6
<1>8. ScaledBy(D, c, f, h)
  BY <1>3, <1>4, <1>7 DEF ScaledBy
<1>9. RowSum(h) = c * RowSum(f)
  BY <1>8, ScaledTotal
<1> QED
  BY <1>5, <1>9

LEMMA FoldBalances ==
  ASSUME LedgerInv, status = "reported", NEW k \in 1..(fold - 1)
  PROVE  /\ \A field \in {"price", "funding", "turnover"} : TradedTotal(k, field) = CurveTotal(k, field)
         /\ TradedTotal(k, "cost")
              = CurveTotal(k, "fees") + CurveTotal(k, "spread") + CurveTotal(k, "slippage")
<1>1. TradedTotal(k, "price") = CurveTotal(k, "price")
  <2>1. [s \in Symbols |-> Total(Story(k, s), "price")] = [s \in Symbols |-> SymbolBooked(k, s, "price")]
    BY SymbolBooks
  <2> QED
    BY <2>1, TradedTotalIs, CurveTotalIs
<1>2. TradedTotal(k, "funding") = CurveTotal(k, "funding")
  <2>1. [s \in Symbols |-> Total(Story(k, s), "funding")] = [s \in Symbols |-> SymbolBooked(k, s, "funding")]
    BY SymbolBooks
  <2> QED
    BY <2>1, TradedTotalIs, CurveTotalIs
<1>3. TradedTotal(k, "turnover") = CurveTotal(k, "turnover")
  <2>1. [s \in Symbols |-> Total(Story(k, s), "turnover")] = [s \in Symbols |-> SymbolBooked(k, s, "traded")]
    BY SymbolBooks
  <2> QED
    BY <2>1, TradedTotalIs, CurveTotalIs
<1> DEFINE u == CurveTotal(k, "turnover")
           a == Costs.fee
           b == Costs.spread
           c == Costs.slippage
<1>4. TradedTotal(k, "cost") = Rate * u /\ u \in Int
  BY <1>3, TradedCost
<1>5. a \in Int /\ b \in Int /\ c \in Int /\ Rate = a + b + c
  BY RateIs DEF Rate
<1>6. CurveTotal(k, "fees") = a * u
  <2>1. \A i \in TradedRows(k) : curve[i]["fees"] = a * curve[i].turnover
    BY CurvePoints
  <2> HIDE DEF a
  <2> QED
    BY <1>5, <2>1, CurveCharge
<1>7. CurveTotal(k, "spread") = b * u
  <2>1. \A i \in TradedRows(k) : curve[i]["spread"] = b * curve[i].turnover
    BY CurvePoints
  <2> HIDE DEF b
  <2> QED
    BY <1>5, <2>1, CurveCharge
<1>8. CurveTotal(k, "slippage") = c * u
  <2>1. \A i \in TradedRows(k) : curve[i]["slippage"] = c * curve[i].turnover
    BY CurvePoints
  <2> HIDE DEF c
  <2> QED
    BY <1>5, <2>1, CurveCharge
<1> HIDE DEF u, a, b, c
<1>9. \A x, y, z, w \in Int : (x + y + z) * w = x * w + y * w + z * w
  OBVIOUS
<1>10. Rate * u = a * u + b * u + c * u
  BY <1>4, <1>5, <1>9
<1> QED
  BY <1>1, <1>2, <1>3, <1>4, <1>6, <1>7, <1>8, <1>10 DEF u

LEMMA EpisodesApart ==
  ASSUME LedgerInv, status = "reported", NEW k \in 1..(fold - 1), NEW t \in FoldTrades(k)
  PROVE  \A i \in 1..(Len(t.events) - 1) : t.events[i].exited <= t.events[i + 1].entered
<1>1. PICK s \in Symbols : t = Account(k, s)
  BY FoldTradesAre
<1>2. t.events = Story(k, s)
  BY <1>1 DEF Account
<1>3. Told(Story(k, s), Len(Story(k, s)))
  BY StoryIs
<1> QED
  BY <1>2, <1>3 DEF Told

(* The books of trades.py and backtest.py: for every recorded history and    *)
(* whatever the folds, symbols and weights, the closed episodes of each fold *)
(* add up to its curve in price, funding, turnover and cost, and the         *)
(* episodes of a symbol follow each other.                                   *)
THEOREM BooksAreBalanced == Spec => []BooksBalance
<1>1. ASSUME LedgerInv PROVE BooksBalance
  <2> SUFFICES ASSUME status = "reported", NEW k \in 1..(fold - 1)
               PROVE  /\ \A field \in {"price", "funding", "turnover"} :
                            TradedTotal(k, field) = CurveTotal(k, field)
                      /\ TradedTotal(k, "cost")
                            = CurveTotal(k, "fees") + CurveTotal(k, "spread") + CurveTotal(k, "slippage")
                      /\ \A t \in FoldTrades(k) : \A i \in 1..(Len(t.events) - 1) :
                            t.events[i].exited <= t.events[i + 1].entered
    BY DEF BooksBalance
  <2> QED
    BY <1>1, FoldBalances, EpisodesApart
<1> QED
  BY <1>1, LedgerInvariant, PTL
=============================================================================
