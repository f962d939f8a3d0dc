---------------------------- MODULE PortfolioProofs ----------------------------
(***************************************************************************)
(* Proofs about StrategyPortfolio for every set of experiments, books,     *)
(* portfolio files and shares of capital.  First what a sum over a finite  *)
(* set obeys and what the turnover of a weighted sum is; then that curves, *)
(* components and accounts are as booked, from which netting only saves;   *)
(* last that the legs read from the weights account for the same trades.   *)
(***************************************************************************)
EXTENDS StrategyPortfolio, FiniteSetTheorems, FunctionTheorems, WellFoundedInduction, TLAPS

-----------------------------------------------------------------------------
(* Sums. *)

(* What holds of {}, and of a set when of it less any element, holds of    *)
(* every subset of a finite set.                                           *)
LEMMA SubsetInduction ==
  ASSUME NEW S, IsFiniteSet(S), NEW P, {} \in P,
         \A T \in SUBSET S : T # {} /\ (\A x \in T : T \ {x} \in P) => T \in P
  PROVE  \A T \in SUBSET S : T \in P
<1> DEFINE Wrong == {T \in SUBSET S : T \notin P}
<1> SUFFICES ASSUME Wrong # {} PROVE FALSE
  OBVIOUS
<1>1. Wrong \subseteq FiniteSubsetsOf(S)
  BY FS_Subset DEF FiniteSubsetsOf
<1> HIDE DEF Wrong
<1>2. PICK T \in Wrong : \A K \in Wrong : ~(<<K, T>> \in StrictSubsetOrdering(S))
  BY <1>1, FS_StrictSubsetOrderingWellFounded, WFMin
<1>3. T \in SUBSET S /\ T \notin P
  BY DEF Wrong
<1>4. ASSUME NEW x \in T PROVE T \ {x} \in P
  <2>1. <<T \ {x}, T>> \in StrictSubsetOrdering(S)
    BY <1>3 DEF StrictSubsetOrdering
  <2>2. T \ {x} \notin Wrong
    BY <1>2, <2>1
  <2> QED
    BY <1>3, <2>2 DEF Wrong
<1> QED
  BY <1>3, <1>4

(* A sum counts cells: those of a column as high as each positive value,   *)
(* less those of the negative ones.                                        *)
Cells(f, T) == {c \in T \X Nat : 1 <= c[2] /\ c[2] <= f[c[1]]}
Negated(f) == [x \in DOMAIN f |-> -f[x]]
SumOver(f, T) == Cardinality(Cells(f, T)) - Cardinality(Cells(Negated(f), T))

LEMMA CellsOfOne ==
  ASSUME NEW x, NEW f, f[x] \in Int
  PROVE  /\ IsFiniteSet(Cells(f, {x}))
         /\ Cardinality(Cells(f, {x})) = IF f[x] > 0 THEN f[x] ELSE 0
<1>1. CASE f[x] > 0
  <2> DEFINE column == [k \in 1..f[x] |-> <<x, k>>]
  <2>1. column \in Bijection(1..f[x], Cells(f, {x}))
    <3>1. ASSUME NEW c \in Cells(f, {x}) PROVE c[2] \in 1..f[x] /\ column[c[2]] = c
      BY DEF Cells
    <3>2. \A k \in 1..f[x] : column[k] \in Cells(f, {x})
      BY <1>1 DEF Cells
    <3>3. column \in Injection(1..f[x], Cells(f, {x}))
      BY <3>2 DEF Injection, IsInjective
    <3> QED
      BY <3>1, <3>2, <3>3 DEF Bijection, Surjection
  <2>2. IsFiniteSet(1..f[x]) /\ Cardinality(1..f[x]) = f[x]
    <3>1. \A a, b \in Int : /\ IsFiniteSet(a..b)
                            /\ Cardinality(a..b) = IF a > b THEN 0 ELSE b - a + 1
      BY ONLY FS_Interval
    <3>2. PICK n \in Int : n = f[x] /\ n > 0
      BY <1>1
    <3>3. n - 1 + 1 = n /\ ~(1 > n) /\ 1 \in Int
      BY ONLY <3>2
    <3>4. IsFiniteSet(1..n) /\ Cardinality(1..n) = n
      BY ONLY <3>1, <3>2, <3>3
    <3> QED
      BY <3>2, <3>4
  <2>3. ExistsBijection(1..f[x], Cells(f, {x}))
    BY <2>1 DEF ExistsBijection
  <2> HIDE DEF column
  <2>4. IsFiniteSet(Cells(f, {x})) /\ Cardinality(Cells(f, {x})) = Cardinality(1..f[x])
    BY ONLY <2>2, <2>3, FS_Bijection
  <2> QED
    BY <1>1, <2>2, <2>4
<1>2. CASE ~(f[x] > 0)
  <2>1. Cells(f, {x}) = {}
    BY <1>2 DEF Cells
  <2> QED
    BY <1>2, <2>1, FS_EmptySet
<1> QED
  BY <1>1, <1>2

LEMMA CellsStep ==
  ASSUME NEW D, IsFiniteSet(D), NEW f, \A x \in D : f[x] \in Int, NEW T \in SUBSET D
  PROVE  /\ IsFiniteSet(Cells(f, T))
         /\ Cardinality(Cells(f, T)) \in Nat
         /\ \A x \in T : Cardinality(Cells(f, T)) =
              Cardinality(Cells(f, T \ {x})) + (IF f[x] > 0 THEN f[x] ELSE 0)
<1>1. \A U \in SUBSET D : \A x \in U :
        Cells(f, U) = Cells(f, U \ {x}) \cup Cells(f, {x}) /\ Cells(f, U \ {x}) \cap Cells(f, {x}) = {}
  BY DEF Cells
<1> DEFINE P == {U \in SUBSET D : IsFiniteSet(Cells(f, U))}
<1>2. \A U \in SUBSET D : U \in P
  <2>1. {} \in P
    BY FS_EmptySet DEF Cells
  <2>2. ASSUME NEW U \in SUBSET D, U # {}, \A x \in U : U \ {x} \in P PROVE U \in P
    <3>1. PICK x \in U : TRUE
      BY <2>2
    <3>2. IsFiniteSet(Cells(f, U \ {x})) /\ IsFiniteSet(Cells(f, {x}))
      BY <2>2, CellsOfOne
    <3>3. IsFiniteSet(Cells(f, U \ {x}) \cup Cells(f, {x}))
      BY ONLY <3>2, FS_Union
    <3>4. IsFiniteSet(Cells(f, U))
      BY <1>1, <3>1, <3>3
    <3> QED
      BY <3>4
  <2> HIDE DEF P
  <2> QED
    BY <2>1, <2>2, SubsetInduction
<1>3. \A U \in SUBSET D : IsFiniteSet(Cells(f, U)) /\ Cardinality(Cells(f, U)) \in Nat
  BY <1>2, FS_CardinalityType
<1>4. ASSUME NEW x \in T
      PROVE  Cardinality(Cells(f, T)) = Cardinality(Cells(f, T \ {x})) + (IF f[x] > 0 THEN f[x] ELSE 0)
  <2>1. /\ IsFiniteSet(Cells(f, T \ {x})) /\ IsFiniteSet(Cells(f, {x}))
        /\ Cardinality(Cells(f, T \ {x})) \in Nat
        /\ Cardinality(Cells(f, {x})) = IF f[x] > 0 THEN f[x] ELSE 0
    BY <1>3, CellsOfOne
  <2>2. Cardinality(Cells(f, T)) = Cardinality(Cells(f, T \ {x})) + Cardinality(Cells(f, {x}))
                                     - Cardinality(Cells(f, T \ {x}) \cap Cells(f, {x}))
    BY <1>1, <2>1, FS_Union
  <2>3. Cardinality(Cells(f, T \ {x}) \cap Cells(f, {x})) = 0
    BY <1>1, FS_EmptySet
  <2> QED
    BY <2>1, <2>2, <2>3
<1> QED
  BY <1>3, <1>4

(* A sum loses what any element adds to it. *)
LEMMA SumStep ==
  ASSUME NEW D, IsFiniteSet(D), NEW f \in [D -> Int], NEW T \in SUBSET D
  PROVE  /\ SumOver(f, T) \in Int
         /\ T = {} => SumOver(f, T) = 0
         /\ \A x \in T : SumOver(f, T) = f[x] + SumOver(f, T \ {x})
<1> DEFINE g == Negated(f)
<1>1. \A x \in D : g[x] = -f[x] /\ g[x] \in Int /\ f[x] \in Int
  BY DEF Negated
<1> HIDE DEF g
<1>2. \A U \in SUBSET D : Cardinality(Cells(f, U)) \in Nat /\ Cardinality(Cells(g, U)) \in Nat
  BY <1>1, CellsStep
<1>3. \A U \in SUBSET D : SumOver(f, U) = Cardinality(Cells(f, U)) - Cardinality(Cells(g, U))
  BY DEF SumOver, g
<1>4. T = {} => SumOver(f, T) = 0
  BY <1>3, FS_EmptySet DEF Cells
<1>5. ASSUME NEW x \in T PROVE SumOver(f, T) = f[x] + SumOver(f, T \ {x})
  <2>1. Cardinality(Cells(f, T)) = Cardinality(Cells(f, T \ {x})) + (IF f[x] > 0 THEN f[x] ELSE 0)
    BY <1>1, CellsStep
  <2>2. Cardinality(Cells(g, T)) = Cardinality(Cells(g, T \ {x})) + (IF g[x] > 0 THEN g[x] ELSE 0)
    BY <1>1, CellsStep
  <2>3. f[x] \in Int /\ g[x] = -f[x] /\ T \ {x} \in SUBSET D
    BY <1>1
  <2>4. Cardinality(Cells(f, T \ {x})) \in Nat /\ Cardinality(Cells(g, T \ {x})) \in Nat
    BY <1>2
  <2>5. /\ SumOver(f, T) = Cardinality(Cells(f, T)) - Cardinality(Cells(g, T))
        /\ SumOver(f, T \ {x}) = Cardinality(Cells(f, T \ {x})) - Cardinality(Cells(g, T \ {x}))
    BY <1>3
  <2> QED
    BY <2>1, <2>2, <2>3, <2>4, <2>5
<1> QED
  BY <1>2, <1>3, <1>4, <1>5

LEMMA TotalIsSum ==
  ASSUME NEW D, IsFiniteSet(D), NEW f \in [D -> Int]
  PROVE  Total(f) = SumOver(f, D) /\ Total(f) \in Int
<1> DEFINE body(g) == [T \in SUBSET D |-> IF T = {} THEN 0
                                          ELSE f[CHOOSE x \in T : TRUE] + g[T \ {CHOOSE x \in T : TRUE}]]
           loop == CHOOSE g : g = body(g)
           count == [T \in SUBSET D |-> SumOver(f, T)]
<1>1. Total(f) = loop[D]
  <2>1. DOMAIN f = D
    OBVIOUS
  <2> QED
    BY <2>1 DEF Total, MapThenSumSet, MapThenFoldSet
<1>2. count = body(count)
  <2>1. ASSUME NEW T \in SUBSET D PROVE count[T] = body(count)[T]
    <3>1. CASE T = {}
      BY <3>1, SumStep
    <3>2. CASE T # {}
      <4> DEFINE x == CHOOSE x \in T : TRUE
      <4>1. x \in T
        BY <3>2
      <4> HIDE DEF x
      <4>2. SumOver(f, T) = f[x] + SumOver(f, T \ {x})
        BY <4>1, SumStep
      <4>3. body(count)[T] = f[x] + count[T \ {x}]
        BY <3>2 DEF x
      <4>4. count[T \ {x}] = SumOver(f, T \ {x}) /\ count[T] = SumOver(f, T)
        BY <4>1
      <4> HIDE DEF count, body
      <4> QED
        BY <4>2, <4>3, <4>4
    <3> QED
      BY <3>1, <3>2
  <2> QED
    BY <2>1
<1>3. loop = body(loop)
  BY <1>2
<1> HIDE DEF loop
<1> DEFINE P == {T \in SUBSET D : loop[T] = SumOver(f, T)}
<1>4. {} \in P
  BY <1>3, SumStep
<1>5. ASSUME NEW T \in SUBSET D, T # {}, \A x \in T : T \ {x} \in P PROVE T \in P
  <2> DEFINE x == CHOOSE x \in T : TRUE
  <2>1. x \in T
    BY <1>5
  <2>2. loop[T] = f[x] + loop[T \ {x}]
    BY <1>3, <1>5
  <2> HIDE DEF x
  <2>3. loop[T \ {x}] = SumOver(f, T \ {x})
    BY <1>5, <2>1
  <2>4. SumOver(f, T) = f[x] + SumOver(f, T \ {x})
    BY <2>1, SumStep
  <2> QED
    BY <2>2, <2>3, <2>4
<1>6. \A T \in SUBSET D : T \in P
  <2> HIDE DEF P
  <2> QED
    BY <1>4, <1>5, SubsetInduction
<1> QED
  BY <1>1, <1>6, SumStep

LEMMA TotalAdds ==
  ASSUME NEW D, IsFiniteSet(D), NEW f \in [D -> Int], NEW g \in [D -> Int],
         NEW h \in [D -> Int], \A x \in D : h[x] = f[x] + g[x]
  PROVE  Total(h) = Total(f) + Total(g)
<1> DEFINE P == {T \in SUBSET D : SumOver(h, T) = SumOver(f, T) + SumOver(g, T)}
<1>1. {} \in P
  BY SumStep
<1>2. ASSUME NEW T \in SUBSET D, T # {}, \A x \in T : T \ {x} \in P PROVE T \in P
  <2>1. PICK x \in T : TRUE
    BY <1>2
  <2> DEFINE R == T \ {x}
  <2>2. R \in SUBSET D /\ SumOver(h, R) = SumOver(f, R) + SumOver(g, R)
    BY <1>2, <2>1
  <2>3. /\ SumOver(h, T) = h[x] + SumOver(h, R)
        /\ SumOver(f, T) = f[x] + SumOver(f, R)
        /\ SumOver(g, T) = g[x] + SumOver(g, R)
    BY SumStep
  <2> HIDE DEF R
  <2>4. SumOver(h, R) \in Int /\ SumOver(f, R) \in Int /\ SumOver(g, R) \in Int
    BY <2>2, SumStep
  <2>5. h[x] = f[x] + g[x] /\ f[x] \in Int /\ g[x] \in Int
    OBVIOUS
  <2>6. SumOver(h, T) = SumOver(f, T) + SumOver(g, T)
    BY <2>2, <2>3, <2>4, <2>5
  <2> QED
    BY <2>6
<1> HIDE DEF P
<1>3. D \in P
  BY <1>1, <1>2, SubsetInduction
<1> QED
  BY <1>3, TotalIsSum DEF P

LEMMA TotalScales ==
  ASSUME NEW D, IsFiniteSet(D), NEW c \in Int, NEW f \in [D -> Int],
         NEW h \in [D -> Int], \A x \in D : h[x] = c * f[x]
  PROVE  Total(h) = c * Total(f)
<1>1. \A a, b \in Int : c * (a + b) = c * a + c * b /\ c * a \in Int
  OBVIOUS
<1> DEFINE P == {T \in SUBSET D : SumOver(h, T) = c * SumOver(f, T)}
<1>2. {} \in P
  <2>1. SumOver(h, {}) = 0 /\ SumOver(f, {}) = 0
    BY SumStep
  <2>2. c * 0 = 0
    OBVIOUS
  <2> QED
    BY <2>1, <2>2
<1>3. ASSUME NEW T \in SUBSET D, T # {}, \A x \in T : T \ {x} \in P PROVE T \in P
  <2>1. PICK x \in T : TRUE
    BY <1>3
  <2> DEFINE R == T \ {x}
  <2>2. R \in SUBSET D /\ SumOver(h, R) = c * SumOver(f, R)
    BY <1>3, <2>1
  <2>3. SumOver(h, T) = h[x] + SumOver(h, R) /\ SumOver(f, T) = f[x] + SumOver(f, R)
    BY SumStep
  <2> HIDE DEF R
  <2>4. SumOver(f, R) \in Int
    BY <2>2, SumStep
  <2>5. h[x] = c * f[x] /\ f[x] \in Int
    OBVIOUS
  <2>6. c * (f[x] + SumOver(f, R)) = c * f[x] + c * SumOver(f, R)
    BY ONLY <1>1, <2>4, <2>5
  <2>7. SumOver(h, T) = c * SumOver(f, T)
    BY ONLY <2>2, <2>3, <2>5, <2>6
  <2> QED
    BY <2>7
<1> HIDE DEF P
<1>4. D \in P
  BY <1>2, <1>3, SubsetInduction
<1> QED
  BY <1>4, TotalIsSum DEF P

LEMMA TotalMonotone ==
  ASSUME NEW D, IsFiniteSet(D), NEW f \in [D -> Int], NEW g \in [D -> Int],
         \A x \in D : f[x] <= g[x]
  PROVE  Total(f) <= Total(g)
<1> DEFINE P == {T \in SUBSET D : SumOver(f, T) <= SumOver(g, T)}
<1>1. {} \in P
  BY SumStep
<1>2. ASSUME NEW T \in SUBSET D, T # {}, \A x \in T : T \ {x} \in P PROVE T \in P
  <2>1. PICK x \in T : TRUE
    BY <1>2
  <2> DEFINE R == T \ {x}
  <2>2. R \in SUBSET D /\ SumOver(f, R) <= SumOver(g, R)
    BY <1>2, <2>1
  <2>3. SumOver(f, T) = f[x] + SumOver(f, R) /\ SumOver(g, T) = g[x] + SumOver(g, R)
    BY SumStep
  <2> HIDE DEF R
  <2>4. SumOver(f, R) \in Int /\ SumOver(g, R) \in Int
    BY <2>2, SumStep
  <2>5. f[x] <= g[x] /\ f[x] \in Int /\ g[x] \in Int
    OBVIOUS
  <2>6. SumOver(f, T) <= SumOver(g, T)
    BY <2>2, <2>3, <2>4, <2>5
  <2> QED
    BY <2>6
<1> HIDE DEF P
<1>3. D \in P
  BY <1>1, <1>2, SubsetInduction
<1> QED
  BY <1>3, TotalIsSum DEF P

LEMMA TotalBounded ==
  ASSUME NEW D, IsFiniteSet(D), NEW f \in [D -> Int], NEW g \in [D -> Int],
         \A x \in D : Size(f[x]) <= g[x]
  PROVE  Size(Total(f)) <= Total(g)
<1> DEFINE P == {T \in SUBSET D : Size(SumOver(f, T)) <= SumOver(g, T)}
<1>1. {} \in P
  BY SumStep DEF Size
<1>2. ASSUME NEW T \in SUBSET D, T # {}, \A x \in T : T \ {x} \in P PROVE T \in P
  <2>1. PICK x \in T : TRUE
    BY <1>2
  <2> DEFINE R == T \ {x}
  <2>2. R \in SUBSET D /\ Size(SumOver(f, R)) <= SumOver(g, R)
    BY <1>2, <2>1
  <2>3. SumOver(f, T) = f[x] + SumOver(f, R) /\ SumOver(g, T) = g[x] + SumOver(g, R)
    BY SumStep
  <2> HIDE DEF R
  <2>4. SumOver(f, R) \in Int /\ SumOver(g, R) \in Int
    BY <2>2, SumStep
  <2>5. Size(f[x]) <= g[x] /\ f[x] \in Int /\ g[x] \in Int
    OBVIOUS
  <2>6. Size(SumOver(f, T)) <= SumOver(g, T)
    BY ONLY <2>2, <2>3, <2>4, <2>5 DEF Size
  <2> QED
    BY <2>6
<1> HIDE DEF P
<1>3. D \in P
  BY <1>1, <1>2, SubsetInduction
<1> QED
  BY <1>3, TotalIsSum DEF P

LEMMA TotalOfOne ==
  ASSUME NEW x, NEW f \in [{x} -> Int]
  PROVE  Total(f) = f[x]
<1> DEFINE D == {x}
           R == D \ {x}
<1>1. IsFiniteSet(D) /\ x \in D /\ R = {} /\ R \in SUBSET D /\ f \in [D -> Int]
  BY FS_Singleton
<1> HIDE DEF D
<1>2. SumOver(f, D) = f[x] + SumOver(f, R)
  BY <1>1, SumStep
<1> HIDE DEF R
<1>3. SumOver(f, R) = 0 /\ Total(f) = SumOver(f, D) /\ f[x] \in Int
  BY <1>1, SumStep, TotalIsSum
<1> QED
  BY <1>2, <1>3

(* The rows of a table add up to what its columns add up to. *)
Column(m, s) == [i \in DOMAIN m |-> m[i][s]]
RowTotals(m) == [i \in DOMAIN m |-> Total(m[i])]
ColumnTotals(m, S) == [s \in S |-> Total(Column(m, s))]

LEMMA TableTotals ==
  ASSUME NEW D, IsFiniteSet(D), NEW E, IsFiniteSet(E), NEW m \in [D -> [E -> Int]]
  PROVE  Total(RowTotals(m)) = Total(ColumnTotals(m, E))
<1> DEFINE rows == RowTotals(m)
           columns == ColumnTotals(m, E)
<1>01. \A i \in D : m[i] \in [E -> Int]
  OBVIOUS
<1>02. rows \in [D -> Int] /\ \A i \in D : rows[i] = Total(m[i])
  <2>1. \A i \in D : Total(m[i]) \in Int
    BY <1>01, TotalIsSum
  <2> QED
    BY <2>1 DEF RowTotals
<1>03. columns \in [E -> Int] /\ \A s \in E : columns[s] = Total([i \in D |-> m[i][s]])
  <2>1. \A s \in E : Column(m, s) \in [D -> Int] /\ Column(m, s) = [i \in D |-> m[i][s]]
    BY DEF Column
  <2>2. \A s \in E : Total(Column(m, s)) \in Int
    BY <2>1, TotalIsSum
  <2> QED
    BY <2>1, <2>2 DEF ColumnTotals
<1> HIDE DEF rows, columns
<1> DEFINE column(s) == [i \in D |-> m[i][s]]
           part(T) == [s \in E |-> SumOver(column(s), T)]
           P == {T \in SUBSET D : SumOver(rows, T) = Total(part(T))}
<1>1. \A s \in E : column(s) \in [D -> Int]
  OBVIOUS
<1>2. \A T \in SUBSET D : part(T) \in [E -> Int]
  <2>1. ASSUME NEW T \in SUBSET D, NEW s \in E PROVE SumOver(column(s), T) \in Int
    <3> HIDE DEF column
    <3> QED
      BY <1>1, SumStep
  <2> HIDE DEF column
  <2> QED
    BY <2>1
<1>3. {} \in P
  <2>1. \A s \in E : part({})[s] = 0
    <3> HIDE DEF column
    <3> QED
      BY <1>1, SumStep
  <2>2. part({}) \in [E -> Int]
    BY <1>2
  <2> HIDE DEF part
  <2>3. Total(part({})) = 0 * Total(part({}))
    BY <2>1, <2>2, TotalScales
  <2>4. Total(part({})) \in Int
    BY <2>2, TotalIsSum
  <2>5. SumOver(rows, {}) = 0
    BY <1>02, SumStep
  <2> QED
    BY <2>3, <2>4, <2>5
<1>4. ASSUME NEW T \in SUBSET D, T # {}, \A i \in T : T \ {i} \in P PROVE T \in P
  <2>1. PICK i \in T : TRUE
    BY <1>4
  <2> DEFINE R == T \ {i}
  <2>2. R \in SUBSET D /\ SumOver(rows, R) = Total(part(R))
    BY <1>4, <2>1
  <2>3. SumOver(rows, T) = rows[i] + SumOver(rows, R)
    BY <1>02, SumStep
  <2>4. \A s \in E : part(T)[s] = m[i][s] + part(R)[s]
    <3>1. ASSUME NEW s \in E PROVE SumOver(column(s), T) = m[i][s] + SumOver(column(s), R)
      <4>1. column(s)[i] = m[i][s]
        BY <2>1
      <4>2. column(s) \in [D -> Int]
        BY <1>1
      <4> DEFINE c == column(s)
      <4> HIDE DEF column, c
      <4>3. SumOver(c, T) = c[i] + SumOver(c, T \ {i})
        BY <4>2, SumStep DEF c
      <4> QED
        BY <4>1, <4>3 DEF c
    <3> HIDE DEF column
    <3> QED
      BY <3>1
  <2> HIDE DEF R
  <2>5. part(T) \in [E -> Int] /\ part(R) \in [E -> Int] /\ m[i] \in [E -> Int]
    BY <1>2, <2>2
  <2> HIDE DEF part
  <2>6. Total(part(T)) = Total(m[i]) + Total(part(R))
    BY <2>4, <2>5, TotalAdds
  <2>7. SumOver(rows, T) = Total(part(T))
    BY <1>02, <2>2, <2>3, <2>6
  <2> QED
    BY <2>7
<1>5. D \in P
  <2> HIDE DEF P
  <2> QED
    BY <1>3, <1>4, SubsetInduction
<1>6. part(D) = columns
  <2>1. \A s \in E : part(D)[s] = columns[s]
    <3> HIDE DEF column
    <3>1. ASSUME NEW s \in E PROVE Total(column(s)) = SumOver(column(s), D)
      BY <1>1, TotalIsSum
    <3>2. \A s \in E : columns[s] = Total(column(s))
      BY <1>03 DEF column
    <3> QED
      BY <3>1, <3>2
  <2>2. part(D) = [s \in E |-> part(D)[s]] /\ columns = [s \in E |-> columns[s]]
    <3> HIDE DEF column
    <3> QED
      BY <1>03
  <2> HIDE DEF part
  <2> QED
    BY <2>1, <2>2
<1> QED
  <2>1. SumOver(rows, D) = Total(part(D))
    BY <1>5
  <2> HIDE DEF part
  <2>2. Total(rows) = Total(columns)
    BY <1>6, <1>02, <2>1, TotalIsSum
  <2> QED
    BY <2>2 DEF rows, columns

(* What adds nothing may be left out. *)
LEMMA TotalOfSupport ==
  ASSUME NEW D, IsFiniteSet(D), NEW S \in SUBSET D, NEW f \in [D -> Int], NEW g \in [S -> Int],
         \A x \in D : IF x \in S THEN f[x] = g[x] ELSE f[x] = 0
  PROVE  Total(f) = Total(g)
<1>1. IsFiniteSet(S)
  BY FS_Subset
<1> DEFINE P == {T \in SUBSET D : SumOver(f, T) = SumOver(g, T \cap S)}
<1>2. {} \in P
  BY <1>1, SumStep
<1>3. ASSUME NEW T \in SUBSET D, T # {}, \A x \in T : T \ {x} \in P PROVE T \in P
  <2>1. PICK x \in T : TRUE
    BY <1>3
  <2> DEFINE R == T \ {x}
  <2>2. R \in SUBSET D /\ SumOver(f, R) = SumOver(g, R \cap S)
    BY <1>3, <2>1
  <2>3. SumOver(f, T) = f[x] + SumOver(f, R)
    BY SumStep
  <2>4. SumOver(f, R) \in Int
    BY SumStep
  <2>5. CASE x \in S
    <3>1. R \cap S = (T \cap S) \ {x} /\ T \cap S \in SUBSET S /\ x \in T \cap S
      BY <2>5
    <3>2. SumOver(g, T \cap S) = g[x] + SumOver(g, R \cap S)
      BY <1>1, <3>1, SumStep
    <3>3. f[x] = g[x]
      BY <2>5
    <3> QED
      BY <2>2, <2>3, <3>2, <3>3
  <2>6. CASE x \notin S
    <3>1. R \cap S = T \cap S /\ f[x] = 0
      BY <2>6
    <3>2. SumOver(f, T) = SumOver(g, T \cap S)
      BY <2>2, <2>3, <2>4, <3>1
    <3> QED
      BY <3>2
  <2> QED
    BY <2>5, <2>6
<1> HIDE DEF P
<1>4. D \in P
  BY <1>2, <1>3, SubsetInduction
<1>5. D \cap S = S
  OBVIOUS
<1> QED
  BY <1>1, <1>4, <1>5, TotalIsSum DEF P

(* The order and the names of what is added do not matter. *)
LEMMA TotalRenamed ==
  ASSUME NEW D, IsFiniteSet(D), NEW E, NEW b \in Bijection(D, E),
         NEW f \in [D -> Int], NEW g \in [E -> Int], \A x \in D : f[x] = g[b[x]]
  PROVE  Total(f) = Total(g)
<1>1. IsFiniteSet(E)
  BY FS_Bijection DEF ExistsBijection
<1>2. b \in [D -> E] /\ (\A x, y \in D : b[x] = b[y] => x = y) /\ \A e \in E : \E x \in D : b[x] = e
  BY DEF Bijection, Injection, Surjection, IsInjective
<1> DEFINE Image(T) == {b[x] : x \in T}
           P == {T \in SUBSET D : SumOver(f, T) = SumOver(g, Image(T))}
<1>3. {} \in P
  <2>1. Image({}) = {}
    OBVIOUS
  <2> HIDE DEF Image
  <2> QED
    BY <1>1, <2>1, SumStep
<1>4. ASSUME NEW T \in SUBSET D, T # {}, \A x \in T : T \ {x} \in P PROVE T \in P
  <2>1. PICK x \in T : TRUE
    BY <1>4
  <2> DEFINE R == T \ {x}
  <2>2. R \in SUBSET D /\ SumOver(f, R) = SumOver(g, Image(R))
    BY <1>4, <2>1
  <2>3. SumOver(f, T) = f[x] + SumOver(f, R)
    BY SumStep
  <2>4. Image(R) = Image(T) \ {b[x]} /\ b[x] \in Image(T) /\ Image(T) \in SUBSET E
    BY <1>2
  <2>5. f[x] = g[b[x]]
    OBVIOUS
  <2> HIDE DEF Image, R
  <2>6. SumOver(g, Image(T)) = g[b[x]] + SumOver(g, Image(R))
    BY <1>1, <2>4, SumStep
  <2>7. SumOver(f, T) = SumOver(g, Image(T))
    BY <2>2, <2>3, <2>5, <2>6
  <2> QED
    BY <2>7
<1>5. D \in P
  <2> HIDE DEF P
  <2> QED
    BY <1>3, <1>4, SubsetInduction
<1>6. Image(D) = E
  BY <1>2
<1>7. SumOver(f, D) = SumOver(g, E)
  BY <1>5, <1>6
<1> QED
  BY <1>1, <1>7, TotalIsSum

-----------------------------------------------------------------------------
(* Netting. *)

LEMMA Magnitudes ==
  /\ \A x \in Int : Size(x) \in Nat
  /\ \A c \in Nat, x \in Int : c * x \in Int /\ Size(c * x) = c * Size(x)
  /\ \A c \in Nat, x, y \in Int : c * (x + y) = c * x + c * y
  /\ \A c \in Nat, x, y \in Int : c * (x - y) = c * x - c * y
<1>1. \A x \in Int : Size(x) \in Nat
  BY DEF Size
<1>2. ASSUME NEW c \in Nat, NEW x \in Int PROVE c * x \in Int /\ Size(c * x) = c * Size(x)
  <2>1. CASE x >= 0
    <3>1. c * x >= 0
      BY <2>1
    <3> QED
      BY <2>1, <3>1 DEF Size
  <2>2. CASE x < 0
    <3>1. c * x = -(c * (-x)) /\ c * (-x) >= 0 /\ c * x \in Int
      BY <2>2
    <3>2. Size(x) = -x
      BY <2>2 DEF Size
    <3>3. Size(c * x) = -(c * x)
      BY <3>1 DEF Size
    <3> QED
      BY <3>1, <3>2, <3>3
  <2> QED
    BY <2>1, <2>2
<1> QED
  BY <1>1, <1>2

LEMMA SizeType == \A x \in Int : Size(x) \in Int
  BY DEF Size

LEMMA TurnoverType ==
  ASSUME NEW S, IsFiniteSet(S), NEW from \in [S -> Int], NEW to \in [S -> Int],
         NEW closes \in BOOLEAN
  PROVE  /\ Turnover(from, to, closes) \in Int
         /\ [s \in S |-> Size(to[s] - from[s]) + (IF closes THEN Size(to[s]) ELSE 0)] \in [S -> Int]
         /\ RowSize(to) = Turnover(Zero(to), to, FALSE)
         /\ Zero(to) = [s \in S |-> 0] /\ Zero(to) \in [S -> Int]
<1>1. \A s \in S : Size(to[s] - from[s]) \in Int /\ Size(to[s]) \in Int
  BY DEF Size
<1>2. [s \in S |-> Size(to[s] - from[s]) + (IF closes THEN Size(to[s]) ELSE 0)] \in [S -> Int]
  BY <1>1
<1>3. Turnover(from, to, closes) \in Int
  BY <1>2, TotalIsSum DEF Turnover
<1>4. Zero(to) = [s \in S |-> 0]
  BY DEF Zero
<1>5. RowSize(to) = Turnover(Zero(to), to, FALSE)
  <2>1. [s \in S |-> Size(to[s] - Zero(to)[s]) + (IF FALSE THEN Size(to[s]) ELSE 0)]
          = [s \in S |-> Size(to[s])]
    BY <1>1, <1>4 DEF Size
  <2> QED
    BY <2>1 DEF RowSize, Turnover
<1> QED
  BY <1>2, <1>3, <1>4, <1>5

(* Functions added, weighted, measured and traded position by position.    *)
Plus(f, g) == [x \in DOMAIN f |-> f[x] + g[x]]
Scaled(c, f) == [x \in DOMAIN f |-> c[x] * f[x]]
Sizes(f) == [x \in DOMAIN f |-> Size(f[x])]
AtMost(f, g) == \A x \in DOMAIN f : f[x] <= g[x]
Trades(from, to, closes) ==
  [x \in DOMAIN to |-> Size(to[x] - from[x]) + (IF closes THEN Size(to[x]) ELSE 0)]

LEMMA SumsOf ==
  ASSUME NEW D, IsFiniteSet(D)
  PROVE  /\ \A f \in [D -> Int] : Total(f) \in Int
         /\ \A f, g \in [D -> Int] : Total(Plus(f, g)) = Total(f) + Total(g)
         /\ \A f, g \in [D -> Int] : AtMost(f, g) => Total(f) <= Total(g)
         /\ \A f \in [D -> Int] : Size(Total(f)) <= Total(Sizes(f))
<1>1. ASSUME NEW f \in [D -> Int], NEW g \in [D -> Int]
      PROVE  Total(Plus(f, g)) = Total(f) + Total(g)
  <2>1. Plus(f, g) \in [D -> Int] /\ \A x \in D : Plus(f, g)[x] = f[x] + g[x]
    BY DEF Plus
  <2> QED
    BY <2>1, TotalAdds
<1>2. ASSUME NEW f \in [D -> Int], NEW g \in [D -> Int], AtMost(f, g)
      PROVE  Total(f) <= Total(g)
  <2>1. \A x \in D : f[x] <= g[x]
    BY <1>2 DEF AtMost
  <2> QED
    BY <2>1, TotalMonotone
<1>3. ASSUME NEW f \in [D -> Int] PROVE Size(Total(f)) <= Total(Sizes(f))
  <2>1. Sizes(f) \in [D -> Int] /\ \A x \in D : Size(f[x]) <= Sizes(f)[x]
    BY DEF Sizes, Size
  <2> QED
    BY <2>1, TotalBounded
<1> QED
  BY <1>1, <1>2, <1>3, TotalIsSum

LEMMA FunctionTypes ==
  ASSUME NEW D
  PROVE  /\ \A f, g \in [D -> Int] : Plus(f, g) \in [D -> Int] /\ Sizes(f) \in [D -> Int]
         /\ \A c \in [D -> Nat], f \in [D -> Int] : Scaled(c, f) \in [D -> Int]
         /\ \A f, g \in [D -> Int], closes \in BOOLEAN : Trades(f, g, closes) \in [D -> Int]
<1>1. \A x \in Int : Size(x) \in Int
  BY DEF Size
<1>2. \A f, g \in [D -> Int] : Plus(f, g) \in [D -> Int] /\ Sizes(f) \in [D -> Int]
  BY <1>1 DEF Plus, Sizes
<1>3. ASSUME NEW c \in [D -> Nat], NEW f \in [D -> Int] PROVE Scaled(c, f) \in [D -> Int]
  <2>1. \A x \in D : c[x] * f[x] \in Int
    OBVIOUS
  <2> QED
    BY <2>1 DEF Scaled
<1>4. ASSUME NEW f \in [D -> Int], NEW g \in [D -> Int], NEW closes \in BOOLEAN
      PROVE  Trades(f, g, closes) \in [D -> Int]
  <2>1. \A x \in D : g[x] - f[x] \in Int /\ g[x] \in Int
    OBVIOUS
  <2>2. \A x \in D : Size(g[x] - f[x]) + (IF closes THEN Size(g[x]) ELSE 0) \in Int
    BY <1>1, <2>1
  <2> QED
    BY <2>2 DEF Trades
<1> QED
  BY <1>2, <1>3, <1>4

(* One symbol: what the weighted sum trades, and what is traded for it. *)
LEMMA NettedCell ==
  ASSUME NEW D, IsFiniteSet(D), NEW c \in [D -> Nat], NEW x \in [D -> Int], NEW y \in [D -> Int],
         NEW closes \in BOOLEAN
  PROVE  Size(Total(Scaled(c, y)) - Total(Scaled(c, x)))
             + (IF closes THEN Size(Total(Scaled(c, y))) ELSE 0)
           <= Total(Scaled(c, Trades(x, y, closes)))
<1> DEFINE d == [i \in D |-> y[i] - x[i]]
           e == [i \in D |-> IF closes THEN y[i] ELSE 0]
           X == Scaled(c, x)
           Y == Scaled(c, y)
           M == Scaled(c, d)
           E == Scaled(c, e)
           T == Scaled(c, Trades(x, y, closes))
<1>1. d \in [D -> Int] /\ e \in [D -> Int] /\ Trades(x, y, closes) \in [D -> Int]
  <2>1. \A i \in D : d[i] \in Int /\ e[i] \in Int
    OBVIOUS
  <2>2. d \in [D -> Int] /\ e \in [D -> Int]
    BY <2>1
  <2> HIDE DEF d, e
  <2> QED
    BY <2>2, FunctionTypes
<1>2. \A i \in D : /\ c[i] \in Nat /\ x[i] \in Int /\ y[i] \in Int
                   /\ X[i] = c[i] * x[i] /\ Y[i] = c[i] * y[i]
                   /\ M[i] = c[i] * (y[i] - x[i])
                   /\ E[i] = c[i] * (IF closes THEN y[i] ELSE 0)
                   /\ T[i] = c[i] * (Size(y[i] - x[i]) + (IF closes THEN Size(y[i]) ELSE 0))
  BY <1>1 DEF Scaled, Trades
<1>3. /\ X \in [D -> Int] /\ Y \in [D -> Int] /\ M \in [D -> Int]
      /\ E \in [D -> Int] /\ T \in [D -> Int]
  <2> HIDE DEF d, e
  <2> QED
    BY <1>1, FunctionTypes
<1> HIDE DEF d, e, X, Y, M, E, T
<1>4. Y = Plus(X, M)
  <2>1. \A i \in D : Y[i] = X[i] + M[i]
    <3> SUFFICES ASSUME NEW i \in D PROVE Y[i] = X[i] + M[i]
      OBVIOUS
    <3>1. c[i] * (y[i] - x[i]) = c[i] * y[i] - c[i] * x[i]
      BY <1>2, Magnitudes
    <3>2. X[i] \in Int /\ Y[i] \in Int
      BY <1>3
    <3>3. M[i] = Y[i] - X[i]
      BY <1>2, <3>1
    <3> QED
      BY ONLY <3>2, <3>3
  <2> QED
    BY <1>3, <2>1 DEF Plus
<1>5. T = Plus(Sizes(M), Sizes(E))
  <2>1. \A i \in D : T[i] = Size(M[i]) + Size(E[i])
    <3> SUFFICES ASSUME NEW i \in D PROVE T[i] = Size(M[i]) + Size(E[i])
      OBVIOUS
    <3> DEFINE p == y[i] - x[i]
               q == IF closes THEN y[i] ELSE 0
    <3>1. p \in Int /\ q \in Int /\ c[i] \in Nat
      BY <1>2
    <3>2. M[i] = c[i] * p /\ E[i] = c[i] * q
      BY <1>2
    <3>3. Size(q) = IF closes THEN Size(y[i]) ELSE 0
      BY DEF Size
    <3>4. T[i] = c[i] * (Size(p) + Size(q))
      BY <1>2, <3>3
    <3> HIDE DEF p, q
    <3>5. Size(M[i]) = c[i] * Size(p) /\ Size(E[i]) = c[i] * Size(q)
      BY <3>1, <3>2, Magnitudes
    <3>6. Size(p) \in Int /\ Size(q) \in Int
      BY ONLY <3>1 DEF Size
    <3>7. c[i] * (Size(p) + Size(q)) = c[i] * Size(p) + c[i] * Size(q)
      BY <3>1, <3>6, Magnitudes
    <3> QED
      BY ONLY <3>4, <3>5, <3>7
  <2>2. \A i \in D : Sizes(M)[i] = Size(M[i]) /\ Sizes(E)[i] = Size(E[i])
    BY <1>3 DEF Sizes
  <2>3. DOMAIN Sizes(M) = D
    BY <1>3 DEF Sizes
  <2> QED
    BY <1>3, <2>1, <2>2, <2>3 DEF Plus
<1>6. Size(Total(E)) = IF closes THEN Size(Total(Y)) ELSE 0
  <2>1. CASE closes
    <3>1. E = Y
      BY <1>2, <1>3, <2>1
    <3> QED
      BY <2>1, <3>1
  <2>2. CASE ~closes
    <3>1. \A i \in D : E[i] = 0 * E[i]
      BY <1>2, <1>3, <2>2
    <3>2. Total(E) = 0 * Total(E)
      BY <1>3, <3>1, TotalScales
    <3>3. Total(E) = 0
      BY <1>3, <3>2, SumsOf
    <3> QED
      BY <2>2, <3>3 DEF Size
  <2> QED
    BY <2>1, <2>2
<1>7. /\ Total(X) \in Int /\ Total(Y) \in Int /\ Total(M) \in Int /\ Total(E) \in Int
      /\ Total(Y) = Total(X) + Total(M)
  BY <1>3, <1>4, SumsOf
<1>8. Size(Total(M)) + Size(Total(E)) <= Total(T)
  <2>1. Sizes(M) \in [D -> Int] /\ Sizes(E) \in [D -> Int]
    BY <1>3, FunctionTypes
  <2>2. Total(T) = Total(Sizes(M)) + Total(Sizes(E))
    BY <1>5, <2>1, SumsOf
  <2>3. Size(Total(M)) <= Total(Sizes(M)) /\ Size(Total(E)) <= Total(Sizes(E))
    BY <1>3, SumsOf
  <2>4. Total(Sizes(M)) \in Int /\ Total(Sizes(E)) \in Int
    BY <2>1, SumsOf
  <2>5. Size(Total(M)) \in Int /\ Size(Total(E)) \in Int
    BY <1>7, Magnitudes
  <2> QED
    BY ONLY <2>2, <2>3, <2>4, <2>5
<1>9. Total(Y) - Total(X) = Total(M)
  BY <1>7
<1> QED
  BY <1>6, <1>8, <1>9 DEF X, Y, T

(* The book that adds up weighted positions, and what each one trades. *)
SumOfBooks(c, m, S) == [s \in S |-> Total(Scaled(c, Column(m, s)))]
EachTrades(from, to, closes) == [i \in DOMAIN from |-> Turnover(from[i], to[i], closes)]

(* The trades of the sum are at most the sum of the trades. *)
LEMMA NettedTurnover ==
  ASSUME NEW D, IsFiniteSet(D), NEW S, IsFiniteSet(S), NEW c \in [D -> Nat],
         NEW from \in [D -> [S -> Int]], NEW to \in [D -> [S -> Int]], NEW closes \in BOOLEAN
  PROVE  Turnover(SumOfBooks(c, from, S), SumOfBooks(c, to, S), closes)
           <= Total(Scaled(c, EachTrades(from, to, closes)))
<1> DEFINE m == [i \in D |-> [s \in S |-> c[i] * Trades(from[i], to[i], closes)[s]]]
           held == [s \in S |-> Total(Scaled(c, Column(from, s)))]
           target == [s \in S |-> Total(Scaled(c, Column(to, s)))]
<1>1. \A s \in S : Column(from, s) \in [D -> Int] /\ Column(to, s) \in [D -> Int]
  BY DEF Column
<1>2. \A i \in D : from[i] \in [S -> Int] /\ to[i] \in [S -> Int] /\ c[i] \in Nat
  OBVIOUS
<1>3. \A i \in D : Trades(from[i], to[i], closes) \in [S -> Int]
  BY <1>2, FunctionTypes
<1>4. m \in [D -> [S -> Int]]
  <2>1. \A i \in D, s \in S : c[i] * Trades(from[i], to[i], closes)[s] \in Int
    BY <1>2, <1>3
  <2> QED
    BY <2>1
<1>5. ASSUME NEW i \in D
      PROVE  /\ RowTotals(m)[i] = c[i] * Turnover(from[i], to[i], closes)
             /\ RowTotals(m)[i] \in Int
  <2> DEFINE t == Trades(from[i], to[i], closes)
             row == m[i]
             a == c[i]
  <2>1. t \in [S -> Int] /\ a \in Int /\ row \in [S -> Int]
    BY <1>2, <1>3, <1>4
  <2>2. \A s \in S : row[s] = a * t[s]
    BY <1>4
  <2>3. Total(t) = Turnover(from[i], to[i], closes)
    BY DEF Turnover, Trades
  <2>4. RowTotals(m)[i] = Total(row)
    BY DEF RowTotals
  <2> HIDE DEF t, row, a
  <2>5. Total(row) = a * Total(t)
    BY <2>1, <2>2, TotalScales
  <2>6. Total(row) \in Int
    BY <2>1, SumsOf
  <2> QED
    BY <2>3, <2>4, <2>5, <2>6 DEF a
<1>6. ASSUME NEW s \in S
      PROVE  Total(Column(m, s)) \in Int /\ Trades(held, target, closes)[s] <= Total(Column(m, s))
  <2> DEFINE x == Column(from, s)
             y == Column(to, s)
  <2>1. Column(m, s) = Scaled(c, Trades(x, y, closes))
    BY <1>2, <1>3 DEF Column, Scaled, Trades
  <2>2. Trades(held, target, closes)[s] =
          Size(Total(Scaled(c, y)) - Total(Scaled(c, x)))
             + (IF closes THEN Size(Total(Scaled(c, y))) ELSE 0)
    BY DEF Trades
  <2>3. x \in [D -> Int] /\ y \in [D -> Int]
    BY <1>1
  <2> HIDE DEF x, y, m, held, target
  <2>4. Scaled(c, Trades(x, y, closes)) \in [D -> Int]
    BY <2>3, FunctionTypes
  <2>5. Total(Column(m, s)) \in Int
    BY <2>1, <2>4, SumsOf
  <2>6. Trades(held, target, closes)[s] <= Total(Scaled(c, Trades(x, y, closes)))
    <3>1. Size(Total(Scaled(c, y)) - Total(Scaled(c, x)))
             + (IF closes THEN Size(Total(Scaled(c, y))) ELSE 0)
           <= Total(Scaled(c, Trades(x, y, closes)))
      BY ONLY IsFiniteSet(D), c \in [D -> Nat], closes \in BOOLEAN, <2>3, NettedCell, Zenon
    <3> QED
      BY ONLY <2>2, <3>1
  <2> QED
    BY <2>1, <2>5, <2>6
<1>7. held \in [S -> Int] /\ target \in [S -> Int]
  <2>1. \A s \in S : /\ Scaled(c, Column(from, s)) \in [D -> Int]
                     /\ Scaled(c, Column(to, s)) \in [D -> Int]
    BY <1>1, FunctionTypes
  <2>2. \A s \in S : /\ Total(Scaled(c, Column(from, s))) \in Int
                     /\ Total(Scaled(c, Column(to, s))) \in Int
    BY <2>1, SumsOf
  <2> QED
    BY <2>2
<1>8. Turnover(held, target, closes) = Total(Trades(held, target, closes))
  BY DEF Turnover, Trades
<1> HIDE DEF held, target
<1>9. Total(Trades(held, target, closes)) <= Total(ColumnTotals(m, S))
  <2>1. Trades(held, target, closes) \in [S -> Int]
    BY <1>7, FunctionTypes
  <2>2. ColumnTotals(m, S) \in [S -> Int] /\ AtMost(Trades(held, target, closes), ColumnTotals(m, S))
    BY <1>6, <2>1 DEF ColumnTotals, AtMost
  <2> QED
    BY <2>1, <2>2, SumsOf
<1>10. Total(RowTotals(m)) = Total(ColumnTotals(m, S))
  BY <1>4, TableTotals
<1>11. RowTotals(m) = [i \in D |-> c[i] * Turnover(from[i], to[i], closes)]
  BY <1>5 DEF RowTotals
<1>12. Scaled(c, EachTrades(from, to, closes)) = [i \in D |-> c[i] * Turnover(from[i], to[i], closes)]
  BY DEF Scaled, EachTrades
<1> QED
  BY <1>8, <1>9, <1>10, <1>11, <1>12 DEF held, target, SumOfBooks

(* A component alone trades its share of its own trades. *)
Multiple(a, f) == [x \in DOMAIN f |-> a * f[x]]
LEMMA ScaledTurnover ==
  ASSUME NEW S, IsFiniteSet(S), NEW a \in Nat, NEW from \in [S -> Int], NEW to \in [S -> Int],
         NEW closes \in BOOLEAN
  PROVE  Turnover(Multiple(a, from), Multiple(a, to), closes)
           = a * Turnover(from, to, closes)
<1> DEFINE t == Trades(from, to, closes)
           h == Trades(Multiple(a, from), Multiple(a, to), closes)
<1>1. t \in [S -> Int]
  BY FunctionTypes
<1>2. \A s \in S : /\ h[s] = Size(a * to[s] - a * from[s]) + (IF closes THEN Size(a * to[s]) ELSE 0)
                   /\ t[s] = Size(to[s] - from[s]) + (IF closes THEN Size(to[s]) ELSE 0)
  BY DEF Trades, Multiple
<1>3. \A s \in S : h[s] = a * t[s]
  <2> SUFFICES ASSUME NEW s \in S PROVE h[s] = a * t[s]
    OBVIOUS
  <2> DEFINE p == to[s] - from[s]
             q == IF closes THEN to[s] ELSE 0
  <2>1. p \in Int /\ q \in Int /\ from[s] \in Int /\ to[s] \in Int
    OBVIOUS
  <2>2. a * to[s] - a * from[s] = a * p
    BY <2>1, Magnitudes
  <2>3. Size(a * q) = IF closes THEN Size(a * to[s]) ELSE 0
    BY DEF Size
  <2>4. Size(q) = IF closes THEN Size(to[s]) ELSE 0
    BY DEF Size
  <2>5. h[s] = Size(a * p) + Size(a * q) /\ t[s] = Size(p) + Size(q)
    BY <1>2, <2>2, <2>3, <2>4
  <2> HIDE DEF p, q
  <2>6. Size(p) \in Int /\ Size(q) \in Int
    BY ONLY <2>1 DEF Size
  <2>7. Size(a * p) = a * Size(p) /\ Size(a * q) = a * Size(q)
    BY ONLY <2>1, Magnitudes, a \in Nat
  <2>8. a * (Size(p) + Size(q)) = a * Size(p) + a * Size(q)
    BY ONLY <2>6, Magnitudes, a \in Nat
  <2> QED
    BY ONLY <2>5, <2>7, <2>8
<1>4. h \in [S -> Int]
  <2>1. DOMAIN h = S /\ h = [s \in DOMAIN h |-> h[s]]
    BY DEF Trades, Multiple
  <2> HIDE DEF h, t
  <2>2. \A s \in S : h[s] \in Int
    BY <1>1, <1>3
  <2> QED
    BY <2>1, <2>2
<1>5. Total(h) = Turnover(Multiple(a, from), Multiple(a, to), closes)
  BY DEF Turnover, Trades, Multiple
<1>6. Total(t) = Turnover(from, to, closes)
  BY DEF Turnover, Trades
<1> HIDE DEF h, t
<1>7. Total(h) = a * Total(t)
  BY <1>1, <1>3, <1>4, TotalScales
<1> QED
  BY <1>5, <1>6, <1>7

(* The sum trades no more than its parts, and as much when there is one.   *)
LEMMA SumTrades ==
  ASSUME NEW S, IsFiniteSet(S), NEW D, IsFiniteSet(D), NEW c \in [D -> Nat],
         NEW from \in [D -> [S -> Int]], NEW to \in [D -> [S -> Int]], NEW closes \in BOOLEAN
  PROVE  /\ SumOfBooks(c, to, S) \in [S -> Int]
         /\ EachTrades(from, to, closes) \in [D -> Int]
         /\ Turnover(SumOfBooks(c, from, S), SumOfBooks(c, to, S), closes) \in Int
         /\ Total(Scaled(c, EachTrades(from, to, closes))) \in Int
         /\ Turnover(SumOfBooks(c, from, S), SumOfBooks(c, to, S), closes)
              <= Total(Scaled(c, EachTrades(from, to, closes)))
<1> DEFINE each == [i \in D |-> Turnover(from[i], to[i], closes)]
           whole == Turnover(SumOfBooks(c, from, S), SumOfBooks(c, to, S), closes)
<1>1. SumOfBooks(c, from, S) \in [S -> Int] /\ SumOfBooks(c, to, S) \in [S -> Int]
  <2>1. \A m \in [D -> [S -> Int]], s \in S : Column(m, s) \in [D -> Int]
    BY DEF Column
  <2>2. \A m \in [D -> [S -> Int]], s \in S : Scaled(c, Column(m, s)) \in [D -> Int]
    BY <2>1, FunctionTypes
  <2>3. \A m \in [D -> [S -> Int]], s \in S : Total(Scaled(c, Column(m, s))) \in Int
    BY <2>2, SumsOf
  <2> QED
    BY <2>3 DEF SumOfBooks
<1>2. each \in [D -> Int]
  <2>1. \A i \in D : Turnover(from[i], to[i], closes) \in Int
    <3> SUFFICES ASSUME NEW i \in D PROVE Turnover(from[i], to[i], closes) \in Int
      OBVIOUS
    <3>1. from[i] \in [S -> Int] /\ to[i] \in [S -> Int]
      OBVIOUS
    <3> QED
      BY <3>1, TurnoverType
  <2> QED
    BY <2>1
<1>3. whole \in Int
  <2> DEFINE f == SumOfBooks(c, from, S)
             t == SumOfBooks(c, to, S)
  <2>1. f \in [S -> Int] /\ t \in [S -> Int]
    BY <1>1
  <2> HIDE DEF f, t
  <2>2. Turnover(f, t, closes) \in Int
    BY <2>1, TurnoverType
  <2> QED
    BY <2>2 DEF f, t
<1>4. Total(Scaled(c, each)) \in Int
  <2> HIDE DEF each
  <2>1. Scaled(c, each) \in [D -> Int]
    BY <1>2, FunctionTypes
  <2> QED
    BY <2>1, SumsOf
<1>5. whole <= Total(Scaled(c, each))
  <2>1. Turnover(SumOfBooks(c, from, S), SumOfBooks(c, to, S), closes)
          <= Total(Scaled(c, EachTrades(from, to, closes)))
    BY NettedTurnover
  <2>2. EachTrades(from, to, closes) = each
    BY DEF EachTrades
  <2> HIDE DEF each
  <2> QED
    BY ONLY <2>1, <2>2
<1>6. each = EachTrades(from, to, closes)
  BY DEF EachTrades
<1> QED
  BY <1>1, <1>2, <1>3, <1>4, <1>5, <1>6

LEMMA TradesAlone ==
  ASSUME NEW S, IsFiniteSet(S), NEW c \in [{1} -> Nat],
         NEW from \in [{1} -> [S -> Int]], NEW to \in [{1} -> [S -> Int]], NEW closes \in BOOLEAN
  PROVE  Turnover(SumOfBooks(c, from, S), SumOfBooks(c, to, S), closes)
           = Total(Scaled(c, EachTrades(from, to, closes)))
<1> DEFINE each == EachTrades(from, to, closes)
           a == c[1]
           f == from[1]
           t == to[1]
<1>1. a \in Nat /\ f \in [S -> Int] /\ t \in [S -> Int]
  OBVIOUS
<1>2. each \in [{1} -> Int] /\ each[1] = Turnover(f, t, closes)
  <2>1. IsFiniteSet({1})
    BY FS_Singleton
  <2>2. each \in [{1} -> Int]
    BY <2>1, SumTrades
  <2> QED
    BY <2>2 DEF EachTrades
<1>3. ASSUME NEW m \in [{1} -> [S -> Int]], NEW s \in S
      PROVE  Total(Scaled(c, Column(m, s))) = a * m[1][s]
  <2> DEFINE h == Scaled(c, Column(m, s))
  <2>1. Column(m, s) \in [{1} -> Int] /\ Column(m, s)[1] = m[1][s]
    BY DEF Column
  <2>2. h \in [{1} -> Int] /\ h[1] = a * m[1][s]
    BY <2>1, FunctionTypes DEF Scaled
  <2> HIDE DEF h
  <2>3. Total(h) = h[1]
    BY <2>2, TotalOfOne
  <2> QED
    BY <2>2, <2>3 DEF h
<1>4. Turnover(SumOfBooks(c, from, S), SumOfBooks(c, to, S), closes)
        = Turnover(Multiple(a, f), Multiple(a, t), closes)
  BY <1>1, <1>3 DEF SumOfBooks, Multiple
<1>5. Total(Scaled(c, each)) = a * Turnover(f, t, closes)
  <2> DEFINE h == Scaled(c, each)
  <2>1. h \in [{1} -> Int] /\ h[1] = a * Turnover(f, t, closes)
    <3> HIDE DEF each
    <3> QED
      BY <1>2, FunctionTypes DEF Scaled
  <2> HIDE DEF h
  <2>2. Total(h) = h[1]
    BY <2>1, TotalOfOne
  <2> QED
    BY <2>1, <2>2 DEF h
<1> HIDE DEF a, f, t
<1>6. Turnover(Multiple(a, f), Multiple(a, t), closes) = a * Turnover(f, t, closes)
  BY <1>1, ScaledTurnover
<1> QED
  BY <1>4, <1>5, <1>6

(* The sum of flat books is flat. *)
LEMMA SumOfFlats ==
  ASSUME NEW S, NEW D, IsFiniteSet(D), NEW c \in [D -> Nat], NEW m, DOMAIN m = D,
         \A i \in D, s \in S : m[i][s] = 0
  PROVE  SumOfBooks(c, m, S) = [s \in S |-> 0]
<1>1. ASSUME NEW s \in S PROVE Total(Scaled(c, Column(m, s))) = 0
  <2> DEFINE h == Scaled(c, Column(m, s))
  <2>1. h = [i \in D |-> 0]
    <3>1. DOMAIN Column(m, s) = D /\ \A i \in D : Column(m, s)[i] = 0
      BY DEF Column
    <3>2. \A i \in D : c[i] * 0 = 0
      OBVIOUS
    <3> QED
      BY <3>1, <3>2 DEF Scaled
  <2> HIDE DEF h
  <2>2. h \in [D -> Int] /\ \A i \in D : h[i] = 0 * h[i]
    BY <2>1
  <2>3. Total(h) = 0 * Total(h) /\ Total(h) \in Int
    BY <2>2, TotalScales, TotalIsSum
  <2> QED
    BY <2>3 DEF h
<1> QED
  BY <1>1 DEF SumOfBooks

-----------------------------------------------------------------------------
(* Curves. *)

LEMMA NumberInduction ==
  ASSUME NEW P, 0 \in P, \A n \in Nat : n \in P => n + 1 \in P
  PROVE  \A n \in Nat : n \in P
<1> DEFINE Wrong == {n \in Nat : n \notin P}
<1> SUFFICES ASSUME Wrong # {} PROVE FALSE
  OBVIOUS
<1>1. Wrong \subseteq Nat
  OBVIOUS
<1> HIDE DEF Wrong
<1>2. PICK n \in Wrong : \A k \in Wrong : ~(<<k, n>> \in OpToRel(<, Nat))
  BY <1>1, NatLessThanWellFounded, WFMin
<1>3. n \in Nat /\ n \notin P
  BY DEF Wrong
<1>4. n # 0 /\ n - 1 \in Nat
  BY <1>3
<1>5. <<n - 1, n>> \in OpToRel(<, Nat)
  BY <1>3, <1>4 DEF OpToRel
<1>6. n - 1 \in P
  BY <1>2, <1>4, <1>5 DEF Wrong
<1>7. n - 1 + 1 = n
  BY <1>3
<1> QED
  BY <1>3, <1>4, <1>6, <1>7

(* The rows of a curve over the symbols S, what a row trades from, whether *)
(* it is the last of its fold, and that it was booked from its neighbours. *)
CurveRow(S) ==
  [fold : Nat, time : Int, execution : Int, weights : [S -> Int], price : Int, funding : Int,
   turnover : Int, cost : Int, net : Int]
From(curve, k) ==
  IF k > 1 /\ curve[k - 1].fold = curve[k].fold THEN curve[k - 1].weights ELSE Zero(curve[k].weights)
Closes(curve, k) == k = Len(curve) \/ curve[k + 1].fold # curve[k].fold
Booked(curve, rate) ==
  \A k \in DOMAIN curve :
    /\ curve[k].turnover = Turnover(From(curve, k), curve[k].weights, Closes(curve, k))
    /\ curve[k].cost = curve[k].turnover * rate
    /\ curve[k].net = curve[k].price + curve[k].funding - curve[k].cost

LEMMA Closing == \A curve, k : Closes(curve, k) \in BOOLEAN
  BY DEF Closes

LEMMA FoldIsBooked ==
  ASSUME NEW S, IsFiniteSet(S), NEW rows \in Seq(DecidedRow(S)), NEW n \in Nat, NEW rate \in Nat
  PROVE  /\ BookedFold(n, rows, rate) \in Seq(CurveRow(S))
         /\ Len(BookedFold(n, rows, rate)) = Len(rows)
         /\ \A j \in 1..Len(rows) :
              LET row == BookedFold(n, rows, rate)[j] IN
                /\ row.fold = n /\ row.weights = rows[j].weights
                /\ row.turnover = Turnover(IF j = 1 THEN Zero(rows[j].weights) ELSE rows[j - 1].weights,
                                           rows[j].weights, j = Len(rows))
                /\ row.cost = row.turnover * rate
                /\ row.net = row.price + row.funding - row.cost
<1> DEFINE f == BookedFold(n, rows, rate)
           t(j) == Turnover(IF j = 1 THEN Zero(rows[j].weights) ELSE rows[j - 1].weights,
                            rows[j].weights, j = Len(rows))
<1>1. DOMAIN rows = 1..Len(rows) /\ Len(rows) \in Nat
  OBVIOUS
<1>2. \A j \in 1..Len(rows) : rows[j] \in DecidedRow(S)
  OBVIOUS
<1>3. \A j \in 1..Len(rows) : t(j) \in Int
  <2> SUFFICES ASSUME NEW j \in 1..Len(rows) PROVE t(j) \in Int
    OBVIOUS
  <2>1. rows[j].weights \in [S -> Int]
    BY <1>2 DEF DecidedRow
  <2>2. j # 1 => rows[j - 1].weights \in [S -> Int]
    <3>1. j # 1 => j - 1 \in 1..Len(rows)
      BY <1>1
    <3> QED
      BY <1>2, <3>1 DEF DecidedRow
  <2>3. Zero(rows[j].weights) \in [S -> Int]
    BY <2>1 DEF Zero
  <2> DEFINE from == IF j = 1 THEN Zero(rows[j].weights) ELSE rows[j - 1].weights
             last == j = Len(rows)
  <2>4. from \in [S -> Int] /\ last \in BOOLEAN
    BY <2>2, <2>3
  <2> HIDE DEF from, last
  <2>5. Turnover(from, rows[j].weights, last) \in Int
    BY <2>1, <2>4, TurnoverType
  <2> QED
    BY <2>5 DEF from, last
<1>4. f = [i \in DOMAIN rows |->
        [fold |-> n, time |-> rows[i].time, execution |-> rows[i].execution,
         weights |-> rows[i].weights, price |-> rows[i].price, funding |-> rows[i].funding,
         turnover |-> t(i), cost |-> t(i) * rate,
         net |-> rows[i].price + rows[i].funding - t(i) * rate]]
  BY DEF BookedFold
<1> HIDE DEF t, f
<1>5. \A j \in 1..Len(rows) : f[j] \in CurveRow(S)
  <2> SUFFICES ASSUME NEW j \in 1..Len(rows) PROVE f[j] \in CurveRow(S)
    OBVIOUS
  <2>1. /\ rows[j].time \in Int /\ rows[j].execution \in Int /\ rows[j].weights \in [S -> Int]
        /\ rows[j].price \in Int /\ rows[j].funding \in Int /\ t(j) \in Int
    BY <1>2, <1>3 DEF DecidedRow
  <2> DEFINE x == t(j) * rate
  <2>2. x \in Int
    BY <2>1
  <2>3. f[j] = [fold |-> n, time |-> rows[j].time, execution |-> rows[j].execution,
         weights |-> rows[j].weights, price |-> rows[j].price, funding |-> rows[j].funding,
         turnover |-> t(j), cost |-> x, net |-> rows[j].price + rows[j].funding - x]
    BY <1>1, <1>4
  <2> HIDE DEF x
  <2>4. rows[j].price + rows[j].funding - x \in Int /\ n \in Nat
    BY <2>1, <2>2
  <2> QED
    BY ONLY <2>1, <2>2, <2>3, <2>4 DEF CurveRow
<1>6. f \in Seq(CurveRow(S)) /\ Len(f) = Len(rows)
  BY <1>1, <1>4, <1>5
<1>7. \A j \in 1..Len(rows) :
        /\ f[j].fold = n /\ f[j].weights = rows[j].weights /\ f[j].turnover = t(j)
        /\ f[j].cost = f[j].turnover * rate /\ f[j].net = f[j].price + f[j].funding - f[j].cost
  BY <1>1, <1>4
<1> QED
  BY <1>6, <1>7 DEF f, t

(* The rows of the next fold neither follow on the rows before them nor     *)
(* change what these booked.                                               *)
LEMMA JoinIsBooked ==
  ASSUME NEW S, IsFiniteSet(S), NEW curve \in Seq(CurveRow(S)), NEW n \in Nat, NEW rate \in Nat,
         \A k \in DOMAIN curve : curve[k].fold < n, Booked(curve, rate),
         NEW rows \in Seq(DecidedRow(S))
  PROVE  LET joined == curve \o BookedFold(n, rows, rate) IN
           /\ joined \in Seq(CurveRow(S)) /\ Booked(joined, rate)
           /\ \A k \in DOMAIN joined : joined[k].fold <= n
<1> DEFINE f == BookedFold(n, rows, rate)
           g == curve \o f
           l == Len(curve)
           m == Len(rows)
<1>1. /\ f \in Seq(CurveRow(S)) /\ Len(f) = m
      /\ \A j \in 1..m :
           /\ f[j].fold = n /\ f[j].weights = rows[j].weights
           /\ f[j].turnover = Turnover(IF j = 1 THEN Zero(rows[j].weights) ELSE rows[j - 1].weights,
                                       rows[j].weights, j = m)
           /\ f[j].cost = f[j].turnover * rate
           /\ f[j].net = f[j].price + f[j].funding - f[j].cost
  BY FoldIsBooked
<1> HIDE DEF f
<1>2. /\ l \in Nat /\ m \in Nat /\ Len(curve) = l /\ Len(rows) = m /\ DOMAIN curve = 1..l
      /\ g \in Seq(CurveRow(S)) /\ Len(g) = l + m
  <2>1. \A R : \A s, t \in Seq(R) : s \o t \in Seq(R) /\ Len(s \o t) = Len(s) + Len(t)
    OBVIOUS
  <2>2. g \in Seq(CurveRow(S)) /\ Len(g) = l + m
    BY ONLY <1>1, <2>1, curve \in Seq(CurveRow(S))
  <2> QED
    BY ONLY <2>2, curve \in Seq(CurveRow(S)), rows \in Seq(DecidedRow(S))
<1>3. \A k \in 1..l : g[k] = curve[k] /\ curve[k] \in CurveRow(S) /\ curve[k].fold < n
  BY <1>1
<1>4. \A k \in (l + 1)..(l + m) : k - l \in 1..m /\ g[k] = f[k - l]
  BY <1>1
<1>5. \A k \in 1..l : curve[k].fold \in Nat
  BY <1>3 DEF CurveRow
<1> HIDE DEF g, l, m
<1>6. \A k \in (l + 1)..(l + m) : g[k].fold = n
  BY <1>1, <1>4
<1>7. ASSUME NEW k \in 1..l
      PROVE  From(g, k) = From(curve, k) /\ Closes(g, k) = Closes(curve, k)
  <2>1. From(g, k) = From(curve, k)
    <3>1. k > 1 => k - 1 \in 1..l
      BY <1>2
    <3> QED
      BY <1>3, <3>1 DEF From
  <2>2. CASE k < l
    <3>1. k + 1 \in 1..l /\ k # l /\ k # Len(g)
      BY <1>2, <2>2
    <3>2. Closes(g, k) <=> Closes(curve, k)
      BY <1>2, <1>3, <3>1 DEF Closes
    <3> QED
      BY <2>1, <3>2, Closing
  <2>3. CASE k = l
    <3>1. k # Len(g) => k + 1 \in (l + 1)..(l + m)
      BY <1>2, <2>3
    <3>2. k # Len(g) => g[k + 1].fold = n
      BY <1>6, <3>1
    <3>3. g[k].fold # n
      BY <1>3, <1>5
    <3>4. Closes(g, k) /\ Closes(curve, k)
      BY <1>2, <2>3, <3>2, <3>3 DEF Closes
    <3> QED
      BY <2>1, <3>4, Closing
  <2> QED
    BY <1>2, <2>2, <2>3
<1>8. ASSUME NEW k \in (l + 1)..(l + m)
      PROVE  /\ From(g, k) = IF k - l = 1 THEN Zero(rows[k - l].weights) ELSE rows[k - l - 1].weights
             /\ Closes(g, k) = (k - l = m)
  <2>1. k \in Int /\ k - l \in 1..m /\ g[k].fold = n /\ g[k].weights = rows[k - l].weights
    BY <1>1, <1>2, <1>4, <1>6
  <2>2. Closes(g, k) = (k - l = m)
    <3>1. CASE k - l = m
      <4>1. k = Len(g)
        BY <1>2, <2>1, <3>1
      <4> QED
        BY <3>1, <4>1 DEF Closes
    <3>2. CASE k - l # m
      <4>1. k # Len(g) /\ k + 1 \in (l + 1)..(l + m)
        BY <1>2, <2>1, <3>2
      <4>2. g[k + 1].fold = n
        BY <1>6, <4>1
      <4> QED
        BY <2>1, <3>2, <4>1, <4>2 DEF Closes
    <3> QED
      BY <3>1, <3>2
  <2>3. CASE k - l = 1
    <3>1. k > 1 => k - 1 \in 1..l
      BY <1>2, <2>1, <2>3
    <3>2. k > 1 => g[k - 1].fold # n
      BY <1>3, <1>5, <3>1
    <3> QED
      BY <2>1, <2>2, <2>3, <3>2 DEF From
  <2>4. CASE k - l # 1
    <3>1. k > 1 /\ k - 1 \in (l + 1)..(l + m) /\ k - 1 - l = k - l - 1 /\ k - l - 1 \in 1..m
      BY <1>2, <2>1, <2>4
    <3>2. g[k - 1].fold = n /\ g[k - 1].weights = rows[k - l - 1].weights
      BY <1>1, <1>4, <1>6, <3>1
    <3> QED
      BY <2>1, <2>2, <2>4, <3>1, <3>2 DEF From
  <2> QED
    BY <2>2, <2>3, <2>4
<1>9. Booked(g, rate)
  <2>4. DOMAIN g = 1..(l + m)
    BY <1>2
  <2> SUFFICES ASSUME NEW k \in 1..(l + m)
               PROVE  /\ g[k].turnover = Turnover(From(g, k), g[k].weights, Closes(g, k))
                      /\ g[k].cost = g[k].turnover * rate
                      /\ g[k].net = g[k].price + g[k].funding - g[k].cost
    BY <2>4 DEF Booked
  <2>1. CASE k \in 1..l
    BY <1>2, <1>3, <1>7, <2>1 DEF Booked
  <2>2. CASE k \in (l + 1)..(l + m)
    <3>1. k - l \in 1..m /\ g[k] = f[k - l]
      BY <1>4, <2>2
    <3>2. /\ From(g, k) = IF k - l = 1 THEN Zero(rows[k - l].weights) ELSE rows[k - l - 1].weights
          /\ Closes(g, k) = (k - l = m)
      BY <1>8, <2>2
    <3> QED
      BY <1>1, <3>1, <3>2
  <2>3. k \in 1..l \/ k \in (l + 1)..(l + m)
    BY <1>2
  <2> QED
    BY <2>1, <2>2, <2>3
<1>10. \A k \in 1..(l + m) : g[k].fold <= n
  <2> SUFFICES ASSUME NEW k \in 1..(l + m) PROVE g[k].fold <= n
    OBVIOUS
  <2>1. CASE k \in 1..l
    BY <1>3, <1>5, <2>1
  <2>2. CASE k \in (l + 1)..(l + m)
    BY <1>6, <2>2
  <2>3. k \in 1..l \/ k \in (l + 1)..(l + m)
    BY <1>2
  <2> QED
    BY <2>1, <2>2, <2>3
<1> QED
  <2>1. DOMAIN g = 1..(l + m)
    BY <1>2
  <2> QED
    BY <1>2, <1>9, <1>10, <2>1 DEF f, g

(* Every curve of an attempt is booked from its own rows. *)
LEMMA CurveIsBooked ==
  ASSUME NEW e \in Experiment, NEW S \in SUBSET Symbols, NEW book \in Seq(Seq(DecidedRow(S)))
  PROVE  Curve(e, book) \in Seq(CurveRow(S)) /\ Booked(Curve(e, book), Identity[e].cost)
<1> DEFINE rate == Identity[e].cost
           N == Len(book)
           folds == [k \in DOMAIN book |-> BookedFold(k, book[k], rate)]
           body(g, n) == [i \in 1..n |-> IF i = 1 THEN folds[i] ELSE g[i - 1] \o folds[i]]
           flatten == CHOOSE g : g = body(g, N)
           Good(c, n) == /\ c \in Seq(CurveRow(S)) /\ Booked(c, rate)
                         /\ \A k \in DOMAIN c : c[k].fold <= n
<1>1. IsFiniteSet(S) /\ rate \in Nat
  BY PortfolioAssumption, FS_Subset
<1>2. N \in Nat /\ DOMAIN book = 1..N /\ \A k \in 1..N : book[k] \in Seq(DecidedRow(S))
  OBVIOUS
<1> HIDE DEF rate, N
<1>3. /\ DOMAIN folds = 1..N
      /\ \A k \in 1..N : folds[k] = BookedFold(k, book[k], rate) /\ folds[k] \in Seq(CurveRow(S))
  <2>1. \A k \in 1..N : folds[k] = BookedFold(k, book[k], rate)
    BY <1>2
  <2>2. ASSUME NEW k \in 1..N PROVE BookedFold(k, book[k], rate) \in Seq(CurveRow(S))
    <3>1. k \in Nat /\ book[k] \in Seq(DecidedRow(S))
      BY <1>2
    <3> QED
      BY <1>1, <3>1, FoldIsBooked
  <2> QED
    BY <1>2, <2>1, <2>2
<1>4. folds \in Seq(Seq(CurveRow(S))) /\ Len(folds) = N
  <2>1. folds = [k \in 1..N |-> folds[k]]
    BY <1>2
  <2> DEFINE X == Seq(CurveRow(S))
  <2>2. N \in Nat /\ \A k \in 1..N : folds[k] \in X
    BY <1>2, <1>3
  <2> HIDE DEF folds, X
  <2>3. folds \in Seq(X) /\ Len(folds) = N
    BY ONLY <2>1, <2>2
  <2> QED
    BY <2>3 DEF X
<1>5. Curve(e, book) = FlattenSeq(folds)
  BY DEF Curve, rate
<1>6. CASE N = 0
  <2>1. FlattenSeq(folds) = folds /\ folds = <<>>
    <3> HIDE DEF folds
    <3> QED
      BY <1>4, <1>6 DEF FlattenSeq
  <2> HIDE DEF folds
  <2>2. <<>> \in Seq(CurveRow(S)) /\ Booked(<<>>, rate)
    BY DEF Booked
  <2> QED
    BY <1>5, <2>1, <2>2 DEF rate
<1>7. CASE N # 0
  <2>1. FlattenSeq(folds) = flatten[N]
    <3> HIDE DEF folds
    <3> QED
      BY <1>4, <1>7 DEF FlattenSeq
  <2> HIDE DEF folds
  <2>2. \E g : g = body(g, N)
    <3> DEFINE P == {n \in Nat : \E g : g = body(g, n)}
    <3>1. 0 \in P
      <4>1. body(<<>>, 0) = <<>>
        OBVIOUS
      <4> QED
        BY <4>1
    <3>2. ASSUME NEW n \in Nat, n \in P PROVE n + 1 \in P
      <4>1. PICK g : g = body(g, n)
        BY <3>2
      <4> DEFINE h == [i \in 1..(n + 1) |-> IF i = 1 THEN folds[i] ELSE g[i - 1] \o folds[i]]
      <4>2. \A i \in 1..n : h[i] = g[i]
        <5>1. \A i \in 1..n : g[i] = IF i = 1 THEN folds[i] ELSE g[i - 1] \o folds[i]
          BY <4>1
        <5> QED
          BY <5>1
      <4>3. \A i \in 1..(n + 1) : i # 1 => i - 1 \in 1..n
        OBVIOUS
      <4>4. \A i \in 1..(n + 1) : h[i] = IF i = 1 THEN folds[i] ELSE h[i - 1] \o folds[i]
        BY <4>2, <4>3
      <4>5. h = body(h, n + 1)
        BY <4>4
      <4> HIDE DEF h, body
      <4>6. \E k : k = body(k, n + 1)
        BY <4>5
      <4> QED
        BY <4>6
    <3> HIDE DEF P
    <3>3. N \in P
      BY <1>2, <3>1, <3>2, NumberInduction
    <3> QED
      BY <3>3 DEF P
  <2>3. flatten = body(flatten, N)
    BY <2>2
  <2> HIDE DEF flatten
  <2>4. \A n \in 1..N : flatten[n] = IF n = 1 THEN folds[n] ELSE flatten[n - 1] \o folds[n]
    BY <2>3
  <2> DEFINE Q == {n \in Nat : n \in 1..N => Good(flatten[n], n)}
  <2>5. 0 \in Q
    OBVIOUS
  <2>6. ASSUME NEW n \in Nat, n \in Q PROVE n + 1 \in Q
    <3> SUFFICES ASSUME n + 1 \in 1..N PROVE Good(flatten[n + 1], n + 1)
      OBVIOUS
    <3> DEFINE c == IF n = 0 THEN <<>> ELSE flatten[n]
    <3>1. Good(c, n)
      <4>1. CASE n = 0
        <5>1. <<>> \in Seq(CurveRow(S)) /\ Booked(<<>>, rate)
          BY DEF Booked
        <5> QED
          BY <4>1, <5>1
      <4>2. CASE n # 0
        <5>1. n \in 1..N
          BY <1>2, <4>2
        <5> QED
          BY <2>6, <4>2, <5>1
      <4> QED
        BY <4>1, <4>2
    <3>2. flatten[n + 1] = c \o folds[n + 1]
      <4>1. CASE n = 0
        <5>1. folds[1] \in Seq(CurveRow(S)) /\ flatten[1] = folds[1]
          BY <1>3, <2>4, <4>1
        <5>2. <<>> \o folds[1] = folds[1]
          BY <5>1
        <5> QED
          BY <4>1, <5>1, <5>2
      <4>2. CASE n # 0
        <5>1. n + 1 # 1 /\ n + 1 - 1 = n
          BY <4>2
        <5>2. flatten[n + 1] = flatten[n] \o folds[n + 1]
          <6> DEFINE z == n + 1
          <6>1. z \in 1..N /\ z # 1 /\ z - 1 = n
            BY <5>1
          <6> HIDE DEF z
          <6>2. flatten[z] = flatten[n] \o folds[z]
            BY ONLY <2>4, <6>1
          <6> QED
            BY <6>2 DEF z
        <5> QED
          BY <4>2, <5>2
      <4> QED
        BY <4>1, <4>2
    <3>3. folds[n + 1] = BookedFold(n + 1, book[n + 1], rate) /\ book[n + 1] \in Seq(DecidedRow(S))
      BY <1>2, <1>3
    <3> HIDE DEF c
    <3>4. \A k \in DOMAIN c : c[k].fold < n + 1
      <4>1. \A k \in DOMAIN c : c[k].fold \in Nat
        <5>1. \A k \in DOMAIN c : c[k] \in CurveRow(S)
          BY <3>1
        <5> QED
          BY <5>1 DEF CurveRow
      <4> QED
        BY <3>1, <4>1
    <3> DEFINE joined == c \o BookedFold(n + 1, book[n + 1], rate)
    <3>5. /\ joined \in Seq(CurveRow(S)) /\ Booked(joined, rate)
          /\ \A k \in DOMAIN joined : joined[k].fold <= n + 1
      <4> DEFINE z == n + 1
                 rows == book[z]
      <4>1. z \in Nat /\ rows \in Seq(DecidedRow(S)) /\ \A k \in DOMAIN c : c[k].fold < z
        BY <3>3, <3>4
      <4>2. c \in Seq(CurveRow(S)) /\ Booked(c, rate)
        BY <3>1
      <4>3. joined = c \o BookedFold(z, rows, rate)
        OBVIOUS
      <4> HIDE DEF z, rows, joined
      <4> QED
        BY <1>1, <4>1, <4>2, <4>3, JoinIsBooked DEF z
    <3>6. flatten[n + 1] = joined
      BY <3>2, <3>3
    <3> HIDE DEF joined
    <3> QED
      BY <3>5, <3>6
  <2> HIDE DEF Q
  <2>7. N \in Q
    BY <1>2, <2>5, <2>6, NumberInduction
  <2>8. Good(flatten[N], N)
    BY <1>2, <1>7, <2>7 DEF Q
  <2> QED
    BY <1>5, <2>1, <2>8 DEF rate
<1> QED
  BY <1>6, <1>7

-----------------------------------------------------------------------------
(* The invariant. *)

(* A curve of e, an attempt of e, and what a component is loaded as. *)
BookedCurves(e) ==
  {curve \in UNION {Seq(CurveRow(S)) : S \in SUBSET Symbols} : Booked(curve, Identity[e].cost)}
Attempt(e) ==
  [at : Times, status : {"SUCCEEDED", "FAILED"}, intact : BOOLEAN, curve : BookedCurves(e)]
LoadedAs(e) ==
  [experiment : {e}, label : STRING, capital : Nat,
   curve : {curve \in BookedCurves(e) : CurveIsValid(curve)}]

(* The row of the netted book in a period, without what the account        *)
(* remembers of the period before.                                         *)
Flat == Zero(loaded[1].curve[1].weights)
HeldIn(k) == IF k > 1 /\ FoldOf(k - 1) = FoldOf(k) THEN Target(k - 1) ELSE Flat
NettedIn(k) ==
  LET turnover == Turnover(HeldIn(k), Target(k), k = Len(grid) \/ FoldOf(k + 1) # FoldOf(k))
      cost == turnover * Identity[loaded[1].experiment].cost
  IN [weights |-> Target(k), gross |-> RowSize(Target(k)), turnover |-> turnover, cost |-> cost,
      net |-> Weighted([i \in Components |-> GridRow(i, k).price])
                + Weighted([i \in Components |-> GridRow(i, k).funding]) - cost]

AttemptsInv ==
  DOMAIN attempts = Experiment /\ \A e \in Experiment : attempts[e] \in Seq(Attempt(e))
FilesInv ==
  /\ file \in Seq(PortfolioSpec) /\ snapshots \in Seq({"VALID", "INVALID"})
  /\ loaded \in Seq(UNION {LoadedAs(e) : e \in Experiment})
  /\ status \in {"idle", "loading"} => netted = <<>> /\ sleeve = <<>>
AccountInv ==
  status \in {"accounting", "analysed"} =>
    /\ Remaining /\ loaded # <<>> /\ Compatible
    /\ grid = IF Portfolio.policy = "strict" THEN CurveTimes(1) ELSE Ascending(CommonTimes)
    /\ Len(netted) \in Nat /\ \A k \in 1..Len(netted) : k <= Len(grid)
    /\ netted = [k \in 1..Len(netted) |-> NettedIn(k)]
    /\ sleeve = [k \in 1..Len(netted) |-> SleeveRow(k)]
    /\ previous = IF netted = <<>> THEN Flat ELSE Target(Len(netted))
LegsInv ==
  status = "analysed" => Period > Len(grid) /\ legs = Reconstruction
PortfolioInv == AttemptsInv /\ FilesInv /\ AccountInv /\ LegsInv

(* The assumptions, one for each constant. *)
LEMMA Constants ==
  /\ IsFiniteSet(Symbols) /\ Files \subseteq Seq(PortfolioSpec) /\ Times \subseteq Int
  /\ \A e \in Experiment : Identity[e].cost \in Nat
  /\ \A e \in Experiment : \A book \in Books[e] :
       \E S \in SUBSET Symbols : book \in Seq(Seq(DecidedRow(S)))
  BY PortfolioAssumption

LEMMA AppendsTo ==
  \A X : \A s \in Seq(X), x \in X :
    /\ Append(s, x) \in Seq(X) /\ Len(s) \in Nat /\ Len(Append(s, x)) = Len(s) + 1
    /\ \A k \in 1..Len(s) : Append(s, x)[k] = s[k] /\ s[k] \in X
    /\ Append(s, x)[Len(s) + 1] = x
  OBVIOUS

LEMMA CurveIn ==
  ASSUME NEW e \in Experiment, NEW book \in Books[e]
  PROVE  Curve(e, book) \in BookedCurves(e)
<1>1. PICK S \in SUBSET Symbols : book \in Seq(Seq(DecidedRow(S)))
  BY Constants
<1>2. Curve(e, book) \in Seq(CurveRow(S)) /\ Booked(Curve(e, book), Identity[e].cost)
  BY <1>1, CurveIsBooked
<1> QED
  BY <1>2 DEF BookedCurves

LEMMA AttemptsStep ==
  ASSUME AttemptsInv, [Next]_vars
  PROVE  AttemptsInv'
<1>1. ASSUME NEW e \in Experiment, NEW book \in Books[e], NEW at \in Times, AttemptEnds(e, book, at)
      PROVE  AttemptsInv'
  <2>1. PICK outcome \in {"SUCCEEDED", "FAILED"} :
          attempts' = [attempts EXCEPT ![e] =
            Append(@, [at |-> at, status |-> outcome, intact |-> TRUE, curve |-> Curve(e, book)])]
    BY <1>1 DEF AttemptEnds
  <2> DEFINE new == [at |-> at, status |-> outcome, intact |-> TRUE, curve |-> Curve(e, book)]
  <2>2. new \in Attempt(e)
    BY CurveIn DEF Attempt
  <2> HIDE DEF new
  <2>3. DOMAIN attempts = Experiment /\ \A d \in Experiment : attempts[d] \in Seq(Attempt(d))
    BY DEF AttemptsInv
  <2>4. Append(attempts[e], new) \in Seq(Attempt(e))
    BY <2>2, <2>3, AppendsTo
  <2>5. attempts' = [attempts EXCEPT ![e] = Append(attempts[e], new)]
    BY <2>1 DEF new
  <2>6. DOMAIN attempts' = Experiment /\ \A d \in Experiment : attempts'[d] \in Seq(Attempt(d))
    BY <2>3, <2>4, <2>5
  <2> QED
    BY <2>6 DEF AttemptsInv
<1>2. ASSUME NEW e \in Experiment, NEW i \in 1..MaxAttempts, Damage(e, i)
      PROVE  AttemptsInv'
  <2>1. DOMAIN attempts = Experiment /\ \A d \in Experiment : attempts[d] \in Seq(Attempt(d))
    BY DEF AttemptsInv
  <2> DEFINE new == [attempts[e][i] EXCEPT !.intact = FALSE]
             changed == [attempts[e] EXCEPT ![i] = new]
  <2>2. i \in DOMAIN attempts[e] /\ attempts' = [attempts EXCEPT ![e] = changed]
    BY <1>2 DEF Damage, Successes
  <2>3. new \in Attempt(e)
    <3>1. attempts[e][i] \in Attempt(e)
      BY <2>1, <2>2
    <3> QED
      BY <3>1 DEF Attempt
  <2> HIDE DEF new
  <2>4. changed \in Seq(Attempt(e))
    <3>1. attempts[e] \in Seq(Attempt(e))
      BY <2>1
    <3> QED
      BY <2>2, <2>3, <3>1
  <2> HIDE DEF changed
  <2>5. DOMAIN attempts' = Experiment /\ \A d \in Experiment : attempts'[d] \in Seq(Attempt(d))
    BY <2>1, <2>2, <2>4
  <2> QED
    BY <2>5 DEF AttemptsInv
<1>3. CASE UNCHANGED attempts
  BY <1>3 DEF AttemptsInv
<1> QED
  BY <1>1, <1>2, <1>3 DEF Next, vars, Build, LoadComponent, LoadFails, RefuseComponents,
     AcceptComponents, AccountPeriod, EquityLost, Analyse, Publish, Finish, Conclude

LEMMA PortfolioType ==
  ASSUME FilesInv, Remaining
  PROVE  /\ Portfolio \in PortfolioSpec /\ Portfolio.components \in Seq(Component)
         /\ Len(Portfolio.components) \in Nat \ {0} /\ Len(loaded) \in Nat
<1>1. file \in Seq(PortfolioSpec) /\ Len(snapshots) \in Nat /\ Len(loaded) \in Nat
  BY DEF FilesInv
<1>2. Portfolio \in PortfolioSpec
  BY <1>1 DEF Remaining, Portfolio
<1>3. Portfolio.components \in Seq(Component) /\ Portfolio.components # <<>>
  BY <1>2 DEF PortfolioSpec
<1>4. \A s \in Seq(Component) : Len(s) \in Nat /\ (s # <<>> => Len(s) # 0)
  OBVIOUS
<1> QED
  BY <1>1, <1>2, <1>3, <1>4

LEMMA LoadedStep ==
  ASSUME AttemptsInv, FilesInv, LoadComponent
  PROVE  loaded' \in Seq(UNION {LoadedAs(e) : e \in Experiment})
<1>1. PICK i \in Loadable :
        loaded' = Append(loaded,
          [experiment |-> Declared.experiment, label |-> Declared.label,
           capital |-> Declared.capital, curve |-> attempts[Declared.experiment][i].curve])
  BY DEF LoadComponent
<1>2. Declared \in Component
  <2>1. Remaining /\ Len(loaded) < Len(Portfolio.components)
    BY DEF LoadComponent, Loading
  <2>2. /\ Portfolio.components \in Seq(Component)
        /\ Len(Portfolio.components) \in Nat /\ Len(loaded) \in Nat
    BY <2>1, PortfolioType
  <2> HIDE DEF Portfolio
  <2> QED
    BY <2>1, <2>2 DEF Declared
<1> DEFINE d == Declared
           e == d.experiment
           new == [experiment |-> e, label |-> d.label, capital |-> d.capital,
                   curve |-> attempts[e][i].curve]
<1>3. e \in Experiment /\ d.label \in STRING /\ d.capital \in Nat
  BY <1>2 DEF Component
<1>4. i \in DOMAIN attempts[e] /\ CurveIsValid(attempts[e][i].curve)
  BY <1>1 DEF Loadable, Resolved, Verified, Successes
<1> HIDE DEF d
<1>5. attempts[e][i] \in Attempt(e)
  <2>1. attempts[e] \in Seq(Attempt(e))
    BY <1>3 DEF AttemptsInv
  <2> QED
    BY <1>4, <2>1
<1>6. attempts[e][i].curve \in BookedCurves(e)
  BY <1>5 DEF Attempt
<1>7. new \in LoadedAs(e)
  BY <1>3, <1>4, <1>6 DEF LoadedAs
<1>8. loaded' = Append(loaded, new)
  BY <1>1 DEF d
<1> HIDE DEF new, e
<1>9. new \in UNION {LoadedAs(x) : x \in Experiment} /\ e \in Experiment
  BY <1>3, <1>7 DEF e
<1> QED
  BY <1>8, <1>9, AppendsTo DEF FilesInv

LEMMA FilesStep ==
  ASSUME AttemptsInv, FilesInv, [Next]_vars
  PROVE  FilesInv'
<1>1. ASSUME NEW verdict \in {"VALID", "INVALID"}, Conclude(verdict) PROVE FilesInv'
  <2>1. snapshots' \in Seq({"VALID", "INVALID"})
    BY <1>1, AppendsTo DEF FilesInv, Conclude
  <2>2. \A X : <<>> \in Seq(X)
    OBVIOUS
  <2> QED
    BY <1>1, <2>1, <2>2 DEF FilesInv, Conclude
<1>2. ASSUME NEW f \in Files, Build(f) PROVE FilesInv'
  BY <1>2, Constants DEF FilesInv, Build
<1>3. CASE LoadComponent
  BY <1>3, LoadedStep DEF FilesInv, LoadComponent
<1>4. CASE AcceptComponents
  BY <1>4 DEF FilesInv, AcceptComponents
<1>5. CASE AccountPeriod
  BY <1>5 DEF FilesInv, AccountPeriod
<1>6. CASE EquityLost
  BY <1>6 DEF FilesInv, EquityLost, building
<1>7. CASE Analyse
  BY <1>7 DEF FilesInv, Analyse
<1>8. CASE Finish
  <2>1. \A X : <<>> \in Seq(X)
    OBVIOUS
  <2> QED
    BY <1>8, <2>1 DEF FilesInv, Finish
<1>9. ASSUME NEW e \in Experiment, NEW book \in Books[e], NEW at \in Times, AttemptEnds(e, book, at)
      PROVE  FilesInv'
  BY <1>9 DEF FilesInv, AttemptEnds, building
<1>10. ASSUME NEW e \in Experiment, NEW i \in 1..MaxAttempts, Damage(e, i) PROVE FilesInv'
  BY <1>10 DEF FilesInv, Damage, building
<1>11. CASE UNCHANGED vars
  BY <1>11 DEF FilesInv, vars, building
<1> QED
  BY <1>1, <1>2, <1>3, <1>4, <1>5, <1>6, <1>7, <1>8, <1>9, <1>10, <1>11
     DEF Next, LoadFails, RefuseComponents, Publish

(* The components and their grid decide what the account books. *)
LEMMA SameComponents ==
  ASSUME UNCHANGED <<file, snapshots, loaded>>
  PROVE  /\ Remaining' = Remaining /\ Portfolio' = Portfolio /\ Compatible' = Compatible
         /\ Components' = Components /\ Flat' = Flat
         /\ CommonTimes' = CommonTimes
         /\ \A i : CurveTimes(i)' = CurveTimes(i)
         /\ \A i, t : RowAt(i, t)' = RowAt(i, t)
<1>1. Remaining' = Remaining /\ Portfolio' = Portfolio
  BY DEF Remaining, Portfolio
<1>2. Components' = Components
  BY DEF Components
<1>3. Flat' = Flat
  BY DEF Flat
<1>4. \A i : CurveTimes(i)' = CurveTimes(i)
  BY DEF CurveTimes
<1>5. \A i, t : RowAt(i, t)' = RowAt(i, t)
  BY DEF RowAt
<1>6. StaticIssues' = StaticIssues
  BY <1>1, <1>2 DEF StaticIssues, Same
<1>7. StrictlyAligned' = StrictlyAligned
  BY <1>2, <1>4 DEF StrictlyAligned, Same
<1>10. CommonTimes' = CommonTimes
  BY <1>2, <1>4 DEF CommonTimes, TimeSet
<1>8. Intersected' = Intersected
  BY <1>2, <1>5, <1>10 DEF Intersected, Same
<1>9. Compatible' = Compatible
  BY <1>1, <1>6, <1>7, <1>8 DEF Compatible
<1> QED
  BY <1>1, <1>2, <1>3, <1>4, <1>5, <1>9, <1>10

LEMMA SameAccount ==
  ASSUME UNCHANGED <<file, snapshots, loaded, grid>>
  PROVE  \A k : /\ FoldOf(k)' = FoldOf(k) /\ Target(k)' = Target(k)
                /\ NettedIn(k)' = NettedIn(k) /\ SleeveRow(k)' = SleeveRow(k)
<1>1. Components' = Components /\ Flat' = Flat /\ \A i, t : RowAt(i, t)' = RowAt(i, t)
  BY SameComponents
<1>2. \A i, k : GridRow(i, k)' = GridRow(i, k)
  BY <1>1 DEF GridRow
<1>3. \A k : FoldOf(k)' = FoldOf(k)
  BY <1>2 DEF FoldOf
<1>4. \A k : Target(k)' = Target(k)
  BY <1>1, <1>2 DEF Target, Weighted
<1>5. \A k : SleeveRow(k)' = SleeveRow(k)
  BY <1>1, <1>2 DEF SleeveRow, Weighted
<1>6. \A k : HeldIn(k)' = HeldIn(k)
  BY <1>1, <1>3, <1>4 DEF HeldIn
<1>7. \A k : NettedIn(k)' = NettedIn(k)
  BY <1>1, <1>2, <1>3, <1>4, <1>6 DEF NettedIn, Weighted
<1> QED
  BY <1>3, <1>4, <1>5, <1>7

(* Accounted(n): n periods are accounted for. *)
Accounted(n) ==
  /\ n \in Nat /\ Len(netted) = n /\ \A k \in 1..n : k <= Len(grid)
  /\ netted = [k \in 1..n |-> NettedIn(k)]
  /\ sleeve = [k \in 1..n |-> SleeveRow(k)]
  /\ previous = IF n = 0 THEN Flat ELSE Target(n)

LEMMA PeriodStep ==
  ASSUME NEW n, Accounted(n), AccountPeriod
  PROVE  Accounted(n + 1)'
<1>1. /\ n \in Nat /\ Len(netted) = n /\ \A k \in 1..n : k <= Len(grid)
      /\ netted = [k \in 1..n |-> NettedIn(k)] /\ sleeve = [k \in 1..n |-> SleeveRow(k)]
      /\ previous = IF n = 0 THEN Flat ELSE Target(n)
  BY DEF Accounted
<1>2. /\ UNCHANGED <<file, snapshots, loaded, grid>> /\ n + 1 <= Len(grid)
      /\ sleeve' = Append(sleeve, SleeveRow(n + 1))
      /\ netted' = Append(netted, NettedRow(n + 1))
      /\ previous' = Target(n + 1)
  BY <1>1 DEF AccountPeriod, Period
<1>3. /\ \A k : NettedIn(k)' = NettedIn(k) /\ SleeveRow(k)' = SleeveRow(k)
      /\ Flat' = Flat /\ \A k : Target(k)' = Target(k)
  BY <1>2, SameAccount, SameComponents
<1>4. NettedRow(n + 1) = NettedIn(n + 1)
  <2>1. \A k : Zero(Target(k)) = Flat /\ Zero(Flat) = Flat
    <3>1. \A w : DOMAIN Zero(w) = DOMAIN w
      BY DEF Zero
    <3>2. DOMAIN Flat = DOMAIN loaded[1].curve[1].weights
      BY <3>1 DEF Flat
    <3>3. \A k : DOMAIN Target(k) = DOMAIN loaded[1].curve[1].weights
      BY DEF Target
    <3>4. \A v, w : DOMAIN v = DOMAIN w => Zero(v) = Zero(w)
      BY DEF Zero
    <3> QED
      BY <3>2, <3>3, <3>4 DEF Flat
  <2>2. Zero(previous) = Flat
    BY <1>1, <2>1
  <2>3. Held(n + 1) = HeldIn(n + 1)
    <3> DEFINE z == n + 1
    <3>1. z > 1 => previous = Target(z - 1)
      <4>1. z - 1 = n /\ (z > 1 => n # 0)
        <5>1. n \in Nat
          BY <1>1
        <5> QED
          BY ONLY <5>1
      <4> HIDE DEF z
      <4> QED
        BY <1>1, <4>1
    <3> HIDE DEF z
    <3>2. Held(z) = HeldIn(z)
      BY <2>2, <3>1 DEF Held, HeldIn
    <3> QED
      BY <3>2 DEF z
  <2> QED
    BY <2>3 DEF NettedRow, NettedIn
<1>5. netted' = [k \in 1..(n + 1) |-> NettedIn(k)] /\ Len(netted') = n + 1
  BY <1>1, <1>2, <1>4
<1>6. sleeve' = [k \in 1..(n + 1) |-> SleeveRow(k)]
  BY <1>1, <1>2
<1>7. \A k \in 1..(n + 1) : k <= Len(grid)
  BY <1>1, <1>2
<1>8. n + 1 \in Nat /\ n + 1 # 0
  BY <1>1
<1> QED
  BY <1>2, <1>3, <1>5, <1>6, <1>7, <1>8 DEF Accounted

LEMMA AccountStep ==
  ASSUME FilesInv, AccountInv, [Next]_vars
  PROVE  AccountInv'
<1> DEFINE base == Remaining /\ loaded # <<>> /\ Compatible
                   /\ grid = IF Portfolio.policy = "strict" THEN CurveTimes(1)
                                                           ELSE Ascending(CommonTimes)
<1>1. AccountInv <=> (status \in {"accounting", "analysed"} => base /\ Accounted(Len(netted)))
  BY DEF AccountInv, Accounted
<1>2. AccountInv' <=> (status' \in {"accounting", "analysed"} => base' /\ Accounted(Len(netted))')
  BY DEF AccountInv, Accounted
<1>3. ASSUME UNCHANGED <<file, snapshots, loaded, grid>> PROVE base' = base
  BY <1>3, SameComponents
<1> HIDE DEF base
<1>4. CASE AcceptComponents
  <2>1. /\ UNCHANGED <<file, snapshots, loaded, netted, sleeve>>
        /\ status = "loading" /\ Remaining /\ Compatible /\ Len(loaded) = Len(Portfolio.components)
        /\ previous' = Flat
        /\ grid' = IF Portfolio.policy = "strict" THEN CurveTimes(1) ELSE Ascending(CommonTimes)
    BY <1>4 DEF AcceptComponents, Loaded, Flat
  <2>2. netted = <<>> /\ sleeve = <<>>
    BY <2>1 DEF FilesInv
  <2>3. loaded # <<>>
    <3>1. Len(loaded) # 0
      BY <2>1, PortfolioType
    <3> QED
      BY <3>1
  <2>4. base'
    BY <2>1, <2>3, SameComponents DEF base
  <2>5. Accounted(0)'
    <3>1. netted' = <<>> /\ sleeve' = <<>> /\ Len(<<>>) = 0
      BY <2>1, <2>2
    <3>2. Flat' = Flat
      BY <2>1, SameComponents
    <3> QED
      BY <2>1, <3>1, <3>2 DEF Accounted
  <2> QED
    BY <1>2, <2>1, <2>2, <2>4, <2>5
<1>5. CASE AccountPeriod
  <2>1. status = "accounting" /\ UNCHANGED <<status, file, snapshots, loaded, grid>>
    BY <1>5 DEF AccountPeriod
  <2>2. base /\ Accounted(Len(netted))
    BY <1>1, <2>1
  <2>3. PICK n : n = Len(netted)
    OBVIOUS
  <2>6. Accounted(n)
    BY <2>2, <2>3
  <2>4. Accounted(n + 1)'
    BY <1>5, <2>6, PeriodStep
  <2>5. Len(netted)' = n + 1
    BY <2>4 DEF Accounted
  <2> QED
    BY <1>2, <1>3, <2>1, <2>2, <2>4, <2>5
<1>6. ASSUME UNCHANGED <<file, snapshots, loaded, grid, netted, sleeve, previous>>,
             status' \in {"accounting", "analysed"} => status \in {"accounting", "analysed"}
      PROVE  AccountInv'
  <2>1. Accounted(Len(netted))' = Accounted(Len(netted))
    <3>1. \A k : /\ NettedIn(k)' = NettedIn(k) /\ SleeveRow(k)' = SleeveRow(k)
                 /\ Target(k)' = Target(k)
      BY <1>6, SameAccount
    <3>2. Flat' = Flat
      BY <1>6, SameComponents
    <3> QED
      BY <1>6, <3>1, <3>2 DEF Accounted
  <2> QED
    BY <1>1, <1>2, <1>3, <1>6, <2>1
<1>7. CASE Analyse \/ Finish \/ UNCHANGED vars
  BY <1>6, <1>7, <1>2 DEF Analyse, Finish, vars, building
<1>8. CASE LoadComponent \/ EquityLost \/ (\E f \in Files : Build(f))
  BY <1>2, <1>8 DEF LoadComponent, Loading, EquityLost, Build
<1>9. CASE LoadFails \/ RefuseComponents \/ Publish
  BY <1>2, <1>9 DEF LoadFails, RefuseComponents, Publish, Conclude
<1>10. CASE \E e \in Experiment : \E book \in Books[e], at \in Times : AttemptEnds(e, book, at)
  BY <1>6, <1>10 DEF AttemptEnds, building
<1>11. CASE \E e \in Experiment, i \in 1..MaxAttempts : Damage(e, i)
  BY <1>6, <1>11 DEF Damage, building
<1> QED
  BY <1>4, <1>5, <1>7, <1>8, <1>9, <1>10, <1>11 DEF Next

LEMMA SameReconstruction ==
  ASSUME UNCHANGED <<file, snapshots, loaded, grid, netted>>
  PROVE  Reconstruction' = Reconstruction
<1>1. Components' = Components /\ \A k : FoldOf(k)' = FoldOf(k)
  BY SameComponents, SameAccount
<1>2. \A i, k : GridRow(i, k)' = GridRow(i, k)
  BY SameComponents DEF GridRow
<1>3. \A i : ScaledWeights(i)' = ScaledWeights(i)
  BY <1>2 DEF ScaledWeights
<1>4. \A w : BookLegs(w)' = BookLegs(w)
  BY <1>1 DEF BookLegs
<1>5. \A parts, leg : Contributions(parts, leg)' = Contributions(parts, leg)
  BY <1>1 DEF Contributions
<1> QED
  BY <1>1, <1>3, <1>4, <1>5 DEF Reconstruction

LEMMA LegsStep ==
  ASSUME LegsInv, [Next]_vars
  PROVE  LegsInv'
<1>1. CASE Analyse
  <2>1. UNCHANGED <<file, snapshots, loaded, grid, netted>> /\ legs' = Reconstruction
        /\ Period > Len(grid)
    BY <1>1 DEF Analyse
  <2>2. Period' = Period
    BY <2>1 DEF Period
  <2> QED
    BY <2>1, <2>2, SameReconstruction DEF LegsInv
<1>2. ASSUME UNCHANGED <<file, snapshots, loaded, grid, netted, legs>>,
             status' = "analysed" => status = "analysed"
      PROVE  LegsInv'
  <2>1. Period' = Period
    BY <1>2 DEF Period
  <2> QED
    BY <1>2, <2>1, SameReconstruction DEF LegsInv
<1>3. CASE UNCHANGED vars
  BY <1>2, <1>3 DEF vars, building
<1>4. CASE Finish \/ LoadComponent \/ EquityLost \/ AcceptComponents \/ AccountPeriod \/ (\E f \in Files : Build(f))
  BY <1>4 DEF LegsInv, Finish, LoadComponent, Loading, EquityLost, AcceptComponents, AccountPeriod, Build
<1>5. CASE LoadFails \/ RefuseComponents \/ Publish
  BY <1>5 DEF LegsInv, LoadFails, RefuseComponents, Publish, Conclude
<1>6. CASE \E e \in Experiment : \E book \in Books[e], at \in Times : AttemptEnds(e, book, at)
  BY <1>2, <1>6 DEF AttemptEnds, building
<1>7. CASE \E e \in Experiment, i \in 1..MaxAttempts : Damage(e, i)
  BY <1>2, <1>7 DEF Damage, building
<1> QED
  BY <1>1, <1>3, <1>4, <1>5, <1>6, <1>7 DEF Next

(* In every reachable state each attempt has a well typed curve, the loaded *)
(* components are those of the declared portfolio, and the rows of both     *)
(* accounts are the ones their curves and the grid determine; an analysed   *)
(* portfolio is accounted for to the end and has the legs of its weights    *)
(* (backtest.py, loader.py, accounting.py, trading.py).                     *)
THEOREM PortfolioInvariant == Spec => []PortfolioInv
<1>1. Init => PortfolioInv
  <2> SUFFICES ASSUME Init PROVE PortfolioInv
    OBVIOUS
  <2>1. \A X : <<>> \in Seq(X)
    OBVIOUS
  <2> QED
    BY <2>1 DEF Init, PortfolioInv, AttemptsInv, FilesInv, AccountInv, LegsInv
<1>2. PortfolioInv /\ [Next]_vars => PortfolioInv'
  BY AttemptsStep, FilesStep, AccountStep, LegsStep DEF PortfolioInv
<1> QED
  BY <1>1, <1>2, PTL DEF Spec

-----------------------------------------------------------------------------
(* Components compared by the strict policy. *)

LEMMA CurveShape ==
  ASSUME NEW S, NEW curve \in Seq(CurveRow(S))
  PROVE  /\ Len(curve) \in Nat /\ DOMAIN curve = 1..Len(curve)
         /\ \A k \in 1..Len(curve) :
              /\ curve[k] \in CurveRow(S) /\ curve[k].fold \in Nat /\ curve[k].time \in Int
              /\ curve[k].weights \in [S -> Int]
              /\ curve[k].price \in Int /\ curve[k].funding \in Int
              /\ curve[k].turnover \in Int /\ curve[k].cost \in Int /\ curve[k].net \in Int
<1>1. /\ Len(curve) \in Nat /\ DOMAIN curve = 1..Len(curve)
      /\ \A k \in 1..Len(curve) : curve[k] \in CurveRow(S)
  OBVIOUS
<1> QED
  BY <1>1 DEF CurveRow

LEMMA TimesIncrease ==
  ASSUME NEW S, NEW curve \in Seq(CurveRow(S)), CurveIsValid(curve)
  PROVE  \A j, k \in 1..Len(curve) : j < k => curve[j].time < curve[k].time
<1> DEFINE N == Len(curve)
           P == {n \in Nat : n \in 1..N => \A j \in 1..N : j < n => curve[j].time < curve[n].time}
<1>1. N \in Nat /\ DOMAIN curve = 1..N /\ \A k \in 1..N : curve[k].time \in Int
  BY CurveShape
<1>2. \A k \in 1..N : k > 1 => curve[k - 1].time < curve[k].time
  BY <1>1 DEF CurveIsValid
<1>3. 0 \in P
  OBVIOUS
<1> HIDE DEF N
<1>4. ASSUME NEW n \in Nat, n \in P PROVE n + 1 \in P
  <2> SUFFICES ASSUME n + 1 \in 1..N, NEW j \in 1..N, j < n + 1
               PROVE  curve[j].time < curve[n + 1].time
    OBVIOUS
  <2>1. n \in 1..N /\ j <= n /\ n + 1 > 1 /\ n + 1 - 1 = n
    BY <1>1
  <2>2. curve[n].time < curve[n + 1].time
    <3> DEFINE z == n + 1
    <3>1. z \in 1..N /\ z > 1 /\ z - 1 = n
      BY <1>1, <2>1
    <3> HIDE DEF z
    <3>2. curve[n].time < curve[z].time
      BY <1>2, <3>1
    <3> QED
      BY <3>2 DEF z
  <2>3. j = n \/ curve[j].time < curve[n].time
    BY <1>4, <2>1
  <2>4. curve[j].time \in Int /\ curve[n].time \in Int /\ curve[n + 1].time \in Int
    BY <1>1, <2>1
  <2> QED
    BY <2>2, <2>3, <2>4
<1> HIDE DEF P
<1>5. \A n \in Nat : n \in P
  BY <1>3, <1>4, NumberInduction
<1> QED
  BY <1>1, <1>5 DEF P, N

(* Decision times tell the rows of a curve apart. *)
LEMMA RowOfTime ==
  ASSUME NEW S, NEW curve \in Seq(CurveRow(S)), CurveIsValid(curve), NEW k \in 1..Len(curve)
  PROVE  (CHOOSE row \in Range(curve) : row.time = curve[k].time) = curve[k]
<1>1. Len(curve) \in Nat /\ DOMAIN curve = 1..Len(curve) /\ \A j \in 1..Len(curve) : curve[j].time \in Int
  BY CurveShape
<1>2. \A j \in 1..Len(curve) : curve[j].time = curve[k].time => j = k
  <2> SUFFICES ASSUME NEW j \in 1..Len(curve), j # k PROVE curve[j].time # curve[k].time
    OBVIOUS
  <2>1. curve[j].time < curve[k].time \/ curve[k].time < curve[j].time
    <3>1. j < k \/ k < j
      BY <1>1
    <3> QED
      BY <3>1, TimesIncrease
  <2> QED
    BY <1>1, <2>1
<1>3. curve[k] \in Range(curve) /\ \A row \in Range(curve) : row.time = curve[k].time => row = curve[k]
  BY <1>1, <1>2 DEF Range
<1> QED
  BY <1>3

(* S are the symbols of the components, rate what they pay for a trade.    *)
Aligned(S, rate) ==
  /\ S \in SUBSET Symbols /\ S = DOMAIN loaded[1].curve[1].weights
  /\ rate \in Nat /\ rate = Identity[loaded[1].experiment].cost
  /\ Len(loaded) \in Nat /\ Components = 1..Len(loaded) /\ 1 \in Components /\ Len(grid) \in Nat
  /\ \A i \in Components :
       /\ loaded[i].capital \in Nat /\ loaded[i].curve \in Seq(CurveRow(S))
       /\ Len(loaded[i].curve) = Len(grid) /\ Booked(loaded[i].curve, rate)
       /\ \A k \in 1..Len(grid) :
            /\ GridRow(i, k) = loaded[i].curve[k]
            /\ loaded[i].curve[k].fold = loaded[1].curve[k].fold

(* Every component, of whatever policy, has a booked curve of the symbols. *)
Curves(S) ==
  /\ S \in SUBSET Symbols /\ S = DOMAIN loaded[1].curve[1].weights
  /\ Len(loaded) \in Nat /\ Components = 1..Len(loaded) /\ 1 \in Components
  /\ \A i \in Components :
       /\ loaded[i].capital \in Nat /\ loaded[i].experiment \in Experiment
       /\ loaded[i].curve \in Seq(CurveRow(S)) /\ CurveIsValid(loaded[i].curve)
       /\ Booked(loaded[i].curve, Identity[loaded[i].experiment].cost)

LEMMA ComponentCurves ==
  ASSUME PortfolioInv, status \in {"accounting", "analysed"}
  PROVE  Curves(DOMAIN loaded[1].curve[1].weights)
<1> DEFINE S == DOMAIN loaded[1].curve[1].weights
           c(i) == loaded[i].curve
<1>1. loaded \in Seq(UNION {LoadedAs(e) : e \in Experiment}) /\ loaded # <<>> /\ Compatible
  BY DEF PortfolioInv, FilesInv, AccountInv
<1>2. Len(loaded) \in Nat /\ Components = 1..Len(loaded) /\ 1 \in Components
  BY <1>1 DEF Components
<1>3. \A i \in Components : loaded[i] \in UNION {LoadedAs(e) : e \in Experiment}
  BY <1>1 DEF Components
<1>4. \A i \in Components :
        /\ loaded[i].experiment \in Experiment /\ loaded[i].capital \in Nat
        /\ c(i) \in BookedCurves(loaded[i].experiment) /\ CurveIsValid(c(i))
  BY <1>3 DEF LoadedAs
<1>5. ~StaticIssues
  BY <1>1 DEF Compatible
<1>6. \A i \in Components : DOMAIN c(i)[1].weights = S
  BY <1>2, <1>5 DEF StaticIssues, Same
<1>7. ASSUME NEW i \in Components
      PROVE  /\ c(i) \in Seq(CurveRow(S)) /\ S \in SUBSET Symbols
             /\ Booked(c(i), Identity[loaded[i].experiment].cost)
  <2>1. c(i) \in BookedCurves(loaded[i].experiment)
    BY <1>4
  <2>2. PICK T \in SUBSET Symbols : c(i) \in Seq(CurveRow(T))
    BY <2>1 DEF BookedCurves
  <2>3. c(i) # <<>>
    BY <1>4 DEF CurveIsValid
  <2>4. c(i)[1] \in CurveRow(T)
    BY <2>2, <2>3
  <2>5. DOMAIN c(i)[1].weights = T
    BY <2>4 DEF CurveRow
  <2>6. Booked(c(i), Identity[loaded[i].experiment].cost)
    BY <2>1 DEF BookedCurves
  <2> QED
    BY <1>6, <2>2, <2>5, <2>6
<1> QED
  BY <1>2, <1>4, <1>7 DEF Curves

(* Under the strict policy the periods are the rows of every curve. *)
InStep ==
  /\ Len(grid) \in Nat /\ DOMAIN grid = 1..Len(grid)
  /\ \A i \in Components :
       /\ Len(loaded[i].curve) = Len(grid)
       /\ \A k \in 1..Len(grid) :
            /\ GridRow(i, k) = loaded[i].curve[k]
            /\ loaded[i].curve[k].fold = loaded[1].curve[k].fold

LEMMA StrictIsInStep ==
  ASSUME PortfolioInv, status \in {"accounting", "analysed"}, Portfolio.policy = "strict"
  PROVE  InStep
<1> DEFINE S == DOMAIN loaded[1].curve[1].weights
           c(i) == loaded[i].curve
<1>1. Compatible /\ grid = CurveTimes(1)
  BY DEF PortfolioInv, AccountInv
<1>2. Len(loaded) \in Nat /\ Components = 1..Len(loaded) /\ 1 \in Components
  BY ComponentCurves DEF Curves
<1>4. \A i \in Components : c(i) \in Seq(CurveRow(S)) /\ CurveIsValid(c(i))
  BY ComponentCurves DEF Curves
<1>6. StrictlyAligned
  BY <1>1 DEF Compatible
<1>9. \A i \in Components :
        /\ DOMAIN c(i) = 1..Len(c(i)) /\ Len(c(i)) \in Nat
        /\ CurveTimes(i) = CurveTimes(1) /\ DOMAIN CurveTimes(i) = DOMAIN c(i)
        /\ \A k \in DOMAIN c(i) : CurveTimes(i)[k] = c(i)[k].time
  BY <1>2, <1>4, <1>6 DEF StrictlyAligned, Same, CurveTimes
<1>10. \A i \in Components : DOMAIN c(i) = DOMAIN grid /\ Len(c(i)) = Len(c(1))
  BY <1>1, <1>2, <1>9
<1>11. Len(grid) = Len(c(1)) /\ Len(grid) \in Nat /\ DOMAIN grid = 1..Len(grid)
  BY <1>1, <1>2, <1>9
<1>12. \A i \in Components, k \in 1..Len(grid) : grid[k] = c(i)[k].time
  BY <1>1, <1>9, <1>10, <1>11
<1>13. \A i \in Components, k \in 1..Len(grid) : GridRow(i, k) = c(i)[k]
  <2> SUFFICES ASSUME NEW i \in Components, NEW k \in 1..Len(grid) PROVE GridRow(i, k) = c(i)[k]
    OBVIOUS
  <2> HIDE DEF S
  <2>1. c(i) \in Seq(CurveRow(S)) /\ CurveIsValid(c(i)) /\ k \in 1..Len(c(i))
    BY <1>4, <1>10, <1>11
  <2>2. (CHOOSE row \in Range(c(i)) : row.time = c(i)[k].time) = c(i)[k]
    BY <2>1, RowOfTime
  <2> QED
    BY <1>12, <2>2 DEF GridRow, RowAt
<1>14. \A i \in Components, k \in 1..Len(grid) : c(i)[k].fold = c(1)[k].fold
  <2> SUFFICES ASSUME NEW i \in Components, NEW k \in 1..Len(grid) PROVE c(i)[k].fold = c(1)[k].fold
    OBVIOUS
  <2>1. [j \in DOMAIN c(i) |-> Slot(c(i)[j])] = [j \in DOMAIN c(1) |-> Slot(c(1)[j])]
    BY <1>2, <1>6 DEF StrictlyAligned, Same
  <2>2. k \in DOMAIN c(i) /\ k \in DOMAIN c(1)
    BY <1>2, <1>9, <1>10, <1>11
  <2>3. Slot(c(i)[k]) = Slot(c(1)[k])
    BY <2>1, <2>2
  <2> QED
    BY <2>3 DEF Slot
<1> QED
  BY <1>10, <1>11, <1>13, <1>14 DEF InStep

LEMMA StrictIsAligned ==
  ASSUME PortfolioInv, status \in {"accounting", "analysed"}, Comparable
  PROVE  Aligned(DOMAIN loaded[1].curve[1].weights, Identity[loaded[1].experiment].cost)
<1> DEFINE S == DOMAIN loaded[1].curve[1].weights
           rate == Identity[loaded[1].experiment].cost
<1>1. Curves(S)
  BY ComponentCurves
<1>2. InStep
  BY StrictIsInStep DEF Comparable
<1>3. 1 \in Components
  BY <1>1 DEF Curves
<1>4. \A i \in Components : Identity[loaded[i].experiment].cost = rate
  BY <1>3 DEF Comparable, Same
<1>5. rate \in Nat
  BY <1>1, <1>3, Constants DEF Curves
<1> HIDE DEF S
<1> QED
  BY <1>1, <1>2, <1>4, <1>5 DEF Aligned, Curves, InStep, S

(* The shares of the components, what each holds and traded from in a      *)
(* period.                                                                 *)
Shares == [i \in Components |-> loaded[i].capital]
Positions(k) == [i \in Components |-> loaded[i].curve[k].weights]
Before(k) == [i \in Components |-> From(loaded[i].curve, k)]

LEMMA AlignedPositions ==
  ASSUME NEW S, NEW rate, Aligned(S, rate), NEW k \in 1..Len(grid)
  PROVE  /\ IsFiniteSet(Components) /\ IsFiniteSet(S)
         /\ Shares \in [Components -> Nat]
         /\ Positions(k) \in [Components -> [S -> Int]] /\ Before(k) \in [Components -> [S -> Int]]
         /\ \A i \in Components : Zero(Positions(k)[i]) \in [S -> Int]
<1>1. /\ S \in SUBSET Symbols /\ Len(loaded) \in Nat /\ Components = 1..Len(loaded)
      /\ \A i \in Components : loaded[i].capital \in Nat /\ loaded[i].curve \in Seq(CurveRow(S))
                               /\ Len(loaded[i].curve) = Len(grid)
      /\ Len(grid) \in Nat
  BY DEF Aligned
<1>2. IsFiniteSet(S)
  BY <1>1, Constants, FS_Subset
<1>3. IsFiniteSet(Components)
  BY <1>1, FS_Interval
<1>4. \A i \in Components, j \in 1..Len(grid) : loaded[i].curve[j].weights \in [S -> Int]
  BY <1>1, CurveShape
<1>5. \A w \in [S -> Int] : Zero(w) \in [S -> Int]
  BY DEF Zero
<1>6. \A i \in Components : From(loaded[i].curve, k) \in [S -> Int]
  <2>1. k > 1 => k - 1 \in 1..Len(grid)
    BY <1>1
  <2> QED
    BY <1>4, <1>5, <2>1 DEF From
<1> QED
  BY <1>1, <1>2, <1>3, <1>4, <1>5, <1>6 DEF Shares, Positions, Before

LEMMA WeightedIs ==
  ASSUME NEW v, DOMAIN v = Components
  PROVE  Weighted(v) = Total(Scaled(Shares, v))
<1>1. [i \in Components |-> loaded[i].capital * v[i]] = Scaled(Shares, v)
  BY DEF Shares, Scaled
<1> QED
  BY <1>1 DEF Weighted

LEMMA TargetIs ==
  ASSUME NEW S, NEW rate, Aligned(S, rate), NEW k \in 1..Len(grid)
  PROVE  Target(k) = SumOfBooks(Shares, Positions(k), S)
<1>1. S = DOMAIN loaded[1].curve[1].weights
      /\ \A i \in Components : GridRow(i, k) = loaded[i].curve[k]
  BY DEF Aligned
<1>2. ASSUME NEW s \in S
      PROVE  Weighted([i \in Components |-> GridRow(i, k).weights[s]])
               = Total(Scaled(Shares, Column(Positions(k), s)))
  <2>1. [i \in Components |-> GridRow(i, k).weights[s]] = Column(Positions(k), s)
    BY <1>1 DEF Column, Positions
  <2>2. DOMAIN Column(Positions(k), s) = Components
    BY DEF Column, Positions
  <2> QED
    BY <2>1, <2>2, WeightedIs
<1> QED
  BY <1>1, <1>2 DEF Target, SumOfBooks

LEMMA HeldIs ==
  ASSUME NEW S, NEW rate, Aligned(S, rate), NEW k \in 1..Len(grid)
  PROVE  /\ HeldIn(k) = SumOfBooks(Shares, Before(k), S)
         /\ (k = Len(grid) \/ FoldOf(k + 1) # FoldOf(k)) <=> Closes(loaded[1].curve, k)
         /\ \A i \in Components : Closes(loaded[i].curve, k) = Closes(loaded[1].curve, k)
<1>1. /\ 1 \in Components /\ Len(grid) \in Nat
      /\ \A i \in Components : Len(loaded[i].curve) = Len(grid)
      /\ \A i \in Components, j \in 1..Len(grid) :
           GridRow(i, j) = loaded[i].curve[j] /\ loaded[i].curve[j].fold = loaded[1].curve[j].fold
  BY DEF Aligned
<1>2. \A j \in 1..Len(grid) : FoldOf(j) = loaded[1].curve[j].fold
  BY <1>1 DEF FoldOf
<1>3. k = Len(grid) \/ k + 1 \in 1..Len(grid)
  BY <1>1
<1>4. \A i \in Components :
        Closes(loaded[i].curve, k) <=> (k = Len(grid) \/ FoldOf(k + 1) # FoldOf(k))
  BY <1>1, <1>2, <1>3 DEF Closes
<1>5. CASE k > 1 /\ FoldOf(k - 1) = FoldOf(k)
  <2>1. k - 1 \in 1..Len(grid)
    BY <1>1, <1>5
  <2>2. HeldIn(k) = SumOfBooks(Shares, Positions(k - 1), S)
    BY <1>5, <2>1, TargetIs DEF HeldIn
  <2>3. \A i \in Components : From(loaded[i].curve, k) = loaded[i].curve[k - 1].weights
    BY <1>1, <1>2, <1>5, <2>1 DEF From
  <2>4. Before(k) = Positions(k - 1)
    BY <2>3 DEF Before, Positions
  <2> QED
    BY <1>1, <1>4, <2>2, <2>4, Closing
<1>6. CASE ~(k > 1 /\ FoldOf(k - 1) = FoldOf(k))
  <2>1. \A i \in Components : From(loaded[i].curve, k) = Zero(loaded[i].curve[k].weights)
    <3>1. k > 1 => k - 1 \in 1..Len(grid)
      BY <1>1
    <3> QED
      BY <1>1, <1>2, <1>6, <3>1 DEF From
  <2>2. \A i \in Components : loaded[i].curve[k].weights \in [S -> Int]
    <3>1. Positions(k) \in [Components -> [S -> Int]]
      BY AlignedPositions
    <3>2. \A i \in Components : Positions(k)[i] = loaded[i].curve[k].weights
      BY DEF Positions
    <3> QED
      BY <3>1, <3>2
  <2>3. \A i \in Components, s \in S : Before(k)[i][s] = 0
    BY <2>1, <2>2 DEF Before, Zero
  <2>4. IsFiniteSet(Components) /\ Shares \in [Components -> Nat]
    BY AlignedPositions
  <2>5. SumOfBooks(Shares, Before(k), S) = [s \in S |-> 0]
    <3>1. DOMAIN Before(k) = Components
      BY DEF Before
    <3>2. IsFiniteSet(Components)
      BY <2>4
    <3>3. Shares \in [Components -> Nat]
      BY <2>4
    <3> QED
      BY ONLY <2>3, <3>1, <3>2, <3>3, SumOfFlats
  <2>6. HeldIn(k) = [s \in S |-> 0]
    <3>1. S = DOMAIN loaded[1].curve[1].weights
      BY DEF Aligned
    <3> QED
      BY <1>6, <3>1 DEF HeldIn, Flat, Zero
  <2> QED
    BY <1>1, <1>4, <2>5, <2>6, Closing
<1> QED
  BY <1>5, <1>6

(* What a period trades, holds and earns, component by component, and what *)
(* the book that adds them up trades.                                      *)
Trading(k) ==
  EachTrades(Before(k), Positions(k), Closes(loaded[1].curve, k))
Flats(k) == [i \in Components |-> Zero(Positions(k)[i])]
Holding(k) == EachTrades(Flats(k), Positions(k), FALSE)
Earning(k) == [i \in Components |-> loaded[i].curve[k].price]
Funding(k) == [i \in Components |-> loaded[i].curve[k].funding]
BookTrading(k, S) ==
  Turnover(SumOfBooks(Shares, Before(k), S), SumOfBooks(Shares, Positions(k), S), Closes(loaded[1].curve, k))

(* One sum for each column of a period. *)
LEMMA PeriodSums ==
  ASSUME NEW S, NEW rate, Aligned(S, rate), NEW k \in 1..Len(grid)
  PROVE  /\ Trading(k) \in [Components -> Int] /\ Holding(k) \in [Components -> Int]
         /\ SleeveRow(k).turnover = Total(Scaled(Shares, Trading(k)))
         /\ SleeveRow(k).gross = Total(Scaled(Shares, Holding(k)))
         /\ SleeveRow(k).cost = rate * Total(Scaled(Shares, Trading(k)))
         /\ SleeveRow(k).net = Total(Scaled(Shares, Earning(k))) + Total(Scaled(Shares, Funding(k)))
                                  - rate * Total(Scaled(Shares, Trading(k)))
         /\ NettedIn(k).turnover = BookTrading(k, S)
         /\ NettedIn(k).gross = RowSize(SumOfBooks(Shares, Positions(k), S))
         /\ NettedIn(k).cost = BookTrading(k, S) * rate
         /\ NettedIn(k).net = Total(Scaled(Shares, Earning(k))) + Total(Scaled(Shares, Funding(k)))
                                  - BookTrading(k, S) * rate
         /\ Total(Scaled(Shares, Earning(k))) \in Int /\ Total(Scaled(Shares, Funding(k))) \in Int
<1> DEFINE closes == Closes(loaded[1].curve, k)
           traded == [i \in Components |-> Turnover(Before(k)[i], Positions(k)[i], closes)]
           held == [i \in Components |-> Turnover(Zero(Positions(k)[i]), Positions(k)[i], FALSE)]
           earned == [i \in Components |-> loaded[i].curve[k].price]
           funded == [i \in Components |-> loaded[i].curve[k].funding]
           turnover == Turnover(SumOfBooks(Shares, Before(k), S), SumOfBooks(Shares, Positions(k), S), closes)
           row(i) == loaded[i].curve[k]
           costs == [i \in Components |-> row(i).cost]
           nets == [i \in Components |-> row(i).net]
<1>1. /\ IsFiniteSet(Components) /\ IsFiniteSet(S) /\ Shares \in [Components -> Nat]
      /\ Positions(k) \in [Components -> [S -> Int]] /\ Before(k) \in [Components -> [S -> Int]]
      /\ \A i \in Components : Zero(Positions(k)[i]) \in [S -> Int]
  BY AlignedPositions
<1>2. /\ rate \in Nat /\ rate = Identity[loaded[1].experiment].cost
      /\ \A i \in Components :
           /\ loaded[i].curve \in Seq(CurveRow(S)) /\ k \in 1..Len(loaded[i].curve)
           /\ Booked(loaded[i].curve, rate) /\ GridRow(i, k) = row(i)
  BY DEF Aligned
<1>3. /\ closes \in BOOLEAN
      /\ (k = Len(grid) \/ FoldOf(k + 1) # FoldOf(k)) <=> closes
      /\ \A i \in Components : Closes(loaded[i].curve, k) = closes
  BY HeldIs, Closing
<1>4. \A i \in Components : /\ Positions(k)[i] = row(i).weights
                            /\ Before(k)[i] = From(loaded[i].curve, k)
  BY DEF Positions, Before
<1>5. \A i \in Components : row(i).price \in Int /\ row(i).funding \in Int
                            /\ row(i).cost \in Int /\ row(i).net \in Int /\ row(i).turnover \in Int
  BY <1>2, CurveShape
<1>6. \A i \in Components :
        /\ row(i).turnover = Turnover(From(loaded[i].curve, k), row(i).weights, Closes(loaded[i].curve, k))
        /\ row(i).cost = row(i).turnover * rate
        /\ row(i).net = row(i).price + row(i).funding - row(i).cost
  <2>1. \A i \in Components : DOMAIN loaded[i].curve = 1..Len(loaded[i].curve)
    BY <1>2, CurveShape
  <2> QED
    BY <1>2, <2>1 DEF Booked
<1> HIDE DEF closes, row
<1>7. \A i \in Components : row(i).turnover = traded[i]
  BY <1>3, <1>4, <1>6
<1>8. traded \in [Components -> Int]
  BY <1>5, <1>7
<1>9. held \in [Components -> Int]
  <2>1. \A i \in Components : Turnover(Zero(Positions(k)[i]), Positions(k)[i], FALSE) \in Int
    <3> SUFFICES ASSUME NEW i \in Components
                 PROVE  Turnover(Zero(Positions(k)[i]), Positions(k)[i], FALSE) \in Int
      OBVIOUS
    <3>1. Positions(k)[i] \in [S -> Int] /\ Zero(Positions(k)[i]) \in [S -> Int]
      BY <1>1
    <3> QED
      BY <1>1, <3>1, TurnoverType
  <2> QED
    BY <2>1
<1>10. earned \in [Components -> Int] /\ funded \in [Components -> Int]
       /\ costs \in [Components -> Int] /\ nets \in [Components -> Int]
  BY <1>5 DEF row
<1>11. SleeveRow(k).turnover = Total(Scaled(Shares, traded))
  <2>1. [i \in Components |-> GridRow(i, k).turnover] = traded
    BY <1>2, <1>7
  <2>2. SleeveRow(k).turnover = Weighted([i \in Components |-> GridRow(i, k).turnover])
    BY DEF SleeveRow
  <2>3. DOMAIN traded = Components
    OBVIOUS
  <2> HIDE DEF traded
  <2> QED
    BY <2>1, <2>2, <2>3, WeightedIs
<1>12. SleeveRow(k).gross = Total(Scaled(Shares, held))
  <2>1. ASSUME NEW i \in Components
        PROVE  RowSize(GridRow(i, k).weights) = Turnover(Zero(Positions(k)[i]), Positions(k)[i], FALSE)
    <3>1. GridRow(i, k).weights = Positions(k)[i] /\ Positions(k)[i] \in [S -> Int]
      BY <1>1, <1>2, <1>4
    <3> DEFINE w == Positions(k)[i]
    <3> HIDE DEF w
    <3>2. ASSUME w \in [S -> Int] PROVE RowSize(w) = Turnover(Zero(w), w, FALSE)
      BY <1>1, <3>2, TurnoverType, FALSE \in BOOLEAN
    <3> QED
      BY <3>1, <3>2 DEF w
  <2>2. [i \in Components |-> RowSize(GridRow(i, k).weights)] = held
    BY <2>1
  <2>3. SleeveRow(k).gross = Weighted([i \in Components |-> RowSize(GridRow(i, k).weights)])
    BY DEF SleeveRow
  <2>4. DOMAIN held = Components
    OBVIOUS
  <2> HIDE DEF held
  <2> QED
    BY <2>2, <2>3, <2>4, WeightedIs
<1>13. SleeveRow(k).cost = Total(Scaled(Shares, costs))
  <2>1. [i \in Components |-> GridRow(i, k).cost] = costs
    BY <1>2
  <2>2. SleeveRow(k).cost = Weighted([i \in Components |-> GridRow(i, k).cost])
    BY DEF SleeveRow
  <2> HIDE DEF costs
  <2> QED
    BY <1>10, <2>1, <2>2, WeightedIs
<1>14. SleeveRow(k).net = Total(Scaled(Shares, nets))
  <2>1. [i \in Components |-> GridRow(i, k).net] = nets
    BY <1>2
  <2>2. SleeveRow(k).net = Weighted([i \in Components |-> GridRow(i, k).net])
    BY DEF SleeveRow
  <2> HIDE DEF nets
  <2> QED
    BY <1>10, <2>1, <2>2, WeightedIs
<1>15. \A i \in Components :
         /\ costs[i] = traded[i] * rate /\ nets[i] = earned[i] + funded[i] - costs[i]
  BY <1>6, <1>7 DEF row
<1>16. NettedIn(k).turnover = turnover
  BY <1>3, HeldIs, TargetIs DEF NettedIn
<1>17. NettedIn(k).cost = turnover * rate /\ NettedIn(k).gross = RowSize(SumOfBooks(Shares, Positions(k), S))
  BY <1>2, <1>3, HeldIs, TargetIs DEF NettedIn
<1>18. NettedIn(k).net = Total(Scaled(Shares, earned)) + Total(Scaled(Shares, funded)) - turnover * rate
  <2>1. [i \in Components |-> GridRow(i, k).price] = earned
    BY <1>2 DEF row
  <2>2. [i \in Components |-> GridRow(i, k).funding] = funded
    BY <1>2 DEF row
  <2>3. NettedIn(k).net = Weighted([i \in Components |-> GridRow(i, k).price])
                           + Weighted([i \in Components |-> GridRow(i, k).funding]) - NettedIn(k).cost
    BY DEF NettedIn
  <2> HIDE DEF earned, funded, turnover
  <2>4. DOMAIN earned = Components /\ DOMAIN funded = Components
    BY <1>10
  <2>5. /\ Weighted(earned) = Total(Scaled(Shares, earned))
        /\ Weighted(funded) = Total(Scaled(Shares, funded))
    BY <2>4, WeightedIs
  <2> QED
    BY <1>17, <2>1, <2>2, <2>3, <2>5
<1>24. /\ traded = Trading(k) /\ held = Holding(k) /\ turnover = BookTrading(k, S)
       /\ earned = Earning(k) /\ funded = Funding(k)
  <2>1. DOMAIN Before(k) = Components /\ DOMAIN Flats(k) = Components
        /\ \A i \in Components : Flats(k)[i] = Zero(Positions(k)[i])
    BY DEF Before, Flats
  <2>2. held = Holding(k)
    BY <2>1 DEF Holding, EachTrades
  <2> QED
    BY <2>1, <2>2 DEF Trading, BookTrading, Earning, Funding, EachTrades, closes, row
<1> HIDE DEF traded, held, earned, funded, costs, nets, turnover
<1>19. /\ Scaled(Shares, traded) \in [Components -> Int] /\ Scaled(Shares, earned) \in [Components -> Int]
       /\ Scaled(Shares, funded) \in [Components -> Int] /\ Scaled(Shares, costs) \in [Components -> Int]
       /\ Scaled(Shares, nets) \in [Components -> Int]
  BY <1>1, <1>8, <1>10, FunctionTypes
<1>20. Total(Scaled(Shares, costs)) = rate * Total(Scaled(Shares, traded))
  <2>1. \A i \in Components : Scaled(Shares, costs)[i] = rate * Scaled(Shares, traded)[i]
    <3> SUFFICES ASSUME NEW i \in Components
                 PROVE  Scaled(Shares, costs)[i] = rate * Scaled(Shares, traded)[i]
      OBVIOUS
    <3>1. Shares[i] \in Nat /\ traded[i] \in Int /\ rate \in Nat
      BY <1>1, <1>2, <1>8
    <3>2. \A a, r \in Nat, x \in Int : a * (x * r) = r * (a * x)
      OBVIOUS
    <3>3. Shares[i] * (traded[i] * rate) = rate * (Shares[i] * traded[i])
      BY <3>1, <3>2
    <3> QED
      BY <1>8, <1>10, <1>15, <3>3 DEF Scaled
  <2>2. rate \in Int
    BY <1>2
  <2> DEFINE x == Scaled(Shares, traded)
             y == Scaled(Shares, costs)
  <2>3. x \in [Components -> Int]
    BY <1>19
  <2>5. y \in [Components -> Int]
    BY <1>19
  <2>6. \A i \in Components : y[i] = rate * x[i]
    BY <2>1
  <2> HIDE DEF x, y
  <2>4. Total(y) = rate * Total(x)
    <3>1. IsFiniteSet(Components)
      BY <1>1
    <3> QED
      BY ONLY <2>2, <2>3, <2>5, <2>6, <3>1, TotalScales
  <2> QED
    BY <2>4 DEF x, y
<1>21. Total(Scaled(Shares, nets)) + Total(Scaled(Shares, costs))
         = Total(Scaled(Shares, earned)) + Total(Scaled(Shares, funded))
  <2>1. \A i \in Components : Scaled(Shares, nets)[i] + Scaled(Shares, costs)[i]
                               = Scaled(Shares, earned)[i] + Scaled(Shares, funded)[i]
    <3> SUFFICES ASSUME NEW i \in Components
                 PROVE  Scaled(Shares, nets)[i] + Scaled(Shares, costs)[i]
                               = Scaled(Shares, earned)[i] + Scaled(Shares, funded)[i]
      OBVIOUS
    <3>1. /\ Shares[i] \in Nat /\ nets[i] \in Int /\ costs[i] \in Int
          /\ earned[i] \in Int /\ funded[i] \in Int /\ nets[i] + costs[i] = earned[i] + funded[i]
      BY <1>1, <1>10, <1>15
    <3>2. /\ Shares[i] * (nets[i] + costs[i]) = Shares[i] * nets[i] + Shares[i] * costs[i]
          /\ Shares[i] * (earned[i] + funded[i]) = Shares[i] * earned[i] + Shares[i] * funded[i]
      BY <3>1, Magnitudes
    <3> QED
      BY <1>10, <3>1, <3>2 DEF Scaled
  <2>2. Plus(Scaled(Shares, nets), Scaled(Shares, costs))
          = Plus(Scaled(Shares, earned), Scaled(Shares, funded))
    BY <1>19, <2>1 DEF Plus
  <2>3. Total(Plus(Scaled(Shares, nets), Scaled(Shares, costs)))
          = Total(Scaled(Shares, nets)) + Total(Scaled(Shares, costs))
    BY <1>1, <1>19, SumsOf
  <2>4. Total(Plus(Scaled(Shares, earned), Scaled(Shares, funded)))
          = Total(Scaled(Shares, earned)) + Total(Scaled(Shares, funded))
    BY <1>1, <1>19, SumsOf
  <2> QED
    BY <2>2, <2>3, <2>4
<1>22. /\ Total(Scaled(Shares, earned)) \in Int /\ Total(Scaled(Shares, funded)) \in Int
       /\ Total(Scaled(Shares, nets)) \in Int /\ Total(Scaled(Shares, costs)) \in Int
  BY <1>1, <1>19, SumsOf
<1>23. SleeveRow(k).net = Total(Scaled(Shares, earned)) + Total(Scaled(Shares, funded))
                            - rate * Total(Scaled(Shares, traded))
  BY ONLY <1>14, <1>20, <1>21, <1>22
<1> QED
  BY <1>8, <1>9, <1>11, <1>12, <1>13, <1>16, <1>17, <1>18, <1>20, <1>22, <1>23, <1>24

LEMMA RateOrder ==
  /\ \A a, b \in Int, r \in Nat : a <= b => a * r <= b * r
  /\ \A a \in Int, r \in Nat : a * r = r * a /\ a * r \in Int
<1>1. ASSUME NEW a \in Int, NEW b \in Int, NEW r \in Nat, a <= b PROVE a * r <= b * r
  <2>1. (b - a) \in Nat
    BY <1>1
  <2>2. (b - a) * r >= 0
    BY <2>1
  <2>3. (b - a) * r = b * r - a * r
    OBVIOUS
  <2> QED
    BY <2>2, <2>3
<1> QED
  BY <1>1

LEMMA PeriodSaves ==
  ASSUME NEW S, NEW rate, Aligned(S, rate), NEW k \in 1..Len(grid)
  PROVE  /\ NettedIn(k).turnover <= SleeveRow(k).turnover
         /\ NettedIn(k).gross <= SleeveRow(k).gross
         /\ NettedIn(k).cost <= SleeveRow(k).cost
         /\ NettedIn(k).net - SleeveRow(k).net = SleeveRow(k).cost - NettedIn(k).cost
         /\ Len(loaded) = 1 => NettedIn(k).net = SleeveRow(k).net
<1> DEFINE A == Total(Scaled(Shares, Trading(k)))
           H == Total(Scaled(Shares, Holding(k)))
           E == Total(Scaled(Shares, Earning(k)))
           F == Total(Scaled(Shares, Funding(k)))
           B == BookTrading(k, S)
           G == RowSize(SumOfBooks(Shares, Positions(k), S))
<1>1. /\ SleeveRow(k).turnover = A /\ SleeveRow(k).gross = H /\ SleeveRow(k).cost = rate * A
      /\ SleeveRow(k).net = E + F - rate * A
      /\ NettedIn(k).turnover = B /\ NettedIn(k).gross = G
      /\ NettedIn(k).cost = B * rate /\ NettedIn(k).net = E + F - B * rate
      /\ E \in Int /\ F \in Int
  BY PeriodSums
<1>2. /\ IsFiniteSet(Components) /\ IsFiniteSet(S) /\ Shares \in [Components -> Nat]
      /\ Positions(k) \in [Components -> [S -> Int]] /\ Before(k) \in [Components -> [S -> Int]]
      /\ \A i \in Components : Zero(Positions(k)[i]) \in [S -> Int]
  BY AlignedPositions
<1>3. rate \in Nat /\ Len(loaded) \in Nat /\ Components = 1..Len(loaded)
  BY DEF Aligned
<1>4. /\ B \in Int /\ A \in Int /\ B <= A /\ (Components = {1} => B = A)
      /\ SumOfBooks(Shares, Positions(k), S) \in [S -> Int]
  <2> DEFINE closes == Closes(loaded[1].curve, k)
             from == Before(k)
             to == Positions(k)
             D == Components
             c == Shares
  <2>1. closes \in BOOLEAN
    BY Closing
  <2>2. IsFiniteSet(D)
    BY <1>2
  <2>3. IsFiniteSet(S)
    BY <1>2
  <2>5. c \in [D -> Nat]
    BY <1>2
  <2>6. from \in [D -> [S -> Int]]
    BY <1>2
  <2>7. to \in [D -> [S -> Int]]
    BY <1>2
  <2> HIDE DEF closes, from, to, D, c
  <2>4. /\ SumOfBooks(c, to, S) \in [S -> Int]
        /\ Turnover(SumOfBooks(c, from, S), SumOfBooks(c, to, S), closes) \in Int
        /\ Total(Scaled(c, EachTrades(from, to, closes))) \in Int
        /\ Turnover(SumOfBooks(c, from, S), SumOfBooks(c, to, S), closes)
              <= Total(Scaled(c, EachTrades(from, to, closes)))
        /\ D = {1} => Turnover(SumOfBooks(c, from, S), SumOfBooks(c, to, S), closes)
                        = Total(Scaled(c, EachTrades(from, to, closes)))
    <3>1. /\ SumOfBooks(c, to, S) \in [S -> Int]
          /\ Turnover(SumOfBooks(c, from, S), SumOfBooks(c, to, S), closes) \in Int
          /\ Total(Scaled(c, EachTrades(from, to, closes))) \in Int
          /\ Turnover(SumOfBooks(c, from, S), SumOfBooks(c, to, S), closes)
              <= Total(Scaled(c, EachTrades(from, to, closes)))
      BY ONLY <2>1, <2>2, <2>3, <2>5, <2>6, <2>7, SumTrades
    <3>2. ASSUME D = {1}
          PROVE  Turnover(SumOfBooks(c, from, S), SumOfBooks(c, to, S), closes)
                   = Total(Scaled(c, EachTrades(from, to, closes)))
      <4>1. c \in [{1} -> Nat]
        BY ONLY <2>5, <3>2
      <4>2. from \in [{1} -> [S -> Int]]
        BY ONLY <2>6, <3>2
      <4>3. to \in [{1} -> [S -> Int]]
        BY ONLY <2>7, <3>2
      <4> QED
        BY ONLY <2>1, <2>3, <4>1, <4>2, <4>3, TradesAlone
    <3> QED
      BY ONLY <3>1, <3>2
  <2> QED
    BY <2>4 DEF Trading, BookTrading, closes, from, to, D, c
<1>5. G <= H
  <2> DEFINE from == Flats(k)
             to == Positions(k)
             D == Components
             c == Shares
             b == SumOfBooks(c, to, S)
  <2>1. IsFiniteSet(D) /\ IsFiniteSet(S) /\ c \in [D -> Nat] /\ FALSE \in BOOLEAN
    BY <1>2
  <2>2. from \in [D -> [S -> Int]] /\ to \in [D -> [S -> Int]]
    BY <1>2 DEF Flats
  <2>3. \A i \in D, s \in S : from[i][s] = 0
    BY <1>2 DEF Flats, Zero
  <2>4. b \in [S -> Int]
    BY <1>4
  <2> HIDE DEF from, to, D, c
  <2>5. SumOfBooks(c, from, S) = [s \in S |-> 0]
    BY ONLY <2>1, <2>2, <2>3, SumOfFlats
  <2>6. Turnover(SumOfBooks(c, from, S), b, FALSE) <= Total(Scaled(c, EachTrades(from, to, FALSE)))
    BY ONLY <2>1, <2>2, SumTrades DEF b
  <2> HIDE DEF b
  <2>7. RowSize(b) = Turnover(Zero(b), b, FALSE) /\ Zero(b) = [s \in S |-> 0]
    BY ONLY <2>1, <2>4, TurnoverType
  <2> QED
    BY <2>5, <2>6, <2>7 DEF Holding, b, from, to, c
<1> HIDE DEF A, H, E, F, B, G
<1>6. B * rate <= A * rate /\ A * rate = rate * A /\ B * rate \in Int /\ A * rate \in Int
  BY <1>3, <1>4, RateOrder
<1>7. Len(loaded) = 1 => Components = {1}
  BY <1>3
<1> DEFINE p == B * rate
           q == rate * A
<1>8. /\ p \in Int /\ q \in Int /\ p <= q /\ E \in Int /\ F \in Int
      /\ SleeveRow(k).cost = q /\ SleeveRow(k).net = E + F - q
      /\ NettedIn(k).cost = p /\ NettedIn(k).net = E + F - p
      /\ Len(loaded) = 1 => p = q
  BY <1>1, <1>4, <1>6, <1>7
<1> HIDE DEF p, q
<1>9. /\ NettedIn(k).cost <= SleeveRow(k).cost
      /\ NettedIn(k).net - SleeveRow(k).net = SleeveRow(k).cost - NettedIn(k).cost
      /\ Len(loaded) = 1 => NettedIn(k).net = SleeveRow(k).net
  BY ONLY <1>8
<1> QED
  BY <1>1, <1>4, <1>5, <1>9

(* In no state of the account does the netted book trade, hold or cost     *)
(* more than the sleeves it nets, and its result is better by what it      *)
(* saves (accounting.py).                                                  *)
THEOREM NettingSaves == Spec => []NettingOnlySaves
<1>1. PortfolioInv => NettingOnlySaves
  <2> SUFFICES ASSUME PortfolioInv, status \in {"accounting", "analysed"}, Comparable,
                      NEW k \in DOMAIN netted
               PROVE  /\ netted[k].turnover <= sleeve[k].turnover
                      /\ netted[k].gross <= sleeve[k].gross
                      /\ netted[k].cost <= sleeve[k].cost
                      /\ netted[k].net - sleeve[k].net = sleeve[k].cost - netted[k].cost
                      /\ Len(loaded) = 1 => netted[k].net = sleeve[k].net
    BY DEF NettingOnlySaves
  <2>1. /\ Len(netted) \in Nat /\ \A j \in 1..Len(netted) : j <= Len(grid)
        /\ netted = [j \in 1..Len(netted) |-> NettedIn(j)]
        /\ sleeve = [j \in 1..Len(netted) |-> SleeveRow(j)]
    BY DEF PortfolioInv, AccountInv
  <2>2. k \in 1..Len(netted) /\ netted[k] = NettedIn(k) /\ sleeve[k] = SleeveRow(k)
    BY <2>1
  <2> DEFINE S == DOMAIN loaded[1].curve[1].weights
             rate == Identity[loaded[1].experiment].cost
  <2>3. Aligned(S, rate)
    BY StrictIsAligned
  <2> HIDE DEF S, rate
  <2>4. Len(grid) \in Nat
    BY <2>3 DEF Aligned
  <2>5. k \in 1..Len(grid)
    BY <2>1, <2>2, <2>4
  <2> QED
    BY <2>2, <2>3, <2>5, PeriodSaves
<1> QED
  BY <1>1, PortfolioInvariant, PTL

-----------------------------------------------------------------------------
(* Legs. *)

(* A sum over a set in two parts. *)
Over(f, A) == [x \in A |-> f[x]]
Split(D, A, B, f) ==
  IsFiniteSet(D) /\ f \in [D -> Int] /\ A \cup B = D /\ A \cap B = {}

LEMMA TotalOfUnion ==
  ASSUME NEW D, NEW A, NEW B, NEW f, Split(D, A, B, f)
  PROVE  Total(f) = Total(Over(f, A)) + Total(Over(f, B))
<1>0. /\ IsFiniteSet(D) /\ f \in [D -> Int] /\ A \cup B = D /\ A \cap B = {}
      /\ A \in SUBSET D /\ B \in SUBSET D
  BY DEF Split
<1> DEFINE a == [x \in D |-> IF x \in A THEN f[x] ELSE 0]
           b == [x \in D |-> IF x \in B THEN f[x] ELSE 0]
<1>1. a \in [D -> Int] /\ b \in [D -> Int] /\ \A x \in D : f[x] = a[x] + b[x]
  BY <1>0
<1>2. [x \in A |-> f[x]] \in [A -> Int] /\ [x \in B |-> f[x]] \in [B -> Int]
  BY <1>0
<1>3. Total(a) = Total([x \in A |-> f[x]])
  <2>1. \A x \in D : IF x \in A THEN a[x] = [y \in A |-> f[y]][x] ELSE a[x] = 0
    BY <1>0
  <2> DEFINE g == [x \in A |-> f[x]]
  <2> HIDE DEF a, g
  <2> QED
    BY <1>0, <1>1, <1>2, <2>1, TotalOfSupport DEF g
<1>4. Total(b) = Total([x \in B |-> f[x]])
  <2>1. \A x \in D : IF x \in B THEN b[x] = [y \in B |-> f[y]][x] ELSE b[x] = 0
    BY <1>0
  <2> DEFINE g == [x \in B |-> f[x]]
  <2> HIDE DEF b, g
  <2> QED
    BY <1>0, <1>1, <1>2, <2>1, TotalOfSupport DEF g
<1> HIDE DEF a, b
<1>5. Total(f) = Total(a) + Total(b)
  BY <1>0, <1>1, TotalAdds
<1> QED
  BY <1>3, <1>4, <1>5 DEF Over

(* A sum over what names the nonzero terms of another.                     *)
LEMMA TotalOfNames ==
  ASSUME NEW S, IsFiniteSet(S), NEW g \in [S -> Int], NEW P,
         NEW b \in Bijection(P, {s \in S : g[s] # 0}),
         NEW f \in [P -> Int], \A x \in P : f[x] = g[b[x]]
  PROVE  IsFiniteSet(P) /\ Total(f) = Total(g)
<1> DEFINE T == {s \in S : g[s] # 0}
           h == [s \in T |-> g[s]]
<1>1. T \in SUBSET S /\ IsFiniteSet(T)
  BY FS_Subset
<1>2. b \in Bijection(P, T)
  OBVIOUS
<1>3. h \in [T -> Int] /\ \A s \in S : IF s \in T THEN g[s] = h[s] ELSE g[s] = 0
  OBVIOUS
<1>4. \A x \in P : b[x] \in T /\ f[x] = h[b[x]]
  BY DEF Bijection, Injection
<1> HIDE DEF T, h
<1>5. IsFiniteSet(P)
  <2>1. ExistsBijection(P, T)
    BY <1>2 DEF ExistsBijection
  <2>2. ExistsBijection(T, P)
    BY <2>1, Fun_ExistsBijSymmetric
  <2> QED
    BY <1>1, <2>2, FS_Bijection
<1>6. Total(f) = Total(h)
  BY <1>2, <1>3, <1>4, <1>5, TotalRenamed
<1>7. Total(g) = Total(h)
  BY <1>1, <1>3, TotalOfSupport
<1> QED
  BY <1>5, <1>6, <1>7

(* What a book of N rows of the symbols S holds before a period, whether   *)
(* it closes after it, and the legs of a symbol.                           *)
HeldOf(w, k) == IF k = 1 \/ FoldOf(k - 1) # FoldOf(k) THEN Zero(w[k]) ELSE w[k - 1]
EndsAt(w, k) == k = Len(w) \/ FoldOf(k + 1) # FoldOf(k)
MoveLeg(w, k, s) ==
  [period |-> k, symbol |-> s, forced |-> FALSE, delta |-> w[k][s] - HeldOf(w, k)[s],
   type |-> EventType(HeldOf(w, k)[s], w[k][s])]
CloseLeg(w, k, s) ==
  [period |-> k, symbol |-> s, forced |-> TRUE, delta |-> -w[k][s], type |-> "forced_fold_close"]

LegOf(w, k, s, leg) ==
  \/ w[k][s] # HeldOf(w, k)[s] /\ leg = MoveLeg(w, k, s)
  \/ EndsAt(w, k) /\ w[k][s] # 0 /\ leg = CloseLeg(w, k, s)

LEMMA BookLegsAre ==
  ASSUME NEW S, NEW w \in Seq([S -> Int])
  PROVE  \A leg : leg \in BookLegs(w) <=> \E k \in 1..Len(w), s \in S : LegOf(w, k, s, leg)
<1> DEFINE cells == (DOMAIN w) \X (DOMAIN w[1])
           before(k, s) == IF k = 1 \/ FoldOf(k - 1) # FoldOf(k) THEN 0 ELSE w[k - 1][s]
           moves == {[period |-> x[1], symbol |-> x[2], forced |-> FALSE,
                      delta |-> w[x[1]][x[2]] - before(x[1], x[2]),
                      type |-> EventType(before(x[1], x[2]), w[x[1]][x[2]])] :
                       x \in {y \in cells : w[y[1]][y[2]] # before(y[1], y[2])}}
           closings == {[period |-> x[1], symbol |-> x[2], forced |-> TRUE, delta |-> -w[x[1]][x[2]],
                         type |-> "forced_fold_close"] :
                          x \in {y \in cells : EndsAt(w, y[1]) /\ w[y[1]][y[2]] # 0}}
<1>1. BookLegs(w) = moves \cup closings
  BY DEF BookLegs, EndsAt
<1>2. /\ Len(w) \in Nat /\ DOMAIN w = 1..Len(w)
      /\ \A k \in 1..Len(w) : w[k] \in [S -> Int] /\ DOMAIN w[k] = S
  OBVIOUS
<1>3. \A x : x \in cells <=> \E k \in 1..Len(w), s \in S : x = <<k, s>>
  <2>1. \A x : x \in cells <=> \E k \in 1..Len(w), s \in DOMAIN w[1] : x = <<k, s>>
    BY <1>2
  <2>2. Len(w) # 0 => DOMAIN w[1] = S
    BY <1>2
  <2>3. Len(w) = 0 => 1..Len(w) = {}
    OBVIOUS
  <2> QED
    BY <2>1, <2>2, <2>3
<1>7. /\ \A x \in cells : x[1] \in 1..Len(w) /\ x[2] \in S
      /\ \A k \in 1..Len(w), s \in S : <<k, s>> \in cells
  <2> HIDE DEF cells
  <2> QED
    BY <1>3
<1>4. \A k \in 1..Len(w), s \in S : before(k, s) = HeldOf(w, k)[s]
  BY <1>2 DEF HeldOf, Zero
<1> HIDE DEF cells, before
<1>5. \A leg : leg \in moves <=>
        \E k \in 1..Len(w), s \in S : w[k][s] # HeldOf(w, k)[s] /\ leg = MoveLeg(w, k, s)
  <2>1. \A leg : leg \in moves <=>
          \E x \in cells : /\ w[x[1]][x[2]] # before(x[1], x[2])
                           /\ leg = [period |-> x[1], symbol |-> x[2], forced |-> FALSE,
                                     delta |-> w[x[1]][x[2]] - before(x[1], x[2]),
                                     type |-> EventType(before(x[1], x[2]), w[x[1]][x[2]])]
    OBVIOUS
  <2> HIDE DEF moves
  <2>2. ASSUME NEW leg \in moves
        PROVE  \E k \in 1..Len(w), s \in S : w[k][s] # HeldOf(w, k)[s] /\ leg = MoveLeg(w, k, s)
    <3>1. PICK x \in cells : /\ w[x[1]][x[2]] # before(x[1], x[2])
                             /\ leg = [period |-> x[1], symbol |-> x[2], forced |-> FALSE,
                                       delta |-> w[x[1]][x[2]] - before(x[1], x[2]),
                                       type |-> EventType(before(x[1], x[2]), w[x[1]][x[2]])]
      BY <2>1
    <3> DEFINE k == x[1]
               s == x[2]
    <3>2. k \in 1..Len(w) /\ s \in S
      BY <1>7
    <3> HIDE DEF k, s
    <3>3. before(k, s) = HeldOf(w, k)[s]
      BY <1>4, <3>2
    <3>4. w[k][s] # HeldOf(w, k)[s] /\ leg = MoveLeg(w, k, s)
      BY <3>1, <3>3 DEF MoveLeg, k, s
    <3> QED
      BY <3>2, <3>4
  <2>3. ASSUME NEW k \in 1..Len(w), NEW s \in S, w[k][s] # HeldOf(w, k)[s]
        PROVE  MoveLeg(w, k, s) \in moves
    <3> DEFINE x == <<k, s>>
    <3>1. x \in cells /\ x[1] = k /\ x[2] = s
      BY <1>7
    <3> HIDE DEF x
    <3> QED
      BY <1>4, <2>1, <2>3, <3>1 DEF MoveLeg
  <2> QED
    BY <2>2, <2>3
<1>6. \A leg : leg \in closings <=>
        \E k \in 1..Len(w), s \in S : EndsAt(w, k) /\ w[k][s] # 0 /\ leg = CloseLeg(w, k, s)
  <2>1. \A leg : leg \in closings <=>
          \E x \in cells : /\ EndsAt(w, x[1]) /\ w[x[1]][x[2]] # 0
                           /\ leg = [period |-> x[1], symbol |-> x[2], forced |-> TRUE,
                                     delta |-> -w[x[1]][x[2]], type |-> "forced_fold_close"]
    OBVIOUS
  <2> HIDE DEF closings
  <2>2. ASSUME NEW leg \in closings
        PROVE  \E k \in 1..Len(w), s \in S : EndsAt(w, k) /\ w[k][s] # 0 /\ leg = CloseLeg(w, k, s)
    BY <1>7, <2>1 DEF CloseLeg
  <2>3. ASSUME NEW k \in 1..Len(w), NEW s \in S, EndsAt(w, k) /\ w[k][s] # 0
        PROVE  CloseLeg(w, k, s) \in closings
    <3> DEFINE x == <<k, s>>
    <3>1. x \in cells /\ x[1] = k /\ x[2] = s
      BY <1>7
    <3> HIDE DEF x
    <3> QED
      BY <2>1, <2>3, <3>1 DEF CloseLeg
  <2> QED
    BY <2>2, <2>3
<1> HIDE DEF moves, closings
<1> QED
  BY <1>1, <1>5, <1>6 DEF LegOf

(* The legs L of the symbols where g is not zero are P, and f what they    *)
(* are worth.                                                              *)
Named(S, g, L, P, f) ==
  /\ IsFiniteSet(S) /\ g \in [S -> Int] /\ f \in [P -> Int]
  /\ \A s \in S : L[s].symbol = s
  /\ \A s \in S : g[s] # 0 => L[s] \in P /\ f[L[s]] = g[s]
  /\ \A x \in P : \E s \in S : g[s] # 0 /\ x = L[s]

LEMMA TotalOfLegs ==
  ASSUME NEW S, NEW g, NEW L, NEW P, NEW f, Named(S, g, L, P, f)
  PROVE  IsFiniteSet(P) /\ Total(f) = Total(g)
<1>0. /\ IsFiniteSet(S) /\ g \in [S -> Int] /\ f \in [P -> Int]
      /\ \A s \in S : L[s].symbol = s
      /\ \A s \in S : g[s] # 0 => L[s] \in P /\ f[L[s]] = g[s]
      /\ \A x \in P : \E s \in S : g[s] # 0 /\ x = L[s]
  BY DEF Named
<1> DEFINE b == [x \in P |-> x.symbol]
           T == {s \in S : g[s] # 0}
<1>1. \A x \in P : b[x] \in T /\ x = L[b[x]] /\ f[x] = g[b[x]]
  BY <1>0
<1>2. \A s \in T : L[s] \in P /\ b[L[s]] = s
  BY <1>0
<1>3. b = [x \in P |-> b[x]]
  OBVIOUS
<1> HIDE DEF b
<1>4. b \in Bijection(P, T)
  <2> HIDE DEF T
  <2>1. b \in [P -> T]
    BY <1>1, <1>3
  <2>2. IsInjective(b)
    BY <1>1, <2>1 DEF IsInjective
  <2>3. \A t \in T : \E x \in P : b[x] = t
    BY <1>2
  <2> QED
    BY <2>1, <2>2, <2>3 DEF Bijection, Injection, Surjection
<1>5. \A x \in P : f[x] = g[b[x]]
  BY <1>1
<1> QED
  BY <1>0, <1>4, <1>5, TotalOfNames

(* What the legs of a period trade is what the account trades in it. *)
LEMMA BookTraded ==
  ASSUME NEW S, IsFiniteSet(S), NEW w \in Seq([S -> Int]), NEW k \in 1..Len(w)
  PROVE  /\ HeldOf(w, k) \in [S -> Int]
         /\ Traded(InPeriod(BookLegs(w), k)) = Turnover(HeldOf(w, k), w[k], EndsAt(w, k))
<1> DEFINE P == InPeriod(BookLegs(w), k)
           held == HeldOf(w, k)
           now == w[k]
           ends == EndsAt(w, k)
           M == {leg \in P : ~leg.forced}
           C == {leg \in P : leg.forced}
           f == [leg \in P |-> Size(leg.delta)]
           m == [s \in S |-> Size(now[s] - held[s])]
           c == [s \in S |-> IF ends THEN Size(now[s]) ELSE 0]
           move == [s \in S |-> MoveLeg(w, k, s)]
           close == [s \in S |-> CloseLeg(w, k, s)]
<1>1. now \in [S -> Int] /\ held \in [S -> Int]
  <2>1. \A j \in 1..Len(w) : w[j] \in [S -> Int]
    OBVIOUS
  <2>2. k # 1 => k - 1 \in 1..Len(w)
    OBVIOUS
  <2>3. Zero(w[k]) \in [S -> Int]
    BY <2>1 DEF Zero
  <2> QED
    BY <2>1, <2>2, <2>3 DEF HeldOf
<1>2. \A leg : leg \in P <=>
        \E s \in S : \/ now[s] # held[s] /\ leg = move[s]
                     \/ ends /\ now[s] # 0 /\ leg = close[s]
  <2>1. \A leg : leg \in BookLegs(w) <=> \E j \in 1..Len(w), s \in S : LegOf(w, j, s, leg)
    BY BookLegsAre
  <2>2. \A j, s : MoveLeg(w, j, s).period = j /\ CloseLeg(w, j, s).period = j
    BY DEF MoveLeg, CloseLeg
  <2> QED
    <3>1. \A leg, j, s : LegOf(w, j, s, leg) => leg.period = j
      BY <2>2 DEF LegOf
    <3>2. \A leg : leg \in P <=> \E s \in S : LegOf(w, k, s, leg)
      BY <2>1, <3>1 DEF InPeriod
    <3> HIDE DEF P
    <3> QED
      BY <3>2 DEF LegOf
<1>3. \A s \in S : /\ move[s].symbol = s /\ move[s].forced = FALSE /\ move[s].delta = now[s] - held[s]
                   /\ close[s].symbol = s /\ close[s].forced = TRUE /\ close[s].delta = -now[s]
  BY DEF MoveLeg, CloseLeg
<1> HIDE DEF P, held, now, ends, move, close
<1>4. f \in [P -> Int]
  <2> SUFFICES ASSUME NEW leg \in P PROVE Size(leg.delta) \in Int
    OBVIOUS
  <2>1. PICK s \in S : \/ now[s] # held[s] /\ leg = move[s]
                       \/ ends /\ now[s] # 0 /\ leg = close[s]
    BY <1>2
  <2>2. leg.delta \in Int
    <3>1. now[s] \in Int /\ held[s] \in Int
      BY <1>1
    <3> QED
      BY <1>3, <2>1, <3>1
  <2> QED
    BY <2>2, SizeType
<1>5. m \in [S -> Int] /\ c \in [S -> Int]
  <2>1. \A s \in S : now[s] \in Int /\ now[s] - held[s] \in Int
    BY <1>1
  <2>2. \A s \in S : Size(now[s]) \in Int /\ Size(now[s] - held[s]) \in Int
    BY <2>1, SizeType
  <2> QED
    BY <2>2
<1>6. IsFiniteSet(M) /\ Total(Over(f, M)) = Total(m)
  <2> DEFINE fM == [x \in M |-> f[x]]
  <2>1. fM \in [M -> Int]
    BY <1>4
  <2>2. \A s \in S : move[s].symbol = s
    BY <1>3
  <2>3. \A s \in S : m[s] # 0 => move[s] \in M /\ fM[move[s]] = m[s]
    <3> SUFFICES ASSUME NEW s \in S, m[s] # 0 PROVE move[s] \in M /\ fM[move[s]] = m[s]
      OBVIOUS
    <3>1. now[s] # held[s]
      BY <1>1 DEF Size
    <3>2. move[s] \in P /\ move[s] \in M
      BY <1>2, <1>3, <3>1
    <3> QED
      BY <1>3, <3>2
  <2>4. \A x \in M : \E s \in S : m[s] # 0 /\ x = move[s]
    <3> SUFFICES ASSUME NEW x \in M PROVE \E s \in S : m[s] # 0 /\ x = move[s]
      OBVIOUS
    <3>1. PICK s \in S : \/ now[s] # held[s] /\ x = move[s]
                         \/ ends /\ now[s] # 0 /\ x = close[s]
      BY <1>2
    <3>2. now[s] # held[s] /\ x = move[s]
      BY <1>3, <3>1
    <3>3. m[s] # 0
      BY <1>1, <3>2 DEF Size
    <3> QED
      BY <3>2, <3>3
  <2> HIDE DEF M, fM, m
  <2>6. m \in [S -> Int]
    BY <1>5
  <2>5. Named(S, m, move, M, fM)
    BY <2>1, <2>2, <2>3, <2>4, <2>6 DEF Named
  <2>7. IsFiniteSet(M) /\ Total(fM) = Total(m)
    BY ONLY <2>5, TotalOfLegs
  <2> QED
    BY <2>7 DEF fM, Over
<1>7. IsFiniteSet(C) /\ Total(Over(f, C)) = Total(c)
  <2> DEFINE fC == [x \in C |-> f[x]]
  <2>1. fC \in [C -> Int]
    BY <1>4
  <2>2. \A s \in S : close[s].symbol = s
    BY <1>3
  <2>3. \A s \in S : c[s] # 0 => close[s] \in C /\ fC[close[s]] = c[s]
    <3> SUFFICES ASSUME NEW s \in S, c[s] # 0 PROVE close[s] \in C /\ fC[close[s]] = c[s]
      OBVIOUS
    <3>1. ends /\ now[s] # 0 /\ now[s] \in Int
      BY <1>1 DEF Size
    <3>2. close[s] \in P /\ close[s] \in C
      BY <1>2, <1>3, <3>1
    <3>3. Size(-now[s]) = Size(now[s])
      BY <3>1 DEF Size
    <3> QED
      BY <1>3, <3>1, <3>2, <3>3
  <2>4. \A x \in C : \E s \in S : c[s] # 0 /\ x = close[s]
    <3> SUFFICES ASSUME NEW x \in C PROVE \E s \in S : c[s] # 0 /\ x = close[s]
      OBVIOUS
    <3>1. PICK s \in S : \/ now[s] # held[s] /\ x = move[s]
                         \/ ends /\ now[s] # 0 /\ x = close[s]
      BY <1>2
    <3>2. ends /\ now[s] # 0 /\ x = close[s]
      BY <1>3, <3>1
    <3>3. c[s] # 0
      BY <1>1, <3>2 DEF Size
    <3> QED
      BY <3>2, <3>3
  <2> HIDE DEF C, fC, c
  <2>6. c \in [S -> Int]
    BY <1>5
  <2>5. Named(S, c, close, C, fC)
    BY <2>1, <2>2, <2>3, <2>4, <2>6 DEF Named
  <2>7. IsFiniteSet(C) /\ Total(fC) = Total(c)
    BY ONLY <2>5, TotalOfLegs
  <2> QED
    BY <2>7 DEF fC, Over
<1>8. Total(f) = Total(m) + Total(c)
  <2>1. M \cup C = P /\ M \cap C = {} /\ M \in SUBSET P /\ C \in SUBSET P
    OBVIOUS
  <2> HIDE DEF M, C, f, m, c
  <2>2. IsFiniteSet(P)
    <3>1. IsFiniteSet(M \cup C)
      BY <1>6, <1>7, FS_Union
    <3> QED
      BY <2>1, <3>1
  <2>4. Split(P, M, C, f)
    BY <1>4, <2>1, <2>2 DEF Split
  <2>3. Total(f) = Total(Over(f, M)) + Total(Over(f, C))
    BY ONLY <2>4, TotalOfUnion
  <2> QED
    BY <1>6, <1>7, <2>3
<1>9. Turnover(held, now, ends) = Total(Plus(m, c))
  <2>1. DOMAIN now = S
    BY <1>1
  <2>2. Plus(m, c) = [s \in S |-> Size(now[s] - held[s]) + (IF ends THEN Size(now[s]) ELSE 0)]
    BY DEF Plus
  <2> QED
    BY <2>1, <2>2 DEF Turnover
<1>10. Traded(P) = Total(f)
  BY DEF Traded
<1> HIDE DEF f, m, c
<1>11. Total(Plus(m, c)) = Total(m) + Total(c)
  BY <1>5, SumsOf
<1> QED
  BY <1>1, <1>8, <1>9, <1>10, <1>11 DEF P, held, now, ends
(* A finite set of numbers has a number of every rank. *)
LEMMA Largest ==
  ASSUME NEW D \in SUBSET Int, IsFiniteSet(D), D # {}
  PROVE  \E m \in D : \A u \in D : u <= m
<1> DEFINE P == {T \in SUBSET D : T # {} => \E m \in T : \A u \in T : u <= m}
<1>1. {} \in P
  OBVIOUS
<1>2. ASSUME NEW T \in SUBSET D, T # {}, \A x \in T : T \ {x} \in P PROVE T \in P
  <2>1. PICK x \in T : TRUE
    BY <1>2
  <2>2. CASE T \ {x} = {}
    <3>1. x \in Int /\ \A u \in T : u = x
      BY <2>1, <2>2
    <3> QED
      BY <3>1
  <2>3. CASE T \ {x} # {}
    <3>1. PICK m \in T \ {x} : \A u \in T \ {x} : u <= m
      BY <1>2, <2>3
    <3>2. m \in Int /\ x \in Int /\ T \subseteq Int
      BY <3>1
    <3>3. CASE x <= m
      <4>1. \A u \in T : u <= m
        BY <3>1, <3>3
      <4> QED
        BY <3>1, <4>1
    <3>4. CASE ~(x <= m)
      <4>1. \A u \in T : u <= x
        BY <3>1, <3>2, <3>4
      <4> QED
        BY <4>1
    <3> QED
      BY <3>3, <3>4
  <2> QED
    BY <2>2, <2>3
<1> HIDE DEF P
<1>3. D \in P
  BY <1>1, <1>2, SubsetInduction
<1> QED
  BY <1>3 DEF P

UpTo(T, t) == {u \in T : u <= t}
LEMMA Ranks ==
  ASSUME NEW D \in SUBSET Int, IsFiniteSet(D)
  PROVE  \A k \in 1..Cardinality(D) : \E t \in D : Cardinality(UpTo(D, t)) = k
<1> DEFINE P == {T \in SUBSET D : \A k \in 1..Cardinality(T) : \E t \in T : Cardinality(UpTo(T, t)) = k}
<1>1. {} \in P
  BY FS_EmptySet
<1>2. ASSUME NEW T \in SUBSET D, T # {}, \A x \in T : T \ {x} \in P PROVE T \in P
  <2>1. IsFiniteSet(T) /\ T \in SUBSET Int
    BY FS_Subset
  <2>2. PICK m \in T : \A u \in T : u <= m
    BY <1>2, <2>1, Largest
  <2> DEFINE R == T \ {m}
             n == Cardinality(T)
             r == Cardinality(R)
  <2>3. n \in Nat /\ r \in Nat /\ r = n - 1
    <3>1. r = n - 1 /\ IsFiniteSet(R)
      BY <2>1, <2>2, FS_RemoveElement
    <3> QED
      BY <2>1, <3>1, FS_CardinalityType
  <2>4. R \in P
    BY <1>2, <2>2
  <2>5. ASSUME NEW k \in 1..n PROVE \E t \in T : Cardinality(UpTo(T, t)) = k
    <3>1. CASE k = n
      <4>1. UpTo(T, m) = T
        BY <2>2 DEF UpTo
      <4> QED
        BY <2>2, <3>1, <4>1
    <3>2. CASE k # n
      <4>1. k \in 1..r
        BY <2>3, <3>2
      <4>2. PICK t \in R : Cardinality(UpTo(R, t)) = k
        BY <2>4, <4>1
      <4>3. t \in Int /\ m \in Int /\ t <= m /\ t # m
        BY <2>1, <2>2, <4>2
      <4>4. UpTo(T, t) = UpTo(R, t)
        BY <4>3 DEF UpTo
      <4> QED
        BY <4>2, <4>4
    <3> QED
      BY <3>1, <3>2
  <2> QED
    BY <2>5
<1> HIDE DEF P
<1>3. D \in P
  BY <1>1, <1>2, SubsetInduction
<1> QED
  BY <1>3 DEF P

LEMMA AscendingOf ==
  ASSUME NEW D \in SUBSET Int, IsFiniteSet(D)
  PROVE  /\ Len(Ascending(D)) \in Nat /\ DOMAIN Ascending(D) = 1..Len(Ascending(D))
         /\ \A k \in 1..Len(Ascending(D)) : Ascending(D)[k] \in D
<1> DEFINE n == Cardinality(D)
<1>1. n \in Nat
  BY FS_CardinalityType
<1>2. \A k \in 1..n : \E t \in D : Cardinality({u \in D : u <= t}) = k
  BY Ranks DEF UpTo
<1>3. Ascending(D) = [k \in 1..n |-> CHOOSE t \in D : Cardinality({u \in D : u <= t}) = k]
  BY DEF Ascending
<1> HIDE DEF n
<1>4. \A k \in 1..n : Ascending(D)[k] \in D
  BY <1>2, <1>3
<1>5. Ascending(D) \in Seq(D) /\ Len(Ascending(D)) = n
  <2> DEFINE f == Ascending(D)
  <2>1. f = [k \in 1..n |-> f[k]]
    BY <1>3
  <2> HIDE DEF f
  <2> QED
    BY <1>1, <1>4, <2>1 DEF f
<1> QED
  BY <1>1, <1>4, <1>5

(* In every period each component has a row that holds the symbols. *)
Rows(S) ==
  /\ S = DOMAIN loaded[1].curve[1].weights /\ IsFiniteSet(S) /\ IsFiniteSet(Components)
  /\ Len(grid) \in Nat /\ DOMAIN grid = 1..Len(grid)
  /\ \A i \in Components : loaded[i].capital \in Nat
  /\ \A i \in Components, k \in 1..Len(grid) : GridRow(i, k).weights \in [S -> Int]

LEMMA RowsOfPeriods ==
  ASSUME PortfolioInv, status \in {"accounting", "analysed"}
  PROVE  Rows(DOMAIN loaded[1].curve[1].weights)
<1> DEFINE S == DOMAIN loaded[1].curve[1].weights
           c(i) == loaded[i].curve
<1>1. Curves(S)
  BY ComponentCurves
<1> HIDE DEF S
<1>2. /\ S \in SUBSET Symbols /\ Len(loaded) \in Nat /\ Components = 1..Len(loaded) /\ 1 \in Components
      /\ \A i \in Components : loaded[i].capital \in Nat /\ c(i) \in Seq(CurveRow(S))
  BY <1>1 DEF Curves
<1>3. IsFiniteSet(S) /\ IsFiniteSet(Components)
  <2>1. \A a, b \in Int : IsFiniteSet(a..b)
    BY ONLY FS_Interval
  <2>2. IsFiniteSet(Components)
    BY <1>2, <2>1
  <2>3. IsFiniteSet(S)
    BY <1>2, Constants, FS_Subset
  <2> QED
    BY <2>2, <2>3
<1>4. \A i \in Components : /\ Len(c(i)) \in Nat /\ DOMAIN c(i) = 1..Len(c(i))
                            /\ \A k \in 1..Len(c(i)) : c(i)[k].time \in Int /\ c(i)[k].weights \in [S -> Int]
  <2> SUFFICES ASSUME NEW i \in Components
               PROVE  /\ Len(c(i)) \in Nat /\ DOMAIN c(i) = 1..Len(c(i))
                      /\ \A k \in 1..Len(c(i)) : c(i)[k].time \in Int /\ c(i)[k].weights \in [S -> Int]
    OBVIOUS
  <2>1. c(i) \in Seq(CurveRow(S))
    BY <1>2
  <2> HIDE DEF c
  <2> QED
    BY <2>1, CurveShape
<1>5. CASE Portfolio.policy = "strict"
  <2>1. InStep
    BY <1>5, StrictIsInStep
  <2>2. \A i \in Components, k \in 1..Len(grid) : GridRow(i, k).weights \in [S -> Int]
    BY <1>4, <2>1 DEF InStep
  <2> QED
    BY <1>2, <1>3, <2>1, <2>2 DEF Rows, InStep, S
<1>6. CASE Portfolio.policy # "strict"
  <2> DEFINE D == CommonTimes
  <2>1. grid = Ascending(D)
    BY <1>6 DEF PortfolioInv, AccountInv
  <2>2. \A i \in Components : /\ DOMAIN CurveTimes(i) = 1..Len(c(i))
                              /\ \A k \in 1..Len(c(i)) : CurveTimes(i)[k] = c(i)[k].time
    BY <1>4 DEF CurveTimes
  <2>3. \A i \in Components : \A t : t \in TimeSet(i) <=> \E k \in 1..Len(c(i)) : t = c(i)[k].time
    BY <2>2 DEF TimeSet, Range
  <2>4. D \subseteq TimeSet(1) /\ \A t \in D, i \in Components : t \in TimeSet(i)
    BY <1>2 DEF CommonTimes
  <2>5. D \in SUBSET Int
    BY <1>2, <1>4, <2>3, <2>4
  <2>6. IsFiniteSet(D)
    <3> DEFINE n == Len(c(1))
    <3>1. n \in Nat /\ DOMAIN CurveTimes(1) = 1..n
          /\ \A t : t \in TimeSet(1) <=> \E k \in 1..n : t = CurveTimes(1)[k]
      <4>1. 1 \in Components /\ n \in Nat /\ DOMAIN CurveTimes(1) = 1..n
        BY <1>2, <1>4, <2>2
      <4>2. \A k \in 1..n : CurveTimes(1)[k] = c(1)[k].time
        BY <2>2, <4>1
      <4>3. \A t : t \in TimeSet(1) <=> \E k \in 1..n : t = c(1)[k].time
        BY <2>3, <4>1
      <4> QED
        BY <4>1, <4>2, <4>3
    <3> HIDE DEF n
    <3>4. IsFiniteSet(1..n)
      <4>1. \A a, b \in Int : IsFiniteSet(a..b)
        BY ONLY FS_Interval
      <4> QED
        BY <3>1, <4>1
    <3>5. CurveTimes(1) \in [1..n -> TimeSet(1)]
      <4>1. CurveTimes(1) = [k \in 1..n |-> CurveTimes(1)[k]]
        BY <3>1 DEF CurveTimes
      <4> QED
        BY <3>1, <4>1
    <3>2. CurveTimes(1) \in Surjection(1..n, TimeSet(1))
      BY <3>1, <3>5 DEF Surjection
    <3>3. IsFiniteSet(TimeSet(1))
      BY <3>4, <3>2, FS_Surjection
    <3> QED
      BY <2>4, <3>3, FS_Subset
  <2> HIDE DEF D
  <2>7. /\ Len(grid) \in Nat /\ DOMAIN grid = 1..Len(grid)
        /\ \A k \in 1..Len(grid) : grid[k] \in D
    BY <2>1, <2>5, <2>6, AscendingOf
  <2>8. ASSUME NEW i \in Components, NEW k \in 1..Len(grid) PROVE GridRow(i, k).weights \in [S -> Int]
    <3>1. PICK j \in 1..Len(c(i)) : grid[k] = c(i)[j].time
      BY <2>3, <2>4, <2>7
    <3>2. Range(c(i)) = {c(i)[n] : n \in 1..Len(c(i))}
      BY <1>4 DEF Range
    <3>3. GridRow(i, k) \in Range(c(i))
      <4>1. \E row \in Range(c(i)) : row.time = grid[k]
        BY <3>1, <3>2
      <4> QED
        BY <4>1 DEF GridRow, RowAt
    <3>4. PICK n \in 1..Len(c(i)) : GridRow(i, k) = c(i)[n]
      BY <3>2, <3>3
    <3> QED
      BY <1>4, <3>4
  <2> QED
    BY <1>2, <1>3, <2>7, <2>8 DEF Rows, S
<1> QED
  BY <1>5, <1>6

(* What the components hold of a symbol in a period, in shares, and the    *)
(* books that the reconstruction reads.                                    *)
Stakes(k, s) == [i \in Components |-> loaded[i].capital * GridRow(i, k).weights[s]]
NettedBook == [k \in DOMAIN netted |-> netted[k].weights]
Read(S) ==
  /\ Rows(S)
  /\ NettedBook \in Seq([S -> Int]) /\ Len(NettedBook) = Len(grid) /\ DOMAIN netted = 1..Len(grid)
  /\ \A i \in Components : ScaledWeights(i) \in Seq([S -> Int]) /\ Len(ScaledWeights(i)) = Len(grid)
  /\ \A k \in 1..Len(grid), s \in S :
       /\ Stakes(k, s) \in [Components -> Int] /\ NettedBook[k][s] = Total(Stakes(k, s))
       /\ \A i \in Components : ScaledWeights(i)[k][s] = Stakes(k, s)[i]
  /\ \A k \in 1..Len(grid) :
       /\ sleeve[k] = SleeveRow(k)
       /\ netted[k].turnover =
            Turnover(HeldOf(NettedBook, k), NettedBook[k], EndsAt(NettedBook, k))
  /\ legs = Reconstruction

LEMMA StakesAre ==
  ASSUME NEW S, Rows(S), NEW k \in 1..Len(grid), NEW s \in S
  PROVE  /\ Stakes(k, s) \in [Components -> Int]
         /\ Target(k)[s] = Total(Stakes(k, s)) /\ Total(Stakes(k, s)) \in Int
         /\ \A i \in Components : ScaledWeights(i)[k][s] = Stakes(k, s)[i]
<1>1. /\ S = DOMAIN loaded[1].curve[1].weights /\ IsFiniteSet(Components)
      /\ DOMAIN grid = 1..Len(grid)
      /\ \A i \in Components : loaded[i].capital \in Nat /\ GridRow(i, k).weights \in [S -> Int]
  BY DEF Rows
<1>2. \A i \in Components : loaded[i].capital * GridRow(i, k).weights[s] \in Int
  <2> SUFFICES ASSUME NEW i \in Components
               PROVE  loaded[i].capital * GridRow(i, k).weights[s] \in Int
    OBVIOUS
  <2>1. loaded[i].capital \in Int /\ GridRow(i, k).weights[s] \in Int
    BY <1>1
  <2> QED
    BY <2>1
<1>3. Stakes(k, s) \in [Components -> Int]
  BY <1>2 DEF Stakes
<1>4. Target(k)[s] = Total(Stakes(k, s))
  <2>1. Target(k)[s] = Weighted([i \in Components |-> GridRow(i, k).weights[s]])
    BY <1>1 DEF Target
  <2>2. [i \in Components |-> loaded[i].capital * [j \in Components |-> GridRow(j, k).weights[s]][i]]
          = Stakes(k, s)
    BY DEF Stakes
  <2> QED
    BY <2>1, <2>2 DEF Weighted
<1>5. Total(Stakes(k, s)) \in Int
  BY <1>1, <1>3, TotalIsSum
<1>6. \A i \in Components : ScaledWeights(i)[k][s] = Stakes(k, s)[i]
  BY <1>1 DEF ScaledWeights, Stakes
<1> QED
  BY <1>3, <1>4, <1>5, <1>6

LEMMA BooksAreRead ==
  ASSUME PortfolioInv, status = "analysed"
  PROVE  Read(DOMAIN loaded[1].curve[1].weights)
<1> DEFINE S == DOMAIN loaded[1].curve[1].weights
           N == Len(grid)
<1>1. Rows(S)
  BY RowsOfPeriods
<1>2. /\ Len(netted) \in Nat /\ \A k \in 1..Len(netted) : k <= N
      /\ netted = [k \in 1..Len(netted) |-> NettedIn(k)]
      /\ sleeve = [k \in 1..Len(netted) |-> SleeveRow(k)]
      /\ Period > N /\ legs = Reconstruction
  BY DEF PortfolioInv, AccountInv, LegsInv
<1>3. Flat = [s \in S |-> 0]
  BY DEF Flat, Zero
<1> HIDE DEF S
<1>4. N \in Nat /\ DOMAIN grid = 1..N /\ S = DOMAIN loaded[1].curve[1].weights
  BY <1>1 DEF Rows
<1> HIDE DEF N
<1>5. Len(netted) = N
  <2> DEFINE n == Len(netted)
  <2>1. n \in Nat /\ n + 1 > N /\ (n \in 1..n => n <= N)
    BY <1>2 DEF Period
  <2> HIDE DEF n
  <2>2. n = N
    BY <1>4, <2>1
  <2> QED
    BY <2>2 DEF n
<1>6. /\ DOMAIN netted = 1..N
      /\ \A k \in 1..N : netted[k] = NettedIn(k) /\ sleeve[k] = SleeveRow(k)
  <2>1. netted = [k \in 1..N |-> NettedIn(k)] /\ sleeve = [k \in 1..N |-> SleeveRow(k)]
    BY <1>2, <1>5
  <2> QED
    BY <2>1
<1>7. \A k \in 1..N : Target(k) \in [S -> Int]
  <2> SUFFICES ASSUME NEW k \in 1..N PROVE Target(k) \in [S -> Int]
    OBVIOUS
  <2>1. \A s \in S : Target(k)[s] \in Int
    BY <1>1, StakesAre DEF N
  <2>2. Target(k) = [s \in S |-> Target(k)[s]]
    BY <1>4 DEF Target
  <2> QED
    BY <2>1, <2>2
<1>13. \A k : /\ NettedIn(k).weights = Target(k)
              /\ NettedIn(k).turnover =
                   Turnover(HeldIn(k), Target(k), k = Len(grid) \/ FoldOf(k + 1) # FoldOf(k))
  BY DEF NettedIn
<1>8. /\ DOMAIN NettedBook = 1..N /\ NettedBook = [k \in 1..N |-> NettedBook[k]]
      /\ \A k \in 1..N : NettedBook[k] = Target(k)
  BY <1>6, <1>13 DEF NettedBook
<1>9. NettedBook \in Seq([S -> Int]) /\ Len(NettedBook) = N
  BY <1>4, <1>7, <1>8
<1>10. ASSUME NEW k \in 1..N
       PROVE  netted[k].turnover =
                Turnover(HeldOf(NettedBook, k), NettedBook[k], EndsAt(NettedBook, k))
  <2>1. Zero(Target(k)) = Flat
    BY <1>3, <1>7 DEF Zero
  <2>2. k # 1 => k - 1 \in 1..N
    BY <1>4
  <2>3. HeldOf(NettedBook, k) = HeldIn(k)
    BY <1>4, <1>8, <2>1, <2>2 DEF HeldOf, HeldIn
  <2>4. netted[k].turnover =
          Turnover(HeldIn(k), Target(k), k = Len(grid) \/ FoldOf(k + 1) # FoldOf(k))
    BY <1>6, <1>13
  <2> QED
    BY <1>8, <1>9, <2>3, <2>4 DEF EndsAt, N
<1>11. ASSUME NEW i \in Components
       PROVE  ScaledWeights(i) \in Seq([S -> Int]) /\ Len(ScaledWeights(i)) = N
  <2> DEFINE v == ScaledWeights(i)
  <2>1. /\ v = [k \in 1..N |-> v[k]]
        /\ \A k \in 1..N : v[k] = [s \in S |-> v[k][s]]
    BY <1>4 DEF ScaledWeights
  <2>2. \A k \in 1..N, s \in S : v[k][s] \in Int
    <3> SUFFICES ASSUME NEW k \in 1..N, NEW s \in S PROVE v[k][s] \in Int
      OBVIOUS
    <3>1. Stakes(k, s) \in [Components -> Int] /\ v[k][s] = Stakes(k, s)[i]
      BY <1>1, StakesAre DEF N
    <3> QED
      BY <3>1
  <2> HIDE DEF v
  <2>3. \A k \in 1..N : v[k] \in [S -> Int]
    BY <2>1, <2>2
  <2>4. v \in Seq([S -> Int]) /\ Len(v) = N
    BY <1>4, <2>1, <2>3
  <2> QED
    BY <2>4 DEF v
<1>12. ASSUME NEW k \in 1..N, NEW s \in S
       PROVE  /\ Stakes(k, s) \in [Components -> Int] /\ NettedBook[k][s] = Total(Stakes(k, s))
              /\ \A i \in Components : ScaledWeights(i)[k][s] = Stakes(k, s)[i]
  <2>1. k \in 1..Len(grid)
    BY DEF N
  <2> QED
    BY <1>1, <1>8, <2>1, StakesAre
<1> QED
  BY <1>1, <1>2, <1>6, <1>9, <1>10, <1>11, <1>12 DEF Read, N, S

(* The legs of the netted book trade what its account trades, and under    *)
(* the strict policy those of the components what the backtests trade.     *)
LEMMA LegsOfTheBook ==
  ASSUME NEW S, Read(S), NEW k \in 1..Len(grid)
  PROVE  Traded(InPeriod(legs.book, k)) = netted[k].turnover
<1>1. /\ IsFiniteSet(S) /\ NettedBook \in Seq([S -> Int]) /\ k \in 1..Len(NettedBook)
      /\ netted[k].turnover =
           Turnover(HeldOf(NettedBook, k), NettedBook[k], EndsAt(NettedBook, k))
      /\ legs = Reconstruction
  BY DEF Read, Rows
<1>2. legs.book = BookLegs(NettedBook)
  BY <1>1 DEF Reconstruction, NettedBook
<1>3. Traded(InPeriod(BookLegs(NettedBook), k))
        = Turnover(HeldOf(NettedBook, k), NettedBook[k], EndsAt(NettedBook, k))
  BY <1>1, BookTraded
<1> QED
  BY <1>1, <1>2, <1>3

LEMMA LegsOfOneSleeve ==
  ASSUME NEW S, Read(S), Curves(S), InStep, NEW k \in 1..Len(grid), NEW i \in Components
  PROVE  Traded(InPeriod(legs.parts[i], k)) = loaded[i].capital * GridRow(i, k).turnover
<1> DEFINE v == ScaledWeights(i)
           c == loaded[i].curve
           a == loaded[i].capital
           N == Len(grid)
           from == From(c, k)
           to == c[k].weights
           closes == Closes(c, k)
<1>1. /\ IsFiniteSet(S) /\ v \in Seq([S -> Int]) /\ Len(v) = N /\ N \in Nat /\ k \in 1..N
      /\ S = DOMAIN loaded[1].curve[1].weights /\ DOMAIN grid = 1..N /\ legs = Reconstruction
  BY DEF Read, Rows
<1>2. /\ a \in Nat /\ c \in Seq(CurveRow(S)) /\ Booked(c, Identity[loaded[i].experiment].cost)
      /\ 1 \in Components
  BY DEF Curves
<1>3. /\ Len(c) = N /\ \A j \in 1..N : GridRow(i, j) = c[j] /\ FoldOf(j) = c[j].fold
  BY <1>2 DEF InStep, FoldOf
<1>4. DOMAIN c = 1..N /\ \A j \in 1..N : c[j].weights \in [S -> Int]
  BY <1>2, <1>3, CurveShape
<1>5. \A j \in 1..N : v[j] = [s \in S |-> a * c[j].weights[s]]
  BY <1>1, <1>3 DEF ScaledWeights
<1>6. legs.parts[i] = BookLegs(v)
  BY <1>1 DEF Reconstruction
<1> HIDE DEF v, c, a, N
<1>7. from \in [S -> Int] /\ to \in [S -> Int]
  <2>1. k > 1 => k - 1 \in 1..N
    BY <1>1
  <2>2. Zero(c[k].weights) \in [S -> Int]
    BY <1>1, <1>4 DEF Zero
  <2> QED
    BY <1>1, <1>4, <2>1, <2>2 DEF From
<1>8. EndsAt(v, k) = closes
  <2>1. k = N \/ k + 1 \in 1..N
    BY <1>1
  <2>2. EndsAt(v, k) <=> closes
    BY <1>1, <1>3, <2>1 DEF EndsAt, Closes
  <2>3. EndsAt(v, k) \in BOOLEAN
    BY DEF EndsAt
  <2> QED
    BY <2>2, <2>3, Closing
<1>9. HeldOf(v, k) = Multiple(a, from)
  <2>1. k # 1 => k - 1 \in 1..N /\ k > 1
    BY <1>1
  <2>2. CASE k = 1 \/ FoldOf(k - 1) # FoldOf(k)
    <3>1. from = Zero(to)
      BY <1>1, <1>3, <2>1, <2>2 DEF From
    <3>2. from = [s \in S |-> 0]
      BY <1>7, <3>1 DEF Zero
    <3>3. Zero(v[k]) = [s \in S |-> 0]
      BY <1>1, <1>5 DEF Zero
    <3>4. a * 0 = 0
      BY <1>2
    <3>5. HeldOf(v, k) = Zero(v[k])
      BY <2>2 DEF HeldOf
    <3> QED
      BY <3>2, <3>3, <3>4, <3>5 DEF Multiple
  <2>3. CASE ~(k = 1 \/ FoldOf(k - 1) # FoldOf(k))
    <3>1. from = c[k - 1].weights
      BY <1>1, <1>3, <2>1, <2>3 DEF From
    <3>2. HeldOf(v, k) = v[k - 1]
      BY <2>3 DEF HeldOf
    <3> QED
      BY <1>4, <1>5, <2>1, <2>3, <3>1, <3>2 DEF Multiple
  <2> QED
    BY <2>2, <2>3
<1>10. v[k] = Multiple(a, to)
  BY <1>1, <1>5, <1>7 DEF Multiple
<1>11. c[k].turnover = Turnover(from, to, closes)
  BY <1>1, <1>2, <1>4 DEF Booked
<1>12. closes \in BOOLEAN
  BY Closing
<1> HIDE DEF from, to, closes
<1>13. Traded(InPeriod(BookLegs(v), k)) = Turnover(HeldOf(v, k), v[k], EndsAt(v, k))
  <2>1. k \in 1..Len(v)
    BY <1>1
  <2>2. IsFiniteSet(S)
    BY <1>1
  <2>3. v \in Seq([S -> Int])
    BY <1>1
  <2> QED
    BY ONLY <2>1, <2>2, <2>3, BookTraded
<1>14. Turnover(Multiple(a, from), Multiple(a, to), closes)
         = a * Turnover(from, to, closes)
  <2>1. IsFiniteSet(S)
    BY <1>1
  <2>2. a \in Nat
    BY <1>2
  <2>3. from \in [S -> Int]
    BY <1>7
  <2>4. to \in [S -> Int]
    BY <1>7
  <2> QED
    BY ONLY <2>1, <2>2, <2>3, <2>4, <1>12, ScaledTurnover
<1>15. Traded(InPeriod(BookLegs(v), k)) = a * c[k].turnover
  BY <1>8, <1>9, <1>10, <1>11, <1>13, <1>14
<1> QED
  BY <1>1, <1>3, <1>6, <1>15 DEF a, N

LEMMA LegsOfTheSleeves ==
  ASSUME NEW S, Read(S), Curves(S), InStep, NEW k \in 1..Len(grid)
  PROVE  Total([i \in Components |-> Traded(InPeriod(legs.parts[i], k))]) = sleeve[k].turnover
<1>1. \A i \in Components :
        Traded(InPeriod(legs.parts[i], k)) = loaded[i].capital * GridRow(i, k).turnover
  BY LegsOfOneSleeve
<1> DEFINE earned == [i \in Components |-> GridRow(i, k).turnover]
<1>2. sleeve[k].turnover = Weighted(earned)
  <2>1. sleeve[k] = SleeveRow(k)
    BY DEF Read
  <2> QED
    BY <2>1 DEF SleeveRow
<1>3. Weighted(earned) = Total([i \in Components |-> loaded[i].capital * earned[i]])
  BY DEF Weighted
<1>4. [i \in Components |-> loaded[i].capital * earned[i]]
        = [i \in Components |-> Traded(InPeriod(legs.parts[i], k))]
  BY <1>1
<1> QED
  BY <1>2, <1>3, <1>4

(* The legs of one cell of a book: at most one of each kind. *)
OfCell(part, k, s, forced) ==
  {x \in part : x.period = k /\ x.symbol = s /\ x.forced = forced}
MovesOf(w, k, s) == IF w[k][s] # HeldOf(w, k)[s] THEN {MoveLeg(w, k, s)} ELSE {}
ClosesOf(w, k, s) == IF EndsAt(w, k) /\ w[k][s] # 0 THEN {CloseLeg(w, k, s)} ELSE {}

LEMMA CellLegs ==
  ASSUME NEW S, NEW w \in Seq([S -> Int]), NEW k \in 1..Len(w), NEW s \in S
  PROVE  /\ OfCell(BookLegs(w), k, s, FALSE) = MovesOf(w, k, s)
         /\ OfCell(BookLegs(w), k, s, TRUE) = ClosesOf(w, k, s)
<1> DEFINE moves == w[k][s] # HeldOf(w, k)[s]
           closes == EndsAt(w, k) /\ w[k][s] # 0
           move == MoveLeg(w, k, s)
           close == CloseLeg(w, k, s)
<1>1. \A x : x \in BookLegs(w) <=> \E j \in 1..Len(w), t \in S : LegOf(w, j, t, x)
  BY BookLegsAre
<1>2. \A j, t : /\ MoveLeg(w, j, t).period = j /\ MoveLeg(w, j, t).symbol = t
                /\ MoveLeg(w, j, t).forced = FALSE
                /\ CloseLeg(w, j, t).period = j /\ CloseLeg(w, j, t).symbol = t
                /\ CloseLeg(w, j, t).forced = TRUE
  BY DEF MoveLeg, CloseLeg
<1>3. ASSUME NEW x PROVE x \in BookLegs(w) /\ x.period = k /\ x.symbol = s <=>
                           (moves /\ x = move) \/ (closes /\ x = close)
  <2>1. \A j, t : LegOf(w, j, t, x) => x.period = j /\ x.symbol = t
    BY <1>2 DEF LegOf
  <2>2. x \in BookLegs(w) /\ x.period = k /\ x.symbol = s => LegOf(w, k, s, x)
    <3> SUFFICES ASSUME x \in BookLegs(w), x.period = k, x.symbol = s PROVE LegOf(w, k, s, x)
      OBVIOUS
    <3>1. PICK j \in 1..Len(w), t \in S : LegOf(w, j, t, x)
      BY <1>1
    <3>2. j = k /\ t = s
      BY <2>1, <3>1
    <3> QED
      BY <3>1, <3>2
  <2>3. LegOf(w, k, s, x) => x \in BookLegs(w) /\ x.period = k /\ x.symbol = s
    BY <1>1, <2>1
  <2>4. LegOf(w, k, s, x) <=> (moves /\ x = move) \/ (closes /\ x = close)
    BY DEF LegOf
  <2> QED
    BY <2>2, <2>3, <2>4
<1>4. move.forced = FALSE /\ close.forced = TRUE
  BY <1>2
<1> HIDE DEF moves, closes, move, close
<1>5. OfCell(BookLegs(w), k, s, FALSE) = IF moves THEN {move} ELSE {}
  <2>1. ASSUME NEW x \in OfCell(BookLegs(w), k, s, FALSE) PROVE moves /\ x = move
    <3>1. x \in BookLegs(w) /\ x.period = k /\ x.symbol = s /\ x.forced = FALSE
      BY DEF OfCell
    <3>2. x # close
      BY <1>4, <3>1
    <3> QED
      BY <1>3, <3>1, <3>2
  <2>2. ASSUME moves PROVE move \in OfCell(BookLegs(w), k, s, FALSE)
    <3>1. move \in BookLegs(w) /\ move.period = k /\ move.symbol = s
      BY <1>3, <2>2
    <3> QED
      BY <1>4, <3>1 DEF OfCell
  <2>3. CASE moves
    BY <2>1, <2>2, <2>3
  <2>4. CASE ~moves
    BY <2>1, <2>4
  <2> QED
    BY <2>3, <2>4
<1>6. OfCell(BookLegs(w), k, s, TRUE) = IF closes THEN {close} ELSE {}
  <2>1. ASSUME NEW x \in OfCell(BookLegs(w), k, s, TRUE) PROVE closes /\ x = close
    <3>1. x \in BookLegs(w) /\ x.period = k /\ x.symbol = s /\ x.forced = TRUE
      BY DEF OfCell
    <3>2. x # move
      BY <1>4, <3>1
    <3> QED
      BY <1>3, <3>1, <3>2
  <2>2. ASSUME closes PROVE close \in OfCell(BookLegs(w), k, s, TRUE)
    <3>1. close \in BookLegs(w) /\ close.period = k /\ close.symbol = s
      BY <1>3, <2>2
    <3> QED
      BY <1>4, <3>1 DEF OfCell
  <2>3. CASE closes
    BY <2>1, <2>2, <2>3
  <2>4. CASE ~closes
    BY <2>1, <2>4
  <2> QED
    BY <2>3, <2>4
<1> QED
  BY <1>5, <1>6 DEF MovesOf, ClosesOf, moves, closes, move, close

(* The components whose share of a leg is delta have the legs L. *)
Parted(parts, leg, delta, L) ==
  /\ delta \in [Components -> Int]
  /\ \A i \in Components :
       /\ OfCell(parts[i], leg.period, leg.symbol, leg.forced) = IF delta[i] # 0 THEN {L[i]} ELSE {}
       /\ L[i].delta = delta[i]
Distinct == \A i, j \in Components : loaded[i].label = loaded[j].label => i = j

LEMMA ContributionsAddUp ==
  ASSUME NEW parts, NEW leg, NEW delta, NEW L, Parted(parts, leg, delta, L), Distinct,
         IsFiniteSet(Components), Components \subseteq Int
  PROVE  Contributions(parts, leg) = Total(delta)
<1> DEFINE P(i) == {part \in parts[i] : /\ part.period = leg.period
                                       /\ part.symbol = leg.symbol
                                       /\ part.forced = leg.forced}
           named == {i \in Components :
                       /\ P(i) # {}
                       /\ \A j \in Components : j > i /\ P(j) # {} => loaded[j].label # loaded[i].label}
           f == [i \in named |-> (CHOOSE part \in P(i) : TRUE).delta]
<1>1. Contributions(parts, leg) = Total(f)
  BY DEF Contributions
<1>2. \A i \in Components : P(i) = IF delta[i] # 0 THEN {L[i]} ELSE {}
  <2>1. \A i \in Components : P(i) = OfCell(parts[i], leg.period, leg.symbol, leg.forced)
    BY DEF OfCell
  <2> HIDE DEF P
  <2> QED
    BY <2>1 DEF Parted
<1>3. delta \in [Components -> Int] /\ \A i \in Components : L[i].delta = delta[i]
  BY DEF Parted
<1> HIDE DEF P
<1>4. \A i \in Components : i \in named <=> delta[i] # 0
  <2>1. \A i, j \in Components : j > i => loaded[j].label # loaded[i].label
    BY DEF Distinct
  <2> QED
    BY <1>2, <2>1
<1>5. \A i \in named : (CHOOSE part \in P(i) : TRUE).delta = delta[i]
  <2> SUFFICES ASSUME NEW i \in named PROVE (CHOOSE part \in P(i) : TRUE).delta = delta[i]
    OBVIOUS
  <2>1. i \in Components /\ P(i) = {L[i]}
    BY <1>2, <1>4
  <2>2. (CHOOSE part \in P(i) : TRUE) = L[i]
    BY <2>1
  <2> QED
    BY <1>3, <2>1, <2>2
<1>6. named \in SUBSET Components
  OBVIOUS
<1>7. f \in [named -> Int] /\ \A i \in named : f[i] = delta[i]
  BY <1>3, <1>5, <1>6
<1> HIDE DEF f, named
<1>8. \A i \in Components : IF i \in named THEN delta[i] = f[i] ELSE delta[i] = 0
  BY <1>4, <1>7
<1>9. Total(delta) = Total(f)
  <2> DEFINE D == Components
  <2>1. IsFiniteSet(D)
    OBVIOUS
  <2>2. named \in SUBSET D
    BY <1>6
  <2>3. delta \in [D -> Int]
    BY <1>3
  <2>4. f \in [named -> Int]
    BY <1>7
  <2>5. \A i \in D : IF i \in named THEN delta[i] = f[i] ELSE delta[i] = 0
    BY <1>8
  <2> HIDE DEF D
  <2> QED
    BY ONLY <2>1, <2>2, <2>3, <2>4, <2>5, TotalOfSupport
<1> QED
  BY <1>1, <1>9

LEMMA TotalOfZeros ==
  ASSUME NEW D, IsFiniteSet(D), NEW f \in [D -> Int], \A x \in D : f[x] = 0
  PROVE  Total(f) = 0
<1> DEFINE z == 0
<1>1. z \in Int /\ \A x \in D : f[x] = z * f[x]
  OBVIOUS
<1>2. Total(f) \in Int
  BY TotalIsSum
<1>3. \A n \in Int : z * n = 0
  OBVIOUS
<1> HIDE DEF z
<1>4. Total(f) = z * Total(f)
  BY ONLY IsFiniteSet(D), f \in [D -> Int], <1>1, TotalScales
<1> QED
  BY <1>2, <1>3, <1>4

LEMMA TotalOfOpposites ==
  ASSUME NEW D, IsFiniteSet(D), NEW f \in [D -> Int], NEW h \in [D -> Int],
         \A x \in D : h[x] = -f[x]
  PROVE  Total(h) = -Total(f)
<1> DEFINE z == -1
<1>1. z \in Int /\ \A x \in D : h[x] = z * f[x]
  OBVIOUS
<1>2. Total(f) \in Int
  BY TotalIsSum
<1>3. \A n \in Int : z * n = -n
  OBVIOUS
<1> HIDE DEF z
<1>4. Total(h) = z * Total(f)
  BY ONLY IsFiniteSet(D), f \in [D -> Int], h \in [D -> Int], <1>1, TotalScales
<1> QED
  BY <1>2, <1>3, <1>4

(* What the components hold of a symbol before a period. *)
HeldStakes(k, s) == [i \in Components |-> HeldOf(ScaledWeights(i), k)[s]]

LEMMA HeldStakesAre ==
  ASSUME NEW S, Read(S), NEW k \in 1..Len(grid), NEW s \in S
  PROVE  /\ HeldStakes(k, s) \in [Components -> Int]
         /\ HeldOf(NettedBook, k)[s] = Total(HeldStakes(k, s))
<1>1. /\ Len(grid) \in Nat /\ IsFiniteSet(Components)
      /\ NettedBook \in Seq([S -> Int]) /\ Len(NettedBook) = Len(grid)
      /\ \A i \in Components : ScaledWeights(i) \in Seq([S -> Int]) /\ Len(ScaledWeights(i)) = Len(grid)
      /\ \A j \in 1..Len(grid) :
           /\ Stakes(j, s) \in [Components -> Int] /\ NettedBook[j][s] = Total(Stakes(j, s))
           /\ \A i \in Components : ScaledWeights(i)[j][s] = Stakes(j, s)[i]
  BY DEF Read, Rows
<1> DEFINE h == HeldStakes(k, s)
<1>2. CASE k = 1 \/ FoldOf(k - 1) # FoldOf(k)
  <2>1. \A i \in Components : ScaledWeights(i)[k] \in [S -> Int]
    BY <1>1
  <2>2. \A i \in Components : HeldOf(ScaledWeights(i), k)[s] = 0
    BY <1>2, <2>1 DEF HeldOf, Zero
  <2>3. NettedBook[k] \in [S -> Int]
    BY <1>1
  <2>4. HeldOf(NettedBook, k)[s] = 0
    BY <1>2, <2>3 DEF HeldOf, Zero
  <2>5. h \in [Components -> Int]
    BY <2>2 DEF HeldStakes
  <2>6. \A i \in Components : h[i] = 0
    BY <2>2 DEF HeldStakes
  <2> HIDE DEF h
  <2>7. Total(h) = 0
    BY <1>1, <2>5, <2>6, TotalOfZeros
  <2> QED
    BY <2>4, <2>5, <2>7 DEF h
<1>3. CASE ~(k = 1 \/ FoldOf(k - 1) # FoldOf(k))
  <2>1. k - 1 \in 1..Len(grid)
    BY <1>1, <1>3
  <2>2. HeldOf(NettedBook, k) = NettedBook[k - 1]
    BY <1>3 DEF HeldOf
  <2>3. \A i \in Components : HeldOf(ScaledWeights(i), k) = ScaledWeights(i)[k - 1]
    BY <1>3 DEF HeldOf
  <2> DEFINE j == k - 1
  <2>4. h = [i \in Components |-> ScaledWeights(i)[j][s]]
    BY <2>3 DEF HeldStakes
  <2> HIDE DEF j
  <2>5. j \in 1..Len(grid)
    BY <2>1 DEF j
  <2>6. h = Stakes(j, s)
    <3>1. Stakes(j, s) = [i \in Components |-> Stakes(j, s)[i]]
      BY DEF Stakes
    <3> QED
      BY <1>1, <2>4, <2>5, <3>1
  <2> HIDE DEF h
  <2> QED
    BY <1>1, <2>2, <2>5, <2>6 DEF h, j
<1> QED
  BY <1>2, <1>3

(* The shares of the components in a leg add up to it. *)
LEMMA LegsContributed ==
  ASSUME NEW S, Read(S), Curves(S), Distinct, NEW leg \in legs.book
  PROVE  legs.contributed[leg] = leg.delta
<1> DEFINE B == NettedBook
           parts == [i \in Components |-> BookLegs(ScaledWeights(i))]
<1>1. /\ Len(grid) \in Nat /\ IsFiniteSet(Components) /\ legs = Reconstruction
      /\ B \in Seq([S -> Int]) /\ Len(B) = Len(grid)
      /\ \A i \in Components : ScaledWeights(i) \in Seq([S -> Int]) /\ Len(ScaledWeights(i)) = Len(grid)
      /\ \A k \in 1..Len(grid), s \in S :
           /\ Stakes(k, s) \in [Components -> Int] /\ B[k][s] = Total(Stakes(k, s))
           /\ \A i \in Components : ScaledWeights(i)[k][s] = Stakes(k, s)[i]
  BY DEF Read, Rows
<1>2. legs.book = BookLegs(B) /\ legs.contributed[leg] = Contributions(parts, leg)
  BY <1>1 DEF Reconstruction, NettedBook
<1>3. Components \subseteq Int
  BY DEF Curves
<1> HIDE DEF B
<1>4. PICK k \in 1..Len(grid), s \in S : LegOf(B, k, s, leg)
  <2>1. \A x : x \in BookLegs(B) <=> \E k \in 1..Len(B), s \in S : LegOf(B, k, s, x)
    BY <1>1, BookLegsAre
  <2> QED
    BY <1>1, <1>2, <2>1
<1> DEFINE stakes == Stakes(k, s)
           held == HeldStakes(k, s)
           v(i) == ScaledWeights(i)
<1>5. /\ stakes \in [Components -> Int] /\ held \in [Components -> Int]
      /\ B[k][s] = Total(stakes) /\ HeldOf(B, k)[s] = Total(held)
      /\ \A i \in Components : v(i)[k][s] = stakes[i] /\ HeldOf(v(i), k)[s] = held[i]
  <2>1. held \in [Components -> Int] /\ HeldOf(NettedBook, k)[s] = Total(held)
    BY HeldStakesAre
  <2>2. \A i \in Components : HeldOf(v(i), k)[s] = held[i]
    BY DEF HeldStakes
  <2> QED
    BY <1>1, <2>1, <2>2 DEF B
<1>6. \A i \in Components : v(i) \in Seq([S -> Int]) /\ k \in 1..Len(v(i))
  BY <1>1
<1>7. CASE leg = MoveLeg(B, k, s)
  <2> DEFINE delta == [i \in Components |-> stakes[i] - held[i]]
             L == [i \in Components |-> MoveLeg(v(i), k, s)]
  <2>1. /\ leg.period = k /\ leg.symbol = s /\ leg.forced = FALSE
        /\ leg.delta = B[k][s] - HeldOf(B, k)[s]
    BY <1>7 DEF MoveLeg
  <2>2. delta \in [Components -> Int]
    BY <1>5
  <2>3. ASSUME NEW i \in Components
        PROVE  /\ OfCell(BookLegs(v(i)), leg.period, leg.symbol, leg.forced) = IF delta[i] # 0 THEN {L[i]} ELSE {}
               /\ L[i].delta = delta[i]
    <3>1. OfCell(BookLegs(v(i)), k, s, FALSE)
            = IF v(i)[k][s] # HeldOf(v(i), k)[s] THEN {MoveLeg(v(i), k, s)} ELSE {}
      <4> DEFINE w == v(i)
      <4>1. w \in Seq([S -> Int]) /\ k \in 1..Len(w)
        BY <1>6
      <4> HIDE DEF w
      <4>2. OfCell(BookLegs(w), k, s, FALSE) = MovesOf(w, k, s)
        BY <4>1, CellLegs
      <4> QED
        BY <4>2 DEF MovesOf, w
    <3>2. v(i)[k][s] = stakes[i] /\ HeldOf(v(i), k)[s] = held[i]
      BY <1>5
    <3>3. stakes[i] \in Int /\ held[i] \in Int
      BY <1>5
    <3>4. delta[i] # 0 <=> v(i)[k][s] # HeldOf(v(i), k)[s]
      BY <3>2, <3>3
    <3>5. L[i].delta = v(i)[k][s] - HeldOf(v(i), k)[s]
      BY DEF MoveLeg
    <3> QED
      BY <2>1, <3>1, <3>2, <3>4, <3>5
  <2>4. \A i \in Components : delta[i] = stakes[i] - held[i]
    OBVIOUS
  <2> HIDE DEF delta, L, stakes, held
  <2>5. Parted(parts, leg, delta, L)
    BY <2>2, <2>3 DEF Parted
  <2> HIDE DEF parts
  <2>6. Contributions(parts, leg) = Total(delta)
    BY <1>1, <1>3, <2>5, ContributionsAddUp
  <2>7. Total(stakes) = Total(delta) + Total(held)
    <3>1. stakes = Plus(delta, held)
      <4>1. \A i \in Components : stakes[i] = delta[i] + held[i]
        BY <1>5, <2>2, <2>4
      <4> QED
        BY <1>5, <2>2, <4>1 DEF Plus
    <3>2. IsFiniteSet(Components)
      BY <1>1
    <3>3. stakes \in [Components -> Int]
      BY <1>5
    <3>4. held \in [Components -> Int]
      BY <1>5
    <3> QED
      BY <2>2, <3>1, <3>2, <3>4, SumsOf
  <2>8. Total(stakes) \in Int /\ Total(delta) \in Int /\ Total(held) \in Int
    BY <1>1, <1>5, <2>2, TotalIsSum
  <2> QED
    BY <1>2, <1>5, <2>1, <2>6, <2>7, <2>8
<1>8. CASE EndsAt(B, k) /\ leg = CloseLeg(B, k, s)
  <2> DEFINE delta == [i \in Components |-> -stakes[i]]
             L == [i \in Components |-> CloseLeg(v(i), k, s)]
  <2>1. leg.period = k /\ leg.symbol = s /\ leg.forced = TRUE /\ leg.delta = -B[k][s]
    BY <1>8 DEF CloseLeg
  <2>2. delta \in [Components -> Int]
    BY <1>5
  <2>3. ASSUME NEW i \in Components
        PROVE  /\ OfCell(BookLegs(v(i)), leg.period, leg.symbol, leg.forced) = IF delta[i] # 0 THEN {L[i]} ELSE {}
               /\ L[i].delta = delta[i]
    <3>1. OfCell(BookLegs(v(i)), k, s, TRUE)
            = IF EndsAt(v(i), k) /\ v(i)[k][s] # 0 THEN {CloseLeg(v(i), k, s)} ELSE {}
      <4> DEFINE w == v(i)
      <4>1. w \in Seq([S -> Int]) /\ k \in 1..Len(w)
        BY <1>6
      <4> HIDE DEF w
      <4>2. OfCell(BookLegs(w), k, s, TRUE) = ClosesOf(w, k, s)
        BY <4>1, CellLegs
      <4> QED
        BY <4>2 DEF ClosesOf, w
    <3>2. v(i)[k][s] = stakes[i] /\ stakes[i] \in Int
      BY <1>5
    <3>3. EndsAt(v(i), k)
      BY <1>1, <1>8 DEF EndsAt
    <3>4. delta[i] # 0 <=> v(i)[k][s] # 0
      BY <3>2
    <3>5. L[i].delta = -v(i)[k][s]
      BY DEF CloseLeg
    <3> QED
      BY <2>1, <3>1, <3>2, <3>3, <3>4, <3>5
  <2>4. \A i \in Components : delta[i] = -stakes[i]
    OBVIOUS
  <2> HIDE DEF delta, L, stakes, held
  <2>5. Parted(parts, leg, delta, L)
    BY <2>2, <2>3 DEF Parted
  <2> HIDE DEF parts
  <2>6. Contributions(parts, leg) = Total(delta)
    BY <1>1, <1>3, <2>5, ContributionsAddUp
  <2>7. Total(delta) = -Total(stakes)
    <3>2. IsFiniteSet(Components)
      BY <1>1
    <3>3. stakes \in [Components -> Int]
      BY <1>5
    <3> QED
      BY ONLY <2>2, <2>4, <3>2, <3>3, TotalOfOpposites
  <2>8. Total(stakes) \in Int
    BY <1>1, <1>5, TotalIsSum
  <2> QED
    BY <1>2, <1>5, <2>1, <2>6, <2>7, <2>8
<1> QED
  BY <1>4, <1>7, <1>8 DEF LegOf

-----------------------------------------------------------------------------
(* Entries and exits. *)

LEMMA CountStep ==
  ASSUME NEW N \in Nat, NEW T \in SUBSET (1..N), NEW n \in Nat
  PROVE  /\ Cardinality(T \cap 1..n) \in Nat
         /\ Cardinality(T \cap 1..(n + 1)) = Cardinality(T \cap 1..n) + (IF n + 1 \in T THEN 1 ELSE 0)
<1>1. IsFiniteSet(T)
  <2>1. \A a, b \in Int : IsFiniteSet(a..b)
    BY ONLY FS_Interval
  <2>2. IsFiniteSet(1..N)
    BY <2>1
  <2> QED
    BY <2>2, FS_Subset
<1> DEFINE A == T \cap 1..n
           B == T \cap 1..(n + 1)
           z == n + 1
<1>2. IsFiniteSet(A) /\ Cardinality(A) \in Nat
  <2>1. A \in SUBSET T
    OBVIOUS
  <2> HIDE DEF A
  <2>2. IsFiniteSet(A)
    BY <1>1, <2>1, FS_Subset
  <2> QED
    BY <2>2, FS_CardinalityType
<1>3. z \notin A /\ (z \in T => B = A \cup {z}) /\ (z \notin T => B = A)
  OBVIOUS
<1> HIDE DEF A, B, z
<1>4. z \in T => Cardinality(B) = Cardinality(A) + 1
  BY <1>2, <1>3, FS_AddElement
<1>5. Cardinality(B) = Cardinality(A) + (IF z \in T THEN 1 ELSE 0)
  BY <1>2, <1>3, <1>4
<1> QED
  BY <1>2, <1>5 DEF A, B, z

(* Of N periods F are in one fold; in H a position is held before, in A    *)
(* after, and after C the fold is over.                                    *)
Entered(F, A, H) == {k \in F : k \notin H /\ k \in A}
Left(F, A, H) == {k \in F : k \in H /\ k \notin A}
Closed(F, A, C) == {k \in F : k \in C /\ k \in A}
Carried(F, A, C) == {k \in F : k \in A /\ k \notin C}
Continuous(N, F, A, H, C) ==
  /\ N \in Nat /\ F \in SUBSET (1..N) /\ N \in C /\ ~(1 \in F /\ 1 \in H)
  /\ \A k \in 1..N : k + 1 \in 1..N => (k + 1 \in F /\ k + 1 \in H <=> k \in Carried(F, A, C))

LEMMA EnteredAreLeft ==
  ASSUME NEW N, NEW F, NEW A, NEW H, NEW C, Continuous(N, F, A, H, C)
  PROVE  Cardinality(Entered(F, A, H)) = Cardinality(Left(F, A, H)) + Cardinality(Closed(F, A, C))
<1> DEFINE E == Entered(F, A, H)
           X == Left(F, A, H)
           L == Closed(F, A, C)
           O == Carried(F, A, C)
           P == {n \in Nat : n <= N =>
                   Cardinality(E \cap 1..n) = Cardinality(X \cap 1..n) + Cardinality(L \cap 1..n)
                                                + (IF n \in O THEN 1 ELSE 0)}
<1>1. /\ N \in Nat /\ F \in SUBSET (1..N) /\ N \in C /\ ~(1 \in F /\ 1 \in H)
      /\ \A k \in 1..N : k + 1 \in 1..N => (k + 1 \in F /\ k + 1 \in H <=> k \in O)
  BY DEF Continuous
<1>2. E \in SUBSET (1..N) /\ X \in SUBSET (1..N) /\ L \in SUBSET (1..N) /\ O \in SUBSET (1..N)
  BY <1>1 DEF Entered, Left, Closed, Carried
<1>3. \A k : /\ k \in E <=> k \in F /\ k \notin H /\ k \in A
             /\ k \in X <=> k \in F /\ k \in H /\ k \notin A
             /\ k \in L <=> k \in F /\ k \in C /\ k \in A
             /\ k \in O <=> k \in F /\ k \in A /\ k \notin C
  BY DEF Entered, Left, Closed, Carried
<1> HIDE DEF E, X, L, O
<1>4. \A T : T \cap 1..0 = {}
  OBVIOUS
<1>5. 0 \in P
  <2>1. 0 \notin O
    BY <1>2
  <2>2. Cardinality({}) = 0
    BY FS_EmptySet
  <2> QED
    BY <1>4, <2>1, <2>2
<1>6. ASSUME NEW n \in Nat, n \in P PROVE n + 1 \in P
  <2> SUFFICES ASSUME n + 1 <= N
               PROVE  Cardinality(E \cap 1..(n + 1))
                        = Cardinality(X \cap 1..(n + 1)) + Cardinality(L \cap 1..(n + 1))
                            + (IF n + 1 \in O THEN 1 ELSE 0)
    OBVIOUS
  <2> DEFINE z == n + 1
             e == Cardinality(E \cap 1..n)
             x == Cardinality(X \cap 1..n)
             l == Cardinality(L \cap 1..n)
  <2>1. e = x + l + (IF n \in O THEN 1 ELSE 0)
    BY <1>1, <1>6
  <2>2. /\ e \in Nat /\ Cardinality(E \cap 1..z) = e + (IF z \in E THEN 1 ELSE 0)
        /\ x \in Nat /\ Cardinality(X \cap 1..z) = x + (IF z \in X THEN 1 ELSE 0)
        /\ l \in Nat /\ Cardinality(L \cap 1..z) = l + (IF z \in L THEN 1 ELSE 0)
    BY <1>1, <1>2, CountStep
  <2>3. z \in F /\ z \in H <=> n \in O
    <3>1. CASE n = 0
      <4>1. z = 1 /\ n \notin O
        BY <1>2, <3>1
      <4> QED
        BY <1>1, <4>1
    <3>2. CASE n # 0
      <4>1. n \in 1..N /\ z \in 1..N
        BY <1>1, <3>2
      <4> QED
        BY <1>1, <4>1
    <3> QED
      BY <3>1, <3>2
  <2> HIDE DEF z, e, x, l
  <2>4. e + (IF z \in E THEN 1 ELSE 0)
          = x + (IF z \in X THEN 1 ELSE 0) + (l + (IF z \in L THEN 1 ELSE 0))
              + (IF z \in O THEN 1 ELSE 0)
    BY <1>3, <2>1, <2>2, <2>3
  <2>5. Cardinality(E \cap 1..z)
          = Cardinality(X \cap 1..z) + Cardinality(L \cap 1..z) + (IF z \in O THEN 1 ELSE 0)
    BY <2>2, <2>4
  <2> QED
    BY <2>5 DEF z
<1> HIDE DEF P
<1>7. N \in P
  BY <1>1, <1>5, <1>6, NumberInduction
<1>8. E \cap 1..N = E /\ X \cap 1..N = X /\ L \cap 1..N = L /\ N \notin O
  <2>1. E \cap 1..N = E
    BY <1>2
  <2>2. X \cap 1..N = X
    BY <1>2
  <2>3. L \cap 1..N = L
    BY <1>2
  <2>4. N \notin O
    BY <1>1, <1>3
  <2> QED
    BY ONLY <2>1, <2>2, <2>3, <2>4
<1>9. Cardinality(E) = Cardinality(X) + Cardinality(L) + 0
  <2>1. \A n \in P : n <= N =>
          Cardinality(E \cap 1..n) = Cardinality(X \cap 1..n) + Cardinality(L \cap 1..n)
                                       + (IF n \in O THEN 1 ELSE 0)
    BY DEF P
  <2>2. N <= N
    BY <1>1
  <2>3. Cardinality(E \cap 1..N) = Cardinality(X \cap 1..N) + Cardinality(L \cap 1..N)
                                     + (IF N \in O THEN 1 ELSE 0)
    BY ONLY <1>7, <2>1, <2>2
  <2> QED
    BY ONLY <1>8, <2>3
<1>10. Cardinality(X) \in Nat /\ Cardinality(L) \in Nat
  BY <1>1, <1>2, <1>8, CountStep
<1> QED
  BY <1>9, <1>10 DEF E, X, L

(* As many legs as periods that name them. *)
Image(L, T) == {L[k] : k \in T}
LEMMA LegsOfPeriods ==
  ASSUME NEW T, IsFiniteSet(T), NEW L, \A k \in T : L[k].period = k
  PROVE  IsFiniteSet(Image(L, T)) /\ Cardinality(Image(L, T)) = Cardinality(T)
<1> DEFINE f == [k \in T |-> L[k]]
           M == Image(L, T)
<1>1. f \in [T -> M] /\ \A y \in M : \E k \in T : f[k] = y
  BY DEF Image
<1>2. \A j, k \in T : f[j] = f[k] => j = k
  OBVIOUS
<1> HIDE DEF f, M
<1>3. f \in Bijection(T, M)
  BY <1>1, <1>2 DEF Bijection, Injection, Surjection, IsInjective
<1>4. ExistsBijection(T, M)
  BY <1>3 DEF ExistsBijection
<1>5. IsFiniteSet(M) /\ Cardinality(M) = Cardinality(T)
  BY ONLY IsFiniteSet(T), <1>4, FS_Bijection
<1> QED
  BY <1>5 DEF M

LEMMA EventTypes ==
  ASSUME NEW from \in Int, NEW to \in Int
  PROVE  /\ EventType(from, to) = "entry" <=> from = 0 /\ to # 0
         /\ from # to => (EventType(from, to) = "exit" <=> from # 0 /\ to = 0)
         /\ EventType(from, to) # "forced_fold_close"
<1>1. Sign(from) \in {-1, 0, 1} /\ Sign(to) \in {-1, 0, 1}
  BY DEF Sign
<1>2. CASE from = 0 /\ to # 0
  BY <1>2 DEF EventType, Sign
<1>3. CASE from # 0 /\ to = 0
  BY <1>3 DEF EventType, Sign
<1>4. CASE from = 0 /\ to = 0
  BY <1>4 DEF EventType, Sign
<1>5. CASE from # 0 /\ to # 0
  BY <1>1, <1>5 DEF EventType
<1> QED
  BY <1>2, <1>3, <1>4, <1>5

(* The periods of a fold in which a book has a symbol: before, after, and  *)
(* those that close the fold.                                              *)
Periods(w, f) == {k \in 1..Len(w) : FoldOf(k) = f}
Has(w, s) == {k \in 1..Len(w) : w[k][s] # 0}
Had(w, s) == {k \in 1..Len(w) : HeldOf(w, k)[s] # 0}
Ending(w) == {k \in 1..Len(w) : EndsAt(w, k)}

LEMMA FoldIsContinuous ==
  ASSUME NEW S, NEW w \in Seq([S -> Int]), Len(w) # 0, NEW f, NEW s \in S
  PROVE  Continuous(Len(w), Periods(w, f), Has(w, s), Had(w, s), Ending(w))
<1> DEFINE N == Len(w)
           F == Periods(w, f)
           A == Has(w, s)
           H == Had(w, s)
           C == Ending(w)
<1>1. N \in Nat /\ N \in 1..N /\ 1 \in 1..N /\ \A k \in 1..N : w[k] \in [S -> Int]
  OBVIOUS
<1>2. \A k \in 1..N : Zero(w[k])[s] = 0
  BY <1>1 DEF Zero
<1>3. \A k \in 1..N : /\ k \in F <=> FoldOf(k) = f
                      /\ k \in A <=> w[k][s] # 0
                      /\ k \in H <=> HeldOf(w, k)[s] # 0
                      /\ k \in C <=> EndsAt(w, k)
  BY DEF Periods, Has, Had, Ending
<1>4. F \in SUBSET (1..N)
  BY DEF Periods
<1> HIDE DEF F, A, H, C
<1>5. N \in C
  BY <1>1, <1>3 DEF EndsAt
<1>6. 1 \notin H
  <2>1. HeldOf(w, 1) = Zero(w[1])
    BY DEF HeldOf
  <2> QED
    BY <1>1, <1>2, <1>3, <2>1
<1>7. ASSUME NEW k \in 1..N, k + 1 \in 1..N
      PROVE  k + 1 \in F /\ k + 1 \in H <=> k \in Carried(F, A, C)
  <2> DEFINE z == k + 1
  <2>1. z \in 1..N /\ z # 1 /\ z - 1 = k /\ k # N
    BY <1>1, <1>7
  <2>2. EndsAt(w, k) <=> FoldOf(z) # FoldOf(k)
    BY <2>1 DEF EndsAt
  <2> HIDE DEF z
  <2>3. HeldOf(w, z) = IF FoldOf(k) # FoldOf(z) THEN Zero(w[z]) ELSE w[k]
    BY <2>1 DEF HeldOf
  <2>4. k \in Carried(F, A, C) <=> k \in F /\ k \in A /\ k \notin C
    BY DEF Carried
  <2>5. CASE FoldOf(k) # FoldOf(z)
    <3>1. z \notin H /\ k \in C
      BY <1>2, <1>3, <2>1, <2>2, <2>3, <2>5
    <3> QED
      BY <2>4, <3>1 DEF z
  <2>6. CASE FoldOf(k) = FoldOf(z)
    <3>1. (z \in H <=> k \in A) /\ k \notin C /\ (z \in F <=> k \in F)
      BY <1>3, <2>1, <2>2, <2>3, <2>6
    <3> QED
      BY <2>4, <3>1 DEF z
  <2> QED
    BY <2>5, <2>6
<1> HIDE DEF N
<1>8. Continuous(N, F, A, H, C)
  <2>1. N \in Nat
    BY <1>1
  <2> QED
    BY ONLY <2>1, <1>4, <1>5, <1>6, <1>7 DEF Continuous
<1> QED
  BY <1>8 DEF N, F, A, H, C

(* The legs of a symbol that have one of these types in a fold. *)
Typed(part, s, f, types) ==
  {leg \in part : leg.symbol = s /\ leg.type \in types /\ FoldOf(leg.period) = f}
Moves(w, s) == [k \in 1..Len(w) |-> MoveLeg(w, k, s)]
Closings(w, s) == [k \in 1..Len(w) |-> CloseLeg(w, k, s)]

TypedLeg(w, k, s, types, x) ==
  \/ /\ w[k][s] # HeldOf(w, k)[s] /\ x = MoveLeg(w, k, s)
     /\ EventType(HeldOf(w, k)[s], w[k][s]) \in types
  \/ EndsAt(w, k) /\ w[k][s] # 0 /\ x = CloseLeg(w, k, s) /\ "forced_fold_close" \in types

LEMMA TypedLegs ==
  ASSUME NEW S, NEW w \in Seq([S -> Int]), NEW f, NEW s \in S, NEW types, NEW x
  PROVE  x \in Typed(BookLegs(w), s, f, types) <=>
           \E k \in Periods(w, f) : TypedLeg(w, k, s, types, x)
<1>1. x \in BookLegs(w) <=> \E k \in 1..Len(w), t \in S : LegOf(w, k, t, x)
  BY BookLegsAre
<1>2. \A k, t : /\ MoveLeg(w, k, t).period = k /\ MoveLeg(w, k, t).symbol = t
                /\ MoveLeg(w, k, t).type = EventType(HeldOf(w, k)[t], w[k][t])
                /\ CloseLeg(w, k, t).period = k /\ CloseLeg(w, k, t).symbol = t
                /\ CloseLeg(w, k, t).type = "forced_fold_close"
  BY DEF MoveLeg, CloseLeg
<1>3. \A k, t : LegOf(w, k, t, x) => x.period = k /\ x.symbol = t
  BY <1>2 DEF LegOf
<1>4. x \in Typed(BookLegs(w), s, f, types) <=>
        \E k \in Periods(w, f) : LegOf(w, k, s, x) /\ x.type \in types
  BY <1>1, <1>3 DEF Typed, Periods
<1>5. \A k : LegOf(w, k, s, x) /\ x.type \in types <=> TypedLeg(w, k, s, types, x)
  BY <1>2 DEF LegOf, TypedLeg
<1> QED
  BY <1>4, <1>5

LEMMA CellsOfAFold ==
  ASSUME NEW S, NEW w \in Seq([S -> Int]), NEW f, NEW s \in S
  PROVE  /\ Typed(BookLegs(w), s, f, {"entry"})
              = Image(Moves(w, s), Entered(Periods(w, f), Has(w, s), Had(w, s)))
         /\ Typed(BookLegs(w), s, f, {"exit", "forced_fold_close"})
              = Image(Moves(w, s), Left(Periods(w, f), Has(w, s), Had(w, s)))
                  \cup Image(Closings(w, s), Closed(Periods(w, f), Has(w, s), Ending(w)))
<1> DEFINE F == Periods(w, f)
           A == Has(w, s)
           H == Had(w, s)
           C == Ending(w)
           from(k) == HeldOf(w, k)[s]
<1>1. \A k \in F : k \in 1..Len(w)
  BY DEF Periods
<1>2. \A k \in 1..Len(w) : /\ w[k][s] \in Int /\ from(k) \in Int
                           /\ Moves(w, s)[k] = MoveLeg(w, k, s)
                           /\ Closings(w, s)[k] = CloseLeg(w, k, s)
                           /\ k \in A <=> w[k][s] # 0
                           /\ k \in H <=> from(k) # 0
                           /\ k \in C <=> EndsAt(w, k)
  <2>1. ASSUME NEW k \in 1..Len(w) PROVE w[k][s] \in Int /\ from(k) \in Int
    <3>1. Zero(w[k])[s] = 0 /\ w[k] \in [S -> Int]
      BY DEF Zero
    <3>2. k # 1 => w[k - 1] \in [S -> Int]
      OBVIOUS
    <3> QED
      BY <3>1, <3>2 DEF HeldOf
  <2> QED
    BY <2>1 DEF Moves, Closings, Has, Had, Ending
<1>3. \A k \in F : /\ EventType(from(k), w[k][s]) = "entry" <=> from(k) = 0 /\ w[k][s] # 0
                   /\ from(k) # w[k][s] =>
                        (EventType(from(k), w[k][s]) = "exit" <=> from(k) # 0 /\ w[k][s] = 0)
                   /\ EventType(from(k), w[k][s]) # "forced_fold_close"
  <2> HIDE DEF from, F
  <2> QED
    BY <1>1, <1>2, EventTypes
<1>4. \A k : /\ k \in Entered(F, A, H) <=> k \in F /\ k \notin H /\ k \in A
             /\ k \in Left(F, A, H) <=> k \in F /\ k \in H /\ k \notin A
             /\ k \in Closed(F, A, C) <=> k \in F /\ k \in C /\ k \in A
  BY DEF Entered, Left, Closed
<1>5. \A T, x : /\ x \in Image(Moves(w, s), T) <=> \E k \in T : x = Moves(w, s)[k]
                /\ x \in Image(Closings(w, s), T) <=> \E k \in T : x = Closings(w, s)[k]
  BY DEF Image
<1> HIDE DEF F, A, H, C
<1>6. ASSUME NEW x
      PROVE  x \in Typed(BookLegs(w), s, f, {"entry"}) <=> x \in Image(Moves(w, s), Entered(F, A, H))
  <2>1. x \in Typed(BookLegs(w), s, f, {"entry"}) <=>
           \E k \in F : w[k][s] # from(k) /\ x = MoveLeg(w, k, s) /\ EventType(from(k), w[k][s]) = "entry"
    <3> DEFINE types == {"entry"}
    <3>1. \A y : y \in types <=> y = "entry"
      OBVIOUS
    <3>2. "forced_fold_close" \notin types
      OBVIOUS
    <3> HIDE DEF types
    <3>3. x \in Typed(BookLegs(w), s, f, types) <=> \E k \in F : TypedLeg(w, k, s, types, x)
      BY TypedLegs DEF F
    <3>4. x \in Typed(BookLegs(w), s, f, types) <=>
            \E k \in F : w[k][s] # from(k) /\ x = MoveLeg(w, k, s) /\ EventType(from(k), w[k][s]) = "entry"
      BY ONLY <3>1, <3>2, <3>3 DEF TypedLeg
    <3> QED
      BY <3>4 DEF types, from
  <2>2. \A k \in F : w[k][s] # from(k) /\ EventType(from(k), w[k][s]) = "entry" <=> k \in Entered(F, A, H)
    <3> HIDE DEF from
    <3> QED
      BY <1>1, <1>2, <1>3, <1>4
  <2>3. \A k \in F : Moves(w, s)[k] = MoveLeg(w, k, s)
    BY <1>1, <1>2
  <2>4. \A k \in Entered(F, A, H) : k \in F
    BY <1>4
  <2> HIDE DEF from
  <2> QED
    BY ONLY <1>5, <2>1, <2>2, <2>3, <2>4
<1>7. ASSUME NEW x
      PROVE  x \in Typed(BookLegs(w), s, f, {"exit", "forced_fold_close"}) <=>
               \/ x \in Image(Moves(w, s), Left(F, A, H))
               \/ x \in Image(Closings(w, s), Closed(F, A, C))
  <2>1. x \in Typed(BookLegs(w), s, f, {"exit", "forced_fold_close"}) <=>
           \E k \in F :
             \/ /\ w[k][s] # from(k) /\ x = MoveLeg(w, k, s)
                /\ EventType(from(k), w[k][s]) \in {"exit", "forced_fold_close"}
             \/ EndsAt(w, k) /\ w[k][s] # 0 /\ x = CloseLeg(w, k, s)
    <3> DEFINE types == {"exit", "forced_fold_close"}
    <3>1. "forced_fold_close" \in types
      OBVIOUS
    <3> HIDE DEF types
    <3>2. x \in Typed(BookLegs(w), s, f, types) <=> \E k \in F : TypedLeg(w, k, s, types, x)
      BY TypedLegs DEF F
    <3>3. x \in Typed(BookLegs(w), s, f, types) <=>
            \E k \in F :
              \/ w[k][s] # from(k) /\ x = MoveLeg(w, k, s) /\ EventType(from(k), w[k][s]) \in types
              \/ EndsAt(w, k) /\ w[k][s] # 0 /\ x = CloseLeg(w, k, s)
      BY ONLY <3>1, <3>2 DEF TypedLeg
    <3> QED
      BY <3>3 DEF types, from
  <2>2. \A k \in F : w[k][s] # from(k) /\ EventType(from(k), w[k][s]) \in {"exit", "forced_fold_close"}
                       <=> k \in Left(F, A, H)
    <3> HIDE DEF from
    <3> QED
      BY <1>1, <1>2, <1>3, <1>4
  <2>3. \A k \in F : EndsAt(w, k) /\ w[k][s] # 0 <=> k \in Closed(F, A, C)
    BY <1>1, <1>2, <1>4
  <2>4. \A k \in F : Moves(w, s)[k] = MoveLeg(w, k, s) /\ Closings(w, s)[k] = CloseLeg(w, k, s)
    BY <1>1, <1>2
  <2>5. (\A k \in Left(F, A, H) : k \in F) /\ (\A k \in Closed(F, A, C) : k \in F)
    BY <1>4
  <2> HIDE DEF from
  <2> QED
    BY ONLY <1>5, <2>1, <2>2, <2>3, <2>4, <2>5
<1> QED
  BY <1>6, <1>7 DEF F, A, H, C

(* A position is left as often as it is entered. *)
LEMMA EntriesAreExits ==
  ASSUME NEW S, NEW w \in Seq([S -> Int]), Len(w) # 0, NEW f, NEW s \in S
  PROVE  Cardinality(Typed(BookLegs(w), s, f, {"entry"}))
           = Cardinality(Typed(BookLegs(w), s, f, {"exit", "forced_fold_close"}))
<1> DEFINE N == Len(w)
           moves == Moves(w, s)
           closings == Closings(w, s)
           E == Entered(Periods(w, f), Has(w, s), Had(w, s))
           X == Left(Periods(w, f), Has(w, s), Had(w, s))
           L == Closed(Periods(w, f), Has(w, s), Ending(w))
<1>1. Cardinality(E) = Cardinality(X) + Cardinality(L)
  <2> DEFINE F == Periods(w, f)
             A == Has(w, s)
             H == Had(w, s)
             C == Ending(w)
  <2>1. Continuous(N, F, A, H, C)
    BY FoldIsContinuous
  <2> HIDE DEF N, F, A, H, C
  <2>2. Cardinality(Entered(F, A, H)) = Cardinality(Left(F, A, H)) + Cardinality(Closed(F, A, C))
    BY ONLY <2>1, EnteredAreLeft
  <2> QED
    BY <2>2 DEF F, A, H, C
<1>2. /\ Typed(BookLegs(w), s, f, {"entry"}) = Image(moves, E)
      /\ Typed(BookLegs(w), s, f, {"exit", "forced_fold_close"}) = Image(moves, X) \cup Image(closings, L)
  BY CellsOfAFold
<1>3. E \in SUBSET (1..N) /\ X \in SUBSET (1..N) /\ L \in SUBSET (1..N)
  BY DEF Entered, Left, Closed, Periods
<1>4. \A k \in 1..N : /\ moves[k].period = k /\ moves[k].forced = FALSE
                      /\ closings[k].period = k /\ closings[k].forced = TRUE
  BY DEF Moves, Closings, MoveLeg, CloseLeg
<1>5. IsFiniteSet(1..N)
  <2>1. \A a, b \in Int : IsFiniteSet(a..b)
    BY ONLY FS_Interval
  <2>2. N \in Int /\ 1 \in Int
    OBVIOUS
  <2> QED
    BY <2>1, <2>2
<1> HIDE DEF N, moves, closings, E, X, L
<1>6. IsFiniteSet(E) /\ IsFiniteSet(X) /\ IsFiniteSet(L)
  BY <1>3, <1>5, FS_Subset
<1>7. Cardinality(Image(moves, E)) = Cardinality(E)
  BY <1>3, <1>4, <1>6, LegsOfPeriods
<1>8. IsFiniteSet(Image(moves, X)) /\ Cardinality(Image(moves, X)) = Cardinality(X)
  BY <1>3, <1>4, <1>6, LegsOfPeriods
<1>9. IsFiniteSet(Image(closings, L)) /\ Cardinality(Image(closings, L)) = Cardinality(L)
  BY <1>3, <1>4, <1>6, LegsOfPeriods
<1>10. Cardinality(Image(moves, X) \cup Image(closings, L)) = Cardinality(X) + Cardinality(L)
  <2> DEFINE P == Image(moves, X)
             Q == Image(closings, L)
  <2>1. P \cap Q = {}
    <3>1. \A x \in P : x.forced = FALSE
      BY <1>3, <1>4 DEF Image
    <3>2. \A x \in Q : x.forced = TRUE
      BY <1>3, <1>4 DEF Image
    <3> HIDE DEF P, Q
    <3> QED
      BY <3>1, <3>2
  <2>2. Cardinality(P \cap Q) = 0
    <3>1. Cardinality({}) = 0
      BY FS_EmptySet
    <3> HIDE DEF P, Q
    <3> QED
      BY ONLY <2>1, <3>1
  <2>3. /\ IsFiniteSet(P) /\ IsFiniteSet(Q)
        /\ Cardinality(P) = Cardinality(X) /\ Cardinality(Q) = Cardinality(L)
    BY <1>8, <1>9
  <2>4. Cardinality(X) \in Nat /\ Cardinality(L) \in Nat
    BY <1>6, FS_CardinalityType
  <2> HIDE DEF P, Q
  <2>5. Cardinality(P \cup Q) = Cardinality(P) + Cardinality(Q) - Cardinality(P \cap Q)
    BY ONLY <2>3, FS_Union
  <2>6. Cardinality(P \cup Q) = Cardinality(X) + Cardinality(L)
    BY ONLY <2>2, <2>3, <2>4, <2>5
  <2> QED
    BY <2>6 DEF P, Q
<1> QED
  BY <1>1, <1>2, <1>7, <1>10

(* ADR 0015: the backtest, the account and the reconstruction of trades    *)
(* book the same changes of position (backtest.py, accounting.py,          *)
(* trading.py).  For every portfolio that is analysed, the legs of the     *)
(* netted book trade its turnover in every period, under the strict policy *)
(* those of the components trade the turnover of the sleeves, what         *)
(* distinctly labelled components contribute adds up to every leg, and     *)
(* within a fold a position is left exactly as often as it is entered.     *)
THEOREM LegsExplain == Spec => []LegsExplainTheBooks
<1>1. ASSUME PortfolioInv PROVE LegsExplainTheBooks
  <2> SUFFICES ASSUME status = "analysed" PROVE LegsExplainTheBooks
    BY DEF LegsExplainTheBooks
  <2> DEFINE S == DOMAIN loaded[1].curve[1].weights
             N == Len(grid)
  <2>1. Read(S) /\ Curves(S)
    BY <1>1, BooksAreRead, ComponentCurves
  <2>2. Portfolio.policy = "strict" => InStep
    BY <1>1, StrictIsInStep
  <2> HIDE DEF S
  <2>3. /\ DOMAIN netted = 1..N /\ DOMAIN grid = 1..N /\ N \in Nat
        /\ NettedBook \in Seq([S -> Int]) /\ Len(NettedBook) = N /\ legs = Reconstruction
    BY <2>1 DEF Read, Rows
  <2>4. \A k \in 1..N : Traded(InPeriod(legs.book, k)) = netted[k].turnover
    BY <2>1, LegsOfTheBook
  <2>5. \A k \in 1..N : InStep =>
          Total([i \in Components |-> Traded(InPeriod(legs.parts[i], k))]) = sleeve[k].turnover
    BY <2>1, LegsOfTheSleeves
  <2>6. Distinct => \A leg \in legs.book : legs.contributed[leg] = leg.delta
    BY <2>1, LegsContributed
  <2>7. ASSUME NEW k \in 1..N, NEW s \in S
        PROVE  Cardinality(Typed(legs.book, s, FoldOf(k), {"entry"}))
                 = Cardinality(Typed(legs.book, s, FoldOf(k), {"exit", "forced_fold_close"}))
    <3>1. legs.book = BookLegs(NettedBook)
      BY <2>3 DEF Reconstruction, NettedBook
    <3>2. Len(NettedBook) # 0
      BY <2>3
    <3> DEFINE w == NettedBook
               f == FoldOf(k)
    <3>3. w \in Seq([S -> Int]) /\ Len(w) # 0
      BY <2>3, <3>2
    <3> HIDE DEF w, f
    <3>4. Cardinality(Typed(BookLegs(w), s, f, {"entry"}))
            = Cardinality(Typed(BookLegs(w), s, f, {"exit", "forced_fold_close"}))
      BY <3>3, EntriesAreExits
    <3> QED
      BY <3>1, <3>4 DEF w, f
  <2> QED
    BY <2>2, <2>3, <2>4, <2>5, <2>6, <2>7 DEF LegsExplainTheBooks, Typed, Distinct, S
<1> QED
  BY <1>1, PortfolioInvariant, PTL
=============================================================================
