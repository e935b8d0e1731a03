--------------------------- MODULE UnitsTheorems ----------------------------
(* How a total changes when a row is inserted, deleted or left alone, and *)
(* what it is when the rows are divided or named anew.                    *)
EXTENDS Units, FiniteSetTheorems, FunctionTheorems, TLAPS

\* One row with n units has exactly n of them.
LEMMA RowUnits ==
  ASSUME NEW i, NEW k \in Nat
  PROVE  /\ IsFiniteSet({i} \X (1..k))
         /\ Cardinality({i} \X (1..k)) = k
<1>1. IsFiniteSet(1..k) /\ Cardinality(1..k) = k
  BY FS_Interval
<1>2. IsFiniteSet({i}) /\ Cardinality({i}) = 1
  BY FS_Singleton
<1>3. QED
  BY <1>1, <1>2, FS_Product

\* The units of finitely many rows are finite in number.
LEMMA UnitsFinite ==
  ASSUME NEW I, IsFiniteSet(I), NEW n, \A i \in I : n[i] \in Nat
  PROVE  IsFiniteSet(UnitsOf(I, n))
<1> DEFINE row == [i \in I |-> {i} \X (1..n[i])]
           rows == {{i} \X (1..n[i]) : i \in I}
<1>1. row \in Surjection(I, rows)
  BY DEF Surjection
<1>2. IsFiniteSet(rows)
  <2> HIDE DEF row, rows
  <2> QED
    BY <1>1, FS_Surjection
<1>3. ASSUME NEW T \in rows
      PROVE  IsFiniteSet(T)
  <2>1. PICK i \in I : T = {i} \X (1..n[i])
    OBVIOUS
  <2>2. n[i] \in Nat
    OBVIOUS
  <2>3. QED
    BY <2>1, <2>2, RowUnits
<1>4. IsFiniteSet(UNION rows)
  <2> HIDE DEF rows
  <2> QED
    BY <1>2, <1>3, FS_UNION
<1>5. QED
  BY <1>4 DEF UnitsOf

\* A total depends on the quantities of its rows only.
LEMMA TotalAgrees ==
  ASSUME NEW I, NEW m, NEW n, \A i \in I : m[i] = n[i]
  PROVE  Total(I, m) = Total(I, n)
BY DEF Total, UnitsOf

\* The total with one more row is the total plus the quantity of that row.
LEMMA TotalInsert ==
  ASSUME NEW I, IsFiniteSet(I), NEW i, i \notin I,
         NEW n, \A j \in I \cup {i} : n[j] \in Nat
  PROVE  Total(I \cup {i}, n) = Total(I, n) + n[i]
<1>1. UnitsOf(I \cup {i}, n) = UnitsOf(I, n) \cup ({i} \X (1..n[i]))
  BY DEF UnitsOf
<1>2. UnitsOf(I, n) \cap ({i} \X (1..n[i])) = {}
  BY DEF UnitsOf
<1>3. IsFiniteSet(UnitsOf(I, n))
  BY UnitsFinite
<1>4. /\ IsFiniteSet({i} \X (1..n[i]))
      /\ Cardinality({i} \X (1..n[i])) = n[i]
  BY RowUnits
<1>5. Cardinality(UnitsOf(I, n)) \in Nat
  BY <1>3, FS_CardinalityType
<1>6. Cardinality(UnitsOf(I, n) \cup ({i} \X (1..n[i])))
        = Cardinality(UnitsOf(I, n)) + Cardinality({i} \X (1..n[i])) - 0
  <2>1. \A S, T : IsFiniteSet(S) /\ IsFiniteSet(T) /\ S \cap T = {} =>
          Cardinality(S \cup T) = Cardinality(S) + Cardinality(T) - 0
    BY FS_Union, FS_EmptySet
  <2>2. QED
    BY <1>2, <1>3, <1>4, <2>1
<1>7. n[i] \in Nat
  OBVIOUS
<1>8. Cardinality(UnitsOf(I, n) \cup ({i} \X (1..n[i])))
        = Cardinality(UnitsOf(I, n)) + n[i]
  <2> DEFINE more == Cardinality(UnitsOf(I, n) \cup ({i} \X (1..n[i])))
             less == Cardinality(UnitsOf(I, n))
             row == Cardinality({i} \X (1..n[i]))
  <2>1. more = less + row - 0 /\ row = n[i] /\ less \in Nat /\ n[i] \in Nat
    BY <1>4, <1>5, <1>6, <1>7
  <2> HIDE DEF more, less, row
  <2>2. more = less + n[i]
    BY <2>1
  <2>3. QED
    BY <2>2 DEF more, less
<1>9. QED
  BY <1>1, <1>8 DEF Total

\* A total is a natural number, and 0 when there are no rows.
LEMMA TotalType ==
  ASSUME NEW I, IsFiniteSet(I), NEW n, \A i \in I : n[i] \in Nat
  PROVE  Total(I, n) \in Nat /\ (I = {} => Total(I, n) = 0)
<1>1. Total(I, n) \in Nat
  BY UnitsFinite, FS_CardinalityType DEF Total
<1>2. I = {} => Total(I, n) = 0
  BY FS_EmptySet DEF Total, UnitsOf
<1>3. QED
  BY <1>1, <1>2

\* Rows without units add nothing.
LEMMA TotalNone ==
  ASSUME NEW I, NEW n, \A i \in I : n[i] = 0
  PROVE  Total(I, n) = 0
<1>1. UnitsOf(I, n) = {}
  BY DEF UnitsOf
<1>2. QED
  BY <1>1, FS_EmptySet DEF Total

\* The total of rows divided in two parts is that of the parts together.
LEMMA TotalUnion ==
  ASSUME NEW I, IsFiniteSet(I), NEW J, IsFiniteSet(J), I \cap J = {},
         NEW n, \A i \in I \cup J : n[i] \in Nat
  PROVE  Total(I \cup J, n) = Total(I, n) + Total(J, n)
<1>1. /\ IsFiniteSet(UnitsOf(I, n)) /\ IsFiniteSet(UnitsOf(J, n))
  BY UnitsFinite
<1>2. /\ UnitsOf(I \cup J, n) = UnitsOf(I, n) \cup UnitsOf(J, n)
      /\ UnitsOf(I, n) \cap UnitsOf(J, n) = {}
  BY DEF UnitsOf
<1>3. /\ Cardinality(UnitsOf(I, n)) \in Nat /\ Cardinality(UnitsOf(J, n)) \in Nat
      /\ Cardinality(UnitsOf(I, n) \cup UnitsOf(J, n))
           = Cardinality(UnitsOf(I, n)) + Cardinality(UnitsOf(J, n))
               - Cardinality(UnitsOf(I, n) \cap UnitsOf(J, n))
  BY <1>1, FS_Union, FS_CardinalityType
<1>4. Cardinality(UnitsOf(I, n) \cap UnitsOf(J, n)) = 0
  BY <1>2, FS_EmptySet
<1>5. QED
  <2> DEFINE both == Cardinality(UnitsOf(I, n) \cup UnitsOf(J, n))
             one == Cardinality(UnitsOf(I, n))
             other == Cardinality(UnitsOf(J, n))
             common == Cardinality(UnitsOf(I, n) \cap UnitsOf(J, n))
  <2>1. both = one + other - common /\ common = 0 /\ one \in Nat /\ other \in Nat
    BY <1>3, <1>4
  <2>2. Total(I \cup J, n) = both /\ Total(I, n) = one /\ Total(J, n) = other
    BY <1>2 DEF Total
  <2> HIDE DEF both, one, other, common
  <2>3. both = one + other
    BY <2>1
  <2>4. QED
    BY <2>2, <2>3

\* Some of the rows have at most the total of all.
LEMMA TotalSubset ==
  ASSUME NEW J, IsFiniteSet(J), NEW I \in SUBSET J, NEW n, \A i \in J : n[i] \in Nat
  PROVE  Total(I, n) <= Total(J, n)
<1>1. IsFiniteSet(UnitsOf(J, n))
  BY UnitsFinite
<1>2. UnitsOf(I, n) \in SUBSET UnitsOf(J, n)
  BY DEF UnitsOf
<1>3. QED
  BY <1>1, <1>2, FS_Subset DEF Total

\* New names for the rows do not change a total.
LEMMA TotalRenamed ==
  ASSUME NEW I, IsFiniteSet(I), NEW J, NEW f \in Bijection(I, J),
         NEW n, \A i \in I : n[i] \in Nat, NEW m, \A i \in I : m[f[i]] = n[i]
  PROVE  Total(J, m) = Total(I, n)
<1> DEFINE U == UnitsOf(I, n)
           V == UnitsOf(J, m)
           g == [u \in U |-> <<f[u[1]], u[2]>>]
<1>1. /\ \A u \in U : u[1] \in I /\ u[2] \in 1..n[u[1]] /\ u = <<u[1], u[2]>>
      /\ \A i \in I : \A k \in 1..n[i] : <<i, k>> \in U
  BY DEF UnitsOf
<1>2. /\ \A v \in V : v[1] \in J /\ v[2] \in 1..m[v[1]] /\ v = <<v[1], v[2]>>
      /\ \A j \in J : \A k \in 1..m[j] : <<j, k>> \in V
  BY DEF UnitsOf
<1>3. /\ \A i \in I : f[i] \in J
      /\ \A i, j \in I : f[i] = f[j] => i = j
      /\ \A j \in J : \E i \in I : f[i] = j
  BY DEF Bijection, Injection, Surjection, IsInjective
<1>4. g \in [U -> V]
  <2>1. ASSUME NEW u \in U
        PROVE  <<f[u[1]], u[2]>> \in V
    BY <1>1, <1>2, <1>3
  <2>2. QED
    BY <2>1
<1>5. ASSUME NEW u \in U, NEW w \in U, g[u] = g[w]
      PROVE  u = w
  <2>1. f[u[1]] = f[w[1]] /\ u[2] = w[2]
    BY <1>5
  <2>2. QED
    BY <1>1, <1>3, <2>1
<1>6. ASSUME NEW v \in V
      PROVE  \E u \in U : g[u] = v
  <2>1. PICK i \in I : f[i] = v[1]
    BY <1>2, <1>3
  <2>2. v[2] \in 1..n[i] /\ v = <<v[1], v[2]>>
    BY <1>2, <2>1
  <2>3. <<i, v[2]>> \in U /\ g[<<i, v[2]>>] = v
    BY <1>1, <2>1, <2>2
  <2>4. QED
    BY <2>3
<1>7. g \in Bijection(U, V)
  <2> HIDE DEF g, U, V
  <2> QED
    BY <1>4, <1>5, <1>6 DEF Bijection, Injection, Surjection, IsInjective
<1>8. IsFiniteSet(U)
  BY UnitsFinite
<1>9. QED
  BY <1>7, <1>8, FS_Bijection DEF ExistsBijection, Total
=============================================================================
