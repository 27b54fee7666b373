------------------------- MODULE WebhookRetryProofs -------------------------
(***************************************************************************)
(* How often a delivery is attempted when any number of proxies replay the *)
(* same table. The counters the proxies have for a row are looked at as a  *)
(* spread: how many proxies have the counter at 0, at 1, and so on. Every  *)
(* counter that is saved moves the spread forward in a lexicographic order *)
(* of the spreads, and each failed attempt is paid for by such a move.     *)
(***************************************************************************)
EXTENDS WebhookBoundsProofs, WellFoundedInduction

-----------------------------------------------------------------------------
(* Facts about finite sets and numbers. *)

LEMMA LeastNumber ==
    ASSUME NEW T \in SUBSET Nat, T # {}
    PROVE  \E m \in T : \A k \in T : m <= k
<1> DEFINE R == {ss \in Nat \X Nat : ss[1] < ss[2]}
<1>1. IsWellFoundedOn(R, Nat)
    BY NatLessThanWellFounded DEF OpToRel
<1> HIDE DEF R
<1>2. \E m \in T : \A k \in T : <<k, m>> \notin R
    BY <1>1, WFMin
<1>3. \A k \in Nat, m \in Nat : <<k, m>> \notin R => m <= k
    BY DEF R
<1> QED
    BY <1>2, <1>3

LEMMA FiniteFunctions ==
    ASSUME NEW A, IsFiniteSet(A), NEW B, IsFiniteSet(B)
    PROVE  IsFiniteSet([A -> B])
<1> DEFINE S == SUBSET (A \X B)
           F(g) == [a \in A |-> CHOOSE b \in B : <<a, b>> \in g]
           T == {g \in S : \A a \in A : \E b \in B : <<a, b>> \in g}
           f == [g \in T |-> F(g)]
<1>1. IsFiniteSet(T)
    <2>1. IsFiniteSet(A \X B)
        BY FS_Product
    <2>2. IsFiniteSet(S)
        BY <2>1, FS_SUBSET
    <2> QED
        BY <2>2, FS_Subset
<1>2. f \in [T -> [A -> B]]
    <2> SUFFICES ASSUME NEW g \in T  PROVE F(g) \in [A -> B]
        OBVIOUS
    <2> QED
        OBVIOUS
<1>3. ASSUME NEW y \in [A -> B]  PROVE \E g \in T : f[g] = y
    <2> DEFINE g == {<<a, y[a]>> : a \in A}
    <2>1. g \in T
        OBVIOUS
    <2>2. ASSUME NEW a \in A  PROVE F(g)[a] = y[a]
        <3>1. \A b \in B : <<a, b>> \in g <=> b = y[a]
            OBVIOUS
        <3> QED
            BY <3>1
    <2>3. F(g) = y
        BY <2>2
    <2> QED
        BY <2>1, <2>3
<1>4. f \in Surjection(T, [A -> B])
    BY <1>2, <1>3 DEF Surjection
<1> QED
    BY <1>1, <1>4, FS_Surjection

-----------------------------------------------------------------------------
(* The spreads of the counters and their order. *)

Levels == [Proxies -> 0..MaxRequestRetry]

(* Spread u comes later than v: at the lowest value where they differ,     *)
(* fewer proxies are left in u.                                            *)
Later(u, v) ==
    \E k \in 0..MaxRequestRetry :
        /\ u[k] < v[k]
        /\ \A j \in 0..MaxRequestRetry : j < k => u[j] = v[j]

(* The spreads that are still ahead of the counters y. *)
Ahead(y) == {u \in Spreads : Later(u, Spread(y))}

LEMMA SpreadType ==
    ASSUME NEW y
    PROVE  Spread(y) \in [0..MaxRequestRetry -> Nat]
<1>1. ASSUME NEW k  PROVE Cardinality({p \in Proxies : y[p] = k}) \in Nat
    BY CrashAssumption, FS_Subset, FS_CardinalityType
<1> QED
    BY <1>1 DEF Spread

LEMMA SpreadsFinite ==
    /\ IsFiniteSet(Spreads)
    /\ Cardinality(Spreads) \in Nat
    /\ \A y \in Levels : Spread(y) \in Spreads
<1> DEFINE f == [y \in Levels |-> Spread(y)]
<1>1. IsFiniteSet(Levels)
    <2>1. IsFiniteSet(0..MaxRequestRetry)
        BY LoopAssumption, FS_Interval
    <2> QED
        BY <2>1, CrashAssumption, FiniteFunctions DEF Levels
<1>2. f \in Surjection(Levels, Spreads)
    BY DEF Surjection, Spreads, Levels
<1>3. IsFiniteSet(Spreads)
    BY <1>1, <1>2, FS_Surjection
<1> QED
    BY <1>3, FS_CardinalityType DEF Spreads, Levels

LEMMA LaterOrders ==
    ASSUME NEW u \in [0..MaxRequestRetry -> Nat],
           NEW v \in [0..MaxRequestRetry -> Nat],
           NEW w \in [0..MaxRequestRetry -> Nat]
    PROVE  /\ ~Later(u, u)
           /\ Later(u, v) /\ Later(v, w) => Later(u, w)
<1> USE LoopAssumption
<1>1. ~Later(u, u)
    BY DEF Later
<1>2. ASSUME Later(u, v), Later(v, w)  PROVE Later(u, w)
    <2>1. PICK k \in 0..MaxRequestRetry :
              /\ u[k] < v[k]
              /\ \A j \in 0..MaxRequestRetry : j < k => u[j] = v[j]
        BY <1>2 DEF Later
    <2>2. PICK i \in 0..MaxRequestRetry :
              /\ v[i] < w[i]
              /\ \A j \in 0..MaxRequestRetry : j < i => v[j] = w[j]
        BY <1>2 DEF Later
    <2>3. CASE k <= i
        <3>1. u[k] < w[k]
            BY <2>1, <2>2, <2>3
        <3>2. \A j \in 0..MaxRequestRetry : j < k => u[j] = w[j]
            BY <2>1, <2>2, <2>3
        <3> QED
            BY <3>1, <3>2 DEF Later
    <2>4. CASE i < k
        <3>1. u[i] < w[i]
            BY <2>1, <2>2, <2>4
        <3>2. \A j \in 0..MaxRequestRetry : j < i => u[j] = w[j]
            BY <2>1, <2>2, <2>4
        <3> QED
            BY <3>1, <3>2 DEF Later
    <2> QED
        BY <2>3, <2>4
<1> QED
    BY <1>1, <1>2

LEMMA AheadCards ==
    ASSUME NEW y \in Levels
    PROVE  /\ Cardinality(Ahead(y)) \in Nat
           /\ Cardinality(Ahead(y)) + 1 <= Cardinality(Spreads)
           /\ \A z \in Levels : Later(Spread(z), Spread(y)) =>
                 Cardinality(Ahead(z)) + 1 <= Cardinality(Ahead(y))
<1>1. IsFiniteSet(Spreads) /\ Spread(y) \in Spreads
    BY SpreadsFinite
<1>2. Ahead(y) \in SUBSET Spreads /\ Spread(y) \notin Ahead(y)
    BY SpreadType, LaterOrders DEF Ahead
<1>3. Cardinality(Ahead(y)) + 1 <= Cardinality(Spreads)
    BY <1>1, <1>2, SubsetCards
<1>4. ASSUME NEW z \in Levels, Later(Spread(z), Spread(y))
      PROVE  Cardinality(Ahead(z)) + 1 <= Cardinality(Ahead(y))
    <2>1. Spread(z) \in Ahead(y)
        BY <1>4, SpreadsFinite DEF Ahead
    <2>2. Spread(z) \notin Ahead(z) /\ Ahead(z) \in SUBSET Spreads
        BY SpreadType, LaterOrders DEF Ahead
    <2>3. ASSUME NEW u \in Ahead(z)  PROVE u \in Ahead(y)
        <3>1. u \in [0..MaxRequestRetry -> Nat]
            BY SpreadType DEF Ahead, Spreads
        <3> QED
            BY <1>4, <3>1, SpreadType, LaterOrders DEF Ahead
    <2>4. Ahead(z) \subseteq Ahead(y) \ {Spread(z)}
        BY <2>2, <2>3
    <2> QED
        BY <1>1, <1>2, <2>1, <2>2, <2>4, SubsetCards
<1> QED
    BY <1>1, <1>2, <1>3, <1>4, SubsetCards

(* Counters that move up without any coming down to the value m of one     *)
(* that moves, or below, move the spread on.                               *)
Raises(y, z, p) ==
    /\ y[p] < z[p]
    /\ \A q \in Proxies : z[q] = y[q] \/ (y[p] <= y[q] /\ y[p] < z[q])

LEMMA RaisesMovesOn ==
    ASSUME NEW y \in Levels, NEW z \in Levels, NEW p \in Proxies, Raises(y, z, p)
    PROVE  Later(Spread(z), Spread(y))
<1> DEFINE At(x, k) == {q \in Proxies : x[q] = k}
           m == y[p]
<1>1. /\ m \in 0..MaxRequestRetry /\ y \in [Proxies -> Nat] /\ z \in [Proxies -> Nat]
      /\ IsFiniteSet(Proxies)
    BY CrashAssumption DEF Levels
<1>2. Cardinality(At(z, m)) < Cardinality(At(y, m))
    <2>1. p \in At(y, m) /\ At(z, m) \subseteq At(y, m) \ {p}
        BY <1>1 DEF Raises
    <2>2. At(y, m) \in SUBSET Proxies /\ At(z, m) \in SUBSET Proxies
        OBVIOUS
    <2>3. /\ Cardinality(At(z, m)) + 1 <= Cardinality(At(y, m))
          /\ Cardinality(At(z, m)) \in Nat /\ Cardinality(At(y, m)) \in Nat
        BY <1>1, <2>1, <2>2, SubsetCards
    <2> QED
        BY <2>3
<1>3. ASSUME NEW j \in 0..MaxRequestRetry, j < m
      PROVE  At(z, j) = At(y, j)
    BY <1>1, <1>3, LoopAssumption DEF Raises
<1>4. \A x, k : k \in 0..MaxRequestRetry => Spread(x)[k] = Cardinality(At(x, k))
    BY DEF Spread
<1>5. Spread(z)[m] < Spread(y)[m]
    BY <1>1, <1>2, <1>4
<1>6. ASSUME NEW j \in 0..MaxRequestRetry, j < m
      PROVE  Spread(z)[j] = Spread(y)[j]
    <2>1. At(z, j) = At(y, j)
        BY <1>3, <1>6
    <2> HIDE DEF At
    <2> QED
        BY <1>4, <2>1
<1> QED
    BY <1>1, <1>5, <1>6 DEF Later

(* The proxies that have counters below the limit cannot outnumber the     *)
(* spreads ahead: raising them to the limit one after the other passes     *)
(* through a different spread each time.                                   *)
LEMMA AheadSuffices ==
    ASSUME NEW y \in Levels, NEW J \in SUBSET Proxies,
           \A p \in J : y[p] < MaxRequestRetry
    PROVE  Cardinality(J) <= Cardinality(Ahead(y))
<1> USE LoopAssumption
<1>1. IsFiniteSet(J) /\ Cardinality(J) \in Nat /\ ExistsBijection(1..Cardinality(J), J)
    BY CrashAssumption, FS_Subset, FS_CardinalityType
<1> DEFINE n == Cardinality(J)
           M == MaxRequestRetry
<1>2. PICK b : b \in Bijection(1..n, J)
    BY <1>1 DEF ExistsBijection
<1>3. /\ b \in [1..n -> J]
      /\ \A i, j \in 1..n : b[i] = b[j] => i = j
    BY <1>2 DEF Bijection, Injection, IsInjective
<1> DEFINE Up(i) == [p \in Proxies |-> IF \E j \in 1..i : b[j] = p THEN M ELSE y[p]]
           g == [i \in 1..n |-> Spread(Up(i))]
<1> HIDE DEF n
<1>4. ASSUME NEW i \in 1..n  PROVE Up(i) \in Levels
    BY DEF Levels
<1>5. ASSUME NEW i \in 1..n  PROVE g[i] \in Ahead(y)
    <2> DEFINE T == {y[b[j]] : j \in 1..i}
    <2>1. 1..i \subseteq 1..n /\ 1 \in 1..i
        BY <1>1 DEF n
    <2>2. T \in SUBSET Nat /\ T # {}
        BY <1>3, <2>1 DEF Levels
    <2>3. PICK m \in T : \A k \in T : m <= k
        BY <2>2, LeastNumber
    <2>4. PICK j \in 1..i : m = y[b[j]]
        BY <2>3
    <2>5. b[j] \in J /\ b[j] \in Proxies
        BY <1>3, <2>1
    <2>6. Raises(y, Up(i), b[j])
        <3>1. y[b[j]] < M /\ Up(i)[b[j]] = M
            BY <2>5
        <3>2. ASSUME NEW q \in Proxies, \E k \in 1..i : b[k] = q
              PROVE  y[b[j]] <= y[q] /\ Up(i)[q] = M
            BY <2>3, <2>4, <3>2
        <3>3. ASSUME NEW q \in Proxies, ~\E k \in 1..i : b[k] = q
              PROVE  Up(i)[q] = y[q]
            BY <3>3
        <3> HIDE DEF Up
        <3> QED
            BY <3>1, <3>2, <3>3 DEF Raises
    <2> HIDE DEF Up
    <2>7. Later(Spread(Up(i)), Spread(y))
        BY <1>4, <2>5, <2>6, RaisesMovesOn
    <2> QED
        BY <1>4, <2>7, SpreadsFinite DEF Ahead
<1>6. ASSUME NEW i \in 1..n, NEW j \in 1..n, i < j
      PROVE  g[i] # g[j]
    <2> DEFINE At(k) == {p \in Proxies : Up(k)[p] = M}
    <2>1. b[j] \in Proxies /\ y[b[j]] < M /\ y[b[j]] \in Nat
        BY <1>3 DEF Levels
    <2>2. ~\E k \in 1..i : b[k] = b[j]
        BY <1>1, <1>3, <1>6 DEF n
    <2>3. b[j] \notin At(i) /\ b[j] \in At(j)
        BY <1>1, <2>1, <2>2 DEF n
    <2>4. 1..i \subseteq 1..j
        BY <1>1, <1>6 DEF n
    <2>5. At(i) \subseteq At(j) \ {b[j]}
        BY <2>3, <2>4
    <2>6. /\ Cardinality(At(i)) + 1 <= Cardinality(At(j))
          /\ Cardinality(At(i)) \in Nat /\ Cardinality(At(j)) \in Nat
        BY CrashAssumption, <2>3, <2>5, SubsetCards
    <2> HIDE DEF Up
    <2>7. /\ Spread(Up(i))[M] = Cardinality(At(i))
          /\ Spread(Up(j))[M] = Cardinality(At(j))
        BY DEF Spread
    <2> HIDE DEF At
    <2> QED
        BY <2>6, <2>7
<1> HIDE DEF g
<1>7. g \in Injection(1..n, Ahead(y))
    <2>1. g \in [1..n -> Ahead(y)]
        BY <1>5 DEF g
    <2>2. \A i, j \in 1..n : g[i] = g[j] => i = j
        BY <1>1, <1>6 DEF n
    <2> QED
        BY <2>1, <2>2 DEF Injection, IsInjective
<1>8. IsFiniteSet(Ahead(y))
    BY SpreadsFinite, FS_Subset DEF Ahead
<1>9. Cardinality(1..n) <= Cardinality(Ahead(y))
    BY <1>7, <1>8, FS_Injection
<1>10. n \in Nat /\ Cardinality(1..n) = n
    BY <1>1, FS_Interval DEF n
<1> QED
    BY <1>9, <1>10 DEF n

(* With one proxy there are as many spreads as values of the counter, so   *)
(* that OverlapRetryBound is RetryBound.                                   *)
LEMMA SpreadsOfOne ==
    ASSUME NEW p, Proxies = {p}
    PROVE  Cardinality(Spreads) = MaxRequestRetry + 1
<1> DEFINE y(m) == [q \in Proxies |-> m]
           f == [m \in 0..MaxRequestRetry |-> Spread(y(m))]
<1>1. ASSUME NEW m \in 0..MaxRequestRetry, NEW k \in 0..MaxRequestRetry
      PROVE  f[m][k] = IF k = m THEN 1 ELSE 0
    <2>1. f[m][k] = Cardinality({q \in Proxies : y(m)[q] = k})
        BY DEF Spread
    <2>2. {q \in Proxies : y(m)[q] = k} = IF k = m THEN {p} ELSE {}
        OBVIOUS
    <2> HIDE DEF f, y
    <2> QED
        BY <2>1, <2>2, FS_EmptySet, FS_Singleton
<1>2. \A m, n \in 0..MaxRequestRetry : f[m] = f[n] => m = n
    <2> HIDE DEF f
    <2> QED
        BY <1>1
<1>3. \A m \in 0..MaxRequestRetry : y(m) \in Levels
    BY DEF Levels
<1>4. ASSUME NEW u \in Spreads
      PROVE  \E m \in 0..MaxRequestRetry : f[m] = u
    <2>1. PICK z \in Levels : u = Spread(z)
        BY <1>4 DEF Spreads, Levels
    <2>2. z[p] \in 0..MaxRequestRetry /\ z = y(z[p])
        BY <2>1 DEF Levels
    <2> QED
        BY <2>1, <2>2
<1>5. f \in [0..MaxRequestRetry -> Spreads]
    BY <1>3, SpreadsFinite
<1>6. f \in Bijection(0..MaxRequestRetry, Spreads)
    <2> HIDE DEF f
    <2> QED
        BY <1>2, <1>4, <1>5 DEF Bijection, Injection, Surjection, IsInjective
<1>7. /\ IsFiniteSet(0..MaxRequestRetry)
      /\ Cardinality(0..MaxRequestRetry) = MaxRequestRetry + 1
    BY LoopAssumption, FS_Interval
<1> HIDE DEF f
<1>8. ExistsBijection(0..MaxRequestRetry, Spreads)
    BY <1>6 DEF ExistsBijection
<1> QED
    BY <1>7, <1>8, FS_Bijection

(* The pairs of counters up to n, the smaller one first.                   *)
Pairs(n) == {t \in (0..n) \X (0..n) : t[1] <= t[2]}

LEMMA PairsGrow ==
    ASSUME NEW n \in Nat
    PROVE  /\ IsFiniteSet(Pairs(n)) /\ Cardinality(Pairs(n)) \in Nat
           /\ Cardinality(Pairs(n + 1)) = Cardinality(Pairs(n)) + n + 2
<1> DEFINE New == {<<a, n + 1>> : a \in 0..(n + 1)}
           f == [a \in 0..(n + 1) |-> <<a, n + 1>>]
<1>1. IsFiniteSet(0..n) /\ IsFiniteSet(0..(n + 1)) /\ Cardinality(0..(n + 1)) = n + 2
    BY FS_Interval
<1>2. IsFiniteSet(Pairs(n))
    <2>1. IsFiniteSet((0..n) \X (0..n))
        BY <1>1, FS_Product
    <2> QED
        BY <2>1, FS_Subset DEF Pairs
<1>3. f \in Bijection(0..(n + 1), New)
    BY DEF Bijection, Injection, Surjection, IsInjective
<1>4. ExistsBijection(0..(n + 1), New)
    BY <1>3 DEF ExistsBijection
<1>5. IsFiniteSet(New) /\ Cardinality(New) = n + 2
    BY <1>1, <1>4, FS_Bijection
<1>6. Pairs(n + 1) = Pairs(n) \cup New
    <2>1. Pairs(n) \cup New \subseteq Pairs(n + 1)
        BY DEF Pairs
    <2>2. ASSUME NEW t \in Pairs(n + 1)  PROVE t \in Pairs(n) \cup New
        <3>1. /\ t = <<t[1], t[2]>> /\ t[1] \in 0..(n + 1) /\ t[2] \in 0..(n + 1)
              /\ t[1] <= t[2]
            BY DEF Pairs
        <3>2. CASE t[2] = n + 1
            BY <3>1, <3>2
        <3>3. CASE t[2] # n + 1
            <4>1. t[1] \in 0..n /\ t[2] \in 0..n
                BY <3>1, <3>3
            <4> QED
                BY <3>1, <4>1 DEF Pairs
        <3> QED
            BY <3>2, <3>3
    <2> QED
        BY <2>1, <2>2
<1>7. Pairs(n) \cap New = {}
    BY DEF Pairs
<1>8. Cardinality(Pairs(n) \cup New)
          = Cardinality(Pairs(n)) + Cardinality(New) - Cardinality(Pairs(n) \cap New)
    BY <1>2, <1>5, FS_Union
<1>9. Cardinality(Pairs(n)) \in Nat /\ Cardinality(Pairs(n) \cap New) = 0
    BY <1>2, <1>7, FS_CardinalityType, FS_EmptySet
<1>10. Cardinality(Pairs(n + 1)) = Cardinality(Pairs(n)) + Cardinality(New) - 0
    BY <1>6, <1>8, <1>9
<1> QED
    BY <1>2, <1>5, <1>9, <1>10

LEMMA PairsCount ==
    ASSUME NEW n \in Nat
    PROVE  /\ IsFiniteSet(Pairs(n))
           /\ 2 * Cardinality(Pairs(n)) = (n + 1) * (n + 2)
<1> DEFINE Wrongly == {m \in Nat : 2 * Cardinality(Pairs(m)) # (m + 1) * (m + 2)}
<1>1. ASSUME Wrongly # {}  PROVE FALSE
    <2>1. PICK m \in Wrongly : \A k \in Wrongly : m <= k
        BY <1>1, LeastNumber
    <2>2. CASE m = 0
        <3>1. Pairs(0) = {<<0, 0>>}
            <4>1. ASSUME NEW t \in Pairs(0)  PROVE t = <<0, 0>>
                BY DEF Pairs
            <4>2. <<0, 0>> \in Pairs(0)
                BY DEF Pairs
            <4> QED
                BY <4>1, <4>2
        <3>2. Cardinality(Pairs(0)) = 1
            BY <3>1, FS_Singleton
        <3> QED
            BY <2>1, <2>2, <3>2
    <2>3. CASE m # 0
        <3>1. m - 1 \in Nat /\ m - 1 \notin Wrongly /\ (m - 1) + 1 = m
            BY <2>1, <2>3
        <3>2. /\ Cardinality(Pairs(m)) = Cardinality(Pairs(m - 1)) + m + 1
              /\ Cardinality(Pairs(m - 1)) \in Nat
            BY <3>1, PairsGrow
        <3>3. 2 * Cardinality(Pairs(m - 1)) = m * (m + 1)
            BY <3>1
        <3>4. m * (m + 1) + 2 * (m + 1) = (m + 1) * (m + 2)
            BY <2>1
        <3>5. 2 * Cardinality(Pairs(m)) = 2 * Cardinality(Pairs(m - 1)) + 2 * (m + 1)
            <4>1. m \in Nat
                BY <2>1
            <4> HIDE DEF Wrongly
            <4> QED
                BY <3>2, <4>1
        <3> QED
            BY <2>1, <3>3, <3>4, <3>5
    <2> QED
        BY <2>2, <2>3
<1> QED
    BY <1>1, PairsGrow

(* With two proxies a spread is an unordered pair of counters.             *)
LEMMA SpreadsOfTwo ==
    ASSUME NEW p, NEW q, p # q, Proxies = {p, q}
    PROVE  2 * Cardinality(Spreads) = (MaxRequestRetry + 1) * (MaxRequestRetry + 2)
<1> DEFINE M == MaxRequestRetry
           y(t) == [x \in Proxies |-> IF x = p THEN t[1] ELSE t[2]]
           f == [t \in Pairs(M) |-> Spread(y(t))]
           In(m, k) == IF k = m THEN 1 ELSE 0
<1> USE LoopAssumption
<1>1. ASSUME NEW z \in Levels, NEW k \in 0..M
      PROVE  Spread(z)[k] = In(z[p], k) + In(z[q], k)
    <2>1. Spread(z)[k] = Cardinality({x \in Proxies : z[x] = k})
        BY DEF Spread
    <2>2. {x \in Proxies : z[x] = k}
              = IF z[p] = k THEN IF z[q] = k THEN {p, q} ELSE {p}
                ELSE IF z[q] = k THEN {q} ELSE {}
        OBVIOUS
    <2>3. /\ Cardinality({p, q}) = 2
          /\ Cardinality({p}) = 1 /\ Cardinality({q}) = 1 /\ Cardinality({}) = 0
        <3>1. IsFiniteSet({p}) /\ Cardinality({p}) = 1 /\ {p, q} = {p} \cup {q}
            BY FS_Singleton
        <3>2. Cardinality({p} \cup {q}) = Cardinality({p}) + 1
            BY <3>1, FS_AddElement
        <3>3. Cardinality({q}) = 1 /\ Cardinality({}) = 0
            BY FS_EmptySet, FS_Singleton
        <3>4. Cardinality({p, q}) = 2
            BY <3>1, <3>2
        <3> QED
            BY <3>1, <3>3, <3>4
    <2>4. CASE z[p] = k /\ z[q] = k
        BY <2>1, <2>2, <2>3, <2>4
    <2>5. CASE z[p] = k /\ z[q] # k
        BY <2>1, <2>2, <2>3, <2>5
    <2>6. CASE z[p] # k /\ z[q] = k
        BY <2>1, <2>2, <2>3, <2>6
    <2>7. CASE z[p] # k /\ z[q] # k
        BY <2>1, <2>2, <2>3, <2>7
    <2> QED
        BY <2>4, <2>5, <2>6, <2>7
<1>2. ASSUME NEW t \in Pairs(M)
      PROVE  /\ y(t) \in Levels /\ y(t)[p] = t[1] /\ y(t)[q] = t[2]
             /\ t = <<t[1], t[2]>> /\ t[1] \in 0..M /\ t[2] \in 0..M /\ t[1] <= t[2]
    BY DEF Pairs, Levels
<1>3. ASSUME NEW t \in Pairs(M), NEW k \in 0..M
      PROVE  f[t][k] = In(t[1], k) + In(t[2], k)
    <2>1. y(t) \in Levels /\ y(t)[p] = t[1] /\ y(t)[q] = t[2]
        BY <1>2
    <2>2. f[t] = Spread(y(t))
        OBVIOUS
    <2> HIDE DEF y, f
    <2> QED
        BY <1>1, <2>1, <2>2
<1>4. ASSUME NEW s \in Pairs(M), NEW t \in Pairs(M), f[s] = f[t]
      PROVE  s = t
    <2>1. /\ s = <<s[1], s[2]>> /\ s[1] \in 0..M /\ s[2] \in 0..M /\ s[1] <= s[2]
          /\ t = <<t[1], t[2]>> /\ t[1] \in 0..M /\ t[2] \in 0..M /\ t[1] <= t[2]
        BY <1>2
    <2>2. ASSUME NEW k \in 0..M
          PROVE  In(s[1], k) + In(s[2], k) = In(t[1], k) + In(t[2], k)
        <3> HIDE DEF f, In
        <3> QED
            BY <1>3, <1>4
    <2>3. s[1] = t[1] /\ s[2] = t[2]
        BY <2>1, <2>2
    <2> QED
        BY <2>1, <2>3
<1>5. ASSUME NEW u \in Spreads
      PROVE  \E t \in Pairs(M) : f[t] = u
    <2>1. PICK z \in Levels : u = Spread(z)
        BY <1>5 DEF Spreads, Levels
    <2>2. z[p] \in 0..M /\ z[q] \in 0..M /\ z \in [Proxies -> 0..M]
        BY <2>1 DEF Levels
    <2>3. PICK t \in Pairs(M) :
              \/ t[1] = z[p] /\ t[2] = z[q]
              \/ t[1] = z[q] /\ t[2] = z[p]
        <3>1. CASE z[p] <= z[q]
            <4>1. <<z[p], z[q]>> \in Pairs(M)
                BY <2>2, <3>1 DEF Pairs
            <4> QED
                BY <4>1
        <3>2. CASE z[q] <= z[p]
            <4>1. <<z[q], z[p]>> \in Pairs(M)
                BY <2>2, <3>2 DEF Pairs
            <4> QED
                BY <4>1
        <3> QED
            BY <2>2, <3>1, <3>2
    <2>4. ASSUME NEW k \in 0..M  PROVE f[t][k] = u[k]
        <3>1. f[t][k] = In(t[1], k) + In(t[2], k)
            BY <1>3
        <3>2. u[k] = In(z[p], k) + In(z[q], k)
            BY <1>1, <2>1
        <3>3. In(z[p], k) \in Nat /\ In(z[q], k) \in Nat
            OBVIOUS
        <3> HIDE DEF In, f
        <3> QED
            BY <2>3, <3>1, <3>2, <3>3
    <2>5. f[t] \in [0..M -> Nat] /\ u \in [0..M -> Nat]
        BY <2>1, SpreadType
    <2>6. f[t] = u
        <3> HIDE DEF f
        <3> QED
            BY <2>4, <2>5
    <2> QED
        BY <2>6
<1>6. f \in [Pairs(M) -> Spreads]
    BY <1>2, SpreadsFinite
<1>7. f \in Bijection(Pairs(M), Spreads)
    <2> HIDE DEF f
    <2> QED
        BY <1>4, <1>5, <1>6 DEF Bijection, Injection, Surjection, IsInjective
<1> HIDE DEF f
<1>8. ExistsBijection(Pairs(M), Spreads)
    BY <1>7 DEF ExistsBijection
<1> QED
    BY <1>8, PairsCount, FS_Bijection

-----------------------------------------------------------------------------
(* The counters the proxies have for a row: that of the table, or that of  *)
(* the copy a loop is going to increase, if the copy has fallen behind.    *)
InHand(p) ==
    batch[p] \cup {r \in {cur[p]} : lpc[p] \in {"send", "increment"}}

Counts(p, h) ==
    {retries[h]} \cup {r.retries : r \in {s \in InHand(p) : s.id = h}}

Least(S) == CHOOSE m \in S : \A k \in S : m <= k

Count(p, h) == Least(Counts(p, h))

CountsOf(h) == [p \in Proxies |-> Count(p, h)]

(* The proxies that will attempt a delivery with the copy they hold, and   *)
(* those that have yet to save the counter of a failed attempt.            *)
Trying(h) ==
    {p \in Proxies :
        \/ \E r \in batch[p] : r.id = h /\ r.retries < MaxRequestRetry
        \/ lpc[p] = "send" /\ cur[p].id = h /\ cur[p].retries < MaxRequestRetry}

Owing(h) == {p \in Proxies : lpc[p] = "increment" /\ cur[p].id = h}

LimitKept ==
    /\ \A h \in requests : retries[h] <= MaxRequestRetry
    /\ \A p \in Proxies : lpc[p] = "increment" => cur[p].retries < MaxRequestRetry

(* While the row is there, the failed attempts and the spreads ahead of    *)
(* the counters are no more than all spreads, but for the counters not yet *)
(* saved and what went wrong; once it is gone, each proxy that still holds *)
(* a copy may fail once more.                                              *)
AttemptsPaid ==
    \A h \in Hooks :
        /\ h \in requests =>
              failures[h] + Cardinality(Ahead(CountsOf(h))) + 1
                  <= Cardinality(Spreads) + Wrong + Cardinality(Owing(h))
        /\ h \notin requests =>
              failures[h] + Cardinality(Trying(h)) + 1
                  <= Cardinality(Spreads) + Wrong

OverlapInv == OpenUntried /\ LimitKept /\ AttemptsPaid

LEMMA LeastIsLeast ==
    ASSUME NEW S \in SUBSET Nat, S # {}
    PROVE  Least(S) \in S /\ \A k \in S : Least(S) <= k
<1>1. \E m \in S : \A k \in S : m <= k
    BY LeastNumber
<1> QED
    BY <1>1 DEF Least

LEMMA CountIsLeast ==
    ASSUME TypeOK, NEW p \in Proxies, NEW h \in Hooks
    PROVE  /\ Count(p, h) \in Counts(p, h) /\ Counts(p, h) \subseteq Nat
           /\ \A k \in Counts(p, h) : Count(p, h) <= k
<1>1. InHand(p) \subseteq Row /\ retries[h] \in Nat
    BY DEF TypeOK, StoreTypeOK, LoopTypeOK, InHand
<1>2. Counts(p, h) \in SUBSET Nat /\ Counts(p, h) # {}
    <2>1. \A r \in InHand(p) : r.retries \in Nat
        BY <1>1 DEF Row
    <2> QED
        BY <1>1, <2>1 DEF Counts
<1> QED
    BY <1>2, LeastIsLeast DEF Count

LEMMA CountsInLevels ==
    TypeOK /\ LimitKept => \A h \in requests : CountsOf(h) \in Levels
<1> SUFFICES ASSUME TypeOK, LimitKept, NEW h \in requests
             PROVE  CountsOf(h) \in Levels
    OBVIOUS
<1>1. h \in Hooks /\ retries[h] <= MaxRequestRetry
    BY DEF TypeOK, StoreTypeOK, LimitKept
<1>2. ASSUME NEW p \in Proxies  PROVE Count(p, h) \in 0..MaxRequestRetry
    <2>1. Count(p, h) \in Nat /\ Count(p, h) <= retries[h] /\ retries[h] \in Nat
        BY <1>1, CountIsLeast DEF Counts
    <2> QED
        BY <1>1, <2>1, LoopAssumption
<1> QED
    BY <1>2 DEF CountsOf, Levels

LEMMA CountsInLevelsNext ==
    (TypeOK /\ LimitKept => \A h \in requests : CountsOf(h) \in Levels)'
BY CountsInLevels, PTL

(* Whoever still tries or owes a save has a counter below the limit.       *)
LEMMA EnoughAhead ==
    ASSUME TypeOK, CopiesUnique, LimitKept, NEW h \in requests
    PROVE  /\ Cardinality(Trying(h)) \in Nat /\ Cardinality(Owing(h)) \in Nat
           /\ Cardinality(Ahead(CountsOf(h))) \in Nat
           /\ Cardinality(Trying(h)) + Cardinality(Owing(h))
                  <= Cardinality(Ahead(CountsOf(h)))
<1> DEFINE J == Trying(h) \cup Owing(h)
<1>1. /\ IsFiniteSet(Trying(h)) /\ IsFiniteSet(Owing(h))
      /\ J \in SUBSET Proxies
    BY CrashAssumption, FS_Subset DEF Trying, Owing
<1>2. Trying(h) \cap Owing(h) = {}
    BY DEF Trying, Owing, CopiesUnique, Held
<1>3. Cardinality(J) = Cardinality(Trying(h)) + Cardinality(Owing(h))
    <2>1. Cardinality({}) = 0
        BY FS_EmptySet
    <2>2. Cardinality(Trying(h)) \in Nat /\ Cardinality(Owing(h)) \in Nat
        BY <1>1, FS_CardinalityType
    <2>3. Cardinality(J) = Cardinality(Trying(h)) + Cardinality(Owing(h))
                              - Cardinality(Trying(h) \cap Owing(h))
        BY <1>1, FS_Union
    <2>4. Cardinality(Trying(h) \cap Owing(h)) = 0
        BY <1>2, <2>1
    <2> QED
        BY <2>2, <2>3, <2>4
<1>4. ASSUME NEW p \in J  PROVE CountsOf(h)[p] < MaxRequestRetry
    <2>1. p \in Proxies /\ h \in Hooks
        BY <1>1 DEF TypeOK, StoreTypeOK
    <2>2. \E r \in InHand(p) : r.id = h /\ r.retries < MaxRequestRetry
        BY <1>4, <2>1 DEF Trying, Owing, InHand, LimitKept
    <2>3. \E k \in Counts(p, h) : k < MaxRequestRetry
        BY <2>2 DEF Counts
    <2>4. Count(p, h) \in Nat /\ \A k \in Counts(p, h) : k \in Nat /\ Count(p, h) <= k
        BY <2>1, CountIsLeast
    <2>5. Count(p, h) < MaxRequestRetry
        BY <2>3, <2>4, LoopAssumption
    <2> QED
        BY <2>1, <2>5 DEF CountsOf
<1>5. CountsOf(h) \in Levels
    BY CountsInLevels
<1>6. Cardinality(J) <= Cardinality(Ahead(CountsOf(h)))
    BY <1>1, <1>4, <1>5, AheadSuffices
<1> QED
    BY <1>1, <1>3, <1>5, <1>6, FS_CardinalityType, AheadCards

-----------------------------------------------------------------------------
(* What a step does to the copies in hand, and to the counters.            *)

LEMMA CopyTypes ==
    ASSUME TypeOK, NEW p \in Proxies
    PROVE  cur[p].id \in Hooks /\ cur[p].retries \in Nat
<1>1. cur[p] \in Row
    BY DEF TypeOK, LoopTypeOK
<1> QED
    BY <1>1 DEF Row

LEMMA OneLoop ==
    ASSUME TypeOK, [Next]_vars
    PROVE  \/ UNCHANGED loopVars
           \/ \E p \in Proxies :
                 /\ ReplayStep(p) \/ Crash(p)
                 /\ \A q \in Proxies : q # p =>
                       /\ lpc'[q] = lpc[q]
                       /\ batch'[q] = batch[q]
                       /\ cur'[q] = cur[q]
<1> USE DEF TypeOK, LoopTypeOK
<1>1. ASSUME NEW p \in Proxies, ReplayStep(p), NEW q \in Proxies, q # p
      PROVE  lpc'[q] = lpc[q] /\ batch'[q] = batch[q] /\ cur'[q] = cur[q]
    BY <1>1 DEF ReplayStep, LoopStep, GetUsers, GetRequests, CheckRow,
       EndOfRows, Send, GiveUp, DropUnformattable, IncrementRetry,
       DeleteSettled, LoopGoto, Break, loopVars
<1>2. ASSUME NEW p \in Proxies, Crash(p), NEW q \in Proxies, q # p
      PROVE  lpc'[q] = lpc[q] /\ batch'[q] = batch[q] /\ cur'[q] = cur[q]
    BY <1>2 DEF Crash
<1> QED
    BY <1>1, <1>2, NextCases DEF ArriveStep, HandleStep, VisitStep, EnvStep,
       loopVars, vars

(* What a loop has in hand after a step it had before, or has just read.   *)
LEMMA InHandSteps ==
    ASSUME TypeOK, NEW p \in Proxies, ReplayStep(p) \/ Crash(p),
           NEW r \in InHand(p)'
    PROVE  r \in InHand(p) \/ (r.id \in requests /\ r.retries = retries[r.id])
<1> USE DEF TypeOK, LoopTypeOK, LoopGoto, Break, InHand
<1>1. CASE GetUsers(p) \/ EndOfRows(p) \/ Send(p) \/ GiveUp(p) \/ DeleteSettled(p)
    BY <1>1 DEF GetUsers, EndOfRows, Send, GiveUp, DeleteSettled, loopVars
<1>2. CASE DropUnformattable(p) \/ IncrementRetry(p) \/ Crash(p)
    BY <1>2 DEF DropUnformattable, IncrementRetry, Crash
<1>3. CASE GetRequests(p)
    <2>1. CASE \E ns : batch' = [batch EXCEPT ![p] = RowsOf(ns)] /\ lpc'[p] = "row"
        <3>1. PICK ns : batch' = [batch EXCEPT ![p] = RowsOf(ns)]
            BY <2>1
        <3>2. r \in RowsOf(ns)
            BY <2>1, <3>1
        <3> QED
            BY <3>2 DEF RowsOf
    <2>2. CASE UNCHANGED batch /\ lpc'[p] \in {"requests", "users"}
        BY <2>2
    <2> QED
        BY <1>3, <2>1, <2>2 DEF GetRequests
<1>4. CASE CheckRow(p)
    BY <1>4 DEF CheckRow
<1> QED
    BY <1>1, <1>2, <1>3, <1>4 DEF ReplayStep, LoopStep

(* A counter is saved. *)
Saves(p, h) ==
    /\ IncrementRetry(p) /\ cur[p].id = h
    /\ retries' = [retries EXCEPT ![h] = cur[p].retries + 1]

LEMMA RetriesSteps ==
    ASSUME IInv, [Next]_vars, NEW h \in requests, retries'[h] # retries[h]
    PROVE  \E p \in Proxies : ReplayStep(p) /\ Saves(p, h)
<1> USE DEF IInv, TypeOK, StoreTypeOK
<1>1. PICK p \in Proxies : ReplayStep(p)
    BY TableSteps, StoredOnce
<1>2. IncrementRetry(p) /\ UpdateRequest(cur[p].id, cur[p].retries + 1)
    BY <1>1 DEF ReplayStep, LoopStep, GetUsers, GetRequests, CheckRow, EndOfRows,
       Send, GiveUp, DropUnformattable, IncrementRetry, DeleteSettled, Drop,
       DeleteRequest, CreateStatistics, storeVars
<1>3. cur[p].id = h /\ retries' = [retries EXCEPT ![h] = cur[p].retries + 1]
    BY <1>2 DEF UpdateRequest
<1> QED
    BY <1>1, <1>2, <1>3 DEF Saves

LEMMA FailureSteps ==
    ASSUME TypeOK, [Next]_vars, NEW h \in Hooks, failures'[h] # failures[h]
    PROVE  \E p \in Proxies :
               /\ ReplayStep(p) /\ Send(p) /\ cur[p].id = h
               /\ failures'[h] = failures[h] + 1
               /\ lpc' = [lpc EXCEPT ![p] = "increment"]
               /\ UNCHANGED <<batch, cur, requests, retries>>
<1> USE DEF TypeOK, LoopTypeOK
<1>1. PICK p \in Proxies : ReplayStep(p)
    BY TableSteps
<1>2. Send(p)
    BY <1>1 DEF ReplayStep, LoopStep, GetUsers, GetRequests, CheckRow, EndOfRows,
       GiveUp, DropUnformattable, IncrementRetry, DeleteSettled, loopVars
<1> QED
    BY <1>1, <1>2 DEF Send, LoopGoto, storeVars

(* As long as no counter is saved, the copies of one proxy become fewer,   *)
(* or are read anew, and its counter does not go down.                     *)
LEMMA CountsRise ==
    ASSUME IInv, [Next]_vars, TypeOK', LimitKept, LimitKept',
           NEW h \in requests, h \in requests', retries'[h] = retries[h]
    PROVE  \/ CountsOf(h)' = CountsOf(h)
           \/ Later(Spread(CountsOf(h)'), Spread(CountsOf(h)))
<1>0. h \in Hooks /\ TypeOK
    BY DEF IInv, TypeOK, StoreTypeOK
<1>1. ASSUME NEW q \in Proxies, lpc'[q] = lpc[q], batch'[q] = batch[q], cur'[q] = cur[q]
      PROVE  Count(q, h)' = Count(q, h)
    BY <1>1 DEF Count, Counts, InHand
<1>2. CASE UNCHANGED loopVars
    BY <1>1, <1>2 DEF loopVars, CountsOf
<1>3. ASSUME NEW p \in Proxies, ReplayStep(p) \/ Crash(p),
             \A q \in Proxies : q # p =>
                /\ lpc'[q] = lpc[q]
                /\ batch'[q] = batch[q]
                /\ cur'[q] = cur[q]
      PROVE  \/ CountsOf(h)' = CountsOf(h)
             \/ Later(Spread(CountsOf(h)'), Spread(CountsOf(h)))
    <2>1. Counts(p, h)' \subseteq Counts(p, h)
        BY <1>0, <1>3, InHandSteps DEF Counts
    <2>2. /\ Count(p, h) \in Nat /\ Count(p, h)' \in Nat
          /\ Count(p, h) <= Count(p, h)'
        <3>1. Counts(p, h)' \in SUBSET Nat /\ Counts(p, h)' # {}
            BY <1>0, <2>1, CountIsLeast DEF Counts
        <3>2. Count(p, h)' \in Counts(p, h)'
            BY <3>1, LeastIsLeast DEF Count
        <3> QED
            BY <1>0, <2>1, <3>2, CountIsLeast
    <2>3. \A q \in Proxies : q # p => CountsOf(h)'[q] = CountsOf(h)[q]
        BY <1>1, <1>3 DEF CountsOf
    <2>4. CASE Count(p, h)' = Count(p, h)
        BY <1>1, <1>3, <2>4 DEF CountsOf
    <2>5. CASE Count(p, h) < Count(p, h)'
        <3>1. Raises(CountsOf(h), CountsOf(h)', p)
            <4>1. /\ CountsOf(h)[p] = Count(p, h)
                  /\ CountsOf(h)'[p] = Count(p, h)'
                BY DEF CountsOf
            <4> QED
                BY <2>2, <2>3, <2>5, <4>1 DEF Raises
        <3>2. CountsOf(h) \in Levels /\ CountsOf(h)' \in Levels
            BY <1>0, CountsInLevels, CountsInLevelsNext
        <3> QED
            BY <3>1, <3>2, RaisesMovesOn
    <2> QED
        BY <2>2, <2>4, <2>5
<1> QED
    BY <1>0, <1>2, <1>3, OneLoop

(* A counter that is saved moves the spread on, whether it goes up or back *)
(* in the table: the proxies that would notice have lower copies.          *)
LEMMA SaveMovesOn ==
    ASSUME IInv, [Next]_vars, TypeOK', LimitKept, LimitKept',
           NEW h \in requests, h \in requests',
           NEW p \in Proxies, ReplayStep(p), Saves(p, h)
    PROVE  Later(Spread(CountsOf(h)'), Spread(CountsOf(h)))
<1> DEFINE c == cur[p].retries
<1>1. /\ h \in Hooks /\ TypeOK
      /\ c \in Nat /\ retries[h] \in Nat /\ retries'[h] = c + 1
    <2>1. c \in Nat
        BY CopyTypes DEF IInv
    <2> QED
        BY <2>1 DEF IInv, TypeOK, StoreTypeOK, Saves
<1>2. /\ lpc[p] = "increment" /\ lpc' = [lpc EXCEPT ![p] = "requests"]
      /\ batch' = [batch EXCEPT ![p] = {}] /\ cur' = cur
    BY DEF Saves, IncrementRetry, Break, LoopGoto
<1>3. InHand(p)' = {} /\ cur[p] \in InHand(p)
    BY <1>1, <1>2 DEF InHand, TypeOK, LoopTypeOK
<1>4. ASSUME NEW q \in Proxies, q # p
      PROVE  InHand(q)' = InHand(q)
    BY <1>1, <1>2, <1>4 DEF InHand, TypeOK, LoopTypeOK
<1>5. ASSUME NEW q \in Proxies
      PROVE  /\ Count(q, h) \in Counts(q, h) /\ Counts(q, h) \subseteq Nat
             /\ Count(q, h)' \in Counts(q, h)' /\ Counts(q, h)' \subseteq Nat
             /\ \A k \in Counts(q, h) : Count(q, h) <= k
             /\ \A k \in Counts(q, h)' : Count(q, h)' <= k
    <2>1. Counts(q, h)' \in SUBSET Nat /\ Counts(q, h)' # {}
        <3>1. \A r \in InHand(q)' : r \in InHand(q)
            BY <1>3, <1>4
        <3>2. Counts(q, h)' \subseteq Counts(q, h) \cup {c + 1}
            BY <1>1, <3>1 DEF Counts
        <3> QED
            BY <1>1, <3>2, CountIsLeast DEF Counts
    <2> QED
        BY <1>1, <2>1, CountIsLeast, LeastIsLeast DEF Count
<1>6. /\ Count(p, h) <= c /\ Count(p, h) <= retries[h]
      /\ Count(p, h) \in Nat /\ Count(p, h)' = c + 1
    <2>1. c \in Counts(p, h) /\ retries[h] \in Counts(p, h)
        BY <1>3 DEF Counts, Saves
    <2>2. Counts(p, h)' = {c + 1}
        BY <1>1, <1>3 DEF Counts
    <2> QED
        BY <1>5, <2>1, <2>2
<1>7. ASSUME NEW q \in Proxies, q # p
      PROVE  \/ Count(q, h)' = Count(q, h)
             \/ Count(p, h) <= Count(q, h) /\ Count(p, h) < Count(q, h)'
    <2> DEFINE K == {r.retries : r \in {s \in InHand(q) : s.id = h}}
    <2>1. Counts(q, h) = {retries[h]} \cup K /\ Counts(q, h)' = {c + 1} \cup K
        BY <1>1, <1>4, <1>7 DEF Counts
    <2>2. /\ Count(q, h) \in Nat /\ Count(q, h)' \in Nat
          /\ Count(q, h) \in {retries[h]} \cup K
          /\ Count(q, h)' \in {c + 1} \cup K
          /\ \A k \in K : Count(q, h) <= k /\ Count(q, h)' <= k
          /\ Count(q, h) <= retries[h] /\ Count(q, h)' <= c + 1
        BY <1>5, <2>1
    <2> HIDE DEF K, c
    <2>3. CASE Count(q, h)' <= Count(p, h)
        BY <1>1, <1>6, <2>2, <2>3
    <2>4. CASE Count(p, h) < Count(q, h)' /\ Count(q, h) < Count(p, h)
        BY <1>1, <1>6, <2>2, <2>4
    <2> QED
        BY <1>6, <2>2, <2>3, <2>4
<1>8. Raises(CountsOf(h), CountsOf(h)', p)
    <2>1. \A q \in Proxies : /\ CountsOf(h)[q] = Count(q, h)
                              /\ CountsOf(h)'[q] = Count(q, h)'
        BY DEF CountsOf
    <2> QED
        BY <1>1, <1>6, <1>7, <2>1 DEF Raises
<1>9. CountsOf(h) \in Levels /\ CountsOf(h)' \in Levels
    BY <1>1, CountsInLevels, CountsInLevelsNext
<1> QED
    BY <1>8, <1>9, RaisesMovesOn

-----------------------------------------------------------------------------
(* The invariant is kept. *)

LEMMA UntriedAllNext ==
    ASSUME IInv, OpenUntried, [Next]_vars
    PROVE  OpenUntried'
<1> SUFFICES ASSUME NEW h \in Hooks, pc'[h] \in OpenStates
             PROVE  failures'[h] = 0
    BY DEF OpenUntried
<1>1. pc[h] \in OpenStates /\ failures[h] = 0
    BY ClosedStays DEF IInv, OpenUntried
<1>2. ASSUME NEW p \in Proxies, Send(p), cur[p].id = h  PROVE FALSE
    BY <1>1, <1>2 DEF IInv, CopiesClosed, Send, LoopGoto
<1> QED
    BY <1>1, <1>2, FailureSteps DEF IInv

LEMMA LimitNext ==
    ASSUME IInv, LimitKept, [Next]_vars
    PROVE  LimitKept'
<1> USE LoopAssumption
<1>1. ASSUME NEW h \in requests'  PROVE retries'[h] <= MaxRequestRetry
    <2>0. h \in Hooks
        BY TypeNext DEF IInv, TypeOK, StoreTypeOK
    <2>1. CASE h \notin requests
        BY <1>1, <2>0, <2>1, RowsMade DEF IInv
    <2>2. CASE h \in requests /\ retries'[h] = retries[h]
        BY <2>2 DEF LimitKept
    <2>3. CASE h \in requests /\ retries'[h] # retries[h]
        <3>1. PICK p \in Proxies : Saves(p, h)
            BY <2>3, RetriesSteps
        <3>2. cur[p].retries < MaxRequestRetry /\ cur[p].retries \in Nat
            BY <3>1, CopyTypes
               DEF LimitKept, Saves, IncrementRetry, Break, LoopGoto, IInv
        <3>3. retries'[h] = cur[p].retries + 1
            BY <2>0, <3>1 DEF Saves, IInv, TypeOK, StoreTypeOK
        <3> QED
            BY <3>2, <3>3
    <2> QED
        BY <2>1, <2>2, <2>3
<1>2. ASSUME NEW q \in Proxies, lpc'[q] = "increment"
      PROVE  cur'[q].retries < MaxRequestRetry
    <2> USE DEF IInv, TypeOK, LoopTypeOK
    <2>1. CASE lpc'[q] = lpc[q] /\ cur'[q] = cur[q]
        BY <1>2, <2>1 DEF LimitKept
    <2>2. CASE ReplayStep(q)
        BY <1>2, <2>2 DEF LimitKept, ReplayStep, LoopStep, GetUsers, GetRequests,
           CheckRow, EndOfRows, Send, GiveUp, DropUnformattable, IncrementRetry,
           DeleteSettled, LoopGoto, Break, loopVars
    <2>3. CASE Crash(q)
        BY <1>2, <2>3 DEF Crash
    <2> QED
        BY <2>1, <2>2, <2>3, OneLoop DEF loopVars
<1> QED
    BY <1>1, <1>2 DEF LimitKept

(* The arithmetic of one delivery: f failures, a spreads ahead, o counters *)
(* owed, t proxies that still try, s spreads in all, w that went wrong.    *)
LEMMA PaidStored ==
    ASSUME NEW f \in Nat, NEW a \in Nat, NEW a2 \in Nat, NEW o \in Nat, NEW o2 \in Nat,
           NEW s \in Nat, NEW w \in Nat, NEW w2 \in Nat, w <= w2,
           f + a + 1 <= s + w + o
    PROVE  /\ a2 <= a /\ o <= o2 => f + a2 + 1 <= s + w2 + o2
           /\ a2 <= a /\ o + 1 <= o2 => f + 1 + a2 + 1 <= s + w2 + o2
           /\ a2 + 1 <= a /\ o <= o2 + 1 => f + a2 + 1 <= s + w2 + o2
           /\ a2 <= a /\ o <= o2 + 1 /\ w + 1 <= w2 => f + a2 + 1 <= s + w2 + o2
OBVIOUS

LEMMA PaidGone ==
    ASSUME NEW f \in Nat, NEW t \in Nat, NEW t2 \in Nat, NEW s \in Nat,
           NEW w \in Nat, NEW w2 \in Nat, w <= w2, t2 <= t
    PROVE  /\ f + t + 1 <= s + w => f + t2 + 1 <= s + w2
           /\ f + t + 1 <= s + w /\ t2 + 1 <= t => f + 1 + t2 + 1 <= s + w2
           /\ \A a \in Nat, o \in Nat :
                 f + a + 1 <= s + w + o /\ t + o <= a => f + t2 + 1 <= s + w2
OBVIOUS

(* Once the row of a delivery is gone nobody begins to try it again.       *)
LEMMA TryingShrinks ==
    ASSUME TypeOK, [Next]_vars, NEW h \in Hooks, h \notin requests'
    PROVE  Trying(h)' \subseteq Trying(h)
<1> SUFFICES ASSUME NEW q \in Proxies,
                    \/ \E r \in batch'[q] : r.id = h /\ r.retries < MaxRequestRetry
                    \/ /\ lpc'[q] = "send" /\ cur'[q].id = h
                       /\ cur'[q].retries < MaxRequestRetry
             PROVE  \/ \E r \in batch[q] : r.id = h /\ r.retries < MaxRequestRetry
                    \/ /\ lpc[q] = "send" /\ cur[q].id = h
                       /\ cur[q].retries < MaxRequestRetry
    BY DEF Trying
<1>1. CASE KeepsCopies(q)
    BY <1>1 DEF KeepsCopies
<1>2. CASE EmptiesCopies(q)
    BY <1>2 DEF EmptiesCopies, Held
<1>3. CASE FetchesCopies(q)
    BY <1>3 DEF FetchesCopies, RowsOf
<1>4. CASE TakesCopy(q)
    BY <1>4 DEF TakesCopy
<1> QED
    BY <1>1, <1>2, <1>3, <1>4, CopySteps

(* A counter owed is saved, or a call or a proxy fails. *)
LEMMA OwingSteps ==
    ASSUME IInv, [Next]_vars, NEW h \in requests, h \in requests'
    PROVE  \/ Owing(h) \subseteq Owing(h)'
           \/ /\ \E p : Owing(h) \ {p} \subseteq Owing(h)'
              /\ \/ \E p \in Proxies : ReplayStep(p) /\ Saves(p, h)
                 \/ Fault \/ \E p \in Proxies : Crash(p)
<1> USE DEF IInv, TypeOK, LoopTypeOK
<1>1. CASE UNCHANGED loopVars
    BY <1>1 DEF Owing, loopVars
<1>2. ASSUME NEW p \in Proxies, ReplayStep(p) \/ Crash(p),
             \A q \in Proxies : q # p => lpc'[q] = lpc[q] /\ cur'[q] = cur[q]
      PROVE  \/ Owing(h) \subseteq Owing(h)'
             \/ /\ Owing(h) \ {p} \subseteq Owing(h)'
                /\ Saves(p, h) \/ Fault \/ Crash(p)
    <2>1. Owing(h) \ {p} \subseteq Owing(h)'
        BY <1>2 DEF Owing
    <2>2. CASE lpc[p] # "increment" \/ cur[p].id # h
        BY <2>1, <2>2 DEF Owing
    <2>3. CASE IncrementRetry(p) /\ cur[p].id = h
        BY <2>1, <2>3 DEF IncrementRetry, UpdateRequest, Saves
    <2>4. CASE Crash(p)
        BY <2>1, <2>4
    <2>5. CASE ReplayStep(p) /\ ~IncrementRetry(p) /\ lpc[p] = "increment"
        BY <2>5 DEF ReplayStep, LoopStep, GetUsers, GetRequests, CheckRow,
           EndOfRows, Send, GiveUp, DropUnformattable, DeleteSettled, LoopGoto,
           Break
    <2> QED
        BY <1>2, <2>2, <2>3, <2>4, <2>5
<1> QED
    BY <1>1, <1>2, OneLoop

LEMMA PaidNext ==
    ASSUME IInv, CopiesUnique, OverlapInv, [Next]_vars, TypeOK', LimitKept'
    PROVE  AttemptsPaid'
<1> SUFFICES ASSUME NEW h \in Hooks
             PROVE  /\ h \in requests' =>
                          failures'[h] + Cardinality(Ahead(CountsOf(h)')) + 1
                              <= Cardinality(Spreads) + Wrong' + Cardinality(Owing(h)')
                    /\ h \notin requests' =>
                          failures'[h] + Cardinality(Trying(h)') + 1
                              <= Cardinality(Spreads) + Wrong'
    BY DEF AttemptsPaid
<1> DEFINE f == failures[h]
           s == Cardinality(Spreads)
           a == Cardinality(Ahead(CountsOf(h)))
           a2 == Cardinality(Ahead(CountsOf(h)'))
           o == Cardinality(Owing(h))
           o2 == Cardinality(Owing(h)')
           t == Cardinality(Trying(h))
           t2 == Cardinality(Trying(h)')
<1>1. /\ TypeOK /\ OpenUntried /\ LimitKept /\ AttemptsPaid
      /\ f \in Nat /\ failures'[h] \in Nat /\ s \in Nat
    BY SpreadsFinite DEF OverlapInv, IInv, TypeOK, LoopTypeOK
<1>2. /\ Wrong \in Nat /\ Wrong' \in Nat /\ Wrong <= Wrong'
      /\ Fault \/ (\E p \in Proxies : Crash(p)) => Wrong + 1 <= Wrong'
    BY <1>1, WrongGrows
<1>3. /\ Owing(h) \in SUBSET Proxies /\ Owing(h)' \in SUBSET Proxies
      /\ Trying(h) \in SUBSET Proxies /\ Trying(h)' \in SUBSET Proxies
      /\ IsFiniteSet(Proxies)
    BY CrashAssumption DEF Owing, Trying
<1>4. o \in Nat /\ o2 \in Nat /\ t \in Nat /\ t2 \in Nat
    BY <1>3, SubsetCards
<1>5. /\ h \in requests => CountsOf(h) \in Levels /\ a \in Nat
      /\ h \in requests' => CountsOf(h)' \in Levels /\ a2 \in Nat /\ a2 + 1 <= s
    BY <1>1, CountsInLevels, CountsInLevelsNext, AheadCards
<1>6. CASE h \in requests' /\ h \notin requests
    <2>1. StoreRequest(h)
        BY <1>1, <1>6, RowsMade
    <2>2. f = 0
        BY <1>1, <2>1 DEF StoreRequest, Goto, Reply, OpenUntried, OpenStates
    <2>3. failures'[h] = 0
        BY <1>1, <1>6, <2>2, FailureSteps
    <2> HIDE DEF a2, o2, s
    <2>4. 0 + a2 + 1 <= s + Wrong' + o2
        BY <1>1, <1>2, <1>4, <1>5, <1>6
    <2> QED
        BY <1>6, <2>3, <2>4 DEF a2, o2, s
<1>7. CASE h \in requests' /\ h \in requests
    <2>1. f + a + 1 <= s + Wrong + o
        BY <1>1, <1>7 DEF AttemptsPaid
    <2>2. CASE \E p \in Proxies : ReplayStep(p) /\ Saves(p, h)
        <3>1. a2 + 1 <= a
            BY <1>1, <1>5, <1>7, <2>2, SaveMovesOn, AheadCards
        <3>2. o <= o2 + 1
            <4>1. \E p : Owing(h) \ {p} \subseteq Owing(h)'
                BY <1>7, OwingSteps
            <4> QED
                BY <1>3, <4>1, SubsetCards
        <3>3. failures'[h] = f
            BY <1>1, <2>2, FailureSteps DEF Saves, IncrementRetry
        <3> HIDE DEF f, a, a2, o, o2, s
        <3>4. f + a2 + 1 <= s + Wrong' + o2
            BY <1>1, <1>2, <1>4, <1>5, <1>7, <2>1, <3>1, <3>2, PaidStored
        <3> QED
            BY <1>7, <3>3, <3>4 DEF f, a2, o2, s
    <2>3. CASE ~\E p \in Proxies : ReplayStep(p) /\ Saves(p, h)
        <3>1. retries'[h] = retries[h]
            BY <1>7, <2>3, RetriesSteps
        <3>2. \/ CountsOf(h)' = CountsOf(h)
              \/ Later(Spread(CountsOf(h)'), Spread(CountsOf(h)))
            BY <1>1, <1>7, <3>1, CountsRise
        <3>3. a2 <= a
            <4>1. CASE CountsOf(h)' = CountsOf(h)
                BY <1>5, <1>7, <4>1
            <4>2. CASE Later(Spread(CountsOf(h)'), Spread(CountsOf(h)))
                <5>1. a2 + 1 <= a
                    BY <1>5, <1>7, <4>2, AheadCards
                <5> HIDE DEF a, a2
                <5> QED
                    BY <1>5, <1>7, <5>1
            <4> QED
                BY <3>2, <4>1, <4>2
        <3>4. CASE failures'[h] = f
            <4>1. o <= o2 \/ (o <= o2 + 1 /\ Wrong + 1 <= Wrong')
                <5>1. CASE Owing(h) \subseteq Owing(h)'
                    BY <1>3, <5>1, SubsetCards
                <5>2. CASE ~(Owing(h) \subseteq Owing(h)')
                    <6>1. /\ \E p : Owing(h) \ {p} \subseteq Owing(h)'
                          /\ Fault \/ \E p \in Proxies : Crash(p)
                        BY <1>7, <2>3, <5>2, OwingSteps
                    <6> QED
                        BY <1>2, <1>3, <6>1, SubsetCards
                <5> QED
                    BY <5>1, <5>2
            <4> HIDE DEF f, a, a2, o, o2, s
            <4>2. f + a2 + 1 <= s + Wrong' + o2
                BY <1>1, <1>2, <1>4, <1>5, <1>7, <2>1, <3>3, <4>1, PaidStored
            <4> QED
                BY <1>7, <3>4, <4>2 DEF f, a2, o2, s
        <3>5. CASE failures'[h] # f
            <4>1. PICK p \in Proxies :
                      /\ Send(p) /\ cur[p].id = h
                      /\ failures'[h] = failures[h] + 1
                      /\ lpc' = [lpc EXCEPT ![p] = "increment"]
                      /\ UNCHANGED cur
                BY <1>1, <3>5, FailureSteps
            <4>2. p \in Owing(h)' /\ Owing(h) \subseteq Owing(h)' \ {p}
                BY <1>1, <4>1 DEF Owing, Send, LoopGoto, TypeOK, LoopTypeOK
            <4>3. o + 1 <= o2
                BY <1>3, <4>2, SubsetCards
            <4> HIDE DEF f, a, a2, o, o2, s
            <4>4. f + 1 + a2 + 1 <= s + Wrong' + o2
                BY <1>1, <1>2, <1>4, <1>5, <1>7, <2>1, <3>3, <4>3, PaidStored
            <4> QED
                BY <1>7, <4>1, <4>4 DEF f, a2, o2, s
        <3> QED
            BY <3>4, <3>5
    <2> QED
        BY <2>2, <2>3
<1>8. CASE h \notin requests'
    <2>1. Trying(h)' \subseteq Trying(h) /\ t2 <= t
        BY <1>1, <1>3, <1>8, TryingShrinks, SubsetCards
    <2>2. CASE failures'[h] = f
        <3>1. \/ f + t + 1 <= s + Wrong
              \/ h \in requests /\ f + a + 1 <= s + Wrong + o /\ t + o <= a
            BY <1>1, EnoughAhead DEF AttemptsPaid
        <3> HIDE DEF f, a, o, t, t2, s
        <3>2. f + t2 + 1 <= s + Wrong'
            BY <1>1, <1>2, <1>4, <1>5, <2>1, <3>1, PaidGone
        <3> QED
            BY <1>8, <2>2, <3>2 DEF f, t2, s
    <2>3. CASE failures'[h] # f
        <3>1. PICK p \in Proxies :
                  /\ Send(p) /\ cur[p].id = h
                  /\ failures'[h] = failures[h] + 1
                  /\ lpc' = [lpc EXCEPT ![p] = "increment"]
                  /\ UNCHANGED <<batch, cur, requests>>
            BY <1>1, <2>3, FailureSteps
        <3>2. f + t + 1 <= s + Wrong
            BY <1>1, <1>8, <3>1 DEF AttemptsPaid
        <3>3. p \in Trying(h)
            BY <3>1 DEF Trying, Send, LoopGoto
        <3>4. \A r \in batch[p] : r.id # h
            BY <3>1 DEF CopiesUnique, Held, Send, LoopGoto
        <3>5. p \notin Trying(h)'
            BY <1>1, <3>1, <3>4 DEF Trying, TypeOK, LoopTypeOK
        <3>6. t2 + 1 <= t
            <4>1. Trying(h)' \subseteq Trying(h) \ {p}
                BY <2>1, <3>5
            <4> QED
                BY <1>3, <3>3, <4>1, SubsetCards
        <3> HIDE DEF f, t, t2, s
        <3>7. f + 1 + t2 + 1 <= s + Wrong'
            BY <1>1, <1>2, <1>4, <2>1, <3>2, <3>6, PaidGone
        <3> QED
            BY <1>8, <3>1, <3>7 DEF f, t2, s
    <2> QED
        BY <2>2, <2>3
<1> QED
    BY <1>6, <1>7, <1>8

(* However many proxies replay a table, a delivery is attempted no more    *)
(* often without success than their counters can spread over 0 to the      *)
(* limit, one more for every failing call and every crash.                 *)
THEOREM OverlapIsBounded == Spec => []OverlapRetryBound
<1>1. Init => CopiesUnique /\ OverlapInv
    <2> SUFFICES ASSUME Init  PROVE CopiesUnique /\ OverlapInv
        OBVIOUS
    <2>1. /\ requests = {} /\ failures = [h \in Hooks |-> 0]
          /\ batch = [p \in Proxies |-> {}] /\ lpc = [p \in Proxies |-> "users"]
          /\ faults = 0 /\ crashes = 0
        BY DEF Init, StoreInit, LoopInit, PlatformInit, PodsInit
    <2>2. CopiesUnique /\ OpenUntried /\ LimitKept
        BY <2>1 DEF CopiesUnique, Held, OpenUntried, LimitKept
    <2>3. AttemptsPaid
        <3>1. \A h \in Hooks : Trying(h) = {}
            BY <2>1 DEF Trying
        <3>2. Wrong = 0 /\ Cardinality({}) = 0
            BY <2>1, FS_EmptySet DEF Wrong
        <3>3. Cardinality(Spreads) \in Nat /\ 0 + 0 + 1 <= Cardinality(Spreads)
            <4>1. PICK y : y \in Levels
                <5>1. [p \in Proxies |-> 0] \in Levels
                    BY LoopAssumption DEF Levels
                <5> QED
                    BY <5>1
            <4> QED
                BY <4>1, AheadCards, SpreadsFinite
        <3> SUFFICES ASSUME NEW h \in Hooks
                     PROVE  failures[h] + Cardinality(Trying(h)) + 1
                                <= Cardinality(Spreads) + Wrong
            BY <2>1 DEF AttemptsPaid
        <3>4. failures[h] = 0 /\ Cardinality(Trying(h)) = 0
            BY <2>1, <3>1, <3>2
        <3> QED
            BY <3>2, <3>3, <3>4
    <2> QED
        BY <2>2, <2>3 DEF OverlapInv
<1>2. IInv /\ CopiesUnique /\ OverlapInv /\ [Next]_vars => (CopiesUnique /\ OverlapInv)'
    <2> SUFFICES ASSUME IInv, CopiesUnique, OverlapInv, [Next]_vars
                 PROVE  CopiesUnique' /\ OverlapInv'
        OBVIOUS
    <2>1. TypeOK'
        BY TypeNext DEF IInv
    <2>2. LimitKept'
        BY LimitNext DEF OverlapInv
    <2> QED
        BY <2>1, <2>2, CopiesUniqueNext, UntriedAllNext, PaidNext DEF IInv, OverlapInv
<1>3. IInv /\ CopiesUnique /\ OverlapInv => OverlapRetryBound
    <2> SUFFICES ASSUME IInv, CopiesUnique, OverlapInv, NEW h \in Hooks
                 PROVE  failures[h] < Cardinality(Spreads) + faults + crashes
        BY DEF OverlapRetryBound
    <2>1. /\ faults \in Nat /\ crashes \in Nat /\ failures[h] \in Nat
          /\ Wrong = faults + crashes /\ Cardinality(Spreads) \in Nat
        BY PodsAssumption, CrashAssumption, SpreadsFinite
           DEF IInv, TypeOK, PlatformTypeOK, PodsTypeOK, LoopTypeOK, Wrong
    <2>2. CASE h \in requests
        <3>1. failures[h] + Cardinality(Ahead(CountsOf(h))) + 1
                  <= Cardinality(Spreads) + Wrong + Cardinality(Owing(h))
            BY <2>2 DEF OverlapInv, AttemptsPaid
        <3>2. /\ Cardinality(Trying(h)) \in Nat /\ Cardinality(Owing(h)) \in Nat
              /\ Cardinality(Ahead(CountsOf(h))) \in Nat
              /\ Cardinality(Trying(h)) + Cardinality(Owing(h))
                     <= Cardinality(Ahead(CountsOf(h)))
            BY <2>2, EnoughAhead DEF IInv, OverlapInv
        <3> QED
            BY <2>1, <3>1, <3>2
    <2>3. CASE h \notin requests
        <3>1. failures[h] + Cardinality(Trying(h)) + 1 <= Cardinality(Spreads) + Wrong
            BY <2>3 DEF OverlapInv, AttemptsPaid
        <3>2. Cardinality(Trying(h)) \in Nat
            BY CrashAssumption, FS_Subset, FS_CardinalityType DEF Trying
        <3> QED
            BY <2>1, <3>1, <3>2
    <2> QED
        BY <2>2, <2>3
<1> QED
    BY <1>1, <1>2, <1>3, Inductive, PTL DEF Spec

(* Two proxies, as while a deployment rolls over, fail at a delivery fewer *)
(* times than there are unordered pairs of counters up to the limit,       *)
(* failing calls and crashes apart (github.go, the check of r.Retries).    *)
OverlapOfTwo ==
    Cardinality(Proxies) = 2 =>
        \A h \in Hooks :
            2 * failures[h] < (MaxRequestRetry + 1) * (MaxRequestRetry + 2)
                                  + 2 * (faults + crashes)

(* OverlapIsBounded with the number of spreads worked out for two proxies. *)
THEOREM TwoAreBounded == Spec => []OverlapOfTwo
<1>1. ASSUME TypeOK, OverlapRetryBound, Cardinality(Proxies) = 2, NEW h \in Hooks
      PROVE  2 * failures[h] < (MaxRequestRetry + 1) * (MaxRequestRetry + 2)
                                   + 2 * (faults + crashes)
    <2>1. PICK f : f \in Bijection(1..2, Proxies)
        BY <1>1, CrashAssumption, FS_CardinalityType DEF ExistsBijection
    <2>2. f[1] # f[2] /\ Proxies = {f[1], f[2]}
        BY <2>1 DEF Bijection, Injection, Surjection, IsInjective
    <2>3. 2 * Cardinality(Spreads) = (MaxRequestRetry + 1) * (MaxRequestRetry + 2)
        BY <2>2, SpreadsOfTwo
    <2>4. failures[h] < Cardinality(Spreads) + (faults + crashes)
        <3>1. faults \in Nat /\ crashes \in Nat
            BY <1>1, PodsAssumption, CrashAssumption
               DEF TypeOK, PlatformTypeOK, PodsTypeOK
        <3> QED
            BY <1>1, <3>1, SpreadsFinite DEF OverlapRetryBound
    <2>5. failures[h] \in Nat /\ faults + crashes \in Nat /\ Cardinality(Spreads) \in Nat
        BY <1>1, PodsAssumption, CrashAssumption, SpreadsFinite
           DEF TypeOK, PlatformTypeOK, PodsTypeOK, LoopTypeOK
    <2>6. 2 * failures[h] < 2 * Cardinality(Spreads) + 2 * (faults + crashes)
        BY <2>4, <2>5
    <2> QED
        BY <2>3, <2>6
<1>2. TypeOK /\ OverlapRetryBound => OverlapOfTwo
    BY <1>1 DEF OverlapOfTwo
<1> QED
    BY <1>2, TypeCorrect, OverlapIsBounded, PTL

=============================================================================
