----------------------------- MODULE NumberLemmas -----------------------------
(***************************************************************************)
(* Lemmas about numbers that the components' proofs share: division, as    *)
(* page arithmetic uses it, and finite sets of naturals in ascending       *)
(* order, as BTreeSet iterates them.                                       *)
(***************************************************************************)
EXTENDS Integers, FiniteSetTheorems, FunctionTheorems, TLAPS

\* Quotient and remainder.
LEMMA Division ==
    ASSUME NEW a \in Nat, NEW b \in Nat \ {0}
    PROVE  /\ a \div b \in Nat /\ a % b \in 0 .. b - 1
           /\ a = (b * (a \div b)) + (a % b)
OBVIOUS

\* Quotient and remainder are determined by the number.
LEMMA DivisionUnique ==
    ASSUME NEW b \in Nat \ {0}, NEW x \in Int, NEW q \in Int, NEW r \in 0 .. b - 1,
           x = (b * q) + r
    PROVE  x % b = r /\ x \div b = q
OBVIOUS

\* Products grow with their factors.
LEMMA TimesMonotone ==
    ASSUME NEW b \in Nat \ {0}, NEW x \in Int, NEW y \in Int, x <= y
    PROVE  b * x \in Int /\ b * y \in Int /\ b * x <= b * y
OBVIOUS

\* The page of a position below n is among the pages that n positions need.
LEMMA PagesCover ==
    ASSUME NEW n \in Nat, NEW i \in 0 .. n - 1, NEW b \in Nat \ {0}
    PROVE  i \div b < (n + b - 1) \div b
<1> DEFINE q == i \div b
           c == (n + b - 1) \div b
<1>1. i = (b * q) + (i % b) /\ q \in Nat /\ i % b \in 0 .. b - 1
  <2>1. i \in Nat
    OBVIOUS
  <2> QED
    BY <2>1, Division
<1>2. n + b - 1 = (b * c) + ((n + b - 1) % b) /\ c \in Nat /\ (n + b - 1) % b \in 0 .. b - 1
  <2>1. n + b - 1 \in Nat
    OBVIOUS
  <2> QED
    BY <2>1, Division
<1> HIDE DEF q, c
<1>3. SUFFICES ASSUME c <= q PROVE FALSE
  BY <1>1, <1>2
<1>4. b * c <= b * q /\ b * c \in Int /\ b * q \in Int
  BY <1>1, <1>2, <1>3, TimesMonotone
<1> QED
  BY <1>1, <1>2, <1>4

\* Fewer positions need no more pages.
LEMMA PagesMonotone ==
    ASSUME NEW m \in Nat, NEW n \in Nat, m <= n, NEW b \in Nat \ {0}
    PROVE  /\ (m + b - 1) \div b \in Nat /\ (n + b - 1) \div b \in Nat
           /\ (m + b - 1) \div b <= (n + b - 1) \div b
<1>1. m + b - 1 \in Nat /\ n + b - 1 \in Nat
  OBVIOUS
<1> DEFINE c == (m + b - 1) \div b
           d == (n + b - 1) \div b
<1>2. m + b - 1 = (b * c) + ((m + b - 1) % b) /\ c \in Nat /\ (m + b - 1) % b \in 0 .. b - 1
  BY <1>1, Division
<1>3. n + b - 1 = (b * d) + ((n + b - 1) % b) /\ d \in Nat /\ (n + b - 1) % b \in 0 .. b - 1
  BY <1>1, Division
<1> HIDE DEF c, d
<1>4. SUFFICES ASSUME d + 1 <= c PROVE FALSE
  BY <1>2, <1>3 DEF c, d
<1>5. b * (d + 1) <= b * c /\ b * c \in Int /\ b * (d + 1) = (b * d) + b /\ b * d \in Int
  BY <1>2, <1>3, <1>4, TimesMonotone
<1> QED
  BY <1>2, <1>3, <1>5

\* What n positions need holds n positions, and is the least that does.
LEMMA PagesHold ==
    ASSUME NEW n \in Nat, NEW b \in Nat \ {0}
    PROVE  /\ (n + b - 1) \div b \in Nat
           /\ n <= ((n + b - 1) \div b) * b
           /\ \A c \in Nat : n <= c * b => (n + b - 1) \div b <= c
<1> DEFINE d == (n + b - 1) \div b
<1>1. n + b - 1 \in Nat
  OBVIOUS
<1>2. n + b - 1 = (b * d) + ((n + b - 1) % b) /\ d \in Nat /\ (n + b - 1) % b \in 0 .. b - 1
  BY <1>1, Division
<1> HIDE DEF d
<1>3. b * d \in Nat /\ b * d = d * b
  BY <1>2
<1>4. n <= d * b
  BY <1>2, <1>3
<1>5. ASSUME NEW c \in Nat, n <= c * b, c + 1 <= d PROVE FALSE
  <2>1. b * (c + 1) <= b * d /\ b * (c + 1) = (c * b) + b /\ c * b \in Nat
    BY <1>2, <1>5, TimesMonotone
  <2> QED
    BY <1>2, <1>3, <1>5, <2>1
<1> QED
  BY <1>2, <1>4, <1>5 DEF d

----------------------------------------------------------------------------
\* How many members come before u.
Position(S, u) == Cardinality({v \in S : v < u})

\* The first n members.
First(S, n) == {u \in S : Position(S, u) < n}

\* A position is below the size, and a larger member has a larger one.
LEMMA PositionGrows ==
    ASSUME NEW S \in SUBSET Nat, IsFiniteSet(S)
    PROVE  /\ \A u \in S : Position(S, u) \in Nat /\ Position(S, u) < Cardinality(S)
           /\ \A u, w \in S : u < w => Position(S, u) < Position(S, w)
<1>1. Cardinality(S) \in Nat
  BY FS_CardinalityType
<1>2. ASSUME NEW T \in SUBSET S, NEW U \in SUBSET T, U # T
      PROVE  Cardinality(U) \in Nat /\ Cardinality(U) < Cardinality(T)
  <2>1. IsFiniteSet(T)
    BY FS_Subset
  <2>2. IsFiniteSet(U) /\ Cardinality(U) <= Cardinality(T) /\ Cardinality(U) # Cardinality(T)
    BY <1>2, <2>1, FS_Subset
  <2>3. Cardinality(U) \in Nat /\ Cardinality(T) \in Nat
    BY <2>1, <2>2, FS_CardinalityType
  <2> QED
    BY <2>2, <2>3
<1>3. ASSUME NEW u \in S
      PROVE  Position(S, u) \in Nat /\ Position(S, u) < Cardinality(S)
  <2>1. {v \in S : v < u} \subseteq S /\ {v \in S : v < u} # S
    OBVIOUS
  <2> QED
    BY <1>2, <2>1 DEF Position
<1>4. ASSUME NEW u \in S, NEW w \in S, u < w
      PROVE  Position(S, u) < Position(S, w)
  <2>0. u \in Int /\ w \in Int /\ \A v \in S : v \in Int
    OBVIOUS
  <2>1. \A v \in S : v < u => v < w
    BY <1>4, <2>0
  <2>2. u \in {v \in S : v < w} /\ u \notin {v \in S : v < u}
    BY <1>4
  <2> QED
    BY <1>2, <2>1, <2>2 DEF Position
<1> QED
  BY <1>3, <1>4

\* Every position below the size is the position of one member.
LEMMA PositionBijective ==
    ASSUME NEW S \in SUBSET Nat, IsFiniteSet(S)
    PROVE  /\ \A u, w \in S : Position(S, u) = Position(S, w) => u = w
           /\ \A i \in 0 .. Cardinality(S) - 1 : \E u \in S : Position(S, u) = i
<1> DEFINE n == Cardinality(S)
           f == [u \in S |-> Position(S, u)]
<1>1. n \in Nat
  BY FS_CardinalityType
<1>2. \A u, w \in S : Position(S, u) = Position(S, w) => u = w
  <2> SUFFICES ASSUME NEW u \in S, NEW w \in S, u # w
               PROVE  Position(S, u) # Position(S, w)
    OBVIOUS
  <2>1. Position(S, u) \in Nat /\ Position(S, w) \in Nat
    BY PositionGrows
  <2>2. u < w \/ w < u
    OBVIOUS
  <2>3. Position(S, u) < Position(S, w) \/ Position(S, w) < Position(S, u)
    BY <2>2, PositionGrows
  <2> QED
    BY <2>1, <2>3
<1>3. f \in [S -> 0 .. n - 1]
  BY <1>1, PositionGrows
<1>4. f \in Injection(S, 0 .. n - 1)
  <2>1. \A a, b \in S : f[a] = f[b] => a = b
    BY <1>2
  <2> HIDE DEF f
  <2> QED
    BY <1>3, <2>1, Fun_IsInj
<1>5. IsFiniteSet(0 .. n - 1) /\ Cardinality(0 .. n - 1) = n
  <2> HIDE DEF n
  <2>1. 0 \in Int /\ n - 1 \in Int
    BY <1>1
  <2>2. /\ IsFiniteSet(0 .. n - 1)
        /\ Cardinality(0 .. n - 1) = IF 0 > n - 1 THEN 0 ELSE (n - 1) - 0 + 1
    BY <2>1, FS_Interval
  <2> QED
    BY <1>1, <2>2
<1>6. f \in Surjection(S, 0 .. n - 1)
  BY <1>4, <1>5, FS_Injection
<1>7. \A i \in 0 .. n - 1 : \E u \in S : f[u] = i
  <2> HIDE DEF f, n
  <2> QED
    BY <1>6 DEF Surjection
<1> QED
  BY <1>2, <1>7

\* A function with values in a set.
LEMMA FunctionInto ==
    ASSUME NEW T, NEW R, NEW g, g = [u \in T |-> g[u]], \A u \in T : g[u] \in R
    PROVE  g \in [T -> R]
OBVIOUS

\* The first n members are n, and the others come after them.
LEMMA FirstMembers ==
    ASSUME NEW S \in SUBSET Nat, IsFiniteSet(S), NEW n \in Nat, n <= Cardinality(S)
    PROVE  /\ First(S, n) \subseteq S /\ IsFiniteSet(First(S, n))
           /\ Cardinality(First(S, n)) = n
           /\ \A a \in First(S, n), b \in S \ First(S, n) : a < b
<1> DEFINE T == First(S, n)
           f == [u \in T |-> Position(S, u)]
           range == 0 .. n - 1
<1>1. Cardinality(S) \in Nat
  BY FS_CardinalityType
<1>2. T \subseteq S /\ IsFiniteSet(T)
  BY FS_Subset DEF First
<1>fun. f = [u \in T |-> f[u]] /\ \A u \in T : f[u] = Position(S, u)
  OBVIOUS
<1> HIDE DEF f
<1>3. f \in [T -> range]
  <2>1. \A u \in T : Position(S, u) \in range
    BY <1>1, PositionGrows DEF First
  <2> HIDE DEF T, range
  <2>2. \A u \in T : f[u] \in range
    BY <1>fun, <2>1
  <2> QED
    BY <1>fun, <2>2, FunctionInto
<1>4. \A a, b \in T : f[a] = f[b] => a = b
  BY <1>2, <1>fun, PositionBijective
<1>5. \A i \in range : \E u \in T : f[u] = i
  <2> SUFFICES ASSUME NEW i \in range PROVE \E u \in T : f[u] = i
    OBVIOUS
  <2>1. PICK u \in S : Position(S, u) = i
    BY <1>1, PositionBijective
  <2>2. u \in T
    BY <2>1 DEF First
  <2> QED
    BY <1>fun, <2>1, <2>2
<1>6. ExistsBijection(T, range)
  <2> HIDE DEF T, range
  <2>1. f \in Bijection(T, range)
    BY <1>3, <1>4, <1>5, Fun_IsBij
  <2> QED
    BY <2>1, Fun_ExistsBij
<1>7. Cardinality(0 .. n - 1) = n
  BY FS_Interval
<1>8. Cardinality(T) = n
  BY <1>2, <1>6, <1>7, FS_Bijection
<1>9. \A a \in T, b \in S \ T : a < b
  <2> SUFFICES ASSUME NEW a \in T, NEW b \in S \ T PROVE a < b
    OBVIOUS
  <2>1. Position(S, a) < n /\ ~(Position(S, b) < n)
    BY DEF First
  <2>2. Position(S, a) \in Nat /\ Position(S, b) \in Nat
    BY <1>2, PositionGrows
  <2>3. a \in S /\ b \in S
    BY <1>2
  <2>4. ~(b < a) /\ a # b
    BY <2>1, <2>2, <2>3, PositionGrows
  <2> HIDE DEF T
  <2> QED
    BY <2>3, <2>4
<1> QED
  BY <1>2, <1>8, <1>9

\* A set that is not empty has a least member.
LEMMA LeastMember ==
    ASSUME NEW S \in SUBSET Nat, IsFiniteSet(S), S # {}
    PROVE  \E u \in S : \A w \in S : u <= w
<1>1. Cardinality(S) \in Nat /\ Cardinality(S) # 0
  BY FS_CardinalityType, FS_EmptySet
<1>2. PICK u \in S : Position(S, u) = 0
  BY <1>1, PositionBijective
<1>3. \A w \in S : ~(w < u)
  BY <1>2, PositionGrows
<1> QED
  BY <1>3

\* A finite set that is not empty has a greatest member.
LEMMA GreatestMember ==
    ASSUME NEW S \in SUBSET Nat, IsFiniteSet(S), S # {}
    PROVE  \E u \in S : \A w \in S : w <= u
<1>1. Cardinality(S) \in Nat /\ Cardinality(S) # 0
  BY FS_CardinalityType, FS_EmptySet
<1>2. PICK u \in S : Position(S, u) = Cardinality(S) - 1
  BY <1>1, PositionBijective
<1>3. ASSUME NEW w \in S, u < w PROVE FALSE
  <2>1. Position(S, u) < Position(S, w) /\ Position(S, w) < Cardinality(S) /\ Position(S, w) \in Nat
    BY <1>3, PositionGrows
  <2> QED
    BY <1>1, <1>2, <2>1
<1> QED
  BY <1>3

\* What grows with every step grows.
LEMMA Ascending ==
    ASSUME NEW n \in Nat, NEW f, \A k \in 1 .. n : f[k] \in Nat,
           \A k \in 1 .. n - 1 : f[k] < f[k + 1]
    PROVE  \A j, k \in 1 .. n : j < k => f[j] < f[k]
<1> SUFFICES ASSUME NEW j \in 1 .. n, NEW k \in 1 .. n, j < k, ~(f[j] < f[k])
             PROVE  FALSE
  OBVIOUS
<1> DEFINE S == {m \in j + 1 .. n : ~(f[j] < f[m])}
<1>1. S \in SUBSET Nat /\ IsFiniteSet(S) /\ k \in S
  <2>1. IsFiniteSet(j + 1 .. n)
    BY FS_Interval
  <2> QED
    BY <2>1, FS_Subset
<1>2. PICK m \in S : \A w \in S : m <= w
  BY <1>1, LeastMember
<1>3. m \in j + 1 .. n /\ ~(f[j] < f[m]) /\ f[m - 1] < f[m] /\ f[j] \in Nat /\ f[m - 1] \in Nat /\ f[m] \in Nat
  <2>1. m \in j + 1 .. n /\ m - 1 \in 1 .. n - 1 /\ (m - 1) + 1 = m
    OBVIOUS
  <2> QED
    BY <2>1
<1>4. CASE m = j + 1
  BY <1>3, <1>4
<1>5. CASE m # j + 1
  <2>1. m - 1 \in j + 1 .. n /\ m - 1 \notin S
    BY <1>2, <1>3, <1>5
  <2> QED
    BY <1>3, <2>1
<1> QED
  BY <1>4, <1>5

\* Sets that share nothing add up.
LEMMA DisjointSum ==
    ASSUME NEW S, IsFiniteSet(S), NEW T, IsFiniteSet(T), S \cap T = {}
    PROVE  /\ IsFiniteSet(S \cup T)
           /\ Cardinality(S) \in Nat /\ Cardinality(T) \in Nat
           /\ Cardinality(S \cup T) = Cardinality(S) + Cardinality(T)
<1>1. /\ IsFiniteSet(S \cup T)
      /\ Cardinality(S \cup T) = Cardinality(S) + Cardinality(T) - Cardinality(S \cap T)
  BY FS_Union
<1>2. Cardinality(S \cap T) = 0
  BY FS_EmptySet
<1>3. Cardinality(S) \in Nat /\ Cardinality(T) \in Nat
  BY FS_CardinalityType
<1> QED
  BY <1>1, <1>2, <1>3

\* The slot so many places after another.
LEMMA Rotation ==
    ASSUME NEW n \in Nat \ {0}, NEW s \in 0 .. n - 1, NEW o \in 0 .. n - 1
    PROVE  (s + o) % n = IF s + o < n THEN s + o ELSE (s + o) - n
<1>1. CASE s + o < n
  <2>1. s + o = (n * 0) + (s + o) /\ s + o \in 0 .. n - 1
    BY <1>1
  <2> QED
    BY <1>1, <2>1, DivisionUnique
<1>2. CASE ~(s + o < n)
  <2>1. s + o = (n * 1) + ((s + o) - n) /\ (s + o) - n \in 0 .. n - 1
    BY <1>2
  <2> QED
    BY <1>2, <2>1, DivisionUnique
<1> QED
  BY <1>1, <1>2
=============================================================================
