---------------------------- MODULE DailyProofs ----------------------------
(***************************************************************************)
(* Theorems about the daily signals and the report: any wallets, markets, *)
(* trades and thresholds, and any number of trades in the window.        *)
(***************************************************************************)
EXTENDS DailyReport, TLAPS, FiniteSetTheorems, WellFoundedInduction

-----------------------------------------------------------------------------
(* Induction over an interval, by the least number that is not in a set, *)
(* and what follows of finite sets.                                      *)

\* What holds of 0 and goes from a number to the next holds up to n.
LEMMA IntervalInduction ==
    ASSUME NEW n \in Nat, NEW T, 0 \in T, \A r \in 1 .. n : r - 1 \in T => r \in T
    PROVE  \A r \in 0 .. n : r \in T
<1> DEFINE Bad == {r \in 0 .. n : r \notin T}
           R == OpToRel(<, Nat)
<1> SUFFICES ASSUME Bad # {}
             PROVE  FALSE
  OBVIOUS
<1>1. \A d, e \in Nat : <<d, e>> \in R <=> d < e
  BY DEF OpToRel
<1>2. IsWellFoundedOn(R, Nat)
  BY NatLessThanWellFounded, Zenon
<1>3. Bad \in SUBSET Nat
  OBVIOUS
<1>4. PICK b \in Bad : \A c \in Bad : ~ (<<c, b>> \in R)
  <2> HIDE DEF Bad, R
  <2> QED
    BY <1>2, <1>3, WFMin
<1>5. b \in 1 .. n /\ b - 1 \in 0 .. n /\ b - 1 < b
  <2>1. b \in 0 .. n /\ b # 0
    BY <1>4
  <2> HIDE DEF Bad, R
  <2> QED
    BY <2>1
<1>6. b - 1 \notin Bad
  BY <1>1, <1>3, <1>4, <1>5
<1> QED
  BY <1>4, <1>5, <1>6

\* A set of numbers up to n that has a member has a largest.
LEMMA Largest ==
    ASSUME NEW n \in Nat, NEW S \in SUBSET (0 .. n), S # {}
    PROVE  \E x \in S : \A y \in S : y <= x
<1> DEFINE T == {k \in 0 .. n : \A A \in SUBSET (0 .. k) : A # {} => \E x \in A : \A y \in A : y <= x}
<1>1. 0 \in T
  <2>1. ASSUME NEW A \in SUBSET (0 .. 0), A # {}
        PROVE  \E x \in A : \A y \in A : y <= x
    <3>1. PICK x \in A : TRUE
      BY <2>1
    <3>2. \A y \in A : y <= x
      OBVIOUS
    <3> QED
      BY <3>2
  <2> QED
    BY <2>1
<1>2. ASSUME NEW r \in 1 .. n, r - 1 \in T
      PROVE  r \in T
  <2> SUFFICES ASSUME NEW A \in SUBSET (0 .. r), A # {}
               PROVE  \E x \in A : \A y \in A : y <= x
    OBVIOUS
  <2>1. CASE r \in A
    BY <2>1
  <2>2. CASE r \notin A
    <3>1. A \in SUBSET (0 .. r - 1)
      BY <2>2
    <3> QED
      BY <1>2, <3>1
  <2> QED
    BY <2>1, <2>2
<1>3. n \in T
  <2> HIDE DEF T
  <2>1. \A r \in 0 .. n : r \in T
    BY <1>1, <1>2, IntervalInduction
  <2> QED
    BY <2>1
<1> QED
  BY <1>3

\* And a smallest.
LEMMA Smallest ==
    ASSUME NEW n \in Nat, NEW S \in SUBSET (0 .. n), S # {}
    PROVE  \E x \in S : \A y \in S : x <= y
<1> DEFINE T == {n - y : y \in S}
<1>1. T \in SUBSET (0 .. n) /\ T # {}
  <2>1. \A y \in S : n - y \in 0 .. n
    OBVIOUS
  <2>2. PICK y \in S : TRUE
    OBVIOUS
  <2>3. n - y \in T
    OBVIOUS
  <2> QED
    BY <2>1, <2>3
<1>2. PICK z \in T : \A w \in T : w <= z
  <2> HIDE DEF T
  <2> QED
    BY <1>1, Largest
<1>3. PICK x \in S : z = n - x
  BY <1>2
<1>4. ASSUME NEW y \in S
      PROVE  x <= y
  <2>1. n - y \in T
    OBVIOUS
  <2>2. n - y <= n - x
    BY <1>2, <1>3, <2>1
  <2>3. x \in Int /\ y \in Int
    OBVIOUS
  <2> QED
    BY <2>2, <2>3
<1> QED
  BY <1>4

\* Max is the largest.
LEMMA MaxIs ==
    ASSUME NEW n \in Nat, NEW S \in SUBSET (0 .. n), S # {}
    PROVE  Max(S) \in S /\ \A y \in S : y <= Max(S)
<1>1. PICK x \in S : \A y \in S : y <= x
  BY Largest
<1>2. \A y \in S : x >= y
  BY <1>1
<1>3. Max(S) \in S /\ \A y \in S : Max(S) >= y
  BY <1>2 DEF Max
<1> QED
  BY <1>3

\* Min is the smallest.
LEMMA MinIs ==
    ASSUME NEW n \in Nat, NEW S \in SUBSET (0 .. n), S # {}
    PROVE  Min(S) \in S /\ \A y \in S : Min(S) <= y
<1>1. PICK x \in S : \A y \in S : x <= y
  BY Smallest
<1> QED
  BY <1>1 DEF Min

-----------------------------------------------------------------------------
(* Sums over finite sets.  MapThenSumSet is defined by a recursive       *)
(* function; that such a function exists is proved by induction over the *)
(* subsets, and so is that its order of adding does not matter.          *)

\* What MapThenSumSet does with the amounts a of the members of M.
SumStep(f, a, s) == IF s = {} THEN 0 ELSE LET x == CHOOSE x \in s : TRUE IN a[x] + f[s \ {x}]

IsSum(f, a, M) == f = [s \in SUBSET M |-> SumStep(f, a, s)]

\* A fact about the finite sets of at most n members, from those of fewer.
LEMMA SubsetInduction ==
    ASSUME NEW M, IsFiniteSet(M), NEW T,
           \A s \in SUBSET M : (\A t \in SUBSET s : t # s => t \in T) => s \in T
    PROVE  \A s \in SUBSET M : s \in T
<1> DEFINE N == Cardinality(M)
           U == {k \in 0 .. N : \A s \in SUBSET M : Cardinality(s) <= k => s \in T}
<1>1. N \in Nat /\ \A s \in SUBSET M : IsFiniteSet(s) /\ Cardinality(s) \in 0 .. N
  BY FS_CardinalityType, FS_Subset
<1>2. \A s \in SUBSET M : \A t \in SUBSET s : t # s => Cardinality(t) < Cardinality(s)
  <2> SUFFICES ASSUME NEW s \in SUBSET M, NEW t \in SUBSET s, t # s
               PROVE  Cardinality(t) < Cardinality(s)
    OBVIOUS
  <2>1. IsFiniteSet(s) /\ IsFiniteSet(t) /\ Cardinality(s) \in Nat /\ Cardinality(t) \in Nat
    BY <1>1
  <2>2. Cardinality(t) <= Cardinality(s) /\ (Cardinality(s) = Cardinality(t) => s = t)
    BY <2>1, FS_Subset
  <2> QED
    BY <2>1, <2>2
<1>3. 0 \in U
  <2> SUFFICES ASSUME NEW s \in SUBSET M, Cardinality(s) <= 0
               PROVE  s \in T
    BY <1>1
  <2>1. s = {}
    BY <1>1, FS_EmptySet
  <2>2. \A t \in SUBSET s : t = s
    BY <2>1
  <2> QED
    BY <2>2
<1>4. ASSUME NEW k \in 1 .. N, k - 1 \in U
      PROVE  k \in U
  <2> SUFFICES ASSUME NEW s \in SUBSET M, Cardinality(s) <= k
               PROVE  s \in T
    BY <1>1
  <2>1. ASSUME NEW t \in SUBSET s, t # s
        PROVE  t \in T
    <3>1. Cardinality(t) < Cardinality(s) /\ t \in SUBSET M
      BY <1>2, <2>1
    <3>2. Cardinality(t) <= k - 1
      BY <1>1, <3>1
    <3> QED
      BY <1>4, <3>1, <3>2
  <2> QED
    BY <2>1
<1>5. N \in U
  <2> HIDE DEF N, U
  <2>1. \A k \in 0 .. N : k \in U
    BY <1>1, <1>3, <1>4, IntervalInduction
  <2> QED
    BY <1>1, <2>1
<1> QED
  BY <1>1, <1>5

\* All members of M but x are fewer.
LEMMA OneLess ==
    ASSUME NEW s, IsFiniteSet(s), s # {}, NEW x, x = CHOOSE y \in s : TRUE
    PROVE  x \in s /\ IsFiniteSet(s \ {x}) /\ Cardinality(s \ {x}) = Cardinality(s) - 1
<1>1. x \in s
  OBVIOUS
<1> QED
  BY <1>1, FS_RemoveElement

\* There is a function that does what the recursive one of MapThenSumSet is to do.
LEMMA SumExists ==
    ASSUME NEW M, IsFiniteSet(M), NEW a
    PROVE  \E f : IsSum(f, a, M)
<1> DEFINE N == Cardinality(M)
           Small(k) == {s \in SUBSET M : Cardinality(s) <= k}
           T == {k \in 0 .. N : \E f : f = [s \in Small(k) |-> SumStep(f, a, s)]}
<1>1. N \in Nat /\ \A s \in SUBSET M : IsFiniteSet(s) /\ Cardinality(s) \in 0 .. N
  BY FS_CardinalityType, FS_Subset
<1>2. 0 \in T
  <2>1. \A s \in Small(0) : s = {}
    BY <1>1, FS_EmptySet
  <2>2. PICK f : f = [s \in Small(0) |-> 0]
    OBVIOUS
  <2>3. \A s \in Small(0) : SumStep(f, a, s) = 0
    BY <2>1 DEF SumStep
  <2>4. f = [s \in Small(0) |-> SumStep(f, a, s)]
    BY <2>2, <2>3
  <2> QED
    BY <1>1, <2>4
<1>3. ASSUME NEW k \in 1 .. N, k - 1 \in T
      PROVE  k \in T
  <2>1. PICK f : f = [s \in Small(k - 1) |-> SumStep(f, a, s)]
    BY <1>3
  <2>2. PICK g : g = [s \in Small(k) |-> IF Cardinality(s) = k THEN SumStep(f, a, s) ELSE f[s]]
    OBVIOUS
  <2>3. \A s \in Small(k) : Cardinality(s) = k \/ s \in Small(k - 1)
    BY <1>1
  <2>4. \A s \in Small(k - 1) : s \in Small(k) /\ Cardinality(s) # k
    BY <1>1
  <2>5. \A s \in Small(k - 1) : g[s] = f[s]
    <3> HIDE DEF Small
    <3> QED
      BY <2>2, <2>4
  <2>6. ASSUME NEW s \in Small(k)
        PROVE  SumStep(g, a, s) = SumStep(f, a, s)
    <3>1. CASE s = {}
      BY <3>1 DEF SumStep
    <3>2. CASE s # {}
      <4>1. PICK x : x = CHOOSE y \in s : TRUE
        OBVIOUS
      <4>2. Cardinality(s \ {x}) = Cardinality(s) - 1 /\ s \ {x} \in SUBSET M
        BY <1>1, <3>2, <4>1, OneLess
      <4>3. s \ {x} \in Small(k - 1)
        BY <1>1, <4>2
      <4>4. g[s \ {x}] = f[s \ {x}]
        BY <2>5, <4>3
      <4> QED
        BY <3>2, <4>1, <4>4 DEF SumStep
    <3> QED
      BY <3>1, <3>2
  <2>7. ASSUME NEW s \in Small(k)
        PROVE  g[s] = SumStep(g, a, s)
    <3>1. CASE Cardinality(s) = k
      BY <2>2, <2>6, <3>1
    <3>2. CASE s \in Small(k - 1)
      <4>1. f[s] = SumStep(f, a, s)
        <5> HIDE DEF Small
        <5> QED
          BY <2>1, <3>2
      <4> QED
        BY <2>5, <2>6, <3>2, <4>1
    <3> HIDE DEF Small
    <3> QED
      BY <2>3, <3>1, <3>2
  <2>8. g = [s \in Small(k) |-> SumStep(g, a, s)]
    <3> HIDE DEF Small
    <3>1. g = [s \in Small(k) |-> g[s]]
      BY <2>2
    <3> QED
      BY <2>7, <3>1
  <2> QED
    BY <2>8
<1>4. N \in T
  <2> HIDE DEF N, T
  <2>1. \A k \in 0 .. N : k \in T
    BY <1>1, <1>2, <1>3, IntervalInduction
  <2> QED
    BY <1>1, <2>1
<1>5. PICK f : f = [s \in Small(N) |-> SumStep(f, a, s)]
  BY <1>4
<1>6. Small(N) = SUBSET M
  BY <1>1
<1> HIDE DEF Small
<1> QED
  BY <1>5, <1>6 DEF IsSum

\* Which larger set a set is a part of is all the same to its sum.
LEMMA SumsAgree ==
    ASSUME NEW M, IsFiniteSet(M), NEW a, NEW f, IsSum(f, a, M),
           NEW I \in SUBSET M, NEW g, IsSum(g, a, I)
    PROVE  \A s \in SUBSET I : f[s] = g[s]
<1> DEFINE T == {s \in SUBSET I : f[s] = g[s]}
<1>1. IsFiniteSet(I)
  BY FS_Subset
<1>2. ASSUME NEW s \in SUBSET I, \A t \in SUBSET s : t # s => t \in T
      PROVE  s \in T
  <2>1. f[s] = SumStep(f, a, s) /\ g[s] = SumStep(g, a, s)
    BY DEF IsSum
  <2>2. CASE s = {}
    BY <2>1, <2>2 DEF SumStep
  <2>3. CASE s # {}
    <3>1. PICK x : x = CHOOSE y \in s : TRUE
      OBVIOUS
    <3>2. s \ {x} # s /\ s \ {x} \in SUBSET s
      BY <2>3, <3>1
    <3>3. f[s \ {x}] = g[s \ {x}]
      BY <1>2, <3>2
    <3> QED
      BY <2>1, <2>3, <3>1, <3>3 DEF SumStep
  <2> QED
    BY <2>2, <2>3
<1> HIDE DEF T
<1>3. \A s \in SUBSET I : s \in T
  BY <1>1, <1>2, SubsetInduction
<1> USE DEF T
<1> QED
  BY <1>3

\* Sums of natural numbers are natural numbers, in whatever order they are added.
SumFacts(f, a, M) ==
    /\ f[{}] = 0
    /\ \A s \in SUBSET M : f[s] \in Nat
    /\ \A s \in SUBSET M : \A x \in M \ s : f[s \cup {x}] = a[x] + f[s]

LEMMA SumIs ==
    ASSUME NEW M, IsFiniteSet(M), NEW a, \A x \in M : a[x] \in Nat, NEW f, IsSum(f, a, M)
    PROVE  SumFacts(f, a, M)
<1> DEFINE T == {s \in SUBSET M : f[s] \in Nat /\ \A x \in s : f[s] = a[x] + f[s \ {x}]}
<1>1. \A s \in SUBSET M : f[s] = SumStep(f, a, s)
  BY DEF IsSum
<1>2. f[{}] = 0
  BY <1>1 DEF SumStep
<1>3. ASSUME NEW s \in SUBSET M, \A t \in SUBSET s : t # s => t \in T
      PROVE  s \in T
  <2>1. CASE s = {}
    BY <1>2, <2>1
  <2>2. CASE s # {}
    <3>1. PICK x : x = CHOOSE y \in s : TRUE
      OBVIOUS
    <3>2. x \in s /\ f[s] = a[x] + f[s \ {x}]
      BY <1>1, <2>2, <3>1 DEF SumStep
    <3>3. \A y \in s : s \ {y} \in SUBSET s /\ s \ {y} # s
      OBVIOUS
    <3>4. \A y \in s : f[s \ {y}] \in Nat /\ a[y] \in Nat
      BY <1>3, <3>3
    <3>5. f[s] \in Nat
      BY <3>2, <3>4
    <3>6. ASSUME NEW y \in s, y # x
          PROVE  f[s] = a[y] + f[s \ {y}]
      <4>1. s \ {x} \in T /\ s \ {y} \in T /\ y \in s \ {x} /\ x \in s \ {y}
        BY <1>3, <3>2, <3>3, <3>6
      <4>2. PICK r : r = (s \ {x}) \ {y}
        OBVIOUS
      <4>3. r = (s \ {y}) \ {x} /\ r \in SUBSET s /\ r # s
        BY <3>2, <4>2
      <4>4. f[s \ {x}] = a[y] + f[r] /\ f[s \ {y}] = a[x] + f[r]
        BY <4>1, <4>2, <4>3
      <4>5. f[r] \in Nat
        BY <1>3, <4>3
      <4>6. PICK p \in Nat, q \in Nat, u \in Nat : p = a[x] /\ q = a[y] /\ u = f[r]
        BY <3>2, <3>4, <4>5
      <4> QED
        BY <3>2, <4>4, <4>6
    <3> QED
      BY <3>2, <3>5, <3>6
  <2> QED
    BY <2>1, <2>2
<1> HIDE DEF T
<1>4. \A s \in SUBSET M : s \in T
  BY <1>3, SubsetInduction
<1> USE DEF T
<1>5. \A s \in SUBSET M : f[s] \in Nat /\ \A x \in s : f[s] = a[x] + f[s \ {x}]
  BY <1>4
<1>6. ASSUME NEW s \in SUBSET M, NEW x \in M \ s
      PROVE  f[s \cup {x}] = a[x] + f[s]
  <2>1. s \cup {x} \in SUBSET M /\ x \in s \cup {x} /\ (s \cup {x}) \ {x} = s
    OBVIOUS
  <2>2. f[s \cup {x}] = a[x] + f[(s \cup {x}) \ {x}]
    BY <1>5, <2>1
  <2> QED
    BY <2>1, <2>2
<1> QED
  BY <1>2, <1>5, <1>6 DEF SumFacts

\* The sum over two sets that are apart is that of their sums.
LEMMA SumOfUnion ==
    ASSUME NEW M, IsFiniteSet(M), NEW a, \A x \in M : a[x] \in Nat, NEW f, SumFacts(f, a, M),
           NEW A \in SUBSET M
    PROVE  \A B \in SUBSET M : A \cap B = {} => f[A \cup B] = f[A] + f[B]
<1> DEFINE T == {B \in SUBSET M : A \cap B = {} => f[A \cup B] = f[A] + f[B]}
<1>1. \A s \in SUBSET M : f[s] \in Nat
  BY DEF SumFacts
<1>2. ASSUME NEW B \in SUBSET M, \A t \in SUBSET B : t # B => t \in T
      PROVE  B \in T
  <2> SUFFICES ASSUME A \cap B = {}
               PROVE  f[A \cup B] = f[A] + f[B]
    OBVIOUS
  <2>1. CASE B = {}
    <3>1. A \cup B = A /\ f[B] = 0
      BY <2>1 DEF SumFacts
    <3>2. PICK n \in Nat : n = f[A]
      BY <1>1
    <3>3. f[A \cup B] = n
      BY <3>1, <3>2
    <3> QED
      BY <3>1, <3>2, <3>3
  <2>2. CASE B # {}
    <3>1. PICK x \in B : TRUE
      BY <2>2
    <3>2. PICK C : C = B \ {x}
      OBVIOUS
    <3>3. /\ C \in SUBSET B /\ C # B /\ A \cap C = {} /\ x \in M \ C /\ B = C \cup {x}
          /\ x \in M \ (A \cup C) /\ A \cup B = (A \cup C) \cup {x} /\ A \cup C \in SUBSET M /\ C \in SUBSET M
      BY <3>1, <3>2
    <3>4. f[A \cup C] = f[A] + f[C]
      BY <1>2, <3>3
    <3>5. f[A \cup B] = a[x] + f[A \cup C] /\ f[B] = a[x] + f[C]
      BY <3>3 DEF SumFacts
    <3>6. PICK p \in Nat, q \in Nat, u \in Nat : p = a[x] /\ q = f[A] /\ u = f[C]
      BY <1>1, <3>3
    <3>7. f[A \cup B] = p + (q + u) /\ f[B] = p + u
      BY <3>4, <3>5, <3>6, Zenon
    <3>8. p + (q + u) = q + (p + u)
      OBVIOUS
    <3> QED
      BY <3>6, <3>7, <3>8, Zenon
  <2> QED
    BY <2>1, <2>2
<1> HIDE DEF T
<1>3. \A B \in SUBSET M : B \in T
  BY <1>2, SubsetInduction
<1> USE DEF T
<1> QED
  BY <1>3

-----------------------------------------------------------------------------
(* Rankings.                                                             *)

\* Nothing outranks itself, and what outranks that which outranks outranks.
LEMMA OutranksOrders ==
    ASSUME NEW k \in Nat, NEW a \in [1 .. k -> Int], NEW b \in [1 .. k -> Int], NEW c \in [1 .. k -> Int]
    PROVE  ~outranks(a, a) /\ (outranks(a, b) /\ outranks(b, c) => outranks(a, c))
<1>1. ~outranks(a, a)
  BY DEF outranks
<1>2. ASSUME outranks(a, b), outranks(b, c)
      PROVE  outranks(a, c)
  <2>1. PICK i \in 1 .. k : a[i] > b[i] /\ \A j \in 1 .. i - 1 : a[j] = b[j]
    BY <1>2 DEF outranks
  <2>2. PICK l \in 1 .. k : b[l] > c[l] /\ \A j \in 1 .. l - 1 : b[j] = c[j]
    BY <1>2 DEF outranks
  <2>3. CASE i <= l
    <3>1. \A j \in 1 .. i - 1 : j \in 1 .. l - 1
      BY <2>3
    <3>2. \A j \in 1 .. i - 1 : a[j] = c[j]
      BY <2>1, <2>2, <3>1
    <3>3. a[i] > c[i]
      <4>1. i = l \/ i \in 1 .. l - 1
        BY <2>3
      <4> QED
        BY <2>1, <2>2, <4>1
    <3> QED
      BY <3>2, <3>3 DEF outranks
  <2>4. CASE l < i
    <3>1. (\A j \in 1 .. l - 1 : j \in 1 .. i - 1) /\ l \in 1 .. i - 1
      BY <2>4
    <3>2. (\A j \in 1 .. l - 1 : a[j] = c[j]) /\ a[l] = b[l]
      BY <2>1, <2>2, <3>1
    <3> QED
      BY <2>2, <3>2 DEF outranks
  <2> QED
    BY <2>3, <2>4
<1> QED
  BY <1>1, <1>2

\* The first n are n, unless all are among them; and there is a first.
LEMMA TopIsFull ==
    ASSUME NEW S, IsFiniteSet(S), NEW n \in Nat, NEW k \in Nat, NEW rank \in [S -> [1 .. k -> Int]]
    PROVE  /\ top(S, rank, n) = S \/ Cardinality(top(S, rank, n)) >= n
           /\ S # {} /\ n > 0 => top(S, rank, n) # {}
<1> DEFINE above(h) == {g \in S : outranks(rank[g], rank[h])}
           N == Cardinality(S)
<1>1. top(S, rank, n) = {h \in S : Cardinality(above(h)) < n}
  BY DEF top
<1>2. PICK T : T = top(S, rank, n)
  OBVIOUS
<1>3. N \in Nat /\ IsFiniteSet(T) /\ Cardinality(T) \in Nat
  BY <1>1, <1>2, FS_Subset, FS_CardinalityType
<1>4. \A h \in S : IsFiniteSet(above(h)) /\ Cardinality(above(h)) \in 0 .. N
  <2> SUFFICES ASSUME NEW h \in S
               PROVE  IsFiniteSet(above(h)) /\ Cardinality(above(h)) \in 0 .. N
    OBVIOUS
  <2>1. above(h) \subseteq S
    OBVIOUS
  <2> HIDE DEF above
  <2> QED
    BY <1>3, <2>1, FS_Subset, FS_CardinalityType
<1>5. ASSUME NEW h \in S, NEW g \in above(h)
      PROVE  Cardinality(above(g)) < Cardinality(above(h))
  <2>1. ASSUME NEW f \in above(g)
        PROVE  f \in above(h)
    <3>1. rank[f] \in [1 .. k -> Int] /\ rank[g] \in [1 .. k -> Int] /\ rank[h] \in [1 .. k -> Int]
      OBVIOUS
    <3> QED
      BY <1>5, <2>1, <3>1, OutranksOrders
  <2>2. g \in above(h) /\ g \notin above(g) /\ g \in S
    <3>1. rank[g] \in [1 .. k -> Int]
      OBVIOUS
    <3> QED
      BY <1>5, <3>1, OutranksOrders
  <2> HIDE DEF above
  <2>3. above(g) \subseteq above(h) /\ above(g) # above(h)
    BY <2>1, <2>2
  <2>4. /\ Cardinality(above(g)) <= Cardinality(above(h))
        /\ Cardinality(above(g)) = Cardinality(above(h)) => above(g) = above(h)
    BY <1>4, <2>3, FS_Subset
  <2>5. Cardinality(above(g)) \in Nat /\ Cardinality(above(h)) \in Nat
    BY <1>4, <2>2
  <2> QED
    BY <2>3, <2>4, <2>5
<1> HIDE DEF above
<1>6. ASSUME NEW R \in SUBSET S, R # {}
      PROVE  \E h \in R : above(h) \cap R = {}
  <2> DEFINE sizes == {Cardinality(above(h)) : h \in R}
  <2>1. sizes \in SUBSET (0 .. N) /\ sizes # {}
    BY <1>4, <1>6
  <2>2. PICK x \in sizes : \A y \in sizes : x <= y
    <3> HIDE DEF sizes, N
    <3> QED
      BY <1>3, <2>1, Smallest
  <2>3. PICK h \in R : x = Cardinality(above(h))
    BY <2>2
  <2>4. ASSUME NEW g \in above(h) \cap R
        PROVE  FALSE
    <3>1. Cardinality(above(g)) < Cardinality(above(h))
      BY <1>5
    <3>2. Cardinality(above(h)) <= Cardinality(above(g))
      BY <2>2, <2>3
    <3>3. Cardinality(above(h)) \in Nat /\ Cardinality(above(g)) \in Nat
      BY <1>4
    <3> QED
      BY <3>1, <3>2, <3>3
  <2> QED
    BY <2>4
<1>7. ASSUME T # S
      PROVE  Cardinality(T) >= n
  <2>1. S \ T # {} /\ S \ T \in SUBSET S
    BY <1>1, <1>2, <1>7
  <2>2. PICK h \in S \ T : above(h) \cap (S \ T) = {}
    BY <1>6, <2>1
  <2>3. above(h) \subseteq T
    BY <2>2 DEF above
  <2>4. Cardinality(above(h)) <= Cardinality(T)
    BY <1>3, <2>3, FS_Subset
  <2>5. ~(Cardinality(above(h)) < n) /\ Cardinality(above(h)) \in Nat
    BY <1>1, <1>2, <1>4
  <2> QED
    BY <1>3, <2>4, <2>5
<1>8. ASSUME S # {}, n > 0
      PROVE  T # {}
  <2>1. PICK h \in S : above(h) \cap S = {}
    BY <1>6, <1>8
  <2>2. above(h) = {}
    BY <2>1 DEF above
  <2>3. Cardinality(above(h)) = 0
    BY <2>2, FS_EmptySet
  <2>4. h \in T
    BY <1>1, <1>2, <1>8, <2>3
  <2> QED
    BY <2>4
<1> QED
  BY <1>2, <1>7, <1>8

-----------------------------------------------------------------------------
(* The trades of the window.                                             *)

\* What the trades of a window are.
LEMMA TradesAre ==
    ASSUME SignalsTypeOK
    PROVE  /\ Len(trades) \in Nat /\ DOMAIN trades = 1 .. Len(trades) /\ IsFiniteSet(DOMAIN trades)
           /\ \A i \in DOMAIN trades :
                 /\ trades[i].wallet \in Traders \cup {NoTrader} /\ trades[i].market \in Questions
                 /\ trades[i].side \in {"BUY", "SELL"} /\ trades[i].notional \in Nat \ {0} /\ trades[i].ts \in Nat
<1>1. Len(trades) \in Nat /\ DOMAIN trades = 1 .. Len(trades) /\ \A i \in DOMAIN trades : trades[i] \in Observations
  BY DEF SignalsTypeOK
<1>2. IsFiniteSet(DOMAIN trades)
  BY <1>1, FS_Interval
<1> QED
  BY <1>1, <1>2, SignalsAssumption

\* The money of a set of trades: a natural number, positive if there is a trade, and additive.
LEMMA NotionalIs ==
    ASSUME SignalsTypeOK
    PROVE  /\ notional({}) = 0
           /\ \A I \in SUBSET DOMAIN trades : notional(I) \in Nat
           /\ \A i \in DOMAIN trades : \A I \in SUBSET DOMAIN trades : i \in I => notional(I) > 0
           /\ \A A, B \in SUBSET DOMAIN trades : A \cap B = {} => notional(A \cup B) = notional(A) + notional(B)
<1> DEFINE D == DOMAIN trades
           amount == [i \in D |-> trades[i].notional]
<1>1. IsFiniteSet(D) /\ \A i \in D : amount[i] \in Nat /\ amount[i] > 0
  BY TradesAre
<1> HIDE DEF D
<1>2. PICK f : IsSum(f, amount, D)
  <2> HIDE DEF amount
  <2> QED
    BY <1>1, SumExists
<1>3. ASSUME NEW I \in SUBSET D
      PROVE  notional(I) = f[I]
  <2> DEFINE iter[s \in SUBSET I] ==
               IF s = {} THEN 0 ELSE LET x == CHOOSE x \in s : TRUE IN trades[x].notional + iter[s \ {x}]
  <2>1. notional(I) = iter[I]
    BY DEF notional, MapThenSumSet, MapThenFoldSet
  <2>2. IsSum(iter, amount, I)
    <3>1. PICK g : IsSum(g, amount, I)
      <4>1. IsFiniteSet(I)
        BY <1>1, FS_Subset
      <4> HIDE DEF amount
      <4> QED
        BY <4>1, SumExists
    <3>2. \A s \in SUBSET I : s # {} => (CHOOSE x \in s : TRUE) \in D
      OBVIOUS
    <3>3. ASSUME NEW s \in SUBSET I
          PROVE  SumStep(g, amount, s)
                 = IF s = {} THEN 0 ELSE LET x == CHOOSE x \in s : TRUE IN trades[x].notional + g[s \ {x}]
      BY <3>2 DEF SumStep
    <3>4. g = [s \in SUBSET I |->
                 IF s = {} THEN 0 ELSE LET x == CHOOSE x \in s : TRUE IN trades[x].notional + g[s \ {x}]]
      BY <3>1, <3>3 DEF IsSum
    <3>5. iter = [s \in SUBSET I |->
                 IF s = {} THEN 0 ELSE LET x == CHOOSE x \in s : TRUE IN trades[x].notional + iter[s \ {x}]]
      BY <3>4
    <3> HIDE DEF iter
    <3>6. ASSUME NEW s \in SUBSET I
          PROVE  SumStep(iter, amount, s)
                 = IF s = {} THEN 0 ELSE LET x == CHOOSE x \in s : TRUE IN trades[x].notional + iter[s \ {x}]
      BY <3>2 DEF SumStep
    <3> QED
      BY <3>5, <3>6 DEF IsSum
  <2> HIDE DEF iter, amount
  <2>3. f[I] = iter[I]
    BY <1>1, <1>2, <2>2, SumsAgree
  <2> QED
    BY <2>1, <2>3
<1> HIDE DEF amount
<1>4. SumFacts(f, amount, D)
  BY <1>1, <1>2, SumIs
<1>5. f[{}] = 0 /\ \A I \in SUBSET D : f[I] \in Nat
  BY <1>4 DEF SumFacts
<1>6. ASSUME NEW i \in D, NEW I \in SUBSET D, i \in I
      PROVE  f[I] > 0
  <2>1. I \ {i} \in SUBSET D /\ i \in D \ (I \ {i}) /\ (I \ {i}) \cup {i} = I
    BY <1>6
  <2>2. f[I] = amount[i] + f[I \ {i}]
    <3>1. f[(I \ {i}) \cup {i}] = amount[i] + f[I \ {i}]
      BY <1>4, <2>1 DEF SumFacts
    <3> QED
      BY <2>1, <3>1
  <2>3. f[I \ {i}] \in Nat /\ amount[i] \in Nat /\ amount[i] > 0
    BY <1>1, <1>5, <2>1
  <2> QED
    BY <2>2, <2>3
<1>7. ASSUME NEW A \in SUBSET D, NEW B \in SUBSET D, A \cap B = {}
      PROVE  f[A \cup B] = f[A] + f[B]
  BY <1>1, <1>4, <1>7, SumOfUnion
<1>8. ASSUME NEW A \in SUBSET D, NEW B \in SUBSET D, A \cap B = {}
      PROVE  notional(A \cup B) = notional(A) + notional(B)
  <2>1. PICK C \in SUBSET D : C = A \cup B
    OBVIOUS
  <2>2. f[C] = f[A] + f[B]
    BY <1>7, <1>8, <2>1
  <2>3. notional(A) = f[A] /\ notional(B) = f[B] /\ notional(C) = f[C]
    BY <1>3
  <2>4. notional(C) = notional(A) + notional(B)
    BY <2>2, <2>3, Zenon
  <2> QED
    BY <2>1, <2>4, Zenon
<1>9. /\ notional({}) = 0
      /\ \A I \in SUBSET D : notional(I) \in Nat
      /\ \A i \in D : \A I \in SUBSET D : i \in I => notional(I) > 0
  BY <1>3, <1>5, <1>6
<1> QED
  BY <1>8, <1>9 DEF D

\* Trades on a market are finitely many, have a first, and are of finitely many wallets.
LEMMA OnIs ==
    ASSUME SignalsTypeOK, NEW m, NEW I \in SUBSET on(m)
    PROVE  /\ IsFiniteSet(I) /\ I \in SUBSET DOMAIN trades /\ I \in SUBSET (0 .. Len(trades))
           /\ I # {} => Min(I) \in I /\ \A i \in I : Min(I) <= i
           /\ IsFiniteSet(wallets(I)) /\ Cardinality(wallets(I)) \in Nat
<1>1. I \in SUBSET DOMAIN trades /\ Len(trades) \in Nat
  BY TradesAre DEF on
<1>2. IsFiniteSet(I)
  BY <1>1, TradesAre, FS_Subset
<1>3. I \in SUBSET (0 .. Len(trades))
  BY <1>1, TradesAre
<1>4. I # {} => Min(I) \in I /\ \A i \in I : Min(I) <= i
  BY <1>1, <1>3, MinIs
<1>5. IsFiniteSet(wallets(I)) /\ Cardinality(wallets(I)) \in Nat
  <2> DEFINE W == {trades[i].wallet : i \in I}
             f == [i \in I |-> trades[i].wallet]
  <2>1. f \in Surjection(I, W)
    <3>1. f \in [I -> W] /\ \A w \in W : \E i \in I : f[i] = w
      OBVIOUS
    <3> QED
      BY <3>1 DEF Surjection
  <2> HIDE DEF f, W
  <2>2. IsFiniteSet(W)
    BY <1>2, <2>1, FS_Surjection
  <2>3. wallets(I) \subseteq W
    BY DEF wallets, W
  <2> QED
    BY <2>2, <2>3, FS_Subset, FS_CardinalityType
<1> QED
  BY <1>1, <1>2, <1>3, <1>4, <1>5

\* Of places there is one that comes first.
LEMMA FirstInTime ==
    ASSUME SignalsTypeOK, NEW I \in SUBSET DOMAIN trades, I # {}
    PROVE  \E i \in I : \A j \in I : ~earlier(j, i)
<1>1. Len(trades) \in Nat /\ DOMAIN trades = 1 .. Len(trades) /\ \A i \in I : trades[i].ts \in Nat
  BY TradesAre
<1>2. PICK i0 \in I : TRUE
  OBVIOUS
<1> DEFINE times == {trades[i].ts : i \in {i \in I : trades[i].ts <= trades[i0].ts}}
<1>3. times \in SUBSET (0 .. trades[i0].ts) /\ times # {} /\ trades[i0].ts \in Nat
  BY <1>1, <1>2
<1>4. PICK x \in times : \A y \in times : x <= y
  <2> HIDE DEF times
  <2> QED
    BY <1>3, Smallest
<1>5. PICK i1 \in I : x = trades[i1].ts
  BY <1>4
<1>6. \A i \in I : x <= trades[i].ts
  BY <1>1, <1>2, <1>4, <1>5
<1> DEFINE same == {i \in I : trades[i].ts = x}
<1>7. same \in SUBSET (0 .. Len(trades)) /\ same # {}
  BY <1>1, <1>5
<1>8. PICK i \in same : \A j \in same : i <= j
  <2> HIDE DEF same
  <2> QED
    BY <1>1, <1>7, Smallest
<1>9. ASSUME NEW j \in I
      PROVE  ~earlier(j, i)
  <2>1. trades[i].ts = x /\ x <= trades[j].ts /\ x \in Nat /\ trades[j].ts \in Nat
    BY <1>1, <1>5, <1>6
  <2>2. trades[j].ts = x => i <= j
    BY <1>8
  <2>3. i \in Int /\ j \in Int
    BY <1>1
  <2> QED
    BY <2>1, <2>2, <2>3 DEF earlier
<1> QED
  BY <1>9

\* The window that starts at the first trade of a moment is all that follows within its width.
LEMMA WindowOfMoment ==
    ASSUME SignalsTypeOK, NEW m, NEW i \in on(m), NEW width \in Nat
    PROVE  \E s \in on(m) :
               /\ trades[s].ts = trades[i].ts
               /\ rolling_window(on(m), s, width)
                  = {j \in on(m) : trades[i].ts <= trades[j].ts /\ trades[j].ts - trades[i].ts <= width}
<1>1. on(m) \in SUBSET DOMAIN trades /\ on(m) \in SUBSET Int /\ \A j \in on(m) : trades[j].ts \in Nat
  BY TradesAre DEF on
<1> DEFINE same == {j \in on(m) : trades[j].ts = trades[i].ts}
<1>2. PICK s \in same : \A j \in same : ~earlier(j, s)
  <2>1. same \in SUBSET DOMAIN trades /\ same # {}
    BY <1>1
  <2> HIDE DEF same
  <2> QED
    BY <2>1, FirstInTime
<1>3. s \in on(m) /\ trades[s].ts = trades[i].ts
  OBVIOUS
<1> DEFINE after == {j \in on(m) : ~earlier(j, s)}
           late == {j \in after : trades[j].ts - trades[s].ts > width}
<1>4. \A j \in on(m) : j \in after <=> trades[i].ts <= trades[j].ts
  <2> SUFFICES ASSUME NEW j \in on(m)
               PROVE  ~earlier(j, s) <=> trades[i].ts <= trades[j].ts
    OBVIOUS
  <2>1. CASE trades[j].ts = trades[i].ts
    BY <1>1, <1>2, <2>1
  <2>2. CASE trades[j].ts # trades[i].ts
    BY <1>1, <1>3, <2>2 DEF earlier
  <2> QED
    BY <2>1, <2>2
<1>5. rolling_window(on(m), s, width) = {j \in after : \A k \in late : earlier(j, k)}
  BY DEF rolling_window
<1> HIDE DEF after
<1>6. ASSUME NEW j \in after
      PROVE  (\A k \in late : earlier(j, k)) <=> trades[j].ts - trades[i].ts <= width
  <2>1. j \in on(m) /\ after \subseteq on(m)
    BY DEF after
  <2>2. ASSUME trades[j].ts - trades[i].ts <= width, NEW k \in late
        PROVE  earlier(j, k)
    <3>1. k \in on(m) /\ trades[k].ts - trades[i].ts > width
      BY <1>3, <2>1
    <3>2. trades[j].ts < trades[k].ts
      BY <1>1, <2>1, <2>2, <3>1
    <3> QED
      BY <3>2 DEF earlier
  <2>3. ASSUME ~(trades[j].ts - trades[i].ts <= width)
        PROVE  j \in late /\ ~earlier(j, j)
    BY <1>1, <1>3, <2>1, <2>3 DEF earlier
  <2> QED
    BY <2>2, <2>3
<1> HIDE DEF late
<1>7. rolling_window(on(m), s, width)
      = {j \in on(m) : trades[i].ts <= trades[j].ts /\ trades[j].ts - trades[i].ts <= width}
  <2>1. after \subseteq on(m)
    BY DEF after
  <2> QED
    BY <1>4, <1>5, <1>6, <2>1
<1> QED
  BY <1>3, <1>7

\* A burst is a window of its first trade; the first of its bucket has a cluster.
LEMMA BurstsReported == SignalsTypeOK => BurstsAreReported
<1> SUFFICES ASSUME SignalsTypeOK, NEW m \in eligible, NEW i \in on(m),
                    NEW moved,
                    moved = {j \in on(m) : trades[i].ts <= trades[j].ts /\ trades[j].ts - trades[i].ts <= window_seconds},
                    Cardinality(wallets(moved)) >= min_wallets /\ notional(moved) >= min_total_notional
             PROVE  \/ \E h \in stealth_clusters : h.market = m /\ bucket(h.at) = bucket(i)
                    \/ Cardinality(stealth_clusters) >= top_n
  BY DEF BurstsAreReported
<1> DEFINE starts(q) == {j \in on(q) : is_burst(burst(q, j))}
           first(I) == {j \in I : \A l \in I : earlier(l, j) => bucket(l) # bucket(j)}
           cluster(q, j, I) ==
               hit("02-C", NoTrader, q, j,
                   smaller(1000, 400 + 100 * (Cardinality(wallets(I)) - min_wallets) + smaller(notional(I) \div 500, 500)),
                   notional(I), top_wallets(q, [w \in Traders |-> notional(by(w, I))]))
           all == UNION {{cluster(q, j, burst(q, j)) : j \in first(starts(q))} : q \in eligible}
           rank == [h \in all |-> <<Cardinality(wallets(burst(h.market, h.at))), h.notional,
                                    - Min(on(h.market)), - trades[h.at].ts, - h.at>>]
<1>1. stealth_clusters = top(all, rank, top_n)
  BY DEF stealth_clusters
<1>2. PICK s \in starts(m) : trades[s].ts = trades[i].ts
  <2>1. PICK s \in on(m) : trades[s].ts = trades[i].ts /\ burst(m, s) = moved
    BY WindowOfMoment, SignalsAssumption DEF burst
  <2> QED
    BY <2>1 DEF is_burst
<1>3. bucket(s) = bucket(i)
  BY <1>2 DEF bucket
<1>4. PICK f \in first(starts(m)) : bucket(f) = bucket(i)
  <2> DEFINE same == {j \in starts(m) : bucket(j) = bucket(i)}
  <2>1. same \in SUBSET DOMAIN trades /\ same # {}
    BY <1>2, <1>3 DEF on
  <2>2. PICK f \in same : \A j \in same : ~earlier(j, f)
    <3> HIDE DEF same
    <3> QED
      BY <2>1, FirstInTime
  <2>3. f \in first(starts(m))
    BY <2>2
  <2> QED
    BY <2>2, <2>3
<1>5. PICK h \in all : h = cluster(m, f, burst(m, f))
  BY <1>4
<1>6. h.market = m /\ h.at = f
  BY <1>5 DEF hit
<1>7. \A q, j : j \in first(starts(q)) => j \in on(q)
  OBVIOUS
<1> HIDE DEF starts, first
<1>8. \A q, j, I : /\ cluster(q, j, I).market = q /\ cluster(q, j, I).at = j
                   /\ cluster(q, j, I).notional = notional(I)
  BY DEF hit
<1>9. ASSUME NEW g \in all
      PROVE  g.at \in on(g.market) /\ g = cluster(trades[g.at].market, g.at, burst(trades[g.at].market, g.at))
  <2>1. PICK q \in eligible : \E j \in first(starts(q)) : g = cluster(q, j, burst(q, j))
    BY <1>9
  <2>2. PICK j \in first(starts(q)) : g = cluster(q, j, burst(q, j))
    BY <2>1
  <2> HIDE DEF cluster
  <2>3. g.market = q /\ g.at = j /\ j \in on(q)
    BY <1>7, <1>8, <2>2
  <2>4. trades[j].market = q
    BY <2>3 DEF on
  <2> QED
    BY <2>2, <2>3, <2>4
<1> HIDE DEF cluster
<1>10. IsFiniteSet(all)
  <2> DEFINE every == {cluster(trades[j].market, j, burst(trades[j].market, j)) : j \in DOMAIN trades}
             c == [j \in DOMAIN trades |-> cluster(trades[j].market, j, burst(trades[j].market, j))]
  <2>1. c \in Surjection(DOMAIN trades, every)
    <3>1. c \in [DOMAIN trades -> every] /\ \A g \in every : \E j \in DOMAIN trades : c[j] = g
      OBVIOUS
    <3> QED
      BY <3>1 DEF Surjection
  <2>2. all \subseteq every
    <3> HIDE DEF all
    <3>1. \A g \in all : g.at \in DOMAIN trades
      BY <1>9 DEF on
    <3> QED
      BY <1>9, <3>1
  <2> HIDE DEF every, c, all
  <2> QED
    BY <2>1, <2>2, TradesAre, FS_Surjection, FS_Subset
<1> HIDE DEF all
<1>11. ASSUME NEW g \in all
       PROVE  <<Cardinality(wallets(burst(g.market, g.at))), g.notional,
                - Min(on(g.market)), - trades[g.at].ts, - g.at>> \in [1 .. 5 -> Int]
  <2>1. g.at \in on(g.market)
    BY <1>9
  <2> PICK q, B, O : q = g.market /\ B = burst(g.market, g.at) /\ O = on(q)
    OBVIOUS
  <2>2. B \in SUBSET on(q) /\ O \in SUBSET on(q) /\ g.at \in O
    BY <2>1 DEF burst, rolling_window
  <2>3. Cardinality(wallets(B)) \in Int /\ B \in SUBSET DOMAIN trades
    <3>1. B \in SUBSET DOMAIN trades /\ Cardinality(wallets(B)) \in Nat
      BY <2>2, OnIs, Zenon
    <3>2. PICK c \in Nat : c = Cardinality(wallets(B))
      BY <3>1
    <3> QED
      BY <3>1, <3>2
  <2>4. g.notional \in Int
    <3>1. g.notional = notional(B)
      <4>1. trades[g.at].market = g.market
        BY <2>1 DEF on
      <4> QED
        BY <1>8, <1>9, <4>1
    <3> QED
      BY <2>3, <3>1, NotionalIs
  <2>5. Min(O) \in Int /\ g.at \in Int /\ trades[g.at].ts \in Int
    <3>1. O \in SUBSET (0 .. Len(trades)) /\ O \in SUBSET DOMAIN trades /\ Min(O) \in O
      BY <2>2, OnIs
    <3> QED
      BY <2>2, <3>1, TradesAre
  <2> PICK c, n, o, t, a : /\ c = Cardinality(wallets(burst(g.market, g.at))) /\ n = g.notional
                           /\ o = Min(on(g.market)) /\ t = trades[g.at].ts /\ a = g.at
    OBVIOUS
  <2>6. <<c, n, -o, -t, -a>> \in [1 .. 5 -> Int]
    BY <2>3, <2>4, <2>5
  <2> QED
    BY <2>6
<1>12. rank \in [all -> [1 .. 5 -> Int]]
  BY <1>11
<1> HIDE DEF rank
<1>13. top(all, rank, top_n) = all \/ Cardinality(top(all, rank, top_n)) >= top_n
  BY <1>10, <1>12, TopIsFull, SignalsAssumption
<1> QED
  BY <1>1, <1>4, <1>5, <1>6, <1>13

-----------------------------------------------------------------------------
(* The report.                                                           *)

\* Who is listed as a contributor has traded the market.
LEMMA ContributorsTraded ==
    ASSUME NEW m, NEW amount, NEW c \in top_wallets(m, amount)
    PROVE  c.address \in wallets(on(m)) /\ amount[c.address] > 0 /\ by(c.address, on(m)) # {}
<1> DEFINE contributing == {w \in wallets(on(m)) : amount[w] > 0}
           most == [w \in contributing |-> <<amount[w], - Min(by(w, on(m)))>>]
<1>1. c.address \in wallets(on(m)) /\ amount[c.address] > 0
  <2>1. top_wallets(m, amount) = {[address |-> w, amount |-> amount[w]] : w \in top(contributing, most, top_contributors)}
    BY DEF top_wallets
  <2> HIDE DEF most
  <2>2. PICK w \in top(contributing, most, top_contributors) : c = [address |-> w, amount |-> amount[w]]
    BY <2>1
  <2>3. w \in contributing
    BY <2>2 DEF top
  <2> QED
    BY <2>2, <2>3
<1>2. PICK i \in on(m) : trades[i].wallet = c.address
  BY <1>1 DEF wallets
<1> QED
  BY <1>1, <1>2 DEF by

\* There are contributors if a wallet on the market has an amount.
LEMMA ContributorsExist ==
    ASSUME SignalsTypeOK, NEW m, NEW amount, \A w \in wallets(on(m)) : amount[w] \in Int,
           NEW w0 \in wallets(on(m)), amount[w0] > 0
    PROVE  top_wallets(m, amount) # {}
<1> DEFINE contributing == {w \in wallets(on(m)) : amount[w] > 0}
           most == [w \in contributing |-> <<amount[w], - Min(by(w, on(m)))>>]
<1>1. IsFiniteSet(contributing) /\ contributing # {}
  <2>1. on(m) \in SUBSET on(m)
    OBVIOUS
  <2>2. IsFiniteSet(wallets(on(m)))
    BY <2>1, OnIs
  <2>3. contributing \subseteq wallets(on(m)) /\ w0 \in contributing
    OBVIOUS
  <2> HIDE DEF contributing
  <2> QED
    BY <2>2, <2>3, FS_Subset
<1>2. ASSUME NEW w \in contributing
      PROVE  <<amount[w], - Min(by(w, on(m)))>> \in [1 .. 2 -> Int]
  <2>1. amount[w] \in Int
    OBVIOUS
  <2> PICK B : B = by(w, on(m))
    OBVIOUS
  <2>2. B \in SUBSET on(m) /\ B # {}
    <3>1. PICK i \in on(m) : trades[i].wallet = w
      BY DEF wallets
    <3> QED
      BY <3>1 DEF by
  <2>3. Min(B) \in B /\ B \in SUBSET DOMAIN trades
    BY <2>2, OnIs
  <2>4. PICK x \in Int : x = Min(B)
    BY <2>3, TradesAre
  <2> PICK a \in Int : a = amount[w]
    BY <2>1
  <2>5. <<a, -x>> \in [1 .. 2 -> Int]
    OBVIOUS
  <2> QED
    BY <2>4, <2>5
<1>3. most \in [contributing -> [1 .. 2 -> Int]]
  BY <1>2
<1>4. top_wallets(m, amount) = {[address |-> w, amount |-> amount[w]] : w \in top(contributing, most, top_contributors)}
  BY DEF top_wallets
<1> HIDE DEF contributing, most
<1>5. top(contributing, most, top_contributors) # {}
  <2>1. top_contributors \in Nat /\ top_contributors > 0
    BY SignalsAssumption
  <2>2. 2 \in Nat
    OBVIOUS
  <2> QED
    BY <1>1, <1>3, <2>1, <2>2, TopIsFull
<1>6. PICK w : w \in top(contributing, most, top_contributors)
  BY <1>5
<1> QED
  BY <1>4, <1>6

\* Where a market leans: what was bought is half of its volume at least, or not.
Leans(m) == IF 2 * notional(bought(on(m))) >= notional(on(m)) THEN 1 ELSE -1

\* What was bought of some trades is part of them, all of them if none was sold.
LEMMA AmountsAre ==
    ASSUME SignalsTypeOK, NEW m, NEW I \in SUBSET on(m)
    PROVE  /\ notional(I) \in Nat /\ notional(bought(I)) \in Nat /\ bought(I) \in SUBSET I
           /\ notional(bought(I)) <= notional(I)
           /\ notional(bought(I)) = 0 \/ \E i \in I : trades[i].side = "BUY"
           /\ notional(bought(I)) = notional(I) \/ \E i \in I : trades[i].side = "SELL"
<1>1. I \in SUBSET DOMAIN trades
  BY DEF on
<1>2. PICK B, S : B = bought(I) /\ S = I \ bought(I)
  OBVIOUS
<1>3. B \in SUBSET I /\ B \in SUBSET DOMAIN trades /\ S \in SUBSET DOMAIN trades /\ B \cap S = {} /\ B \cup S = I
  BY <1>1, <1>2 DEF bought
<1>4. notional(I) = notional(B) + notional(S) /\ notional(B) \in Nat /\ notional(S) \in Nat
  <2>1. notional(B \cup S) = notional(B) + notional(S)
    BY <1>3, NotionalIs
  <2> QED
    BY <1>3, <2>1, NotionalIs
<1>5. notional(B) = 0 \/ \E i \in I : trades[i].side = "BUY"
  <2>1. CASE B = {}
    BY <2>1, NotionalIs
  <2>2. CASE B # {}
    BY <1>2, <2>2 DEF bought
  <2> QED
    BY <2>1, <2>2
<1>6. notional(S) = 0 \/ \E i \in I : trades[i].side = "SELL"
  <2>1. CASE S = {}
    BY <2>1, NotionalIs
  <2>2. CASE S # {}
    <3>1. PICK i \in I : trades[i].side # "BUY"
      BY <1>2, <2>2 DEF bought
    <3> QED
      BY <1>1, <3>1, TradesAre
  <2> QED
    BY <2>1, <2>2
<1> QED
  BY <1>2, <1>3, <1>4, <1>5, <1>6

\* A wallet's share in the lean is on the side the market leans to.
LEMMA ShareIsOfSide ==
    ASSUME SignalsTypeOK, NEW m, NEW w, Leans(m) * signed(w, m) > 0
    PROVE  \E i \in by(w, on(m)) : trades[i].side = IF Leans(m) = 1 THEN "BUY" ELSE "SELL"
<1>1. PICK I : I = by(w, on(m))
  OBVIOUS
<1>2. I \in SUBSET on(m)
  BY <1>1 DEF by
<1>3. PICK b \in Nat, n \in Nat : b = notional(bought(I)) /\ n = notional(I)
  BY <1>2, AmountsAre
<1>4. b <= n /\ (b = 0 \/ \E i \in I : trades[i].side = "BUY") /\ (b = n \/ \E i \in I : trades[i].side = "SELL")
  BY <1>2, <1>3, AmountsAre
<1>5. signed(w, m) = 2 * b - n
  BY <1>1, <1>3 DEF signed
<1>6. CASE Leans(m) = 1
  <2>1. 1 * (2 * b - n) > 0
    BY <1>5, <1>6
  <2>2. b # 0
    BY <2>1
  <2> QED
    BY <1>1, <1>4, <1>6, <2>2
<1>7. CASE Leans(m) = -1
  <2>1. -1 * (2 * b - n) > 0
    BY <1>5, <1>7
  <2>2. b # n
    BY <2>1
  <2> QED
    BY <1>1, <1>4, <1>7, <2>2
<1> QED
  BY <1>6, <1>7 DEF Leans

\* By how much more was bought than sold.
Skew(I) == 2 * notional(bought(I)) - notional(I)

\* Skews of trades that are apart add up.
LEMMA SkewAdds ==
    ASSUME SignalsTypeOK, NEW m
    PROVE  \A A, B \in SUBSET on(m) :
              A \cap B = {} => Skew(A) \in Int /\ Skew(B) \in Int /\ Skew(A \cup B) = Skew(A) + Skew(B)
<1> SUFFICES ASSUME NEW A \in SUBSET on(m), NEW B \in SUBSET on(m), A \cap B = {}
             PROVE  Skew(A) \in Int /\ Skew(B) \in Int /\ Skew(A \cup B) = Skew(A) + Skew(B)
  OBVIOUS
<1>1. PICK C, D : C = bought(A) /\ D = bought(B)
  OBVIOUS
<1>2. bought(A \cup B) = C \cup D /\ C \cap D = {}
  BY <1>1 DEF bought
<1>3. A \in SUBSET DOMAIN trades /\ B \in SUBSET DOMAIN trades /\ C \in SUBSET DOMAIN trades /\ D \in SUBSET DOMAIN trades
  BY <1>1 DEF bought, on
<1>4. notional(A \cup B) = notional(A) + notional(B) /\ notional(C \cup D) = notional(C) + notional(D)
  BY <1>2, <1>3, NotionalIs
<1>5. PICK a \in Nat, b \in Nat, c \in Nat, d \in Nat :
        a = notional(A) /\ b = notional(B) /\ c = notional(C) /\ d = notional(D)
  BY <1>3, NotionalIs
<1>6. Skew(A) = 2 * c - a /\ Skew(B) = 2 * d - b
  BY <1>1, <1>5 DEF Skew
<1>7. Skew(A \cup B) = 2 * (c + d) - (a + b)
  BY <1>2, <1>4, <1>5 DEF Skew
<1> QED
  BY <1>6, <1>7

\* A share of more than a half, of something, is more than its half.
LEMMA Multiples ==
    ASSUME NEW k \in 51 .. 99, NEW t \in Nat, t > 0
    PROVE  k * t > 50 * t
<1>1. PICK j \in Nat : k = 51 + j
  <2>1. k - 51 \in Nat /\ k = 51 + (k - 51)
    OBVIOUS
  <2> QED
    BY <2>1
<1>2. j * t \in Nat
  OBVIOUS
<1>3. (51 + j) * t = 51 * t + j * t
  OBVIOUS
<1> QED
  BY <1>1, <1>2, <1>3

\* What leans to a side by more than its half has a wallet that did.
LEMMA LeanHasContributor ==
    ASSUME SignalsTypeOK, NEW m, on(m) # {}, NoTrader \notin {trades[i].wallet : i \in on(m)},
           100 * dominance(on(m)) >= threshold * notional(on(m))
    PROVE  \E w \in wallets(on(m)) : Leans(m) * signed(w, m) > 0
<1>0. \A A, B \in SUBSET on(m) :
         A \cap B = {} => Skew(A) \in Int /\ Skew(B) \in Int /\ Skew(A \cup B) = Skew(A) + Skew(B)
  BY SkewAdds, Zenon
<1> DEFINE O == on(m)
           W == wallets(O)
           of(V) == {i \in O : trades[i].wallet \in V}
           lean == Leans(m)
<1>1. lean \in {1, -1}
  BY DEF Leans
<1>2. lean * Skew(O) > 0
  <2>1. PICK b \in Nat, t \in Nat : b = notional(bought(O)) /\ t = notional(O)
    <3>1. O \in SUBSET O
      OBVIOUS
    <3> QED
      BY <3>1, AmountsAre
  <2>2. t > 0
    <3>1. O \in SUBSET DOMAIN trades /\ \E i \in O : TRUE
      BY DEF on
    <3> QED
      BY <2>1, <3>1, NotionalIs
  <2>3. Skew(O) = 2 * b - t /\ lean = (IF 2 * b >= t THEN 1 ELSE -1)
    BY <2>1 DEF Skew, Leans
  <2>4. 100 * larger(b, t - b) > 50 * t
    <3>1. threshold * t > 50 * t
      BY <2>2, Multiples, SignalsAssumption
    <3>2. 100 * larger(b, t - b) >= threshold * t
      BY <2>1 DEF dominance
    <3>3. larger(b, t - b) \in Int /\ threshold \in Int
      BY SignalsAssumption DEF larger
    <3>4. PICK x \in Int : x = threshold * t
      BY <3>3
    <3> QED
      BY <3>1, <3>2, <3>3, <3>4
  <2>5. CASE 2 * b >= t
    <3>1. larger(b, t - b) = b
      BY <2>5 DEF larger
    <3>2. 2 * b > t
      BY <2>4, <3>1
    <3> QED
      BY <2>3, <2>5, <3>2
  <2>6. CASE ~(2 * b >= t)
    BY <2>3, <2>6
  <2> QED
    BY <2>5, <2>6
<1> DEFINE T == {V \in SUBSET W : Skew(of(V)) \in Int /\ lean * Skew(of(V)) <= 0}
<1>3. SUFFICES ASSUME \A w \in W : ~(lean * signed(w, m) > 0)
               PROVE  FALSE
  OBVIOUS
<1>4. ASSUME NEW V \in SUBSET W, \A U \in SUBSET V : U # V => U \in T
      PROVE  V \in T
  <2>1. CASE V = {}
    <3>1. of(V) = {} /\ bought({}) = {}
      BY <2>1 DEF bought
    <3> HIDE DEF of
    <3>2. notional({}) = 0
      BY NotionalIs
    <3>3. Skew({}) = 2 * 0 - 0
      BY <3>1, <3>2 DEF Skew
    <3>4. Skew(of(V)) = 0
      BY <3>1, <3>3
    <3> QED
      BY <1>1, <3>4
  <2>2. CASE V # {}
    <3>1. PICK w \in V : TRUE
      BY <2>2
    <3>2. PICK U : U = V \ {w}
      OBVIOUS
    <3>3. U \in T
      BY <1>4, <3>1, <3>2
    <3>4. PICK A, B : A = of(U) /\ B = by(w, O)
      OBVIOUS
    <3>5. A \in SUBSET on(m) /\ B \in SUBSET on(m) /\ A \cap B = {} /\ of(V) = A \cup B
      BY <3>1, <3>2, <3>4 DEF by
    <3>6. Skew(A) \in Int /\ Skew(B) \in Int /\ Skew(of(V)) = Skew(A) + Skew(B)
      <4>1. Skew(A) \in Int /\ Skew(B) \in Int /\ Skew(A \cup B) = Skew(A) + Skew(B)
        BY <1>0, <3>5
      <4> QED
        BY <3>5, <4>1, Zenon
    <3>7. Skew(B) = signed(w, m)
      BY <3>4 DEF Skew, signed
    <3>8. ~(lean * Skew(B) > 0) /\ lean * Skew(A) <= 0
      BY <1>3, <3>1, <3>3, <3>4, <3>7
    <3> HIDE DEF lean
    <3>9. PICK x \in Int, y \in Int : x = Skew(A) /\ y = Skew(B)
      BY <3>6
    <3>10. x + y \in Int /\ lean * (x + y) <= 0
      BY <1>1, <3>8, <3>9
    <3> QED
      BY <3>6, <3>9, <3>10
  <2> QED
    BY <2>1, <2>2
<1>5. IsFiniteSet(W)
  <2>1. O \in SUBSET on(m)
    OBVIOUS
  <2> QED
    BY <2>1, OnIs
<1>6. of(W) = O
  BY DEF wallets
<1> HIDE DEF W, T
<1>7. \A V \in SUBSET W : V \in T
  BY <1>4, <1>5, SubsetInduction
<1>8. W \in SUBSET W
  OBVIOUS
<1>9. W \in T
  BY <1>7, <1>8
<1> USE DEF T
<1>10. lean * Skew(of(W)) <= 0 /\ Skew(of(W)) \in Int
  BY <1>9
<1> HIDE DEF lean, of, O
<1>11. PICK x \in Int : x = Skew(O)
  BY <1>6, <1>10
<1> QED
  BY <1>1, <1>2, <1>6, <1>10, <1>11

-----------------------------------------------------------------------------
\* What is true of a hit of any signal.
HitOK(h) ==
    /\ h.signal \in REGISTRY /\ h.market \in eligible /\ (h.signal # "03-A" => on(h.market) # {})
    /\ h.wallet \in Traders => by(h.wallet, on(h.market)) # {}
    /\ \A c \in h.top_wallets : by(c.address, on(h.market)) # {}
    /\ h.signal = "02-A" =>
         /\ NoTrader \notin {trades[i].wallet : i \in on(h.market)} => h.top_wallets # {}
         /\ \A c \in h.top_wallets : \E i \in by(c.address, on(h.market)) :
               trades[i].side = IF Leans(h.market) = 1 THEN "BUY" ELSE "SELL"

\* The fields of a hit.
LEMMA HitHas ==
    ASSUME NEW signal, NEW w, NEW m, NEW at, NEW score, NEW amount, NEW c, NEW h,
           h = hit(signal, w, m, at, score, amount, c)
    PROVE  h.signal = signal /\ h.wallet = w /\ h.market = m /\ h.top_wallets = c
BY DEF hit

\* Fresh wallets are of a trade on an eligible market.
LEMMA FreshOK == \A h \in fresh_wallets : HitOK(h)
<1> DEFINE big(w, m) == \E i \in by(w, on(m)) : trades[i].notional >= min_trade_notional
           pairs == {p \in Traders \X eligible :
                       /\ big(p[1], p[2])
                       /\ first_trades[p[1]] # NoTime /\ first_trades[p[1]] >= window_end - max_age}
           score(w) == smaller(1000, 500 + (500 * (max_age - (window_end - first_trades[w]))) \div max_age)
           all == {hit("01-A", p[1], p[2], Min(by(p[1], on(p[2]))), score(p[1]), notional(by(p[1], on(p[2]))), {})
                     : p \in pairs}
           rank == [h \in all |-> <<h.score, h.notional, - h.at>>]
<1> SUFFICES ASSUME NEW h \in top(all, rank, top_n)
             PROVE  HitOK(h)
  BY DEF fresh_wallets
<1>1. h \in all
  BY DEF top
<1> HIDE DEF score, rank
<1>2. PICK p \in pairs : h = hit("01-A", p[1], p[2], Min(by(p[1], on(p[2]))), score(p[1]), notional(by(p[1], on(p[2]))), {})
  BY <1>1
<1>3. h.signal = "01-A" /\ h.wallet = p[1] /\ h.market = p[2] /\ h.top_wallets = {}
  BY <1>2, HitHas
<1>4. p[2] \in eligible /\ by(p[1], on(p[2])) # {}
  OBVIOUS
<1>5. on(p[2]) # {}
  BY <1>4 DEF by
<1> QED
  BY <1>3, <1>4, <1>5 DEF HitOK, REGISTRY

\* An unusual fill or window is of a wallet's trades on a market with a percentile.
LEMMA UnusualOK == \A h \in unusual_sizes : HitOK(h)
<1> DEFINE all == single_fills \cup UNION {stealth_windows(w, m) : w \in Traders, m \in Questions}
           rank == [h \in all |-> <<h.score, - h.at>>]
           best == {h \in all : \A g \in all : g.wallet = h.wallet /\ g.market = h.market
                                                 => ~outranks(rank[g], rank[h])}
<1>0. unusual_sizes = top(best, rank, top_n)
  BY DEF unusual_sizes
<1> HIDE DEF rank, best
<1> SUFFICES ASSUME NEW h \in top(best, rank, top_n)
             PROVE  HitOK(h)
  BY <1>0
<1> USE DEF best
<1>1. h \in all
  <2> HIDE DEF all
  <2> QED
    BY DEF top
<1>2. SUFFICES ASSUME NEW w, NEW m, h.signal = "01-B" /\ h.wallet = w /\ h.market = m /\ h.top_wallets = {},
                      m \in eligible /\ by(w, on(m)) # {}
               PROVE  HitOK(h)
  <2>1. CASE h \in single_fills
    <3> DEFINE large == {i \in DOMAIN trades :
                  /\ trades[i].wallet # NoTrader /\ has_p90(trades[i].market)
                  /\ trades[i].notional >= variant_a_multiple * p90(trades[i].market)}
               score(i) == smaller(1000, 500 + (50 * trades[i].notional) \div p90(trades[i].market))
    <3>1. single_fills = {hit("01-B", trades[i].wallet, trades[i].market, i, score(i), trades[i].notional, {}) : i \in large}
      BY DEF single_fills
    <3> HIDE DEF score
    <3>2. PICK i \in large : h = hit("01-B", trades[i].wallet, trades[i].market, i, score(i), trades[i].notional, {})
      BY <2>1, <3>1
    <3>3. h.signal = "01-B" /\ h.wallet = trades[i].wallet /\ h.market = trades[i].market /\ h.top_wallets = {}
      BY <3>2, HitHas
    <3>4. trades[i].market \in eligible /\ by(trades[i].wallet, on(trades[i].market)) # {}
      BY DEF has_p90, by, on
    <3> QED
      BY <1>2, <3>3, <3>4
  <2>2. CASE h \in UNION {stealth_windows(w, m) : w \in Traders, m \in Questions}
    <3>1. PICK w \in Traders, m \in Questions : h \in stealth_windows(w, m)
      BY <2>2
    <3> DEFINE group == by(w, on(m))
               size == p90(m)
               found(I) ==
                   /\ Cardinality(I) >= variant_b_min_trades
                   /\ 100 * dominance(I) >= variant_b_dominance * notional(I)
                   /\ 2 * notional(I) >= variant_b_notional_multiple * size * Cardinality(I)
               starts == {i \in group : found(rolling_window(group, i, variant_b_window))}
               start == CHOOSE i \in starts : \A j \in starts \ {i} : earlier(i, j)
               I == rolling_window(group, start, variant_b_window)
               score == smaller(1000, 500 + (25 * (100 * dominance(I) - variant_b_dominance * notional(I))) \div notional(I))
    <3>0. stealth_windows(w, m) = IF ~has_p90(m) \/ starts = {} THEN {}
                                  ELSE {hit("01-B", w, m, Len(trades) + start, score, notional(I), {})}
      BY DEF stealth_windows
    <3> HIDE DEF starts
    <3>2. ~(~has_p90(m) \/ starts = {}) /\ h = hit("01-B", w, m, Len(trades) + start, score, notional(I), {})
      <4> HIDE DEF score, I, start, found
      <4> QED
        BY <3>0, <3>1
    <3> USE DEF starts
    <3> HIDE DEF score, I, start, found
    <3>3. h.signal = "01-B" /\ h.wallet = w /\ h.market = m /\ h.top_wallets = {}
      BY <3>2, HitHas
    <3>4. m \in eligible /\ by(w, on(m)) # {}
      BY <3>2 DEF has_p90
    <3> QED
      BY <1>2, <3>3, <3>4
  <2> QED
    BY <1>1, <2>1, <2>2
<1>3. on(m) # {}
  BY <1>2 DEF by
<1> QED
  BY <1>2, <1>3 DEF HitOK, REGISTRY

\* A lean has contributors, who traded its side.
LEMMA ImbalancesOK == SignalsTypeOK => \A h \in order_flow_imbalances : HitOK(h)
<1> SUFFICES ASSUME SignalsTypeOK
             PROVE  \A h \in order_flow_imbalances : HitOK(h)
  OBVIOUS
<1> DEFINE total(m) == notional(on(m))
           dominant(m) == dominance(on(m))
           sign(m) == IF 2 * notional(bought(on(m))) >= total(m) THEN 1 ELSE -1
           leaning == {m \in eligible : /\ on(m) # {} /\ Cardinality(on(m)) >= min_trades
                                        /\ 100 * dominant(m) >= threshold * total(m)}
           shares(m) == [w \in Traders |-> sign(m) * signed(w, m)]
           contributors(m) == top_wallets(m, shares(m))
           score(m) == (1000 * (100 * dominant(m) - threshold * total(m))) \div ((100 - threshold) * total(m))
           amount(m) == 2 * dominant(m) - total(m)
           all == {hit("02-A", NoTrader, m, Min(on(m)), score(m), amount(m), contributors(m)) : m \in leaning}
           rank == [h \in all |-> <<h.score, h.notional, - h.at>>]
<1>1. order_flow_imbalances = top(all, rank, top_n)
  BY DEF order_flow_imbalances
<1> HIDE DEF score, amount, rank
<1> SUFFICES ASSUME NEW h \in top(all, rank, top_n)
             PROVE  HitOK(h)
  BY <1>1
<1>2. h \in all
  BY DEF top
<1>3. PICK m \in leaning : h = hit("02-A", NoTrader, m, Min(on(m)), score(m), amount(m), contributors(m))
  <2> HIDE DEF contributors, leaning
  <2> QED
    BY <1>2
<1>4. h.signal = "02-A" /\ h.wallet = NoTrader /\ h.market = m /\ h.top_wallets = contributors(m)
  <2> HIDE DEF contributors, leaning
  <2> QED
    BY <1>3, HitHas
<1>5. m \in eligible /\ on(m) # {} /\ 100 * dominant(m) >= threshold * total(m)
  OBVIOUS
<1>6. sign(m) = Leans(m) /\ sign(m) \in {1, -1}
  BY DEF Leans
<1>7. \A w \in wallets(on(m)) : w \in Traders
  BY TradesAre DEF wallets, on
<1>8. \A w \in wallets(on(m)) : shares(m)[w] = Leans(m) * signed(w, m)
  BY <1>6, <1>7
<1>9. \A w \in wallets(on(m)) : shares(m)[w] \in Int
  <2> SUFFICES ASSUME NEW w \in wallets(on(m))
               PROVE  shares(m)[w] \in Int
    OBVIOUS
  <2>1. PICK I : I = by(w, on(m))
    OBVIOUS
  <2>2. I \in SUBSET on(m)
    BY <2>1 DEF by
  <2>3. PICK b \in Nat, n \in Nat : b = notional(bought(I)) /\ n = notional(I)
    BY <2>2, AmountsAre
  <2>4. signed(w, m) = 2 * b - n
    BY <2>1, <2>3 DEF signed
  <2>5. PICK k \in {1, -1} : k = Leans(m)
    BY <1>6
  <2>6. k * (2 * b - n) \in Int
    BY <2>5
  <2> HIDE DEF shares
  <2> QED
    BY <1>8, <2>4, <2>5, <2>6
<1>10. ASSUME NEW c \in contributors(m)
       PROVE  /\ by(c.address, on(m)) # {}
              /\ \E i \in by(c.address, on(m)) : trades[i].side = IF Leans(m) = 1 THEN "BUY" ELSE "SELL"
  <2> HIDE DEF shares
  <2>1. c.address \in wallets(on(m)) /\ shares(m)[c.address] > 0 /\ by(c.address, on(m)) # {}
    BY ContributorsTraded
  <2>2. Leans(m) * signed(c.address, m) > 0
    BY <1>8, <2>1
  <2> QED
    BY <2>1, <2>2, ShareIsOfSide
<1>11. ASSUME NoTrader \notin {trades[i].wallet : i \in on(m)}
       PROVE  contributors(m) # {}
  <2>1. PICK w \in wallets(on(m)) : Leans(m) * signed(w, m) > 0
    <3> HIDE DEF leaning
    <3> QED
      BY <1>5, <1>11, LeanHasContributor
  <2>2. shares(m)[w] > 0
    BY <1>8, <2>1
  <2> HIDE DEF shares
  <2> QED
    BY <1>9, <2>2, ContributorsExist
<1> HIDE DEF contributors
<1>12. NoTrader \notin Traders
  BY SignalsAssumption
<1> QED
  BY <1>4, <1>5, <1>10, <1>11, <1>12 DEF HitOK, REGISTRY

\* A cluster's contributors have traded the market.
LEMMA StealthOK == \A h \in stealth_clusters : HitOK(h)
<1> DEFINE starts(m) == {i \in on(m) : is_burst(burst(m, i))}
           first(I) == {i \in I : \A j \in I : earlier(j, i) => bucket(j) # bucket(i)}
           score(I) == smaller(1000, 400 + 100 * (Cardinality(wallets(I)) - min_wallets) + smaller(notional(I) \div 500, 500))
           share(I) == [w \in Traders |-> notional(by(w, I))]
           cluster(m, i, I) ==
               hit("02-C", NoTrader, m, i, score(I), notional(I), top_wallets(m, share(I)))
           all == UNION {{cluster(m, i, burst(m, i)) : i \in first(starts(m))} : m \in eligible}
           rank == [h \in all |-> <<Cardinality(wallets(burst(h.market, h.at))), h.notional,
                                    - Min(on(h.market)), - trades[h.at].ts, - h.at>>]
<1>1. stealth_clusters = top(all, rank, top_n)
  BY DEF stealth_clusters
<1> HIDE DEF rank, score, share
<1> SUFFICES ASSUME NEW h \in top(all, rank, top_n)
             PROVE  HitOK(h)
  BY <1>1
<1>2. h \in all
  <2> HIDE DEF all
  <2> QED
    BY DEF top
<1> HIDE DEF cluster
<1>3. PICK m \in eligible : \E i \in first(starts(m)) : h = cluster(m, i, burst(m, i))
  BY <1>2
<1> PICK i \in first(starts(m)) : h = cluster(m, i, burst(m, i))
  BY <1>3
<1> USE DEF cluster
<1>4. /\ h.signal = "02-C" /\ h.wallet = NoTrader /\ h.market = m
      /\ h.top_wallets = top_wallets(m, share(burst(m, i)))
  BY <1>3, HitHas
<1>5. \A c \in h.top_wallets : by(c.address, on(m)) # {}
  BY <1>4, ContributorsTraded
<1>6. on(m) # {}
  OBVIOUS
<1>7. NoTrader \notin Traders
  BY SignalsAssumption
<1> QED
  BY <1>4, <1>5, <1>6, <1>7 DEF HitOK, REGISTRY

\* And so have those of a spike.
LEMMA SpikesOK == \A h \in volume_spikes : HitOK(h)
<1> DEFINE age(m) == larger(window_end - market_meta[m].start, Day \div 10)
           spiking == {m \in eligible :
               LET meta == market_meta[m]
               IN /\ meta.volume24hr >= min_volume_24h /\ meta.volumeNum > 0
                  /\ meta.start # NoTime /\ age(m) >= min_days_active * Day
                  /\ meta.volume24hr * age(m) >= min_multiple * meta.volumeNum * Day}
           multiple(m) == (1000 * market_meta[m].volume24hr * age(m)) \div (market_meta[m].volumeNum * Day)
           share(m) == [w \in Traders |-> notional(by(w, on(m)))]
           contributors(m) == top_wallets(m, share(m))
           score(m) == 400 + smaller((multiple(m) - 1000 * min_multiple) \div 10, 600)
           all == {hit("03-A", NoTrader, m, 0, score(m), market_meta[m].volume24hr, contributors(m)) : m \in spiking}
           rank == [h \in all |-> <<multiple(h.market)>>]
<1>1. volume_spikes = top(all, rank, top_n)
  BY DEF volume_spikes
<1> HIDE DEF rank, score, share, multiple
<1> SUFFICES ASSUME NEW h \in top(all, rank, top_n)
             PROVE  HitOK(h)
  BY <1>1
<1>2. h \in all
  <2> HIDE DEF all
  <2> QED
    BY DEF top
<1>3. PICK m \in spiking : h = hit("03-A", NoTrader, m, 0, score(m), market_meta[m].volume24hr, contributors(m))
  <2> HIDE DEF spiking
  <2> QED
    BY <1>2
<1>4. m \in eligible
  OBVIOUS
<1> HIDE DEF spiking, age
<1>5. h.signal = "03-A" /\ h.wallet = NoTrader /\ h.market = m /\ h.top_wallets = contributors(m)
  BY <1>3, HitHas
<1>6. \A c \in h.top_wallets : by(c.address, on(m)) # {}
  BY <1>5, ContributorsTraded
<1>7. NoTrader \notin Traders
  BY SignalsAssumption
<1> QED
  BY <1>4, <1>5, <1>6, <1>7 DEF HitOK, REGISTRY

-----------------------------------------------------------------------------
(* Scores: they are in thousandths, whatever the trades, because each    *)
(* signal reports what is over its threshold, of which its score counts the*)
(* excess, and divides by what is not zero.                              *)

\* A quotient is at least and at most what its dividend is a multiple of.
LEMMA Quotient ==
    ASSUME NEW x \in Nat, NEW d \in Nat, d > 0
    PROVE  /\ x \div d \in Nat
           /\ \A k \in Nat : (x <= k * d => x \div d <= k) /\ (k * d <= x => k <= x \div d)
<1>1. PICK q \in Nat : q = x \div d /\ q * d <= x /\ x < (q + 1) * d
  OBVIOUS
<1> SUFFICES ASSUME NEW k \in Nat
             PROVE  (x <= k * d => q <= k) /\ (k * d <= x => k <= q)
  BY <1>1
<1>2. ASSUME x <= k * d, q > k
      PROVE  FALSE
  <2>1. PICK j \in Nat : q = k + 1 + j
    <3>1. q - (k + 1) \in Nat /\ q = k + 1 + (q - (k + 1))
      BY <1>2
    <3> QED
      BY <3>1
  <2>2. q * d = k * d + d + j * d /\ j * d \in Nat /\ k * d \in Nat
    BY <2>1
  <2> QED
    BY <1>1, <1>2, <2>2
<1>3. ASSUME k * d <= x, k > q
      PROVE  FALSE
  <2>1. PICK j \in Nat : k = q + 1 + j
    <3>1. k - (q + 1) \in Nat /\ k = q + 1 + (k - (q + 1))
      BY <1>3
    <3> QED
      BY <3>1
  <2>2. k * d = (q + 1) * d + j * d /\ j * d \in Nat /\ (q + 1) * d \in Nat
    BY <2>1
  <2> QED
    BY <1>1, <1>3, <2>2
<1> QED
  BY <1>2, <1>3

\* The end of the window is a time.
LEMMA WindowEnds == SignalsTypeOK => window_end \in Nat
<1> SUFFICES ASSUME SignalsTypeOK, trades # <<>>
             PROVE  Max({trades[i].ts : i \in DOMAIN trades}) \in Nat
  BY DEF window_end
<1> DEFINE D == DOMAIN trades
           a == [i \in D |-> trades[i].ts]
           S == {a[i] : i \in D}
<1>1. IsFiniteSet(D) /\ \A i \in D : a[i] \in Nat
  BY TradesAre
<1>2. D # {}
  <2>1. Len(trades) # 0 /\ Len(trades) \in Nat
    BY DEF SignalsTypeOK
  <2> QED
    BY <2>1, TradesAre
<1>3. {trades[i].ts : i \in DOMAIN trades} = S
  OBVIOUS
<1> HIDE DEF D, a
<1>4. PICK f : SumFacts(f, a, D)
  BY <1>1, SumExists, SumIs
<1>5. PICK n \in Nat : n = f[D]
  BY <1>4 DEF SumFacts
<1>6. ASSUME NEW i \in D
      PROVE  a[i] <= n
  <2>1. D \ {i} \in SUBSET D /\ i \in D \ (D \ {i}) /\ (D \ {i}) \cup {i} = D
    OBVIOUS
  <2>2. f[D] = a[i] + f[D \ {i}] /\ f[D \ {i}] \in Nat
    BY <1>4, <2>1 DEF SumFacts
  <2> QED
    BY <1>1, <1>5, <2>2
<1>7. S \in SUBSET (0 .. n) /\ S # {}
  BY <1>1, <1>2, <1>6
<1> HIDE DEF S
<1>8. PICK x \in S : x = Max(S)
  BY <1>7, MaxIs
<1>9. Max(S) \in Nat
  <2>1. x \in 0 .. n
    BY <1>7
  <2> QED
    BY <1>8, <2>1
<1> QED
  BY <1>3, <1>9, Zenon

\* The trade at each place in the order of the amounts.
LEMMA Percentile ==
    ASSUME SignalsTypeOK, NEW m, has_p90(m)
    PROVE  p90(m) \in Nat \ {0}
<1> DEFINE I == on(m)
           less(i, j) == trades[i].notional < trades[j].notional \/ (trades[i].notional = trades[j].notional /\ i < j)
           below(i) == {j \in I : less(j, i)}
           place == (9 * (Cardinality(I) - 1)) \div 10
<1>1. IsFiniteSet(I) /\ I \in SUBSET DOMAIN trades
  <2>1. I \in SUBSET on(m)
    OBVIOUS
  <2> HIDE DEF I
  <2> QED
    BY <2>1, OnIs
<1>2. \A i \in I : i \in Nat /\ trades[i].notional \in Nat \ {0}
  BY <1>1, TradesAre
<1>3. PICK n \in Nat : n = Cardinality(I) /\ n > 0
  <2>1. Cardinality(I) >= p90_min_trades /\ p90_min_trades \in Nat \ {0}
    BY SignalsAssumption DEF has_p90
  <2> HIDE DEF I
  <2> QED
    BY <1>1, <2>1, FS_CardinalityType
<1>4. place \in 0 .. n - 1
  <2>1. PICK q \in Nat : q = (9 * (n - 1)) \div 10 /\ 10 * q <= 9 * (n - 1)
    BY <1>3
  <2> HIDE DEF I
  <2> QED
    BY <1>3, <2>1
<1>5. p90(m) = trades[CHOOSE i \in I : Cardinality(below(i)) = place].notional
  BY DEF p90
<1>6. \A i, j, k \in I : /\ ~less(i, i) /\ (i # j => less(i, j) \/ less(j, i))
                         /\ less(i, j) /\ less(j, k) => less(i, k)
  <2> HIDE DEF I
  <2> QED
    BY <1>2
<1> HIDE DEF I, less
<1>7. \A i \in I : IsFiniteSet(below(i)) /\ Cardinality(below(i)) \in 0 .. n - 1
  <2> SUFFICES ASSUME NEW i \in I
               PROVE  IsFiniteSet(below(i)) /\ Cardinality(below(i)) \in 0 .. n - 1
    OBVIOUS
  <2>1. below(i) \subseteq I \ {i}
    BY <1>6
  <2>2. IsFiniteSet(I \ {i}) /\ Cardinality(I \ {i}) = n - 1
    BY <1>1, <1>3, FS_RemoveElement
  <2> HIDE DEF below
  <2>3. IsFiniteSet(below(i)) /\ Cardinality(below(i)) <= n - 1
    BY <2>1, <2>2, FS_Subset
  <2> QED
    BY <2>3, FS_CardinalityType
<1>8. ASSUME NEW i \in I, NEW j \in I, less(i, j)
      PROVE  Cardinality(below(i)) < Cardinality(below(j))
  <2>1. below(i) \subseteq below(j) /\ i \in below(j) /\ i \notin below(i)
    BY <1>6, <1>8
  <2> HIDE DEF below
  <2>2. /\ Cardinality(below(i)) <= Cardinality(below(j))
        /\ Cardinality(below(i)) = Cardinality(below(j)) => below(i) = below(j)
    BY <1>7, <2>1, FS_Subset
  <2>3. Cardinality(below(i)) \in Nat /\ Cardinality(below(j)) \in Nat
    BY <1>7
  <2> QED
    BY <2>1, <2>2, <2>3
<1> HIDE DEF below
<1>9. PICK F : F = [i \in I |-> Cardinality(below(i))]
  OBVIOUS
<1>10. F \in Injection(I, 0 .. n - 1)
  <2>1. F \in [I -> 0 .. n - 1]
    BY <1>7, <1>9
  <2>2. ASSUME NEW i \in I, NEW j \in I, F[i] = F[j], i # j
        PROVE  FALSE
    <3>1. F[i] < F[j] \/ F[j] < F[i]
      BY <1>6, <1>8, <1>9, <2>2
    <3>2. F[i] \in 0 .. n - 1 /\ F[j] \in 0 .. n - 1
      BY <2>1
    <3> QED
      BY <2>2, <3>1, <3>2
  <2>3. IsInjective(F)
    BY <2>1, <2>2 DEF IsInjective
  <2> QED
    BY <2>1, <2>3 DEF Injection
<1>11. IsFiniteSet(0 .. n - 1) /\ Cardinality(0 .. n - 1) = n
  <2>1. 0 \in Int /\ n - 1 \in Int /\ ~ (0 > n - 1) /\ (n - 1) - 0 + 1 = n
    BY <1>3
  <2> QED
    BY <2>1, FS_Interval
<1>12. F \in Surjection(I, 0 .. n - 1)
  BY <1>1, <1>3, <1>10, <1>11, FS_Injection
<1>13. PICK i \in I : F[i] = place
  BY <1>4, <1>12 DEF Surjection
<1>14. (CHOOSE j \in I : Cardinality(below(j)) = place) \in I
  <2>1. Cardinality(below(i)) = place
    BY <1>9, <1>13
  <2> HIDE DEF place
  <2> QED
    BY <2>1
<1> HIDE DEF place
<1> QED
  BY <1>2, <1>5, <1>14

Hit == [signal : REGISTRY, wallet : Traders \cup {NoTrader}, market : Questions, at : Nat,
        score : 0 .. 1000, notional : Nat, top_wallets : SUBSET [address : Traders, amount : Nat \ {0}]]

Fields(signal, w, m, at, score, amount, c) ==
    /\ signal \in REGISTRY /\ w \in Traders \cup {NoTrader} /\ m \in Questions /\ at \in Nat
    /\ score \in 0 .. 1000 /\ amount \in Nat /\ c \in SUBSET [address : Traders, amount : Nat \ {0}]

LEMMA HitIs ==
    ASSUME NEW signal, NEW w, NEW m, NEW at, NEW score, NEW amount, NEW c, Fields(signal, w, m, at, score, amount, c)
    PROVE  hit(signal, w, m, at, score, amount, c) \in Hit
BY DEF hit, Hit, Fields

LEMMA ContributorsAre ==
    ASSUME SignalsTypeOK, NEW m, NEW amount, \A w \in wallets(on(m)) : amount[w] \in Int
    PROVE  top_wallets(m, amount) \in SUBSET [address : Traders, amount : Nat \ {0}]
<1> DEFINE contributing == {w \in wallets(on(m)) : amount[w] > 0}
           most == [w \in contributing |-> <<amount[w], - Min(by(w, on(m)))>>]
<1>1. top_wallets(m, amount) = {[address |-> w, amount |-> amount[w]] : w \in top(contributing, most, top_contributors)}
  BY DEF top_wallets
<1>2. \A w \in contributing : w \in Traders /\ amount[w] \in Nat \ {0}
  <2>1. wallets(on(m)) \subseteq Traders
    BY TradesAre DEF wallets, on
  <2> QED
    BY <2>1
<1> HIDE DEF most, contributing
<1>3. top(contributing, most, top_contributors) \subseteq contributing
  BY DEF top
<1> QED
  BY <1>1, <1>2, <1>3

\* The dominant side is no more than all, and half of it at least.
LEMMA DominanceIs ==
    ASSUME SignalsTypeOK, NEW m, NEW I \in SUBSET on(m)
    PROVE  dominance(I) \in Nat /\ notional(I) \in Nat /\ dominance(I) <= notional(I) /\ (I # {} => notional(I) > 0)
<1>1. PICK n \in Nat, b \in Nat : n = notional(I) /\ b = notional(bought(I)) /\ b <= n
  BY AmountsAre
<1>2. dominance(I) = larger(b, n - b)
  BY <1>1 DEF dominance
<1>3. I # {} => notional(I) > 0
  BY NotionalIs DEF on
<1> QED
  BY <1>1, <1>2, <1>3 DEF larger

LEMMA ByIs ==
    ASSUME SignalsTypeOK, NEW w, NEW m
    PROVE  /\ by(w, on(m)) \in SUBSET on(m) /\ notional(by(w, on(m))) \in Nat
           /\ by(w, on(m)) # {} => Min(by(w, on(m))) \in Nat
<1> PICK B : B = by(w, on(m))
  OBVIOUS
<1>1. B \in SUBSET on(m)
  BY DEF by
<1>2. notional(B) \in Nat
  BY <1>1, DominanceIs
<1>3. B # {} => Min(B) \in Nat
  <2>1. B # {} => Min(B) \in B /\ B \in SUBSET DOMAIN trades
    BY <1>1, OnIs
  <2> QED
    BY <2>1, TradesAre
<1> QED
  BY <1>1, <1>2, <1>3

LEMMA FreshTyped ==
    ASSUME SignalsTypeOK
    PROVE  fresh_wallets \subseteq Hit
<1> DEFINE big(w, m) == \E i \in by(w, on(m)) : trades[i].notional >= min_trade_notional
           pairs == {p \in Traders \X eligible :
                       /\ big(p[1], p[2])
                       /\ first_trades[p[1]] # NoTime /\ first_trades[p[1]] >= window_end - max_age}
           score(w) == smaller(1000, 500 + (500 * (max_age - (window_end - first_trades[w]))) \div max_age)
           all == {hit("01-A", p[1], p[2], Min(by(p[1], on(p[2]))), score(p[1]), notional(by(p[1], on(p[2]))), {})
                     : p \in pairs}
           rank == [h \in all |-> <<h.score, h.notional, - h.at>>]
<1> SUFFICES ASSUME NEW h \in top(all, rank, top_n)
             PROVE  h \in Hit
  BY DEF fresh_wallets
<1>1. h \in all
  BY DEF top
<1> HIDE DEF score, rank
<1>2. PICK p \in pairs : h = hit("01-A", p[1], p[2], Min(by(p[1], on(p[2]))), score(p[1]), notional(by(p[1], on(p[2]))), {})
  BY <1>1
<1> PICK w, m : w = p[1] /\ m = p[2]
  OBVIOUS
<1>3. w \in Traders /\ m \in eligible /\ by(w, on(m)) # {} /\ first_trades[w] # NoTime /\ first_trades[w] >= window_end - max_age
  OBVIOUS
<1>4. score(w) \in 0 .. 1000
  <2>1. PICK a \in Nat, e \in Nat, f \in Nat : a = max_age /\ a > 0 /\ e = window_end /\ f = first_trades[w] /\ f >= e - a
    BY <1>3, WindowEnds, ScoresAssumption
  <2>2. PICK x \in Nat : x = 500 * (a - (e - f))
    BY <2>1
  <2>3. x \div a \in Nat
    BY <2>1, <2>2, Quotient
  <2>4. PICK z \in Nat : z = 500 + x \div a
    BY <2>3
  <2>5. score(w) = smaller(1000, z)
    BY <2>1, <2>2, <2>4 DEF score
  <2>6. smaller(1000, z) \in 0 .. 1000
    BY DEF smaller
  <2> QED
    BY <2>5, <2>6
<1>5. m \in Questions /\ w \in Traders \cup {NoTrader} /\ "01-A" \in REGISTRY
  BY <1>3 DEF eligible, REGISTRY
<1>6. Min(by(w, on(m))) \in Nat /\ notional(by(w, on(m))) \in Nat
  BY <1>3, ByIs
<1>7. h = hit("01-A", w, m, Min(by(w, on(m))), score(w), notional(by(w, on(m))), {})
  BY <1>2
<1>8. {} \in SUBSET [address : Traders, amount : Nat \ {0}]
  OBVIOUS
<1> HIDE DEF pairs
<1>9. Fields("01-A", w, m, Min(by(w, on(m))), score(w), notional(by(w, on(m))), {})
  BY <1>4, <1>5, <1>6, <1>8 DEF Fields
<1> QED
  BY <1>7, <1>9, HitIs, Zenon

LEMMA UnusualTyped ==
    ASSUME SignalsTypeOK
    PROVE  unusual_sizes \subseteq Hit
<1> DEFINE all == single_fills \cup UNION {stealth_windows(w, m) : w \in Traders, m \in Questions}
           rank == [h \in all |-> <<h.score, - h.at>>]
           best == {h \in all : \A g \in all : g.wallet = h.wallet /\ g.market = h.market
                                                 => ~outranks(rank[g], rank[h])}
<1>0. unusual_sizes = top(best, rank, top_n)
  BY DEF unusual_sizes
<1> HIDE DEF rank, best
<1> SUFFICES ASSUME NEW h \in top(best, rank, top_n)
             PROVE  h \in Hit
  BY <1>0
<1> USE DEF best
<1>1. h \in all
  <2> HIDE DEF all
  <2> QED
    BY DEF top
<1>2. "01-B" \in REGISTRY /\ {} \in SUBSET [address : Traders, amount : Nat \ {0}]
  BY DEF REGISTRY
<1>3. CASE h \in single_fills
  <2> DEFINE large == {i \in DOMAIN trades :
                /\ trades[i].wallet # NoTrader /\ has_p90(trades[i].market)
                /\ trades[i].notional >= variant_a_multiple * p90(trades[i].market)}
             score(i) == smaller(1000, 500 + (50 * trades[i].notional) \div p90(trades[i].market))
  <2>1. single_fills = {hit("01-B", trades[i].wallet, trades[i].market, i, score(i), trades[i].notional, {}) : i \in large}
    BY DEF single_fills
  <2> HIDE DEF score
  <2>2. PICK i \in large : h = hit("01-B", trades[i].wallet, trades[i].market, i, score(i), trades[i].notional, {})
    BY <1>3, <2>1
  <2>3. i \in DOMAIN trades /\ has_p90(trades[i].market)
    OBVIOUS
  <2> HIDE DEF large
  <2>4. /\ i \in Nat /\ trades[i].wallet \in Traders \cup {NoTrader} /\ trades[i].market \in Questions
        /\ trades[i].notional \in Nat
    BY <2>3, TradesAre
  <2>5. score(i) \in 0 .. 1000
    <3>1. PICK p \in Nat, x \in Nat : p = p90(trades[i].market) /\ p > 0 /\ x = 50 * trades[i].notional
      BY <2>3, <2>4, Percentile
    <3>2. x \div p \in Nat
      BY <3>1, Quotient
    <3>3. PICK z \in Nat : z = 500 + x \div p
      BY <3>2
    <3>4. score(i) = smaller(1000, z)
      BY <3>1, <3>3 DEF score
    <3>5. smaller(1000, z) \in 0 .. 1000
      BY DEF smaller
    <3> QED
      BY <3>4, <3>5
  <2>6. Fields("01-B", trades[i].wallet, trades[i].market, i, score(i), trades[i].notional, {})
    BY <1>2, <2>4, <2>5 DEF Fields
  <2> HIDE DEF all, best
  <2> QED
    BY <2>2, <2>6, HitIs
<1>4. CASE h \in UNION {stealth_windows(w, m) : w \in Traders, m \in Questions}
  <2>1. PICK w \in Traders, m \in Questions : h \in stealth_windows(w, m)
    BY <1>4
  <2> DEFINE group == by(w, on(m))
             size == p90(m)
             found(I) ==
                 /\ Cardinality(I) >= variant_b_min_trades
                 /\ 100 * dominance(I) >= variant_b_dominance * notional(I)
                 /\ 2 * notional(I) >= variant_b_notional_multiple * size * Cardinality(I)
             starts == {i \in group : found(rolling_window(group, i, variant_b_window))}
             start == CHOOSE i \in starts : \A j \in starts \ {i} : earlier(i, j)
             I == rolling_window(group, start, variant_b_window)
             score == smaller(1000, 500 + (25 * (100 * dominance(I) - variant_b_dominance * notional(I))) \div notional(I))
  <2>2. stealth_windows(w, m) = IF ~has_p90(m) \/ starts = {} THEN {}
                                ELSE {hit("01-B", w, m, Len(trades) + start, score, notional(I), {})}
    BY DEF stealth_windows
  <2> HIDE DEF starts
  <2>3. starts # {} /\ h = hit("01-B", w, m, Len(trades) + start, score, notional(I), {})
    <3> HIDE DEF score, I, start, found
    <3> QED
      BY <2>1, <2>2
  <2> USE DEF starts
  <2> HIDE DEF found, score, start
  <2>4. group \in SUBSET on(m) /\ group \in SUBSET DOMAIN trades
    BY DEF by, on
  <2> HIDE DEF group
  <2>5. start \in starts
    <3> HIDE DEF starts
    <3>1. starts \in SUBSET DOMAIN trades
      <4> USE DEF starts
      <4> QED
        BY <2>4
    <3>2. PICK i \in starts : \A j \in starts : ~earlier(j, i)
      BY <2>3, <3>1, FirstInTime
    <3>3. \A j \in starts \ {i} : earlier(i, j)
      <4> SUFFICES ASSUME NEW j \in starts, j # i
                   PROVE  earlier(i, j)
        OBVIOUS
      <4>1. /\ i \in Int /\ j \in Int /\ trades[i].ts \in Int /\ trades[j].ts \in Int /\ ~earlier(j, i)
        BY <3>1, <3>2, TradesAre
      <4> QED
        BY <4>1 DEF earlier
    <3> USE DEF start
    <3> QED
      BY <3>3
  <2>6. start \in group /\ found(I)
    BY <2>5
  <2>7. I \in SUBSET on(m) /\ I # {}
    <3>1. \A j \in DOMAIN trades : ~earlier(j, j)
      BY TradesAre DEF earlier
    <3>2. I \subseteq group
      BY DEF rolling_window
    <3>3. PICK i \in I : TRUE
      <4> DEFINE after == {j \in group : ~earlier(j, start)}
                 late == {j \in after : trades[j].ts - trades[start].ts > variant_b_window}
      <4>1. I = {j \in after : \A k \in late : earlier(j, k)}
        BY DEF rolling_window
      <4>2. start \in group /\ trades[start].ts \in Nat /\ \A k \in group : trades[k].ts \in Nat
        BY <2>4, <2>6, TradesAre
      <4>3. start \in after
        BY <2>4, <2>6, <3>1
      <4>4. ASSUME NEW k \in late
            PROVE  earlier(start, k)
        <5>1. trades[k].ts - trades[start].ts > variant_b_window /\ trades[k].ts \in Nat /\ variant_b_window \in Nat
          BY <4>2, ScoresAssumption
        <5> QED
          BY <4>2, <5>1 DEF earlier
      <4> HIDE DEF after, late, I
      <4>5. start \in I
        BY <4>1, <4>3, <4>4
      <4> QED
        BY <4>5
    <3> QED
      BY <2>4, <3>2, <3>3
  <2> HIDE DEF I
  <2>8. PICK d \in Nat, n \in Nat, k \in Nat :
          d = dominance(I) /\ n = notional(I) /\ n > 0 /\ k = variant_b_dominance /\ 100 * d >= k * n
    <3>1. variant_b_dominance \in Nat
      BY SignalsAssumption
    <3>2. dominance(I) \in Nat /\ notional(I) \in Nat /\ notional(I) > 0
      BY <2>7, DominanceIs
    <3>3. 100 * dominance(I) >= variant_b_dominance * notional(I)
      BY <2>6 DEF found
    <3> QED
      BY <3>1, <3>2, <3>3
  <2>9. score \in 0 .. 1000
    <3>1. PICK x \in Nat : x = 25 * (100 * d - k * n)
      <4>1. PICK y \in Nat : y = k * n
        OBVIOUS
      <4>2. 100 * d - y \in Nat
        BY <2>8, <4>1
      <4>3. 25 * (100 * d - y) \in Nat
        BY <4>2
      <4> QED
        BY <4>1, <4>3
    <3>2. x \div n \in Nat
      BY <2>8, <3>1, Quotient
    <3>3. PICK z \in Nat : z = 500 + x \div n
      BY <3>2
    <3>4. score = smaller(1000, z)
      BY <2>8, <3>1, <3>3 DEF score
    <3>5. smaller(1000, z) \in 0 .. 1000
      BY DEF smaller
    <3> QED
      BY <3>4, <3>5
  <2>10. Len(trades) + start \in Nat
    BY <2>4, <2>6, TradesAre
  <2>11. w \in Traders \cup {NoTrader} /\ notional(I) \in Nat
    BY <2>8
  <2>12. Fields("01-B", w, m, Len(trades) + start, score, notional(I), {})
    BY <1>2, <2>1, <2>9, <2>10, <2>11 DEF Fields
  <2> HIDE DEF all, best, starts, group
  <2> QED
    BY <2>3, <2>12, HitIs
<1> QED
  BY <1>1, <1>3, <1>4

LEMMA ImbalancesTyped ==
    ASSUME SignalsTypeOK
    PROVE  order_flow_imbalances \subseteq Hit
<1> DEFINE total(m) == notional(on(m))
           dominant(m) == dominance(on(m))
           sign(m) == IF 2 * notional(bought(on(m))) >= total(m) THEN 1 ELSE -1
           leaning == {m \in eligible : /\ on(m) # {} /\ Cardinality(on(m)) >= min_trades
                                        /\ 100 * dominant(m) >= threshold * total(m)}
           shares(m) == [w \in Traders |-> sign(m) * signed(w, m)]
           contributors(m) == top_wallets(m, shares(m))
           score(m) == (1000 * (100 * dominant(m) - threshold * total(m))) \div ((100 - threshold) * total(m))
           amount(m) == 2 * dominant(m) - total(m)
           all == {hit("02-A", NoTrader, m, Min(on(m)), score(m), amount(m), contributors(m)) : m \in leaning}
           rank == [h \in all |-> <<h.score, h.notional, - h.at>>]
<1>1. order_flow_imbalances = top(all, rank, top_n)
  BY DEF order_flow_imbalances
<1> HIDE DEF score, amount, rank
<1> SUFFICES ASSUME NEW h \in top(all, rank, top_n)
             PROVE  h \in Hit
  BY <1>1
<1>2. h \in all
  BY DEF top
<1>3. PICK m \in leaning : h = hit("02-A", NoTrader, m, Min(on(m)), score(m), amount(m), contributors(m))
  <2> HIDE DEF contributors, leaning
  <2> QED
    BY <1>2
<1>4. m \in eligible /\ on(m) # {} /\ 100 * dominant(m) >= threshold * total(m)
  OBVIOUS
<1> HIDE DEF leaning
<1>5. PICK d \in Nat, t \in Nat, k \in 51 .. 99 :
        d = dominance(on(m)) /\ t = notional(on(m)) /\ d <= t /\ t > 0 /\ k = threshold /\ 100 * d >= k * t
  <2>1. on(m) \in SUBSET on(m)
    OBVIOUS
  <2> QED
    BY <1>4, <2>1, DominanceIs, SignalsAssumption
<1>6. score(m) \in 0 .. 1000
  <2>1. PICK y \in Nat : y = k * t
    OBVIOUS
  <2>2. PICK x \in Nat : x = 1000 * (100 * d - y)
    BY <1>5, <2>1
  <2>3. PICK j \in Nat : j = 100 - k /\ j > 0
    OBVIOUS
  <2>4. PICK q \in Nat : q = j * t /\ q > 0 /\ q = 100 * t - y
    <3>1. j * t \in Nat /\ j * t = 100 * t - k * t
      BY <2>3
    <3>2. j * t >= t
      <4>1. PICK i \in Nat : j = i + 1
        <5>1. j - 1 \in Nat /\ j = (j - 1) + 1
          BY <2>3
        <5> QED
          BY <5>1
      <4>2. j * t = i * t + t /\ i * t \in Nat
        BY <4>1
      <4> QED
        BY <4>2
    <3> QED
      BY <1>5, <2>1, <3>1, <3>2
  <2>5. x <= 1000 * q
    BY <1>5, <2>2, <2>4
  <2>6. x \div q \in 0 .. 1000
    <3>1. 1000 \in Nat
      OBVIOUS
    <3>2. x \div q \in Nat /\ x \div q <= 1000
      BY <2>4, <2>5, <3>1, Quotient
    <3> QED
      BY <3>2
  <2>7. score(m) = x \div q
    BY <1>5, <2>1, <2>2, <2>3, <2>4 DEF score
  <2> QED
    BY <2>6, <2>7
<1>7. amount(m) \in Nat
  <2>1. k * t > 50 * t
    BY <1>5, Multiples
  <2>2. PICK y \in Nat : y = k * t
    OBVIOUS
  <2>3. 2 * d - t \in Nat
    BY <1>5, <2>1, <2>2
  <2> QED
    BY <1>5, <2>3 DEF amount
<1>8. Min(on(m)) \in Nat
  <2>1. on(m) \in SUBSET on(m)
    OBVIOUS
  <2>2. Min(on(m)) \in on(m) /\ on(m) \in SUBSET DOMAIN trades
    BY <1>4, <2>1, OnIs
  <2> QED
    BY <2>2, TradesAre
<1>9. contributors(m) \in SUBSET [address : Traders, amount : Nat \ {0}]
  <2>1. ASSUME NEW w \in wallets(on(m))
        PROVE  shares(m)[w] \in Int
    <3>1. w \in Traders
      BY TradesAre DEF wallets, on
    <3>2. PICK I : I = by(w, on(m))
      OBVIOUS
    <3>3. PICK b \in Nat, n \in Nat : b = notional(bought(I)) /\ n = notional(I)
      BY <3>2, ByIs, AmountsAre
    <3>4. signed(w, m) = 2 * b - n
      BY <3>2, <3>3 DEF signed
    <3>5. PICK e \in {1, -1} : e = sign(m)
      OBVIOUS
    <3>6. e * (2 * b - n) \in Int
      BY <3>5
    <3> QED
      BY <3>1, <3>4, <3>5, <3>6
  <2> HIDE DEF shares
  <2> QED
    BY <2>1, ContributorsAre
<1>10. m \in Questions /\ "02-A" \in REGISTRY
  BY <1>4 DEF eligible, REGISTRY
<1>11. Fields("02-A", NoTrader, m, Min(on(m)), score(m), amount(m), contributors(m))
  <2> HIDE DEF contributors
  <2> QED
    BY <1>6, <1>7, <1>8, <1>9, <1>10 DEF Fields
<1> HIDE DEF all, contributors
<1> QED
  BY <1>3, <1>11, HitIs

LEMMA StealthTyped ==
    ASSUME SignalsTypeOK
    PROVE  stealth_clusters \subseteq Hit
<1> DEFINE starts(m) == {i \in on(m) : is_burst(burst(m, i))}
           first(I) == {i \in I : \A j \in I : earlier(j, i) => bucket(j) # bucket(i)}
           score(I) == smaller(1000, 400 + 100 * (Cardinality(wallets(I)) - min_wallets) + smaller(notional(I) \div 500, 500))
           share(I) == [w \in Traders |-> notional(by(w, I))]
           cluster(m, i, I) ==
               hit("02-C", NoTrader, m, i, score(I), notional(I), top_wallets(m, share(I)))
           all == UNION {{cluster(m, i, burst(m, i)) : i \in first(starts(m))} : m \in eligible}
           rank == [h \in all |-> <<Cardinality(wallets(burst(h.market, h.at))), h.notional,
                                    - Min(on(h.market)), - trades[h.at].ts, - h.at>>]
<1>1. stealth_clusters = top(all, rank, top_n)
  BY DEF stealth_clusters
<1> HIDE DEF rank, score, share
<1> SUFFICES ASSUME NEW h \in top(all, rank, top_n)
             PROVE  h \in Hit
  BY <1>1
<1>2. h \in all
  <2> HIDE DEF all
  <2> QED
    BY DEF top
<1> HIDE DEF cluster
<1>3. PICK m \in eligible : \E i \in first(starts(m)) : h = cluster(m, i, burst(m, i))
  BY <1>2
<1> PICK i \in first(starts(m)) : h = cluster(m, i, burst(m, i))
  BY <1>3
<1> PICK I : I = burst(m, i)
  OBVIOUS
<1>4. i \in on(m) /\ is_burst(I)
  OBVIOUS
<1> HIDE DEF starts, first, all
<1>5. h = hit("02-C", NoTrader, m, i, score(I), notional(I), top_wallets(m, share(I)))
  BY DEF cluster
<1>6. I \in SUBSET on(m)
  BY DEF burst, rolling_window
<1>7. PICK n \in Nat, c \in Nat, k \in Nat : n = notional(I) /\ c = Cardinality(wallets(I)) /\ k = min_wallets /\ c >= k
  BY <1>4, <1>6, DominanceIs, OnIs, ScoresAssumption DEF is_burst
<1>8. score(I) \in 0 .. 1000
  <2>1. n \div 500 \in Nat
    OBVIOUS
  <2>2. smaller(n \div 500, 500) \in Nat
    BY <2>1 DEF smaller
  <2>3. PICK z \in Nat : z = 400 + 100 * (c - k) + smaller(n \div 500, 500)
    BY <1>7, <2>2
  <2>4. score(I) = smaller(1000, z)
    BY <1>7, <2>3 DEF score
  <2>5. smaller(1000, z) \in 0 .. 1000
    BY DEF smaller
  <2> QED
    BY <2>4, <2>5
<1>9. top_wallets(m, share(I)) \in SUBSET [address : Traders, amount : Nat \ {0}]
  <2>1. ASSUME NEW w \in wallets(on(m))
        PROVE  share(I)[w] \in Int
    <3>1. w \in Traders
      BY TradesAre DEF wallets, on
    <3>2. by(w, I) \in SUBSET on(m)
      BY <1>6 DEF by
    <3>3. notional(by(w, I)) \in Nat
      BY <3>2, DominanceIs
    <3> QED
      BY <3>1, <3>3 DEF share
  <2> QED
    BY <2>1, ContributorsAre
<1>10. i \in Nat /\ m \in Questions /\ "02-C" \in REGISTRY
  <2>1. i \in Nat
    BY <1>4, TradesAre DEF on
  <2> QED
    BY <2>1 DEF eligible, REGISTRY
<1>11. Fields("02-C", NoTrader, m, i, score(I), notional(I), top_wallets(m, share(I)))
  BY <1>7, <1>8, <1>9, <1>10 DEF Fields
<1> QED
  BY <1>5, <1>11, HitIs

LEMMA SpikesTyped ==
    ASSUME SignalsTypeOK
    PROVE  volume_spikes \subseteq Hit
<1> DEFINE age(m) == larger(window_end - market_meta[m].start, Day \div 10)
           spiking == {m \in eligible :
               LET meta == market_meta[m]
               IN /\ meta.volume24hr >= min_volume_24h /\ meta.volumeNum > 0
                  /\ meta.start # NoTime /\ age(m) >= min_days_active * Day
                  /\ meta.volume24hr * age(m) >= min_multiple * meta.volumeNum * Day}
           multiple(m) == (1000 * market_meta[m].volume24hr * age(m)) \div (market_meta[m].volumeNum * Day)
           share(m) == [w \in Traders |-> notional(by(w, on(m)))]
           contributors(m) == top_wallets(m, share(m))
           score(m) == 400 + smaller((multiple(m) - 1000 * min_multiple) \div 10, 600)
           all == {hit("03-A", NoTrader, m, 0, score(m), market_meta[m].volume24hr, contributors(m)) : m \in spiking}
           rank == [h \in all |-> <<multiple(h.market)>>]
<1>1. volume_spikes = top(all, rank, top_n)
  BY DEF volume_spikes
<1> HIDE DEF rank, score, share, multiple, age
<1> SUFFICES ASSUME NEW h \in top(all, rank, top_n)
             PROVE  h \in Hit
  BY <1>1
<1>2. h \in all
  <2> HIDE DEF all
  <2> QED
    BY DEF top
<1>3. PICK m \in spiking : h = hit("03-A", NoTrader, m, 0, score(m), market_meta[m].volume24hr, contributors(m))
  <2> HIDE DEF spiking
  <2> QED
    BY <1>2
<1>4. /\ m \in eligible /\ market_meta[m].volumeNum > 0 /\ market_meta[m].start # NoTime
      /\ market_meta[m].volume24hr * age(m) >= min_multiple * market_meta[m].volumeNum * Day
  OBVIOUS
<1> HIDE DEF spiking, all
<1>5. m \in Questions /\ market_meta \in MarketMetas
  BY <1>4 DEF eligible, SignalsTypeOK
<1>6. PICK v \in Nat, u \in Nat, s \in Nat, e \in Nat, y \in Nat :
        /\ v = market_meta[m].volume24hr /\ u = market_meta[m].volumeNum /\ u > 0 /\ s = market_meta[m].start
        /\ e = window_end /\ y = Day /\ y > 0
  <2>1. /\ market_meta[m].volume24hr \in Nat /\ market_meta[m].volumeNum \in Nat /\ market_meta[m].start \in Nat
        /\ Day \in Nat /\ Day > 0
    BY <1>4, <1>5, ScoresAssumption
  <2> QED
    BY <1>4, <2>1, WindowEnds
<1>7. PICK g \in Nat : g = age(m)
  <2>1. y \div 10 \in Nat
    OBVIOUS
  <2>2. larger(e - s, y \div 10) \in Nat
    BY <2>1 DEF larger
  <2> QED
    BY <1>6, <2>2 DEF age
<1>8. PICK k \in Nat : k = min_multiple
  BY ScoresAssumption
<1>9. PICK p \in Nat, d \in Nat : p = v * g /\ d = u * y /\ d > 0
  <2>1. u * y > 0
    BY <1>6
  <2> QED
    BY <2>1
<1>10. p >= k * d
  <2>1. v * g >= k * u * y
    BY <1>4, <1>6, <1>7, <1>8
  <2>2. k * u * y = k * (u * y)
    OBVIOUS
  <2> QED
    BY <1>9, <2>1, <2>2
<1>11. multiple(m) = (1000 * p) \div d
  <2>1. 1000 * v * g = 1000 * (v * g)
    OBVIOUS
  <2> QED
    BY <1>6, <1>7, <1>9, <2>1 DEF multiple
<1>12. score(m) \in 0 .. 1000
  <2>1. PICK x \in Nat, j \in Nat : x = 1000 * p /\ j = 1000 * k
    OBVIOUS
  <2>2. j * d <= x
    <3>1. PICK q \in Nat : q = k * d
      OBVIOUS
    <3>2. j * d = 1000 * q
      BY <2>1, <3>1
    <3> QED
      BY <1>10, <2>1, <3>1, <3>2
  <2>3. PICK q \in Nat : q = x \div d /\ j <= q
    BY <1>9, <2>2, Quotient
  <2>4. (q - j) \div 10 \in Nat
    BY <2>3
  <2>5. smaller((q - j) \div 10, 600) \in 0 .. 600
    BY <2>4 DEF smaller
  <2>6. PICK z \in 0 .. 600 : z = smaller((q - j) \div 10, 600)
    BY <2>5
  <2>7. multiple(m) = q
    BY <1>11, <2>1, <2>3
  <2>8. 1000 * min_multiple = j
    BY <1>8, <2>1
  <2> HIDE DEF multiple
  <2>9. score(m) = 400 + z
    BY <2>6, <2>7, <2>8 DEF score
  <2> QED
    BY <2>9
<1>13. contributors(m) \in SUBSET [address : Traders, amount : Nat \ {0}]
  <2>1. ASSUME NEW w \in wallets(on(m))
        PROVE  share(m)[w] \in Int
    <3>1. w \in Traders
      BY TradesAre DEF wallets, on
    <3>2. notional(by(w, on(m))) \in Nat
      BY ByIs
    <3> QED
      BY <3>1, <3>2 DEF share
  <2> QED
    BY <2>1, ContributorsAre
<1>14. "03-A" \in REGISTRY
  BY DEF REGISTRY
<1> HIDE DEF contributors
<1>15. Fields("03-A", NoTrader, m, 0, score(m), market_meta[m].volume24hr, contributors(m))
  BY <1>5, <1>6, <1>12, <1>13, <1>14 DEF Fields
<1> QED
  BY <1>3, <1>15, HitIs

\* What a signal finds are hits with a score of a thousand at most.
LEMMA SignalsTyped ==
    ASSUME SignalsTypeOK, NEW signal \in REGISTRY
    PROVE  compute(signal) \subseteq Hit
BY FreshTyped, UnusualTyped, ImbalancesTyped, StealthTyped, SpikesTyped DEF compute, REGISTRY

-----------------------------------------------------------------------------
(***************************************************************************)
(* The inductive invariant: a hit of the report is of the trades of the  *)
(* window as it is now, because none comes once the report is composed.  *)
(***************************************************************************)
ReportInv ==
    /\ SignalsTypeOK /\ (reports = {} \/ \E hits \in SUBSET Hit : reports = {hits})
    /\ \A hits \in reports : \A h \in hits : HitOK(h)

\* What is true of a hit stays true while the window stays.
LEMMA HitsStay ==
    ASSUME UNCHANGED signals_vars, NEW h, HitOK(h)
    PROVE  HitOK(h)'
<1>1. trades' = trades /\ market_meta' = market_meta
  BY DEF signals_vars
<1>2. eligible' = eligible
  BY <1>1 DEF eligible, passes_all
<1>3. \A q : on(q)' = on(q)
  BY <1>1 DEF on
<1>4. \A w, q : by(w, on(q))' = by(w, on(q))
  BY <1>1, <1>3 DEF by
<1>5. \A q : Leans(q)' = Leans(q)
  <2> SUFFICES ASSUME NEW q
               PROVE  Leans(q)' = Leans(q)
    OBVIOUS
  <2> QED
    BY <1>1 DEF Leans, notional, MapThenSumSet, MapThenFoldSet, bought, on
<1> QED
  BY <1>1, <1>2, <1>3, <1>4, <1>5 DEF HitOK

\* The invariant is inductive.
LEMMA ReportInvHolds == ReportSpec => []ReportInv
<1>1. ReportInit => ReportInv
  <2> SUFFICES ASSUME ReportInit
               PROVE  ReportInv
    OBVIOUS
  <2>1. trades = <<>> /\ market_meta \in MarketMetas /\ reports = {}
    BY DEF ReportInit, SignalsInit
  <2>2. trades \in Seq(Observations)
    BY <2>1
  <2> QED
    BY <2>1, <2>2 DEF ReportInv, SignalsTypeOK
<1>2. ReportInv /\ [ReportNext]_report_vars => ReportInv'
  <2> SUFFICES ASSUME ReportInv, [ReportNext]_report_vars
               PROVE  ReportInv'
    OBVIOUS
  <2>1. CASE reports = {} /\ Observe /\ UNCHANGED reports
    <3>1. PICK t \in Observations : trades' = Append(trades, t)
      BY <2>1 DEF Observe
    <3>2. trades' \in Seq(Observations)
      BY <3>1 DEF ReportInv, SignalsTypeOK
    <3>3. market_meta' \in MarketMetas /\ reports' = {}
      BY <2>1 DEF Observe, ReportInv, SignalsTypeOK
    <3> QED
      BY <3>2, <3>3 DEF ReportInv, SignalsTypeOK
  <2>2. CASE compose
    <3>1. PICK found \in {[signal \in REGISTRY |-> compute(signal)]}, failed \in SUBSET Failing :
            reports' = {UNION {found[signal] : signal \in REGISTRY \ failed}}
      BY <2>2 DEF compose
    <3>2. \A signal \in REGISTRY : \A h \in compute(signal) : HitOK(h)
      BY FreshOK, UnusualOK, ImbalancesOK, StealthOK, SpikesOK DEF ReportInv, compute, REGISTRY
    <3>3. \A signal \in REGISTRY : found[signal] = compute(signal)
      BY <3>1
    <3> HIDE DEF HitOK
    <3>4. \A hits \in reports' : \A h \in hits : HitOK(h)
      BY <3>1, <3>2, <3>3
    <3>5. UNCHANGED signals_vars
      BY <2>2 DEF compose
    <3>7. \E hits \in SUBSET Hit : reports' = {hits}
      <4>1. UNION {found[signal] : signal \in REGISTRY \ failed} \subseteq Hit
        BY <3>3, SignalsTyped DEF ReportInv
      <4> QED
        BY <3>1, <4>1
    <3>6. ASSUME NEW hits \in reports', NEW h \in hits
          PROVE  HitOK(h)'
      BY <3>4, <3>5, HitsStay
    <3> HIDE DEF Hit
    <3>8. SignalsTypeOK'
      BY <3>5 DEF ReportInv, SignalsTypeOK, signals_vars
    <3>9. (\E hits \in SUBSET Hit : reports = {hits})'
      BY <3>7 DEF Hit
    <3>10. (\A hits \in reports : \A h \in hits : HitOK(h))'
      BY <3>6
    <3> QED
      BY <3>8, <3>9, <3>10 DEF ReportInv
  <2>3. CASE UNCHANGED report_vars
    <3>1. UNCHANGED signals_vars /\ reports' = reports
      BY <2>3 DEF report_vars, signals_vars
    <3>2. ASSUME NEW hits \in reports', NEW h \in hits
          PROVE  HitOK(h)'
      BY <3>1, HitsStay DEF ReportInv
    <3>3. SignalsTypeOK'
      BY <3>1 DEF ReportInv, SignalsTypeOK, signals_vars
    <3> QED
      BY <3>1, <3>2, <3>3 DEF ReportInv, Hit
  <2> QED
    BY <2>1, <2>2, <2>3 DEF ReportNext
<1> QED
  BY <1>1, <1>2, PTL DEF ReportSpec

\* The categories that hit a market are those of the signals that did.
LEMMA SectionsOf ==
    ASSUME NEW hits, \A h \in hits : h.signal \in REGISTRY
    PROVE  /\ IsFiniteSet(sections(hits)) /\ Cardinality(sections(hits)) \in Nat
           /\ Cardinality(categories(hits)) \in Nat /\ Cardinality(categories(hits)) <= Cardinality(sections(hits))
           /\ Cardinality(categories(hits)) >= 2 => \E h \in hits : h.signal # "03-A"
<1> PICK S, C : S = sections(hits) /\ C = categories(hits)
  OBVIOUS
<1>1. S \subseteq REGISTRY
  BY DEF sections
<1>2. IsFiniteSet(REGISTRY)
  <2>1. IsFiniteSet({"01-A"})
    BY FS_Singleton
  <2>2. IsFiniteSet({"01-A"} \cup {"01-B"})
    BY <2>1, FS_AddElement
  <2>3. IsFiniteSet({"01-A"} \cup {"01-B"} \cup {"02-A"})
    BY <2>2, FS_AddElement
  <2>4. IsFiniteSet({"01-A"} \cup {"01-B"} \cup {"02-A"} \cup {"02-C"})
    BY <2>3, FS_AddElement
  <2>5. IsFiniteSet({"01-A"} \cup {"01-B"} \cup {"02-A"} \cup {"02-C"} \cup {"03-A"})
    BY <2>4, FS_AddElement
  <2>6. REGISTRY = {"01-A"} \cup {"01-B"} \cup {"02-A"} \cup {"02-C"} \cup {"03-A"}
    BY DEF REGISTRY
  <2> QED
    BY <2>5, <2>6
<1>3. IsFiniteSet(S) /\ Cardinality(S) \in Nat
  BY <1>1, <1>2, FS_Subset, FS_CardinalityType
<1> DEFINE f == [s \in S |-> category_of(s)]
<1>4. f \in Surjection(S, C)
  <2>1. \A h \in hits : h.signal \in S
    BY DEF sections
  <2>2. \A s \in S : category_of(s) \in C
    BY DEF sections, categories
  <2>3. ASSUME NEW c \in C
        PROVE  \E s \in S : f[s] = c
    <3>1. PICK h \in hits : c = category_of(h.signal)
      BY DEF categories
    <3> QED
      BY <2>1, <3>1
  <2> QED
    BY <2>2, <2>3 DEF Surjection
<1> HIDE DEF f
<1>5. Cardinality(C) <= Cardinality(S) /\ IsFiniteSet(C) /\ Cardinality(C) \in Nat
  BY <1>3, <1>4, FS_Surjection, FS_CardinalityType
<1>6. ASSUME \A h \in hits : h.signal = "03-A"
      PROVE  ~(Cardinality(C) >= 2)
  <2>1. C \subseteq {"volume_liquidity"}
    BY <1>6 DEF categories, category_of
  <2>2. IsFiniteSet({"volume_liquidity"}) /\ Cardinality({"volume_liquidity"}) = 1
    BY FS_Singleton
  <2>3. Cardinality(C) <= 1 /\ Cardinality(C) \in Nat
    BY <1>5, <2>1, <2>2, FS_Subset, FS_CardinalityType
  <2> QED
    BY <2>3
<1> QED
  BY <1>3, <1>5, <1>6

\* The markets traded are finitely many.
LEMMA MarketsTraded ==
    ASSUME SignalsTypeOK, NEW Q, \A m \in Q : on(m) # {}
    PROVE  IsFiniteSet(Q) /\ Cardinality(Q) \in Nat
<1> DEFINE M == {trades[i].market : i \in DOMAIN trades}
           f == [i \in DOMAIN trades |-> trades[i].market]
<1>1. f \in Surjection(DOMAIN trades, M)
  <2>1. f \in [DOMAIN trades -> M] /\ \A m \in M : \E i \in DOMAIN trades : f[i] = m
    OBVIOUS
  <2> QED
    BY <2>1 DEF Surjection
<1>2. Q \subseteq M
  BY DEF on
<1> HIDE DEF M, f
<1> QED
  BY <1>1, <1>2, TradesAre, FS_Surjection, FS_Subset, FS_CardinalityType

\* What is true of each hit is true of what the report makes of them all.
LEMMA WatchedTraded == ReportInv => WatchedWalletsTraded
<1> SUFFICES ASSUME SignalsTypeOK, NEW hits \in reports, \A h \in hits : HitOK(h)
             PROVE
               /\ \A w \in wallets_to_watch(hits) : \A m \in w.markets : by(w.address, on(m)) # {} /\ m \in eligible
               /\ \A m \in promoted_markets(hits) :
                     /\ m \in eligible /\ on(m) # {}
                     /\ Cardinality(sections({h \in hits : h.market = m})) >= PROMOTION_MIN_CATEGORIES
               /\ headline(hits) = "cross-market wallet" => Cardinality({m \in eligible : on(m) # {}}) >= 2
               /\ headline(hits) = "quiet window" => trades = <<>> /\ promoted_markets(hits) = {}
               /\ \A h \in {h \in hits : h.signal = "02-A"} :
                     LET I == on(h.market)
                         side == IF 2 * notional(bought(I)) >= notional(I) THEN "BUY" ELSE "SELL"
                     IN /\ NoTrader \notin {trades[i].wallet : i \in I} => h.top_wallets # {}
                        /\ \A c \in h.top_wallets : \E i \in by(c.address, I) : trades[i].side = side
  BY DEF ReportInv, WatchedWalletsTraded
<1>1. ASSUME NEW w \in wallets_to_watch(hits), NEW m \in w.markets
      PROVE  by(w.address, on(m)) # {} /\ m \in eligible
  <2>1. PICK v \in Traders : w = watch(v, hits_of(v, hits))
    BY DEF wallets_to_watch
  <2>2. w.address = v /\ w.markets = {h.market : h \in hits_of(v, hits)}
    BY <2>1 DEF watch
  <2>3. PICK h \in hits_of(v, hits) : m = h.market
    BY <2>2
  <2>4. h \in hits /\ (h.wallet = v \/ \E c \in h.top_wallets : c.address = v)
    BY DEF hits_of, listed
  <2>5. HitOK(h)
    BY <2>4
  <2> QED
    BY <2>2, <2>3, <2>4, <2>5 DEF HitOK
<1>2. ASSUME NEW m \in promoted_markets(hits)
      PROVE  /\ m \in eligible /\ on(m) # {}
             /\ Cardinality(sections({h \in hits : h.market = m})) >= PROMOTION_MIN_CATEGORIES
  <2> PICK here : here = {h \in hits : h.market = m}
    OBVIOUS
  <2>1. Cardinality(categories(here)) >= 2
    BY DEF promoted_markets, PROMOTION_MIN_CATEGORIES
  <2>2. \A h \in here : h.signal \in REGISTRY
    BY DEF HitOK
  <2>3. /\ Cardinality(categories(here)) \in Nat /\ Cardinality(sections(here)) \in Nat
        /\ Cardinality(categories(here)) <= Cardinality(sections(here))
        /\ \E h \in here : h.signal # "03-A"
    BY <2>1, <2>2, SectionsOf
  <2>4. m \in eligible /\ on(m) # {}
    BY <2>3 DEF HitOK
  <2>5. Cardinality(sections(here)) >= 2
    <3> PICK c \in Nat, s \in Nat : c = Cardinality(categories(here)) /\ s = Cardinality(sections(here))
      BY <2>3
    <3>1. c >= 2 /\ c <= s
      BY <2>1, <2>3
    <3> QED
      BY <3>1
  <2> QED
    BY <2>4, <2>5 DEF PROMOTION_MIN_CATEGORIES
<1>3. ASSUME headline(hits) = "cross-market wallet"
      PROVE  Cardinality({m \in eligible : on(m) # {}}) >= 2
  <2>1. PICK w \in wallets_to_watch(hits) : Cardinality(w.markets) >= 2
    BY <1>3 DEF headline
  <2> PICK Q, V : Q = {m \in eligible : on(m) # {}} /\ V = w.markets
    OBVIOUS
  <2>2. V \subseteq Q
    BY <1>1 DEF by
  <2>3. IsFiniteSet(Q) /\ Cardinality(Q) \in Nat
    BY MarketsTraded
  <2>4. Cardinality(V) <= Cardinality(Q) /\ Cardinality(V) \in Nat
    BY <2>2, <2>3, FS_Subset, FS_CardinalityType
  <2>5. Cardinality(V) >= 2
    BY <2>1
  <2>6. Cardinality(Q) >= 2
    BY <2>3, <2>4, <2>5
  <2> QED
    BY <2>6
<1>4. ASSUME headline(hits) = "quiet window"
      PROVE  trades = <<>> /\ promoted_markets(hits) = {}
  BY <1>4 DEF headline
<1>5. ASSUME NEW h \in hits, h.signal = "02-A"
      PROVE  /\ NoTrader \notin {trades[i].wallet : i \in on(h.market)} => h.top_wallets # {}
             /\ \A c \in h.top_wallets : \E i \in by(c.address, on(h.market)) :
                  trades[i].side = IF 2 * notional(bought(on(h.market))) >= notional(on(h.market)) THEN "BUY" ELSE "SELL"
  <2>1. /\ NoTrader \notin {trades[i].wallet : i \in on(h.market)} => h.top_wallets # {}
        /\ \A c \in h.top_wallets : \E i \in by(c.address, on(h.market)) :
               trades[i].side = IF Leans(h.market) = 1 THEN "BUY" ELSE "SELL"
    BY <1>5 DEF HitOK
  <2>2. Leans(h.market) = 1 <=> 2 * notional(bought(on(h.market))) >= notional(on(h.market))
    BY DEF Leans
  <2> QED
    BY <2>1, <2>2
<1> HIDE DEF HitOK
<1> QED
  BY <1>1, <1>2, <1>3, <1>4, <1>5

LEMMA ReportTyped == ReportInv => ReportTypeOK
<1> SUFFICES ASSUME ReportInv
             PROVE  ReportTypeOK
  OBVIOUS
<1>1. Cardinality(reports) <= 1
  <2>1. reports = {} \/ \E hits : reports = {hits}
    BY DEF ReportInv
  <2>2. Cardinality(reports) \in {0, 1}
    BY <2>1, FS_EmptySet, FS_Singleton
  <2> QED
    BY <2>2
<1>2. \A hits \in reports : hits \subseteq Hit
  BY DEF ReportInv
<1> QED
  BY <1>1, <1>2 DEF ReportInv, ReportTypeOK, Hit

\* Whatever trades the window has and in whatever order the feed gives them, a
\* reader of the clusters (stealth_cluster.py) finds one in every bucket of time
\* in which wallets enough moved together.
THEOREM EveryBurstIsReported == ReportSpec => []BurstsAreReported
<1>1. ReportInv => BurstsAreReported
  BY BurstsReported DEF ReportInv
<1> QED
  BY <1>1, ReportInvHolds, PTL

\* A report of any trades, whichever signals raised while it was composed
\* (composer.py), names wallets for markets they have traded, on the side that a
\* lean is to, and promotes markets that were traded.
THEOREM ReportNamesTraders == ReportSpec => []WatchedWalletsTraded
  BY ReportInvHolds, WatchedTraded, PTL

\* Of any trades of any markets, each hit of a report has a score of a thousand
\* at most, and an amount and contributions that are not negative: no signal
\* divides by zero (the percentile of unusual_size.py, the total of a lean, the
\* volume before a spike), and none scores what is below its threshold.
THEOREM ReportTypes == ReportSpec => []ReportTypeOK
  BY ReportInvHolds, ReportTyped, PTL
=============================================================================
