---------------------------- MODULE AnalysisProofs ----------------------------
(***************************************************************************)
(* Theorems about what is read out of trades and transfers: the funding  *)
(* graph, for any addresses, transfers and windows, snipers, for any     *)
(* wallets, entries and groupings, and the backtest, for any capture and *)
(* any failures of its resolvers. The lemmas about finite sets of numbers *)
(* are those of DailyProofs.                                             *)
(***************************************************************************)
EXTENDS DailyProofs, FundingGraph, Sniper, Backtest

-----------------------------------------------------------------------------
(* Chains.                                                               *)

(***************************************************************************)
(* What is followed further is no entity and may be followed; a trace ends*)
(* at an entity with its kind, or at none as unknown.                    *)
(***************************************************************************)
way == <<target>> \o hops

TraceTypeOK ==
    /\ target \in Addresses \cup {Nobody} /\ hops \in Seq(Addresses)
    /\ origin_type \in {"tracing", "cex", "bridge", "unknown"}

TracingOK ==
    IF target = Nobody THEN origin_type # "tracing"
    ELSE
        /\ Len(hops) <= max_hops
        /\ \A i \in 1 .. Len(hops) : /\ ~is_terminal(way[i])
                                     /\ hops[i] \in {funder_of[k][way[i]] : k \in ToSet(Tokens)}
        /\ origin_type = "tracing" => ~is_terminal(current_address) /\ Len(hops) < max_hops
        /\ origin_type \in {"cex", "bridge"} => is_terminal(current_address)
        /\ origin_type = "unknown" => ~is_terminal(current_address) \/ max_hops = 0

TraceInv == TraceTypeOK /\ TracingOK

LEMMA WayOf ==
    ASSUME NEW t, NEW S, NEW h \in Seq(S)
    PROVE  /\ Len(h) \in Nat /\ Len(<<t>> \o h) = Len(h) + 1 /\ DOMAIN (<<t>> \o h) = 1 .. Len(h) + 1
           /\ (<<t>> \o h)[1] = t /\ \A i \in 1 .. Len(h) : (<<t>> \o h)[i + 1] = h[i]
<1>1. <<t>> \in Seq({t} \cup S) /\ h \in Seq({t} \cup S)
  OBVIOUS
<1> QED
  BY <1>1

LEMMA WayIs ==
    ASSUME TraceTypeOK
    PROVE  /\ Len(hops) \in Nat /\ Len(way) = Len(hops) + 1 /\ DOMAIN way = 1 .. Len(hops) + 1
           /\ way[1] = target /\ (\A i \in 1 .. Len(hops) : way[i + 1] = hops[i])
           /\ way[Len(hops) + 1] = current_address
<1>1. /\ Len(hops) \in Nat /\ Len(way) = Len(hops) + 1 /\ DOMAIN way = 1 .. Len(hops) + 1
      /\ way[1] = target /\ (\A i \in 1 .. Len(hops) : way[i + 1] = hops[i])
  BY WayOf DEF TraceTypeOK, way
<1>2. way[Len(hops) + 1] = current_address
  <2>1. CASE hops = <<>>
    BY <1>1, <2>1 DEF current_address
  <2>2. CASE hops # <<>>
    <3>1. Len(hops) \in 1 .. Len(hops)
      BY <2>2 DEF TraceTypeOK
    <3> QED
      BY <1>1, <2>2, <3>1 DEF current_address, Last
  <2> QED
    BY <2>1, <2>2
<1> QED
  BY <1>1, <1>2

LEMMA HopKeepsTrace ==
    ASSUME TraceInv, target # Nobody, Hop
    PROVE  TraceInv'
<1>1. /\ Len(hops) \in Nat /\ Len(hops) < max_hops /\ max_hops \in Nat /\ target' = target
      /\ hops \in Seq(Addresses) /\ target \in Addresses /\ ~is_terminal(current_address)
  BY FundingAssumption DEF TraceInv, TraceTypeOK, TracingOK, Hop, trace_vars
<1>2. current_address \in Addresses
  <2>1. CASE hops = <<>>
    BY <1>1, <2>1 DEF current_address
  <2>2. CASE hops # <<>>
    BY <1>1, <2>2 DEF current_address, Last
  <2> QED
    BY <2>1, <2>2
<1>3. PICK from \in answers_for(current_address) :
          IF from = Nobody
          THEN origin_type' = "unknown" /\ UNCHANGED hops
          ELSE /\ hops' = Append(hops, from)
               /\ origin_type' = IF is_terminal(from) THEN kind_of[from]
                                 ELSE IF Len(hops') = max_hops THEN "unknown" ELSE "tracing"
  BY DEF Hop
<1>4. CASE from = Nobody
  <2>1. UNCHANGED <<way, current_address, hops, target>> /\ origin_type' = "unknown"
    BY <1>1, <1>3, <1>4 DEF way, current_address
  <2> QED
    BY <1>1, <2>1 DEF TraceInv, TraceTypeOK, TracingOK, way, current_address
<1>5. CASE from # Nobody
  <2>1. PICK k \in ToSet(Tokens) : from = funder_of[k][current_address]
    <3>1. PICK i \in DOMAIN Tokens : from = funder_of[Tokens[i]][current_address]
      BY <1>5 DEF answers_for
    <3> QED
      BY <3>1 DEF ToSet
  <2>2. from \in Addresses
    BY <1>2, <1>5, <2>1, FundingAssumption
  <2>3. PICK h \in Seq(Addresses) : h = hops' /\ h = Append(hops, from)
    BY <1>1, <1>3, <1>5, <2>2
  <2>4. /\ Len(h) = Len(hops) + 1 /\ h[Len(h)] = from
        /\ \A i \in 1 .. Len(hops) : h[i] = hops[i]
    BY <1>1, <2>2, <2>3
  <2>5. origin_type' \in {"tracing", "cex", "bridge", "unknown"} /\ TraceTypeOK'
    BY <1>1, <1>3, <1>5, <2>3 DEF is_terminal, TraceTypeOK
  <2>6. current_address' = from
    BY <1>1, <2>3, <2>4 DEF current_address, Last
  <2>7. \A i \in 1 .. Len(h) : way'[i] = way[i]
    <3>1. /\ way'[1] = target /\ \A i \in 1 .. Len(h) : way'[i + 1] = h[i]
      BY <1>1, <2>3, <2>5, WayOf DEF way
    <3>2. way[1] = target /\ \A i \in 1 .. Len(hops) : way[i + 1] = hops[i]
      BY WayIs DEF TraceInv
    <3>3. ASSUME NEW i \in 1 .. Len(h), i # 1
          PROVE  way'[i] = way[i]
      <4>1. i - 1 \in 1 .. Len(hops) /\ i - 1 \in 1 .. Len(h) /\ (i - 1) + 1 = i
        BY <1>1, <2>4, <3>3
      <4>2. way'[(i - 1) + 1] = h[i - 1] /\ way[(i - 1) + 1] = hops[i - 1]
        BY <3>1, <3>2, <4>1
      <4>3. h[i - 1] = hops[i - 1]
        BY <2>4, <4>1
      <4> QED
        BY <4>1, <4>2, <4>3
    <3> QED
      BY <3>1, <3>2, <3>3
  <2>8. ASSUME NEW i \in 1 .. Len(h)
        PROVE  ~is_terminal(way[i]) /\ h[i] \in {funder_of[c][way[i]] : c \in ToSet(Tokens)}
    <3>1. CASE i \in 1 .. Len(hops)
      BY <1>1, <2>4, <3>1, FundingAssumption DEF TraceInv, TracingOK, TraceTypeOK
    <3>2. CASE i \notin 1 .. Len(hops)
      <4>1. i = Len(hops) + 1 /\ i = Len(h)
        BY <1>1, <2>4, <3>2
      <4>2. way[i] = current_address
        BY <4>1, WayIs DEF TraceInv
      <4> QED
        BY <1>1, <2>1, <2>4, <4>1, <4>2
    <3> QED
      BY <3>1, <3>2
  <2>9. Len(hops') <= max_hops /\ Len(h) \in Nat
    BY <1>1, <2>3, <2>4
  <2>10. /\ origin_type' = "tracing" => ~is_terminal(from) /\ Len(h) < max_hops
         /\ origin_type' \in {"cex", "bridge"} => is_terminal(from)
         /\ origin_type' = "unknown" => ~is_terminal(from)
    BY <1>1, <1>3, <1>5, <2>3, <2>9 DEF is_terminal
  <2>11. TracingOK'
    BY <1>1, <2>3, <2>6, <2>7, <2>8, <2>9, <2>10 DEF TracingOK
  <2> QED
    BY <2>5, <2>11 DEF TraceInv
<1> QED
  BY <1>4, <1>5

LEMMA TraceKeepsInv ==
    ASSUME TraceInv, [TraceNext \/ GraphNext]_funding_vars
    PROVE  TraceInv'
<1>1. CASE UNCHANGED trace_vars
  BY <1>1 DEF trace_vars, TraceInv, TraceTypeOK, TracingOK, way, current_address
<1>2. ASSUME NEW a \in Addresses, TraceBegins(a)
      PROVE  TraceInv'
  <2>1. target' = a /\ hops' = <<>> /\ Len(hops') = 0 /\ a # Nobody
    BY <1>2, FundingAssumption DEF TraceBegins
  <2>2. origin_type' = IF max_hops = 0 THEN "unknown" ELSE IF is_terminal(a) THEN kind_of[a] ELSE "tracing"
    BY <1>2 DEF TraceBegins
  <2>3. current_address' = a /\ max_hops \in Nat
    BY <2>1, FundingAssumption DEF current_address
  <2>4. TraceTypeOK'
    BY <2>1, <2>2 DEF TraceTypeOK, is_terminal
  <2>5. /\ origin_type' = "tracing" => ~is_terminal(a) /\ max_hops # 0
        /\ origin_type' \in {"cex", "bridge"} => is_terminal(a)
        /\ origin_type' = "unknown" => ~is_terminal(a) \/ max_hops = 0
    BY <2>2 DEF is_terminal
  <2>6. 0 <= max_hops /\ (max_hops # 0 => 0 < max_hops) /\ \A i : i \notin 1 .. 0
    BY <2>3
  <2>7. TracingOK'
    BY <2>1, <2>3, <2>5, <2>6 DEF TracingOK
  <2> QED
    BY <2>4, <2>7 DEF TraceInv
<1>3. CASE Hop
  <2>1. CASE target # Nobody
    BY <1>3, <2>1, HopKeepsTrace
  <2>2. CASE target = Nobody
    BY <1>3, <2>2 DEF Hop, TraceInv, TracingOK
  <2> QED
    BY <2>1, <2>2
<1>4. CASE TraceEnds
  BY <1>4 DEF TraceEnds, TraceInv, TraceTypeOK, TracingOK
<1> QED
  BY <1>1, <1>2, <1>3, <1>4 DEF TraceNext, GraphNext, DayPasses, StoreTransfer, RunClusters,
     funding_vars, trace_vars

\* get_suspiciousness_score: 50 and more but for an exchange or a bridge.
LEMMA ScoreTellsEntities ==
    ASSUME TraceInv
    PROVE  get_suspiciousness_score < 50 <=> origin_type \in {"cex", "bridge"}
<1>1. Len(hops) \in Nat /\ max_hops \in Nat
  BY FundingAssumption DEF TraceInv, TraceTypeOK
<1>2. ASSUME Len(hops) < max_hops
      PROVE  (30 * (max_hops - Len(hops))) \div max_hops >= 0
  <2>1. PICK a \in Nat, b \in Nat : a = 30 * (max_hops - Len(hops)) /\ b = max_hops /\ b > 0
    BY <1>1, <1>2
  <2>2. a \div b >= 0
    BY <2>1
  <2> QED
    BY <2>1, <2>2
<1>3. CASE origin_type \in {"cex", "bridge"}
  BY <1>3 DEF get_suspiciousness_score
<1>4. CASE origin_type \notin {"cex", "bridge"}
  <2>1. get_suspiciousness_score \in {100, 70}
        \/ (Len(hops) < max_hops
            /\ get_suspiciousness_score = 50 + (30 * (max_hops - Len(hops))) \div max_hops)
    BY <1>1, <1>4 DEF get_suspiciousness_score
  <2>2. PICK extra : extra = (30 * (max_hops - Len(hops))) \div max_hops
    OBVIOUS
  <2>3. Len(hops) < max_hops => extra >= 0 /\ extra \in Int
    BY <1>1, <1>2, <2>2
  <2> QED
    BY <1>4, <2>1, <2>2, <2>3
<1> QED
  BY <1>3, <1>4

LEMMA ChainsStop == TraceInv => ChainsStopAtEntities
<1> SUFFICES ASSUME TraceInv, target # Nobody
             PROVE  LET entity == {i \in DOMAIN way : is_terminal(way[i])}
                    IN /\ Len(hops) <= max_hops /\ entity \subseteq {Len(way)}
                       /\ \A i \in DOMAIN hops : hops[i] \in {funder_of[k][way[i]] : k \in ToSet(Tokens)}
                       /\ (entity # {} <=> get_suspiciousness_score < 50)
                          \/ origin_type = "tracing" \/ max_hops = 0
  BY DEF ChainsStopAtEntities, way
<1> DEFINE entity == {i \in DOMAIN way : is_terminal(way[i])}
<1>1. TraceTypeOK /\ TracingOK
  BY DEF TraceInv
<1>2. DOMAIN hops = 1 .. Len(hops) /\ Len(hops) \in Nat
  BY <1>1 DEF TraceTypeOK
<1>3. entity \subseteq {Len(hops) + 1}
  <2> SUFFICES ASSUME NEW i \in 1 .. Len(hops) + 1, is_terminal(way[i])
               PROVE  i = Len(hops) + 1
    BY <1>1, WayIs
  <2>1. i \notin 1 .. Len(hops)
    BY <1>1 DEF TracingOK
  <2> QED
    BY <1>2, <2>1
<1>4. entity # {} <=> is_terminal(current_address)
  <2>1. Len(hops) + 1 \in DOMAIN way /\ way[Len(hops) + 1] = current_address
    BY <1>1, <1>2, WayIs
  <2> QED
    BY <1>3, <2>1
<1>5. (entity # {} <=> get_suspiciousness_score < 50) \/ origin_type = "tracing" \/ max_hops = 0
  <2>1. get_suspiciousness_score < 50 <=> origin_type \in {"cex", "bridge"}
    BY ScoreTellsEntities
  <2> HIDE DEF entity
  <2> QED
    BY <1>1, <1>4, <2>1 DEF TraceTypeOK, TracingOK
<1> QED
  BY <1>1, <1>2, <1>3, <1>5, WayIs DEF TracingOK

-----------------------------------------------------------------------------
(* Sorting and scanning.                                                 *)

\* Which members of S come first is not told by equal times.
TimesRise(s) == \A i, j \in DOMAIN s : i < j => s[i].at <= s[j].at

LEMMA SortedExists ==
    ASSUME NEW S \in SUBSET Transfer, IsFiniteSet(S)
    PROVE  \E s \in SetToSeqs(S) : TimesRise(s)
<1> DEFINE N == Cardinality(S)
           InOrder(A, k) == \E s \in [1 .. k -> A] : /\ \A i, j \in 1 .. k : i # j => s[i] # s[j]
                                                   /\ \A i, j \in 1 .. k : i < j => s[i].at <= s[j].at
           T == {k \in 0 .. N : \A A \in SUBSET S : Cardinality(A) = k => InOrder(A, k)}
<1>1. N \in Nat
  BY FS_CardinalityType
<1>2. 0 \in T
  <2>1. ASSUME NEW A \in SUBSET S, Cardinality(A) = 0
        PROVE  InOrder(A, 0)
    <3>1. [i \in 1 .. 0 |-> i] \in [1 .. 0 -> A]
      OBVIOUS
    <3>2. \A i : i \notin 1 .. 0
      OBVIOUS
    <3> QED
      BY <3>1, <3>2
  <2> QED
    BY <1>1, <2>1
<1>3. ASSUME NEW r \in 1 .. N, r - 1 \in T
      PROVE  r \in T
  <2> SUFFICES ASSUME NEW A \in SUBSET S, Cardinality(A) = r
               PROVE  InOrder(A, r)
    BY <1>1
  <2>1. IsFiniteSet(A) /\ A # {}
    <3>1. IsFiniteSet(A)
      BY FS_Subset
    <3>2. r # 0
      BY <1>1
    <3> QED
      BY <3>1, <3>2, FS_EmptySet
  <2>2. PICK t \in A : \A u \in A : u.at <= t.at
    <3> DEFINE at == {u.at : u \in A}
    <3>1. at \in SUBSET (0 .. MaxTime) /\ at # {}
      BY <2>1 DEF Transfer
    <3>2. PICK x \in at : \A y \in at : y <= x
      BY <3>1, Largest, FundingAssumption
    <3>3. PICK t \in A : x = t.at
      BY <3>2
    <3>4. \A u \in A : u.at \in at
      OBVIOUS
    <3> QED
      BY <3>2, <3>3, <3>4
  <2>3. PICK B \in SUBSET S : B = A \ {t} /\ Cardinality(B) = r - 1
    <3>1. Cardinality(A \ {t}) = Cardinality(A) - 1
      BY <2>1, FS_RemoveElement
    <3> QED
      BY <3>1
  <2>4. InOrder(B, r - 1)
    BY <1>3, <2>3
  <2>5. PICK s \in [1 .. r - 1 -> B] :
            /\ \A i, j \in 1 .. r - 1 : i # j => s[i] # s[j]
            /\ \A i, j \in 1 .. r - 1 : i < j => s[i].at <= s[j].at
    BY <2>4
  <2>6. r \in Nat /\ r \in 1 .. r /\ \A i \in 1 .. r : i = r \/ i \in 1 .. r - 1
    BY <1>1
  <2>7. PICK z : z = [i \in 1 .. r |-> IF i = r THEN t ELSE s[i]]
    OBVIOUS
  <2>8. z[r] = t /\ \A i \in 1 .. r - 1 : z[i] = s[i] /\ s[i] \in A /\ s[i] # t
    BY <2>3, <2>5, <2>6, <2>7
  <2>9. z \in [1 .. r -> A]
    BY <2>6, <2>7, <2>8
  <2>10. \A i, j \in 1 .. r : i # j => z[i] # z[j]
    BY <2>5, <2>6, <2>8
  <2>11. \A i, j \in 1 .. r : i < j => z[i].at <= z[j].at
    <3> SUFFICES ASSUME NEW i \in 1 .. r, NEW j \in 1 .. r, i < j
                 PROVE  z[i].at <= z[j].at
      OBVIOUS
    <3>1. i \in 1 .. r - 1
      BY <2>6
    <3>2. CASE j = r
      BY <2>2, <2>8, <3>1, <3>2
    <3>3. CASE j \in 1 .. r - 1
      BY <2>5, <2>8, <3>1, <3>3
    <3> QED
      BY <2>6, <3>2, <3>3
  <2> QED
    BY <2>9, <2>10, <2>11
<1>4. InOrder(S, N)
  <2>1. N \in T
    <3> HIDE DEF N, T
    <3>1. \A r \in 0 .. N : r \in T
      BY <1>1, <1>2, <1>3, IntervalInduction
    <3> QED
      BY <1>1, <3>1
  <2> QED
    BY <2>1
<1>5. PICK s \in [1 .. N -> S] : /\ \A i, j \in 1 .. N : i # j => s[i] # s[j]
                                 /\ \A i, j \in 1 .. N : i < j => s[i].at <= s[j].at
  BY <1>4
<1>6. s \in SetToSeqs(S) /\ TimesRise(s)
  BY <1>5 DEF SetToSeqs, TimesRise
<1> QED
  BY <1>6

\* What the scan knows of the list: each transfer once, by time.
Lists(s, n, S) ==
    /\ n \in Nat /\ DOMAIN s = 1 .. n /\ Len(s) = n
    /\ \A i \in 1 .. n : s[i] \in S
    /\ \A t \in S : \E i \in 1 .. n : s[i] = t
    /\ \A i, j \in 1 .. n : i # j => s[i] # s[j]
    /\ \A i, j \in 1 .. n : i <= j => s[i].at <= s[j].at

LEMMA ListIs ==
    ASSUME NEW S \in SUBSET Transfer, IsFiniteSet(S), NEW s,
           s = CHOOSE l \in SetToSeqs(S) : \A i, j \in DOMAIN l : i < j => l[i].at <= l[j].at
    PROVE  Lists(s, Cardinality(S), S)
<1> PICK n : n = Cardinality(S)
  OBVIOUS
<1>1. s \in SetToSeqs(S) /\ TimesRise(s)
  BY SortedExists DEF TimesRise
<1>2. n \in Nat /\ s \in [1 .. n -> S] /\ \A i, j \in 1 .. n : i # j => s[i] # s[j]
  BY <1>1, FS_CardinalityType DEF SetToSeqs
<1>3. \A t \in S : \E i \in 1 .. n : s[i] = t
  <2>1. s \in Injection(1 .. n, S)
    <3>1. DOMAIN s = 1 .. n /\ \A i, j \in 1 .. n : s[i] = s[j] => i = j
      BY <1>2
    <3>2. IsInjective(s)
      BY <3>1 DEF IsInjective
    <3> QED
      BY <1>2, <3>2 DEF Injection
  <2>2. IsFiniteSet(1 .. n) /\ Cardinality(1 .. n) = n
    BY <1>2, FS_Interval
  <2>3. s \in Surjection(1 .. n, S)
    BY <2>1, <2>2, FS_Injection
  <2> QED
    BY <2>3 DEF Surjection
<1>4. Len(s) = n /\ DOMAIN s = 1 .. n
  BY <1>2
<1>5. \A i, j \in 1 .. n : i <= j => s[i].at <= s[j].at
  <2> SUFFICES ASSUME NEW i \in 1 .. n, NEW j \in 1 .. n, i <= j
               PROVE  s[i].at <= s[j].at
    OBVIOUS
  <2>1. s[i].at \in Int
    BY <1>2 DEF Transfer
  <2>2. i < j \/ i = j
    BY <1>2
  <2> QED
    BY <1>1, <1>4, <2>1, <2>2 DEF TimesRise
<1> QED
  BY <1>2, <1>3, <1>4, <1>5 DEF Lists

LEMMA SegmentCardinality ==
    ASSUME NEW s, NEW n, NEW S, Lists(s, n, S), NEW a \in 1 .. n + 1, NEW b \in 0 .. n, a <= b + 1
    PROVE  LET segment == {s[i] : i \in a .. b}
           IN IsFiniteSet(segment) /\ Cardinality(segment) = b - a + 1
<1> DEFINE segment == {s[i] : i \in a .. b}
           f == [i \in a .. b |-> s[i]]
<1>1. n \in Nat /\ a \in Int /\ b \in Int /\ a .. b \subseteq 1 .. n
  BY DEF Lists
<1>2. IsFiniteSet(a .. b) /\ Cardinality(a .. b) = b - a + 1
  <2>1. IsFiniteSet(a .. b) /\ Cardinality(a .. b) = IF a > b THEN 0 ELSE b - a + 1
    BY <1>1, FS_Interval
  <2>2. a > b => b - a + 1 = 0
    BY <1>1
  <2> QED
    BY <2>1, <2>2
<1>3. f \in Bijection(a .. b, segment)
  <2>1. f \in [a .. b -> segment] /\ \A t \in segment : \E i \in a .. b : f[i] = t
    OBVIOUS
  <2>2. \A i, j \in a .. b : f[i] = f[j] => i = j
    BY <1>1 DEF Lists
  <2> QED
    BY <2>1, <2>2 DEF Bijection, Injection, Surjection, IsInjective
<1>4. IsFiniteSet(segment) /\ Cardinality(segment) = Cardinality(a .. b)
  BY <1>2, <1>3, FS_Bijection DEF ExistsBijection
<1> QED
  BY <1>2, <1>4

\* One step of the scan, and the scan itself.
ScanStep(s, r, prev) ==
    LET left == Min({l \in prev.left .. r : within(s[r], s[l])})
        candidate == {s[i] : i \in left .. r}
    IN [left |-> left, best |-> IF Cardinality(candidate) > Cardinality(prev.best)
                                THEN candidate ELSE prev.best]

ScanStart == [left |-> 1, best |-> {}]

IsScan(f, s, n) == f = [r \in 0 .. n |-> IF r = 0 THEN ScanStart ELSE ScanStep(s, r, f[r - 1])]

LEMMA ScanExists ==
    ASSUME NEW n \in Nat, NEW s
    PROVE  \E f : IsScan(f, s, n)
<1> DEFINE T == {m \in 0 .. n : \E f : IsScan(f, s, m)}
<1>1. 0 \in T
  <2>1. PICK f : f = [r \in 0 .. 0 |-> ScanStart]
    OBVIOUS
  <2>2. \A r \in 0 .. 0 : r = 0
    OBVIOUS
  <2>3. f = [r \in 0 .. 0 |-> IF r = 0 THEN ScanStart ELSE ScanStep(s, r, f[r - 1])]
    BY <2>1, <2>2
  <2> QED
    BY <2>3 DEF IsScan
<1>2. ASSUME NEW m \in 1 .. n, m - 1 \in T
      PROVE  m \in T
  <2>1. PICK f : IsScan(f, s, m - 1)
    BY <1>2
  <2>2. PICK g : g = [r \in 0 .. m |-> IF r = m THEN ScanStep(s, m, f[m - 1]) ELSE f[r]]
    OBVIOUS
  <2>3. m \in Nat /\ m # 0 /\ m - 1 \in 0 .. m /\ m - 1 # m
    OBVIOUS
  <2>4. ASSUME NEW r \in 0 .. m
        PROVE  g[r] = IF r = 0 THEN ScanStart ELSE ScanStep(s, r, g[r - 1])
    <3>1. CASE r = m
      <4>1. g[m] = ScanStep(s, m, f[m - 1]) /\ g[m - 1] = f[m - 1]
        BY <2>2, <2>3
      <4> QED
        BY <2>3, <3>1, <4>1
    <3>2. CASE r # m
      <4>1. r \in 0 .. m - 1 /\ g[r] = f[r]
        BY <2>2, <3>2
      <4>2. f[r] = IF r = 0 THEN ScanStart ELSE ScanStep(s, r, f[r - 1])
        BY <2>1, <4>1 DEF IsScan
      <4>3. r # 0 => r - 1 \in 0 .. m /\ r - 1 # m
        BY <3>2
      <4>4. r # 0 => g[r - 1] = f[r - 1]
        BY <2>2, <4>3
      <4> QED
        BY <4>1, <4>2, <4>4
    <3> QED
      BY <3>1, <3>2
  <2>5. g = [r \in 0 .. m |-> g[r]]
    BY <2>2
  <2>6. g = [r \in 0 .. m |-> IF r = 0 THEN ScanStart ELSE ScanStep(s, r, g[r - 1])]
    BY <2>4, <2>5
  <2> QED
    BY <2>6 DEF IsScan
<1>3. n \in T
  <2> HIDE DEF T
  <2>1. \A r \in 0 .. n : r \in T
    BY <1>1, <1>2, IntervalInduction
  <2> QED
    BY <2>1
<1> QED
  BY <1>3

(***************************************************************************)
(* What the scan has after r transfers: the left end of the window of the *)
(* last of them, and a segment that is within one window and at least as *)
(* long as any such segment so far.                                      *)
(***************************************************************************)
Fits(s, l, r) == s[r].at - s[l].at <= funding_window

ScanInv(s, n, r, x) ==
    /\ x.left \in 1 .. n + 1 /\ (r = 0 => x.left = 1)
    /\ r > 0 => /\ x.left \in 1 .. r
                /\ \A l \in 1 .. r : Fits(s, l, r) <=> x.left <= l
    /\ \E a \in 1 .. n + 1, b \in 0 .. r :
          a <= b + 1 /\ x.best = {s[i] : i \in a .. b} /\ (a <= b => Fits(s, a, b))
    /\ \A q \in 1 .. r : \A l \in 1 .. q : Fits(s, l, q) => q - l + 1 <= Cardinality(x.best)

LEMMA ScanHolds ==
    ASSUME NEW S \in SUBSET Transfer, NEW s, NEW n, Lists(s, n, S), NEW f, IsScan(f, s, n)
    PROVE  \A r \in 0 .. n : ScanInv(s, n, r, f[r])
<1> DEFINE T == {r \in 0 .. n : ScanInv(s, n, r, f[r])}
<1>1. n \in Nat /\ funding_window \in Nat /\ \A i \in 1 .. n : s[i].at \in Nat
  BY FundingAssumption DEF Lists, Transfer
<1>2. \A r \in 0 .. n : f[r] = IF r = 0 THEN ScanStart ELSE ScanStep(s, r, f[r - 1])
  BY DEF IsScan
<1>3. 0 \in T
  <2>1. f[0] = ScanStart
    BY <1>1, <1>2
  <2>2. ScanStart.left = 1 /\ ScanStart.best = {s[i] : i \in 1 .. 0}
    BY DEF ScanStart
  <2>3. 1 \in 1 .. n + 1 /\ 0 \in 0 .. 0 /\ 1 <= 0 + 1 /\ ~(1 <= 0) /\ \A q : q \notin 1 .. 0
    BY <1>1
  <2>4. ScanInv(s, n, 0, f[0])
    BY <2>1, <2>2, <2>3 DEF ScanInv
  <2> QED
    BY <1>1, <2>4
<1>4. ASSUME NEW r \in 1 .. n, r - 1 \in T
      PROVE  r \in T
  <2> PICK p, x : p = f[r - 1] /\ x = f[r]
    OBVIOUS
  <2>1. ScanInv(s, n, r - 1, p) /\ x = ScanStep(s, r, p) /\ r \in Nat /\ r - 1 \in Nat
    BY <1>1, <1>2, <1>4
  <2>2. PICK left : left = Min({l \in p.left .. r : within(s[r], s[l])})
    OBVIOUS
  <2>3. PICK candidate : candidate = {s[i] : i \in left .. r}
    OBVIOUS
  <2>4. x = [left |-> left, best |-> IF Cardinality(candidate) > Cardinality(p.best)
                                     THEN candidate ELSE p.best]
    BY <2>1, <2>2, <2>3 DEF ScanStep
  <2>5. p.left \in 1 .. r
    BY <1>1, <2>1 DEF ScanInv
  <2>6. \A l \in 1 .. r : Fits(s, l, r) => p.left <= l
    <3> SUFFICES ASSUME NEW l \in 1 .. r, Fits(s, l, r), r # 1
                 PROVE  p.left <= l
      BY <2>1, <2>5 DEF ScanInv
    <3>1. CASE l = r
      BY <2>5, <3>1
    <3>2. CASE l # r
      <4>1. l \in 1 .. r - 1 /\ l \in 1 .. n /\ r - 1 \in 1 .. n /\ r - 1 <= r /\ r - 1 > 0
        BY <1>1, <3>2
      <4>2. s[r - 1].at <= s[r].at
        BY <4>1 DEF Lists
      <4>3. Fits(s, l, r - 1)
        BY <1>1, <4>1, <4>2 DEF Fits
      <4> QED
        BY <2>1, <4>1, <4>3 DEF ScanInv
    <3> QED
      BY <3>1, <3>2
  <2>7. left \in 1 .. r /\ Fits(s, left, r) /\ \A l \in 1 .. r : Fits(s, l, r) => left <= l
    <3> DEFINE L == {l \in p.left .. r : within(s[r], s[l])}
    <3>1. L \in SUBSET (0 .. r) /\ \A l \in L : l \in 1 .. r
      BY <2>5
    <3>2. \A l \in 1 .. r : Fits(s, l, r) <=> l \in L
      BY <2>5, <2>6 DEF Fits, within
    <3>3. r \in L
      <4>1. s[r].at - s[r].at = 0 /\ r \in 1 .. r
        BY <1>1
      <4> QED
        BY <1>1, <3>2, <4>1 DEF Fits
    <3>4. left \in L /\ \A l \in L : left <= l
      <4> HIDE DEF L
      <4>1. L # {}
        BY <3>3
      <4> USE DEF L
      <4>2. left = Min(L)
        BY <2>2
      <4> HIDE DEF L
      <4> QED
        BY <2>1, <3>1, <4>1, <4>2, MinIs
    <3> HIDE DEF L
    <3> QED
      BY <3>1, <3>2, <3>4
  <2>8. \A l \in 1 .. r : left <= l => Fits(s, l, r)
    <3> SUFFICES ASSUME NEW l \in 1 .. r, left <= l
                 PROVE  Fits(s, l, r)
      OBVIOUS
    <3>1. l \in 1 .. n /\ left \in 1 .. n /\ r \in 1 .. n
      BY <1>1, <2>7
    <3>2. s[left].at <= s[l].at
      BY <3>1 DEF Lists
    <3> QED
      BY <1>1, <2>7, <3>1, <3>2 DEF Fits
  <2>9. Cardinality(candidate) = r - left + 1 /\ Cardinality(candidate) \in Nat
    <3>1. left \in 1 .. n + 1 /\ r \in 0 .. n /\ left <= r + 1 /\ r - left + 1 \in Nat
      BY <1>1, <2>1, <2>7
    <3> QED
      BY <2>3, <3>1, SegmentCardinality
  <2>10. PICK a \in 1 .. n + 1, b \in 0 .. r - 1 :
             a <= b + 1 /\ p.best = {s[i] : i \in a .. b} /\ (a <= b => Fits(s, a, b))
    BY <2>1 DEF ScanInv
  <2>11. Cardinality(p.best) \in Nat
    <3>1. b \in 0 .. n /\ b - a + 1 \in Nat
      BY <1>1, <2>10
    <3>2. Cardinality(p.best) = b - a + 1
      BY <2>10, <3>1, SegmentCardinality
    <3> QED
      BY <3>1, <3>2
  <2>12. x.left = left /\ x.left \in 1 .. n + 1 /\ x.left \in 1 .. r
    BY <1>1, <2>4, <2>7
  <2>13. \A l \in 1 .. r : Fits(s, l, r) <=> x.left <= l
    BY <2>7, <2>8, <2>12
  <2>14. \E c \in 1 .. n + 1, d \in 0 .. r :
            c <= d + 1 /\ x.best = {s[i] : i \in c .. d} /\ (c <= d => Fits(s, c, d))
    <3>1. CASE x.best = candidate
      <4>1. left \in 1 .. n + 1 /\ r \in 0 .. r /\ left <= r + 1
        BY <2>1, <2>7, <2>12
      <4> QED
        BY <2>3, <2>7, <3>1, <4>1
    <3>2. CASE x.best = p.best
      <4>1. b \in 0 .. r
        BY <2>10
      <4> QED
        BY <2>10, <3>2, <4>1
    <3> QED
      BY <2>4, <3>1, <3>2
  <2>15. /\ Cardinality(x.best) \in Nat /\ Cardinality(p.best) <= Cardinality(x.best)
         /\ r - left + 1 <= Cardinality(x.best)
    <3>1. PICK cc \in Nat, pc \in Nat : cc = Cardinality(candidate) /\ pc = Cardinality(p.best)
      BY <2>9, <2>11
    <3>2. x.best = IF cc > pc THEN candidate ELSE p.best
      BY <2>4, <3>1
    <3>3. CASE cc > pc
      BY <2>9, <3>1, <3>2, <3>3
    <3>4. CASE ~(cc > pc)
      BY <2>9, <3>1, <3>2, <3>4
    <3> QED
      BY <3>3, <3>4
  <2>16. ASSUME NEW q \in 1 .. r, NEW l \in 1 .. q, Fits(s, l, q)
         PROVE  q - l + 1 <= Cardinality(x.best)
    <3>1. CASE q = r
      <4>1. left <= l
        BY <2>7, <2>16, <3>1
      <4>2. q - l + 1 <= r - left + 1
        BY <2>7, <3>1, <4>1
      <4> QED
        BY <2>7, <2>15, <4>2
    <3>2. CASE q # r
      <4>1. q \in 1 .. r - 1
        BY <3>2
      <4>2. q - l + 1 <= Cardinality(p.best)
        BY <2>1, <2>16, <4>1 DEF ScanInv
      <4> QED
        BY <2>11, <2>15, <4>2
    <3> QED
      BY <3>1, <3>2
  <2>17. ScanInv(s, n, r, x)
    <3>1. r # 0
      BY <2>1
    <3>2. \A q \in 1 .. r : \A l \in 1 .. q : Fits(s, l, q) => q - l + 1 <= Cardinality(x.best)
      BY <2>16
    <3> HIDE DEF Fits
    <3> QED
      BY <2>12, <2>13, <2>14, <3>1, <3>2, Zenon DEF ScanInv
  <2> QED
    BY <1>1, <2>17
<1> HIDE DEF T
<1>5. \A r \in 0 .. n : r \in T
  BY <1>1, <1>3, <1>4, IntervalInduction
<1> USE DEF T
<1> QED
  BY <1>5

\* What the two pointers find of any transfers.
LEMMA SubCluster ==
    ASSUME NEW S \in SUBSET Transfer, IsFiniteSet(S), NEW best, best = sub_cluster(S)
    PROVE  /\ best \in SUBSET S /\ IsFiniteSet(best)
           /\ \A t, u \in best : t.at - u.at <= funding_window
           /\ \A t \in S : Cardinality({u \in S : t.at <= u.at /\ u.at - t.at <= funding_window})
                           <= Cardinality(best)
<1> DEFINE list == CHOOSE s \in SetToSeqs(S) : \A i, j \in DOMAIN s : i < j => s[i].at <= s[j].at
           scan[r \in 0 .. Len(list)] ==
               IF r = 0 THEN [left |-> 1, best |-> {}]
               ELSE LET left == Min({l \in scan[r - 1].left .. r : within(list[r], list[l])})
                        candidate == {list[i] : i \in left .. r}
                    IN [left |-> left, best |-> IF Cardinality(candidate) > Cardinality(scan[r - 1].best)
                                                THEN candidate ELSE scan[r - 1].best]
<1>1. best = scan[Len(list)].best
  BY DEF sub_cluster
<1>2. PICK s : s = list
  OBVIOUS
<1> HIDE DEF list
<1>3. PICK n : n = Len(s) /\ Lists(s, n, S)
  <2> USE DEF list
  <2>1. s = CHOOSE l \in SetToSeqs(S) : \A i, j \in DOMAIN l : i < j => l[i].at <= l[j].at
    BY <1>2
  <2> HIDE DEF list
  <2>2. Lists(s, Cardinality(S), S)
    BY <2>1, ListIs
  <2> QED
    BY <2>2 DEF Lists
<1>4. PICK f : f = scan
  OBVIOUS
<1>5. IsScan(f, s, n)
  <2>1. \E g : IsScan(g, list, Len(list))
    BY <1>2, <1>3, ScanExists DEF Lists
  <2>2. IsScan(scan, list, Len(list))
    BY <2>1 DEF IsScan, ScanStep, ScanStart
  <2> QED
    BY <1>2, <1>3, <1>4, <2>2
<1>6. best = f[n].best
  BY <1>1, <1>2, <1>3, <1>4
<1> HIDE DEF scan
<1>7. n \in Nat /\ ScanInv(s, n, n, f[n])
  <2>1. n \in Nat
    BY <1>3 DEF Lists
  <2>2. n \in 0 .. n
    BY <2>1
  <2>3. \A r \in 0 .. n : ScanInv(s, n, r, f[r])
    BY <1>3, <1>5, ScanHolds
  <2> QED
    BY <2>1, <2>2, <2>3
<1>8. PICK a \in 1 .. n + 1, b \in 0 .. n :
          a <= b + 1 /\ best = {s[i] : i \in a .. b} /\ (a <= b => Fits(s, a, b))
  BY <1>6, <1>7 DEF ScanInv
<1>9. \A i \in 1 .. n : s[i] \in S /\ s[i].at \in Nat
  BY <1>3 DEF Lists, Transfer
<1>10. a .. b \subseteq 1 .. n /\ a \in Int /\ b \in Int
  BY <1>7, <1>8
<1>11. best \in SUBSET S /\ IsFiniteSet(best)
  BY <1>3, <1>8, <1>9, <1>10, FS_Subset
<1>12. Cardinality(best) \in Nat
  BY <1>11, FS_CardinalityType
<1>13. ASSUME NEW t \in best, NEW u \in best
       PROVE  t.at - u.at <= funding_window
  <2>1. PICK i \in a .. b, j \in a .. b : t = s[i] /\ u = s[j]
    BY <1>8
  <2>2. a <= b /\ i <= b /\ a <= j /\ {a, b, i, j} \subseteq 1 .. n
    BY <1>10, <2>1
  <2>3. s[i].at <= s[b].at /\ s[a].at <= s[j].at
    BY <1>3, <2>2 DEF Lists
  <2>4. s[b].at - s[a].at <= funding_window
    BY <1>8, <2>2 DEF Fits
  <2> QED
    BY <1>9, <2>1, <2>2, <2>3, <2>4, FundingAssumption
<1>14. ASSUME NEW t \in S
       PROVE  Cardinality({u \in S : t.at <= u.at /\ u.at - t.at <= funding_window}) <= Cardinality(best)
  <2> DEFINE U == {u \in S : t.at <= u.at /\ u.at - t.at <= funding_window}
             L == {i \in 1 .. n : s[i] \in U}
  <2>1. L \in SUBSET (0 .. n) /\ \A u \in U : \E i \in L : s[i] = u
    BY <1>3, <1>7 DEF Lists
  <2>2. t \in U
    BY FundingAssumption DEF Transfer
  <2>3. L # {}
    BY <2>1, <2>2
  <2> HIDE DEF L
  <2>4. PICK l \in L : \A i \in L : l <= i
    BY <1>7, <2>1, <2>3, Smallest
  <2>5. PICK q \in L : \A i \in L : i <= q
    BY <1>7, <2>1, <2>3, Largest
  <2> USE DEF L
  <2>6. l \in 1 .. n /\ q \in 1 .. n /\ l \in 1 .. q /\ s[l] \in U /\ s[q] \in U
    BY <2>4, <2>5
  <2>7. Fits(s, l, q)
    <3>1. t.at \in Nat /\ funding_window \in Nat /\ s[l].at \in Nat /\ s[q].at \in Nat
      BY <1>9, <2>6, FundingAssumption DEF Transfer
    <3>2. t.at <= s[l].at /\ s[q].at - t.at <= funding_window
      BY <2>6
    <3> QED
      BY <3>1, <3>2 DEF Fits
  <2>8. q - l + 1 <= Cardinality(best)
    BY <1>6, <1>7, <2>6, <2>7 DEF ScanInv
  <2> DEFINE segment == {s[i] : i \in l .. q}
  <2>9. IsFiniteSet(segment) /\ Cardinality(segment) = q - l + 1
    <3>1. l \in 1 .. n + 1 /\ q \in 0 .. n /\ l <= q + 1
      BY <1>7, <2>6
    <3> QED
      BY <1>3, <3>1, SegmentCardinality
  <2>10. U \in SUBSET segment
    <3> SUFFICES ASSUME NEW u \in U
                 PROVE  u \in segment
      OBVIOUS
    <3>1. PICK i \in L : s[i] = u
      BY <2>1
    <3>2. i \in l .. q
      BY <2>4, <2>5, <2>6, <3>1
    <3> QED
      BY <3>1, <3>2
  <2> HIDE DEF segment, U
  <2>11. IsFiniteSet(U) /\ Cardinality(U) <= Cardinality(segment)
    BY <2>9, <2>10, FS_Subset
  <2>12. Cardinality(U) \in Nat
    BY <2>11, FS_CardinalityType
  <2>13. Cardinality(U) <= Cardinality(best)
    BY <1>12, <2>6, <2>8, <2>9, <2>11, <2>12
  <2> USE DEF U
  <2> QED
    BY <2>13
<1> QED
  BY <1>11, <1>13, <1>14

LEMMA LargestIsFound ==
    ASSUME stored \subseteq Transfer, IsFiniteSet(stored)
    PROVE  LargestFundingCluster
<1> SUFFICES ASSUME NEW origin \in Funders
             PROVE  LET group == earliest(origin, Addresses)
                        best == sub_cluster(group)
                    IN /\ \A t, u \in best : t.at - u.at <= funding_window
                       /\ \A t \in group :
                            Cardinality({u \in group : t.at <= u.at /\ u.at - t.at <= funding_window})
                            <= Cardinality(best)
  BY DEF LargestFundingCluster
<1>1. PICK S : S = earliest(origin, Addresses)
  OBVIOUS
<1>2. S \in SUBSET Transfer /\ IsFiniteSet(S)
  BY <1>1, FS_Subset DEF earliest
<1>3. PICK best : best = sub_cluster(S)
  OBVIOUS
<1>4. /\ \A t, u \in best : t.at - u.at <= funding_window
      /\ \A t \in S : Cardinality({u \in S : t.at <= u.at /\ u.at - t.at <= funding_window})
                      <= Cardinality(best)
  BY <1>2, <1>3, SubCluster
<1> QED
  BY <1>1, <1>3, <1>4

-----------------------------------------------------------------------------
(* The graph.                                                            *)

LEMMA PairOf ==
    ASSUME NEW v \in Addresses, NEW w \in Addresses, v # w
    PROVE  {v, w} \in Pairs
<1>1. IsFiniteSet({v}) /\ Cardinality({v}) = 1
  BY FS_Singleton
<1>2. Cardinality({v} \cup {w}) = 1 + 1
  BY <1>1, FS_AddElement
<1>3. {v, w} = {v} \cup {w}
  OBVIOUS
<1> QED
  BY <1>2, <1>3 DEF Pairs

LEMMA OtherOfPair ==
    ASSUME NEW pair \in Pairs, NEW w \in pair
    PROVE  \E v \in Addresses \ {w} : pair = {v, w}
<1>1. pair \in SUBSET Addresses /\ Cardinality(pair) = 2
  BY DEF Pairs
<1>2. IsFiniteSet(pair)
  BY <1>1, FundingAssumption, FS_Subset
<1>3. IsFiniteSet(pair \ {w}) /\ Cardinality(pair \ {w}) = 1
  BY <1>1, <1>2, FS_RemoveElement
<1>4. PICK v : pair \ {w} = {v}
  BY <1>3, FS_Singleton
<1> QED
  BY <1>1, <1>4

\* cluster_confidence: from 50, and never over 95.
LEMMA ConfidenceIs ==
    ASSUME NEW best \in SUBSET Transfer, IsFiniteSet(best), Cardinality(best) >= min_shared_wallets,
           \A t, u \in best : t.at - u.at <= funding_window
    PROVE  cluster_confidence(best) \in 1 .. 95
<1> DEFINE at == {t.at : t \in best}
<1>1. PICK c \in Nat : c = Cardinality(best) /\ c >= 2
  <2>1. Cardinality(best) \in Nat
    BY FS_CardinalityType
  <2> QED
    BY <2>1, FundingAssumption
<1>2. best # {}
  BY <1>1, FS_EmptySet
<1>3. at \in SUBSET (0 .. MaxTime) /\ at \in SUBSET Nat /\ at # {} /\ MaxTime \in Nat
  BY <1>2, FundingAssumption DEF Transfer
<1>4. Max(at) \in at /\ Min(at) \in at /\ \A y \in at : y <= Max(at)
  <2> HIDE DEF at
  <2> QED
    BY <1>3, MaxIs, MinIs
<1>5. PICK span \in Nat : span = Max(at) - Min(at) /\ span <= funding_window
  <2>1. PICK hi \in Nat, lo \in Nat : hi = Max(at) /\ lo = Min(at) /\ lo <= hi
    <3> PICK hi, lo : hi = Max(at) /\ lo = Min(at)
      OBVIOUS
    <3>1. hi \in at /\ lo \in at /\ lo <= hi
      BY <1>4
    <3> HIDE DEF at
    <3>2. hi \in Nat /\ lo \in Nat
      BY <1>3, <3>1
    <3> QED
      BY <3>1, <3>2
  <2>2. PICK t \in best, u \in best : hi = t.at /\ lo = u.at
    BY <1>4, <2>1
  <2>3. hi - lo <= funding_window /\ hi - lo \in Nat
    BY <2>1, <2>2
  <2> QED
    BY <2>1, <2>3
<1>6. PICK extra \in 0 .. 2 : extra = Min({c - 2, 2})
  <2>1. PICK both : both = {c - 2, 2}
    OBVIOUS
  <2>2. both \in SUBSET (0 .. c) /\ both # {}
    BY <1>1, <2>1
  <2>3. Min(both) \in both /\ \A y \in both : Min(both) <= y
    BY <2>2, MinIs
  <2>4. Min(both) \in 0 .. 2
    BY <1>1, <2>1, <2>3
  <2> QED
    BY <2>1, <2>4
<1>7. PICK tight \in Nat : tight = (5 * (funding_window - span)) \div funding_window
  <2>1. PICK a \in Nat, b \in Nat : a = 5 * (funding_window - span) /\ b = funding_window /\ b > 0
    <3>1. funding_window \in Nat /\ funding_window > 0
      BY FundingAssumption
    <3>2. funding_window - span \in Nat
      BY <1>5, <3>1
    <3>3. 5 * (funding_window - span) \in Nat
      BY <3>2
    <3> QED
      BY <3>1, <3>3
  <2>2. a \div b \in Nat
    BY <2>1
  <2> QED
    BY <2>1, <2>2
<1>8. PICK x \in Nat : x = 50 + 15 * extra + tight /\ x >= 50
  <2>1. 50 + 15 * extra + tight \in Nat /\ 50 + 15 * extra + tight >= 50
    OBVIOUS
  <2> QED
    BY <2>1
<1>9. Min({x, 95}) \in 1 .. 95
  <2>1. PICK both : both = {x, 95}
    OBVIOUS
  <2>2. both \in SUBSET (0 .. x + 95) /\ both # {} /\ x + 95 \in Nat
    BY <2>1
  <2>3. Min(both) \in both
    BY <2>2, MinIs
  <2>4. Min(both) \in 1 .. 95
    <3>1. \A y \in both : Min(both) <= y
      BY <2>2, MinIs
    <3>2. PICK m : m = Min(both)
      OBVIOUS
    <3>3. m \in {x, 95} /\ m <= 95
      BY <2>1, <2>3, <3>1, <3>2
    <3> QED
      BY <1>8, <3>2, <3>3
  <2> QED
    BY <2>1, <2>4
<1>10. cluster_confidence(best) = Min({50 + 15 * extra + tight, 95})
  BY <1>1, <1>5, <1>6, <1>7 DEF cluster_confidence
<1> QED
  BY <1>8, <1>9, <1>10

(***************************************************************************)
(* A row that was ever written was of transfers that are stored still: none*)
(* is deleted, and those that come later take nothing from it.           *)
(***************************************************************************)
Backed(v, w) ==
    \E t, u \in stored : /\ t.from = u.from /\ t.to = v /\ u.to = w
                         /\ t.at - u.at \in -funding_window .. funding_window

GraphTypeOK ==
    /\ today \in 0 .. MaxTime /\ stored \subseteq Transfer /\ IsFiniteSet(stored)
    /\ edge \in [Pairs -> 0 .. 95]

GraphInv ==
    /\ GraphTypeOK
    /\ \A pair \in Pairs : edge[pair] > 0 => \A v, w \in pair : v # w => Backed(v, w)

\* Of whatever wallets the script collects, a group is backed by what is stored.
LEMMA ClustersAreBacked ==
    ASSUME GraphTypeOK, NEW asked \in SUBSET Addresses, NEW best \in collect_shared_origins(asked)
    PROVE  /\ cluster_confidence(best) \in 1 .. 95
           /\ \A v, w \in members(best) : Backed(v, w)
<1>1. PICK origin \in Funders : best = sub_cluster(earliest(origin, asked))
                                /\ Cardinality(best) >= min_shared_wallets
  BY DEF collect_shared_origins
<1>2. PICK S : S = earliest(origin, asked)
  OBVIOUS
<1>3. S \in SUBSET stored /\ S \in SUBSET Transfer /\ IsFiniteSet(S) /\ \A t \in S : t.from = origin
  BY <1>2, FS_Subset DEF earliest, GraphTypeOK
<1>4. best \in SUBSET S /\ IsFiniteSet(best) /\ \A t, u \in best : t.at - u.at <= funding_window
  BY <1>1, <1>2, <1>3, SubCluster
<1>5. cluster_confidence(best) \in 1 .. 95
  BY <1>1, <1>3, <1>4, ConfidenceIs
<1>6. ASSUME NEW v \in members(best), NEW w \in members(best)
      PROVE  Backed(v, w)
  <2>1. PICK t \in best, u \in best : v = t.to /\ w = u.to
    BY DEF members
  <2>2. t \in stored /\ u \in stored /\ t.from = u.from
    BY <1>3, <1>4
  <2>3. t.at \in Nat /\ u.at \in Nat
    BY <1>3, <1>4 DEF Transfer
  <2>4. t.at - u.at <= funding_window /\ u.at - t.at <= funding_window
    BY <1>4
  <2>5. t.at - u.at \in -funding_window .. funding_window
    BY <2>3, <2>4, FundingAssumption
  <2> QED
    BY <2>1, <2>2, <2>5 DEF Backed
<1> QED
  BY <1>5, <1>6

LEMMA GraphKeepsInv ==
    ASSUME GraphInv, [TraceNext \/ GraphNext]_funding_vars
    PROVE  GraphInv'
<1> USE DEF GraphInv
<1>1. CASE UNCHANGED <<stored, edge>> /\ today' \in 0 .. MaxTime
  BY <1>1 DEF GraphTypeOK, Backed
<1>2. CASE StoreTransfer
  <2>1. PICK t \in Transfer : stored' = stored \cup {t}
    BY <1>2 DEF StoreTransfer
  <2>2. UNCHANGED <<today, edge>>
    BY <1>2 DEF StoreTransfer
  <2>3. GraphTypeOK'
    BY <2>1, <2>2, FS_AddElement DEF GraphTypeOK
  <2>4. \A v, w : Backed(v, w) => Backed(v, w)'
    BY <2>1 DEF Backed
  <2> QED
    BY <2>2, <2>3, <2>4
<1>3. CASE RunClusters
  <2> DEFINE clusters == collect_shared_origins(funded_lately)
             of(pair) == {cluster_confidence(best) : best \in {c \in clusters : pair \subseteq members(c)}}
  <2>1. UNCHANGED <<today, stored>>
    BY <1>3 DEF RunClusters
  <2>2. funded_lately \in SUBSET Addresses
    BY DEF funded_lately, GraphTypeOK, Transfer
  <2>3. \A best \in clusters : /\ cluster_confidence(best) \in 1 .. 95
                               /\ \A v, w \in members(best) : Backed(v, w)
    BY <2>2, ClustersAreBacked
  <2>4. /\ edge' \in [Pairs -> {edge[pair] : pair \in Pairs} \cup UNION {of(pair) : pair \in Pairs}]
        /\ \A pair \in Pairs : IF of(pair) = {} THEN edge'[pair] = edge[pair] ELSE edge'[pair] \in of(pair)
    BY <1>3 DEF RunClusters
  <2> HIDE DEF clusters
  <2>5. ASSUME NEW pair \in Pairs
        PROVE  /\ edge'[pair] \in 0 .. 95
               /\ edge'[pair] > 0 => \A v, w \in pair : v # w => Backed(v, w)
    <3>1. CASE of(pair) = {}
      BY <2>4, <3>1 DEF GraphTypeOK
    <3>2. CASE of(pair) # {}
      <4>1. PICK best \in clusters : pair \subseteq members(best) /\ edge'[pair] = cluster_confidence(best)
        BY <2>4, <3>2
      <4>2. cluster_confidence(best) \in 1 .. 95 /\ \A v, w \in members(best) : Backed(v, w)
        BY <2>3
      <4>3. edge'[pair] \in 0 .. 95
        BY <4>1, <4>2
      <4> QED
        BY <4>1, <4>2, <4>3
    <3> QED
      BY <3>1, <3>2
  <2>6. edge' \in [Pairs -> 0 .. 95]
    BY <2>4, <2>5
  <2>7. \A v, w : Backed(v, w) => Backed(v, w)'
    BY <2>1 DEF Backed
  <2> QED
    BY <2>1, <2>5, <2>6, <2>7 DEF GraphTypeOK
<1>4. CASE DayPasses
  BY <1>1, <1>4, FundingAssumption DEF DayPasses, GraphTypeOK
<1>5. CASE UNCHANGED graph_vars
  BY <1>1, <1>5 DEF graph_vars, GraphTypeOK
<1> QED
  BY <1>2, <1>3, <1>4, <1>5 DEF TraceNext, Hop, TraceEnds, TraceBegins, GraphNext, funding_vars

LEMMA RelationsBacked == GraphInv => RelationsAreBacked
<1> SUFFICES ASSUME GraphInv
             PROVE  RelationsAreBacked
  OBVIOUS
<1>1. edge \in [Pairs -> 0 .. 95]
  BY DEF GraphInv, GraphTypeOK
<1>2. ASSUME NEW v \in Addresses, NEW w \in Addresses, v # w, v \in get_related_wallets(w)
      PROVE  Backed(v, w)
  <2>1. {v, w} \in Pairs /\ edge[{v, w}] > 0
    BY <1>2, PairOf DEF get_related_wallets
  <2> QED
    BY <1>2, <2>1 DEF GraphInv
<1>3. ASSUME NEW origin \in Funders, Cardinality(clusters_for_origin(origin)) > 1,
             NEW w \in clusters_for_origin(origin)
      PROVE  get_related_wallets(w) # {}
  <2> DEFINE funded == {t.to : t \in {t \in stored : t.from = origin /\ t.at + lookback >= today}}
  <2>1. Cardinality(funded) \in Nat
    <3>1. funded \in SUBSET Addresses
      BY DEF GraphInv, GraphTypeOK, Transfer
    <3> HIDE DEF funded
    <3> QED
      BY <3>1, FundingAssumption, FS_Subset, FS_CardinalityType
  <2>2. clusters_for_origin(origin) = IF Cardinality(funded) < 2 THEN funded
            ELSE {x \in funded : \E pair \in Pairs : x \in pair /\ edge[pair] > 0}
    BY DEF clusters_for_origin
  <2> HIDE DEF funded
  <2>3. ~(Cardinality(funded) < 2)
    BY <1>3, <2>1, <2>2
  <2>4. PICK pair \in Pairs : w \in pair /\ edge[pair] > 0
    BY <2>2, <2>3
  <2>5. PICK v \in Addresses \ {w} : pair = {v, w}
    BY <2>4, OtherOfPair
  <2> QED
    BY <2>4, <2>5 DEF get_related_wallets
<1> QED
  BY <1>2, <1>3 DEF RelationsAreBacked, Backed

-----------------------------------------------------------------------------
(* The theorems.                                                         *)

LEMMA FundingInvHolds == FundingSpec => [](TraceInv /\ GraphInv)
<1>1. FundingInit => TraceInv /\ GraphInv
  <2> SUFFICES ASSUME FundingInit
               PROVE  TraceInv /\ GraphInv
    OBVIOUS
  <2>1. TraceInv
    BY DEF FundingInit, TraceInv, TraceTypeOK, TracingOK
  <2>2. GraphInv
    BY FS_EmptySet, FundingAssumption DEF FundingInit, GraphInv, GraphTypeOK
  <2> QED
    BY <2>1, <2>2
<1>2. TraceInv /\ GraphInv /\ [TraceNext \/ GraphNext]_funding_vars => (TraceInv /\ GraphInv)'
  BY TraceKeepsInv, GraphKeepsInv
<1> QED
  BY <1>1, <1>2, PTL DEF FundingSpec

\* Chains are of known addresses, what is stored are transfers between
\* them, and a relation's confidence is at most 95 (cluster_confidence).
THEOREM FundingTypes == FundingSpec => []FundingTypeOK
<1>1. TraceInv /\ GraphInv => FundingTypeOK
  BY DEF TraceInv, TraceTypeOK, GraphInv, GraphTypeOK, FundingTypeOK
<1> QED
  BY <1>1, FundingInvHolds, PTL

\* Chains follow first transfers and stop at an exchange or a bridge; one
\* pass of the two pointers finds the most wallets any window holds; and
\* every relation ever written stands on two stored transfers of one origin
\* within a window, however late and in whatever order they were stored.
THEOREM FundingStandsOnTransfers == FundingSpec => []FundingIsBacked
<1>1. TraceInv /\ GraphInv => FundingIsBacked
  BY ChainsStop, LargestIsFound, RelationsBacked DEF FundingIsBacked, GraphInv, GraphTypeOK
<1> QED
  BY <1>1, FundingInvHolds, PTL

-----------------------------------------------------------------------------
(* Folds: FoldSet and FoldLeft add in an order of their own, and come to *)
(* the same sums.                                                        *)

\* What FoldSet and FoldLeft do with the amounts a, when c chooses who is next.
FoldStep(f, a, c, s) == IF s = {} THEN 0 ELSE f[s \ {c[s]}] + a[c[s]]

IsFold(f, a, c, M) == \A s \in SUBSET M : f[s] = FoldStep(f, a, c, s)

Chooses(c, M) == \A s \in SUBSET M : s # {} => c[s] \in s

LEMMA FoldIsSum ==
    ASSUME NEW M, NEW a, \A x \in M : a[x] \in Nat, NEW c, Chooses(c, M),
           NEW f, SumFacts(f, a, M)
    PROVE  IsFold(f, a, c, M)
<1> SUFFICES ASSUME NEW s \in SUBSET M, s # {}
             PROVE  f[s] = FoldStep(f, a, c, s)
  BY DEF FoldStep, SumFacts, IsFold
<1>1. PICK x \in s : x = c[s]
  BY DEF Chooses
<1>2. s \ {x} \in SUBSET M /\ x \in M \ (s \ {x}) /\ (s \ {x}) \cup {x} = s
  OBVIOUS
<1>3. f[s] = a[x] + f[s \ {x}] /\ f[s \ {x}] \in Nat
  BY <1>2 DEF SumFacts
<1>4. PICK p \in Nat, q \in Nat : p = a[x] /\ q = f[s \ {x}]
  BY <1>3
<1>5. f[s] = q + p
  BY <1>3, <1>4
<1> QED
  BY <1>1, <1>4, <1>5 DEF FoldStep

\* Two functions that fold alike are alike.
LEMMA FoldsAgree ==
    ASSUME NEW M, IsFiniteSet(M), NEW a, NEW c, Chooses(c, M),
           NEW f, IsFold(f, a, c, M), NEW g, IsFold(g, a, c, M)
    PROVE  g[M] = f[M]
<1> DEFINE T == {s \in SUBSET M : g[s] = f[s]}
<1>1. ASSUME NEW s \in SUBSET M, \A t \in SUBSET s : t # s => t \in T
      PROVE  s \in T
  <2>1. CASE s = {}
    BY <2>1 DEF FoldStep, IsFold
  <2>2. CASE s # {}
    <3>1. c[s] \in s
      BY <2>2 DEF Chooses
    <3>2. s \ {c[s]} \in SUBSET s /\ s \ {c[s]} # s
      BY <3>1
    <3>3. g[s \ {c[s]}] = f[s \ {c[s]}]
      BY <1>1, <3>2
    <3> QED
      BY <2>2, <3>3 DEF FoldStep, IsFold
  <2> QED
    BY <2>1, <2>2
<1> HIDE DEF T
<1>2. \A s \in SUBSET M : s \in T
  BY <1>1, SubsetInduction
<1> USE DEF T
<1> QED
  BY <1>2

\* Amounts that are no more than k times others add up to no more than that.
LEMMA SumBounded ==
    ASSUME NEW M, IsFiniteSet(M), NEW k \in Nat, NEW a, NEW b,
           \A x \in M : a[x] \in Nat /\ b[x] \in Nat /\ a[x] <= k * b[x],
           NEW f, SumFacts(f, a, M), NEW g, SumFacts(g, b, M)
    PROVE  f[M] \in Nat /\ g[M] \in Nat /\ f[M] <= k * g[M]
<1> DEFINE T == {s \in SUBSET M : f[s] <= k * g[s]}
<1>1. ASSUME NEW s \in SUBSET M, \A t \in SUBSET s : t # s => t \in T
      PROVE  s \in T
  <2>1. CASE s = {}
    BY <2>1 DEF SumFacts
  <2>2. CASE s # {}
    <3>1. PICK x \in s : TRUE
      BY <2>2
    <3>2. s \ {x} \in SUBSET s /\ s \ {x} # s /\ s \ {x} \in SUBSET M /\ x \in M \ (s \ {x}) /\ (s \ {x}) \cup {x} = s
      OBVIOUS
    <3>3. f[s] = a[x] + f[s \ {x}] /\ g[s] = b[x] + g[s \ {x}] /\ f[s \ {x}] \in Nat /\ g[s \ {x}] \in Nat
      BY <3>2 DEF SumFacts
    <3>4. PICK p \in Nat, q \in Nat, u \in Nat, v \in Nat :
              p = a[x] /\ q = b[x] /\ u = f[s \ {x}] /\ v = g[s \ {x}]
      BY <3>3
    <3>5. p <= k * q /\ u <= k * v
      <4>1. u <= k * v
        BY <1>1, <3>2, <3>4
      <4> QED
        BY <3>4, <4>1
    <3>6. p + u <= k * (q + v)
      BY <3>5
    <3> QED
      BY <3>3, <3>4, <3>6
  <2> QED
    BY <2>1, <2>2
<1> HIDE DEF T
<1>2. \A s \in SUBSET M : s \in T
  BY <1>1, SubsetInduction
<1> USE DEF T
<1> QED
  BY <1>2 DEF SumFacts

\* One for each is as many as there are.
LEMMA Ones ==
    ASSUME NEW M, IsFiniteSet(M)
    PROVE  \E g : SumFacts(g, [x \in M |-> 1], M) /\ g[M] = Cardinality(M)
<1>1. PICK g : g = [s \in SUBSET M |-> Cardinality(s)]
  OBVIOUS
<1>2. \A s \in SUBSET M : IsFiniteSet(s) /\ g[s] = Cardinality(s) /\ g[s] \in Nat
  BY <1>1, FS_Subset, FS_CardinalityType
<1>3. g[{}] = 0
  BY <1>2, FS_EmptySet
<1>4. ASSUME NEW s \in SUBSET M, NEW x \in M \ s
      PROVE  g[s \cup {x}] = [y \in M |-> 1][x] + g[s]
  <2>1. Cardinality(s \cup {x}) = Cardinality(s) + 1
    BY <1>2, FS_AddElement
  <2>2. g[s \cup {x}] = Cardinality(s \cup {x})
    BY <1>1
  <2>3. [y \in M |-> 1][x] = 1
    OBVIOUS
  <2> QED
    BY <1>2, <2>1, <2>2, <2>3
<1>5. g[M] = Cardinality(M)
  BY <1>2
<1> QED
  BY <1>2, <1>3, <1>4, <1>5, Zenon DEF SumFacts

-----------------------------------------------------------------------------
(* Snipers: how sure the detector is of a group. Only early entries are  *)
(* kept, so no average is late, and no part is more than its share.      *)

Entry == [market : SniperMarkets, delta : Deltas \cap (0 .. entry_threshold_seconds)]

EntriesOK == wallet_entries \in [Snipers -> Seq(Entry)]

\* The delays of one wallet add up to no more than the threshold for each.
LEMMA DelaysOf ==
    ASSUME NEW s \in Seq(Entry)
    PROVE  LET sum == FoldLeft(LAMBDA x, e : x + e.delta, 0, s)
           IN sum \in Nat /\ sum <= entry_threshold_seconds * Len(s)
<1> DEFINE iter[I \in SUBSET DOMAIN s] == IF I = {} THEN 0 ELSE LET x == Max(I) IN iter[I \ {x}] + s[x].delta
<1>1. FoldLeft(LAMBDA x, e : x + e.delta, 0, s) = iter[DOMAIN s]
  BY DEF FoldLeft, MapThenFoldSet
<1>2. PICK n \in Nat : n = Len(s) /\ DOMAIN s = 1 .. n
  OBVIOUS
<1>3. PICK k \in Nat : k = entry_threshold_seconds
  BY SniperAssumption
<1>4. PICK M, a, c : M = 1 .. n /\ a = [i \in M |-> s[i].delta] /\ c = [I \in SUBSET M |-> Max(I)]
  OBVIOUS
<1>5. IsFiniteSet(M) /\ Cardinality(M) = n
  BY <1>4, FS_Interval
<1>6. \A i \in M : a[i] \in Nat /\ a[i] <= k
  <2> SUFFICES ASSUME NEW i \in M
               PROVE  s[i].delta \in 0 .. k
    BY <1>4
  <2>1. s[i] \in Entry
    BY <1>2, <1>4
  <2> QED
    BY <1>3, <2>1 DEF Entry
<1>7. Chooses(c, M)
  <2> SUFFICES ASSUME NEW I \in SUBSET M, I # {}
               PROVE  Max(I) \in I
    BY <1>4 DEF Chooses
  <2>1. I \in SUBSET (0 .. n)
    BY <1>4
  <2> QED
    BY <2>1, MaxIs
<1>8. PICK f : SumFacts(f, a, M) /\ IsSum(f, a, M)
  BY <1>5, <1>6, SumExists, SumIs
<1>9. DOMAIN s = M
  BY <1>2, <1>4
<1>10. ASSUME NEW g, NEW I \in SUBSET M
       PROVE  (IF I = {} THEN 0 ELSE LET x == Max(I) IN g[I \ {x}] + s[x].delta) = FoldStep(g, a, c, I)
  <2>1. CASE I = {}
    BY <2>1 DEF FoldStep
  <2>2. CASE I # {}
    <3>1. c[I] = Max(I) /\ c[I] \in M
      BY <1>4, <1>7, <2>2 DEF Chooses
    <3>2. a[c[I]] = s[c[I]].delta
      BY <1>4, <3>1
    <3> QED
      BY <2>2, <3>1, <3>2 DEF FoldStep
  <2> QED
    BY <2>1, <2>2
<1>11. IsFold(f, a, c, M)
  BY <1>6, <1>7, <1>8, FoldIsSum
<1>12. iter[M] = f[M]
  <2>1. f = [I \in SUBSET M |-> IF I = {} THEN 0 ELSE LET x == Max(I) IN f[I \ {x}] + s[x].delta]
    <3>1. f = [I \in SUBSET M |-> f[I]]
      BY <1>8 DEF IsSum
    <3>2. \A I \in SUBSET M : f[I] = IF I = {} THEN 0 ELSE LET x == Max(I) IN f[I \ {x}] + s[x].delta
      BY <1>10, <1>11 DEF IsFold
    <3> QED
      BY <3>1, <3>2
  <2>2. f = [I \in SUBSET DOMAIN s |-> IF I = {} THEN 0 ELSE LET x == Max(I) IN f[I \ {x}] + s[x].delta]
    BY <1>9, <2>1
  <2>3. iter = [I \in SUBSET DOMAIN s |-> IF I = {} THEN 0 ELSE LET x == Max(I) IN iter[I \ {x}] + s[x].delta]
    BY <2>2
  <2> HIDE DEF iter
  <2>4. \A I \in SUBSET M : iter[I] = IF I = {} THEN 0 ELSE LET x == Max(I) IN iter[I \ {x}] + s[x].delta
    BY <1>9, <2>3
  <2>5. IsFold(iter, a, c, M)
    BY <1>10, <2>4 DEF IsFold
  <2> QED
    BY <1>5, <1>7, <1>11, <2>5, FoldsAgree
<1> HIDE DEF iter
<1>13. PICK g : SumFacts(g, [i \in M |-> 1], M) /\ g[M] = n
  BY <1>5, Ones
<1>14. \A i \in M : a[i] \in Nat /\ [j \in M |-> 1][i] \in Nat /\ a[i] <= k * [j \in M |-> 1][i]
  BY <1>6
<1>15. f[M] \in Nat /\ f[M] <= k * n
  BY <1>5, <1>8, <1>13, <1>14, SumBounded
<1> QED
  BY <1>1, <1>2, <1>3, <1>4, <1>12, <1>15

\* The entries of a group.
LEMMA EntriesTotal ==
    ASSUME NEW G, IsFiniteSet(G), NEW a, \A w \in G : a[w] \in Nat /\ a[w] = Len(wallet_entries[w])
    PROVE  \E f : SumFacts(f, a, G) /\ f[G] = FoldSet(LAMBDA w, x : x + Len(wallet_entries[w]), 0, G)
<1> DEFINE iter[s \in SUBSET G] == IF s = {} THEN 0 ELSE LET w == CHOOSE w \in s : TRUE IN iter[s \ {w}] + Len(wallet_entries[w])
<1>1. FoldSet(LAMBDA w, x : x + Len(wallet_entries[w]), 0, G) = iter[G]
  BY DEF FoldSet, MapThenFoldSet
<1>2. PICK c : c = [s \in SUBSET G |-> CHOOSE w \in s : TRUE]
  OBVIOUS
<1>3. Chooses(c, G)
  BY <1>2 DEF Chooses
<1>4. PICK f : SumFacts(f, a, G) /\ IsSum(f, a, G)
  BY SumExists, SumIs
<1>5. ASSUME NEW g, NEW s \in SUBSET G
      PROVE  (IF s = {} THEN 0 ELSE LET w == CHOOSE w \in s : TRUE IN g[s \ {w}] + Len(wallet_entries[w])) = FoldStep(g, a, c, s)
  <2>1. CASE s = {}
    BY <2>1 DEF FoldStep
  <2>2. CASE s # {}
    <3>1. c[s] = (CHOOSE w \in s : TRUE) /\ c[s] \in G
      BY <1>2, <1>3, <2>2 DEF Chooses
    <3>2. a[c[s]] = Len(wallet_entries[c[s]])
      BY <3>1
    <3> QED
      BY <2>2, <3>1, <3>2 DEF FoldStep
  <2> QED
    BY <2>1, <2>2
<1>6. IsFold(f, a, c, G)
  BY <1>3, <1>4, FoldIsSum
<1>7. iter[G] = f[G]
  <2>1. f = [s \in SUBSET G |-> IF s = {} THEN 0 ELSE LET w == CHOOSE w \in s : TRUE IN f[s \ {w}] + Len(wallet_entries[w])]
    <3>1. f = [s \in SUBSET G |-> f[s]]
      BY <1>4 DEF IsSum
    <3>2. \A s \in SUBSET G : f[s] = IF s = {} THEN 0 ELSE LET w == CHOOSE w \in s : TRUE IN f[s \ {w}] + Len(wallet_entries[w])
      BY <1>5, <1>6 DEF IsFold
    <3> QED
      BY <3>1, <3>2
  <2>2. iter = [s \in SUBSET G |-> IF s = {} THEN 0 ELSE LET w == CHOOSE w \in s : TRUE IN iter[s \ {w}] + Len(wallet_entries[w])]
    BY <2>1
  <2> HIDE DEF iter
  <2>3. \A s \in SUBSET G : iter[s] = IF s = {} THEN 0 ELSE LET w == CHOOSE w \in s : TRUE IN iter[s \ {w}] + Len(wallet_entries[w])
    BY <2>2
  <2>4. IsFold(iter, a, c, G)
    BY <1>5, <2>3 DEF IsFold
  <2> QED
    BY <1>3, <1>6, <2>4, FoldsAgree
<1> HIDE DEF iter
<1> QED
  BY <1>1, <1>4, <1>7

\* The average delay of a group's entries is within the threshold.
LEMMA DelayIsEarly ==
    ASSUME EntriesOK, NEW group \in SUBSET Snipers
    PROVE  avg_delta(group) \in 0 .. entry_threshold_seconds
<1> DEFINE all == [w \in group |-> FoldLeft(LAMBDA x, e : x + e.delta, 0, wallet_entries[w])]
<1>1. PICK k \in Nat : k = entry_threshold_seconds
  BY SniperAssumption
<1>2. IsFiniteSet(group)
  BY SniperAssumption, FS_Subset
<1>3. PICK b : b = [w \in group |-> Len(wallet_entries[w])]
  OBVIOUS
<1>4. ASSUME NEW w \in group
      PROVE  all[w] \in Nat /\ b[w] \in Nat /\ b[w] = Len(wallet_entries[w]) /\ all[w] <= k * b[w]
  <2>1. wallet_entries[w] \in Seq(Entry)
    BY DEF EntriesOK
  <2>2. Len(wallet_entries[w]) \in Nat
    BY <2>1
  <2>3. b[w] = Len(wallet_entries[w])
    BY <1>3
  <2>4. all[w] = FoldLeft(LAMBDA x, e : x + e.delta, 0, wallet_entries[w])
    OBVIOUS
  <2> HIDE DEF all
  <2> QED
    BY <1>1, <2>1, <2>2, <2>3, <2>4, DelaysOf
<1> DEFINE iter[s \in SUBSET group] == IF s = {} THEN 0 ELSE LET w == CHOOSE w \in s : TRUE IN iter[s \ {w}] + all[w]
<1>5. avg_delta(group) = LET n == FoldSet(LAMBDA w, x : x + Len(wallet_entries[w]), 0, group)
                         IN IF n = 0 THEN 0 ELSE iter[group] \div n
  BY DEF avg_delta, FoldSet, MapThenFoldSet
<1> HIDE DEF all
<1>6. PICK c : c = [s \in SUBSET group |-> CHOOSE w \in s : TRUE]
  OBVIOUS
<1>7. PICK f : SumFacts(f, all, group) /\ f[group] = iter[group]
  <2>1. Chooses(c, group)
    BY <1>6 DEF Chooses
  <2>2. PICK f : SumFacts(f, all, group) /\ IsSum(f, all, group)
    BY <1>2, <1>4, SumExists, SumIs
  <2>3. ASSUME NEW h, NEW s \in SUBSET group
        PROVE  (IF s = {} THEN 0 ELSE LET w == CHOOSE w \in s : TRUE IN h[s \ {w}] + all[w]) = FoldStep(h, all, c, s)
    <3>1. CASE s = {}
      BY <3>1 DEF FoldStep
    <3>2. CASE s # {}
      <4>1. c[s] = CHOOSE w \in s : TRUE
        BY <1>6
      <4> QED
        BY <3>2, <4>1 DEF FoldStep
    <3> QED
      BY <3>1, <3>2
  <2>4. IsFold(f, all, c, group)
    BY <1>4, <2>1, <2>2, FoldIsSum
  <2>5. f = [s \in SUBSET group |-> IF s = {} THEN 0 ELSE LET w == CHOOSE w \in s : TRUE IN f[s \ {w}] + all[w]]
    <3>1. f = [s \in SUBSET group |-> f[s]]
      BY <2>2 DEF IsSum
    <3>2. \A s \in SUBSET group : f[s] = IF s = {} THEN 0 ELSE LET w == CHOOSE w \in s : TRUE IN f[s \ {w}] + all[w]
      BY <2>3, <2>4 DEF IsFold
    <3> QED
      BY <3>1, <3>2
  <2>6. iter = [s \in SUBSET group |-> IF s = {} THEN 0 ELSE LET w == CHOOSE w \in s : TRUE IN iter[s \ {w}] + all[w]]
    BY <2>5
  <2> HIDE DEF iter
  <2>7. \A s \in SUBSET group : iter[s] = IF s = {} THEN 0 ELSE LET w == CHOOSE w \in s : TRUE IN iter[s \ {w}] + all[w]
    BY <2>6
  <2>8. IsFold(iter, all, c, group)
    BY <2>3, <2>7 DEF IsFold
  <2>9. iter[group] = f[group]
    BY <1>2, <2>1, <2>4, <2>8, FoldsAgree
  <2> QED
    BY <2>2, <2>9
<1> HIDE DEF iter
<1>8. PICK g : SumFacts(g, b, group) /\ g[group] = FoldSet(LAMBDA w, x : x + Len(wallet_entries[w]), 0, group)
  BY <1>2, <1>4, EntriesTotal
<1>9. f[group] \in Nat /\ g[group] \in Nat /\ f[group] <= k * g[group]
  BY <1>2, <1>4, <1>7, <1>8, SumBounded
<1>10. PICK p \in Nat, n \in Nat : p = f[group] /\ n = g[group] /\ p <= k * n
  BY <1>9
<1>11. avg_delta(group) = IF n = 0 THEN 0 ELSE p \div n
  BY <1>5, <1>7, <1>8, <1>10
<1>12. n # 0 => p \div n \in 0 .. k
  <2> SUFFICES ASSUME n # 0
               PROVE  p \div n \in 0 .. k
    OBVIOUS
  <2>1. PICK q \in Nat : q = p \div n /\ q * n <= p
    BY <1>10
  <2>2. q * n <= k * n
    BY <1>10, <2>1
  <2>3. q <= k
    BY <2>2
  <2> QED
    BY <2>1, <2>3
<1> QED
  BY <1>1, <1>11, <1>12

\* How many markets all of a group are in is a number.
LEMMA MarketsAreCounted ==
    ASSUME EntriesOK, NEW group \in SUBSET Snipers
    PROVE  markets_in_common(group) \in Nat
<1> DEFINE common == {m \in SniperMarkets : \A w \in group :
                        \E i \in DOMAIN wallet_entries[w] : wallet_entries[w][i].market = m}
<1> SUFFICES ASSUME ~ (Cardinality(group) < 2)
             PROVE  Cardinality(common) \in Nat
  BY DEF markets_in_common
<1>1. PICK w \in group : TRUE
  <2>1. group # {}
    <3>1. Cardinality({}) = 0
      BY FS_EmptySet
    <3> QED
      BY <3>1
  <2> QED
    BY <2>1
<1>2. PICK s : s = wallet_entries[w] /\ \E n \in Nat : DOMAIN s = 1 .. n
  <2>1. wallet_entries[w] \in Seq(Entry)
    BY DEF EntriesOK
  <2> QED
    BY <2>1
<1> PICK n \in Nat : DOMAIN s = 1 .. n
  BY <1>2
<1>3. PICK F : F = [i \in 1 .. n |-> s[i].market]
  OBVIOUS
<1>4. PICK R : R = {F[i] : i \in 1 .. n}
  OBVIOUS
<1>5. IsFiniteSet(R)
  <2>1. F \in [1 .. n -> R] /\ \A r \in R : \E i \in 1 .. n : F[i] = r
    BY <1>3, <1>4
  <2>2. F \in Surjection(1 .. n, R)
    BY <2>1 DEF Surjection
  <2>3. IsFiniteSet(1 .. n)
    BY FS_Interval
  <2> QED
    BY <2>2, <2>3, FS_Surjection
<1>6. common \subseteq R
  BY <1>2, <1>3, <1>4
<1> QED
  BY <1>5, <1>6, FS_Subset, FS_CardinalityType

\* The confidence of a group is a share of a hundred.
LEMMA GroupConfidence ==
    ASSUME EntriesOK, NEW group \in SUBSET Snipers
    PROVE  confidence(group) \in 0 .. 100
<1>1. PICK k \in Nat : k = entry_threshold_seconds /\ k > 0
  BY SniperAssumption
<1>2. PICK d \in 0 .. k : d = avg_delta(group)
  BY <1>1, DelayIsEarly
<1>3. PICK m \in Nat : m = markets_in_common(group)
  BY MarketsAreCounted
<1>4. PICK n \in Nat : n = Cardinality(group)
  BY SniperAssumption, FS_Subset, FS_CardinalityType
<1>5. UpTo(n, 10) \in 0 .. 10 /\ UpTo(m, 5) \in 0 .. 5
  BY DEF UpTo
<1>6. (40 * (k - d)) \div k \in 0 .. 40
  <2>1. PICK x \in Nat : x = 40 * (k - d) /\ x <= 40 * k
    OBVIOUS
  <2>2. PICK q \in Nat : q = x \div k /\ q * k <= x
    BY <1>1, <2>1
  <2>3. q * k <= 40 * k
    BY <2>1, <2>2
  <2>4. q <= 40
    BY <1>1, <2>3
  <2> QED
    BY <2>1, <2>2, <2>4
<1>7. confidence(group) = 3 * UpTo(n, 10) + (40 * (k - d)) \div k + 6 * UpTo(m, 5)
  BY <1>1, <1>2, <1>3, <1>4 DEF confidence
<1>8. PICK x \in 0 .. 10, y \in 0 .. 40, z \in 0 .. 5 : x = UpTo(n, 10) /\ y = (40 * (k - d)) \div k /\ z = UpTo(m, 5)
  BY <1>5, <1>6
<1>9. confidence(group) = 3 * x + y + 6 * z
  BY <1>7, <1>8
<1> QED
  BY <1>9

-----------------------------------------------------------------------------
(* Snipers: the signals are of different wallets, those of W.            *)

SignalsAreOf(sig, W) ==
    /\ \E S : sig \in Seq(S)
    /\ \A i \in 1 .. Len(sig) : sig[i].wallet \in W
    /\ \A w \in W : \E i \in 1 .. Len(sig) : sig[i].wallet = w
    /\ \A i, j \in 1 .. Len(sig) : i # j => sig[i].wallet # sig[j].wallet
    /\ \A i \in 1 .. Len(sig) : sig[i].confidence \in 0 .. 100

LEMMA MoreSignals ==
    ASSUME NEW a, NEW b, NEW V, NEW W, SignalsAreOf(a, V), SignalsAreOf(b, W), V \cap W = {}
    PROVE  SignalsAreOf(a \o b, V \cup W)
<1>1. PICK S : a \in Seq(S) /\ b \in Seq(S)
  <2>1. PICK A, B : a \in Seq(A) /\ b \in Seq(B)
    BY DEF SignalsAreOf
  <2>2. a \in Seq(A \cup B) /\ b \in Seq(A \cup B)
    BY <2>1
  <2> QED
    BY <2>2
<1> PICK c : c = a \o b
  OBVIOUS
<1>2. PICK m \in Nat, n \in Nat : m = Len(a) /\ n = Len(b) /\ c = a \o b
  <2>1. Len(a) \in Nat /\ Len(b) \in Nat
    BY <1>1
  <2> QED
    BY <2>1
<1>3. c \in Seq(S) /\ Len(c) = m + n
  BY <1>1, <1>2
<1>4. \A i \in 1 .. m : c[i] = a[i]
  BY <1>1, <1>2
<1>5. \A i \in m + 1 .. m + n : c[i] = b[i - m] /\ i - m \in 1 .. n
  BY <1>1, <1>2
<1>6. ASSUME NEW i \in 1 .. m + n
      PROVE  \/ i \in 1 .. m /\ c[i].wallet = a[i].wallet /\ c[i].wallet \in V
             \/ i \in m + 1 .. m + n /\ c[i].wallet = b[i - m].wallet /\ c[i].wallet \in W /\ i - m \in 1 .. n
  <2>1. CASE i \in 1 .. m
    BY <1>2, <1>4, <2>1 DEF SignalsAreOf
  <2>2. CASE i \in m + 1 .. m + n
    BY <1>2, <1>5, <2>2 DEF SignalsAreOf
  <2>3. i \in 1 .. m \/ i \in m + 1 .. m + n
    OBVIOUS
  <2> QED
    BY <2>1, <2>2, <2>3, Zenon
<1>7. ASSUME NEW w \in V \cup W
      PROVE  \E i \in 1 .. m + n : c[i].wallet = w
  <2>1. CASE w \in V
    <3>1. PICK i \in 1 .. m : a[i].wallet = w
      BY <1>2, <2>1 DEF SignalsAreOf
    <3>2. i \in 1 .. m + n
      OBVIOUS
    <3> QED
      BY <1>4, <3>1, <3>2
  <2>2. CASE w \in W
    <3>1. PICK i \in 1 .. n : b[i].wallet = w
      BY <1>2, <2>2 DEF SignalsAreOf
    <3>2. i + m \in m + 1 .. m + n /\ i + m \in 1 .. m + n /\ (i + m) - m = i
      OBVIOUS
    <3> QED
      BY <1>5, <3>1, <3>2
  <2> QED
    BY <2>1, <2>2
<1>8. ASSUME NEW i \in 1 .. m + n, NEW j \in 1 .. m + n, i # j
      PROVE  c[i].wallet # c[j].wallet
  <2>1. CASE i \in 1 .. m /\ j \in 1 .. m
    BY <1>2, <1>4, <1>8, <2>1 DEF SignalsAreOf
  <2>2. CASE i \notin 1 .. m /\ j \notin 1 .. m
    <3>1. i - m \in 1 .. n /\ j - m \in 1 .. n /\ i - m # j - m
      BY <1>8, <2>2
    <3>2. c[i].wallet = b[i - m].wallet /\ c[j].wallet = b[j - m].wallet
      BY <1>6, <2>2
    <3>3. b[i - m].wallet # b[j - m].wallet
      <4>1. \A k, l \in 1 .. n : k # l => b[k].wallet # b[l].wallet
        BY <1>2 DEF SignalsAreOf
      <4> QED
        BY <3>1, <4>1
    <3> QED
      BY <3>2, <3>3
  <2>3. CASE ~(i \in 1 .. m <=> j \in 1 .. m)
    <3>1. \A k \in 1 .. m + n : k \in 1 .. m => c[k].wallet \in V
      BY <1>2, <1>4 DEF SignalsAreOf
    <3>2. \A k \in 1 .. m + n : k \notin 1 .. m => c[k].wallet \in W
      BY <1>6
    <3> QED
      BY <2>3, <3>1, <3>2, Zenon
  <2> QED
    BY <2>1, <2>2, <2>3
<1>9. \A i \in 1 .. m + n : c[i].wallet \in V \cup W /\ c[i].confidence \in 0 .. 100
  <2>1. \A i \in 1 .. m + n : c[i].wallet \in V \cup W
    BY <1>6
  <2>2. \A i \in 1 .. m : c[i].confidence \in 0 .. 100
    BY <1>2, <1>4 DEF SignalsAreOf
  <2>3. \A i \in m + 1 .. m + n : c[i].confidence \in 0 .. 100
    BY <1>2, <1>5 DEF SignalsAreOf
  <2>4. \A i \in 1 .. m + n : i \in 1 .. m \/ i \in m + 1 .. m + n
    OBVIOUS
  <2> QED
    BY <2>1, <2>2, <2>3, <2>4, Zenon
<1>10. SignalsAreOf(c, V \cup W)
  <2>1. PICK I : I = 1 .. Len(c)
    OBVIOUS
  <2>2. I = 1 .. m + n
    BY <1>3, <2>1
  <2>3. /\ \A i \in I : c[i].wallet \in V \cup W
        /\ \A w \in V \cup W : \E i \in I : c[i].wallet = w
        /\ \A i, j \in I : i # j => c[i].wallet # c[j].wallet
        /\ \A i \in I : c[i].confidence \in 0 .. 100
    BY <1>7, <1>8, <1>9, <2>2, Zenon
  <2> QED
    BY <1>3, <2>1, <2>3, Zenon DEF SignalsAreOf
<1> QED
  BY <1>2, <1>10

\* The signals of one group: one for each wallet that had none.
LEMMA SignalsOfGroup ==
    ASSUME NEW W, IsFiniteSet(W), NEW id, NEW size, NEW conf \in 0 .. 100
    PROVE  SignalsAreOf(SetToSeq({[wallet |-> w, cluster |-> id, size |-> size, confidence |-> conf] : w \in W}), W)
<1> DEFINE of(w) == [wallet |-> w, cluster |-> id, size |-> size, confidence |-> conf]
           R == {of(w) : w \in W}
<1>1. IsFiniteSet(R)
  <2>1. PICK g : g = [w \in W |-> of(w)]
    OBVIOUS
  <2>2. g \in [W -> R] /\ \A r \in R : \E w \in W : g[w] = r
    BY <2>1
  <2>3. g \in Surjection(W, R)
    BY <2>2 DEF Surjection
  <2> HIDE DEF R
  <2> QED
    BY <2>3, FS_Surjection
<1>2. PICK n \in Nat : n = Cardinality(R)
  <2> HIDE DEF R
  <2> QED
    BY <1>1, FS_CardinalityType
<1>3. PICK f : f = SetToSeq(R)
  OBVIOUS
<1> HIDE DEF R
<1>4. f \in Bijection(1 .. n, R)
  <2>1. \E g : g \in Bijection(1 .. n, R)
    <3>1. ExistsBijection(1 .. n, R)
      BY <1>1, <1>2, FS_CardinalityType
    <3> QED
      BY <3>1 DEF ExistsBijection
  <2>2. PICK g : g \in [1 .. n -> R] /\ IsInjective(g)
    BY <2>1 DEF Bijection, Injection, IsInjective
  <2>3. f \in [1 .. n -> R] /\ IsInjective(f)
    BY <1>2, <1>3, <2>2 DEF SetToSeq
  <2>4. f \in Injection(1 .. n, R)
    BY <2>3 DEF Injection, IsInjective
  <2>5. IsFiniteSet(1 .. n) /\ Cardinality(1 .. n) = n
    BY FS_Interval
  <2>6. f \in Surjection(1 .. n, R)
    BY <1>1, <1>2, <2>4, <2>5, FS_Injection
  <2> QED
    BY <2>4, <2>6 DEF Bijection
<1>5. /\ f \in [1 .. n -> R] /\ (\A r \in R : \E i \in 1 .. n : f[i] = r)
      /\ \A i, j \in 1 .. n : f[i] = f[j] => i = j
  BY <1>4 DEF Bijection, Injection, Surjection, IsInjective
<1> USE DEF R
<1>6. f \in Seq(R) /\ Len(f) = n
  <2> HIDE DEF R
  <2> QED
    BY <1>5
<1>7. \A i \in 1 .. n : f[i].wallet \in W /\ f[i] = of(f[i].wallet) /\ f[i].confidence = conf
  BY <1>5
<1>8. ASSUME NEW w \in W
      PROVE  \E i \in 1 .. n : f[i].wallet = w
  <2>1. PICK i \in 1 .. n : f[i] = of(w)
    BY <1>5
  <2> QED
    BY <2>1
<1>9. ASSUME NEW i \in 1 .. n, NEW j \in 1 .. n, i # j
      PROVE  f[i].wallet # f[j].wallet
  <2> HIDE DEF of, R
  <2> QED
    BY <1>5, <1>7, <1>9
<1>10. SignalsAreOf(f, W)
  <2> HIDE DEF of, R
  <2> QED
    BY <1>6, <1>7, <1>8, <1>9 DEF SignalsAreOf
<1> QED
  BY <1>3, <1>10

\* The clusters of a run, in the order DBSCAN has them.
GroupStart == [known |-> known_clusters, map |-> wallet_cluster_map, signaled |-> signaled_wallets, out |-> <<>>]

GroupStep(results, group) ==
    UNION {{Process(group, id, s) : id \in get_or_create_cluster_id(group, s.map, s.known)} : s \in results}

IsRun(f, groups, n) ==
    f = [i \in 0 .. n |-> IF i = 0 THEN {GroupStart} ELSE GroupStep(f[i - 1], groups[i])]

LEMMA RunExists ==
    ASSUME NEW n \in Nat, NEW groups
    PROVE  \E f : IsRun(f, groups, n)
<1> DEFINE T == {m \in 0 .. n : \E f : IsRun(f, groups, m)}
<1>1. 0 \in T
  <2>1. PICK f : f = [i \in 0 .. 0 |-> {GroupStart}]
    OBVIOUS
  <2>2. \A i \in 0 .. 0 : i = 0
    OBVIOUS
  <2>3. f = [i \in 0 .. 0 |-> IF i = 0 THEN {GroupStart} ELSE GroupStep(f[i - 1], groups[i])]
    BY <2>1, <2>2
  <2> QED
    BY <2>3 DEF IsRun
<1>2. ASSUME NEW m \in 1 .. n, m - 1 \in T
      PROVE  m \in T
  <2>1. PICK f : IsRun(f, groups, m - 1)
    BY <1>2
  <2>2. PICK g : g = [i \in 0 .. m |-> IF i = m THEN GroupStep(f[m - 1], groups[m]) ELSE f[i]]
    OBVIOUS
  <2>3. m \in Nat /\ m # 0 /\ m - 1 \in 0 .. m /\ m - 1 # m
    OBVIOUS
  <2>4. ASSUME NEW i \in 0 .. m
        PROVE  g[i] = IF i = 0 THEN {GroupStart} ELSE GroupStep(g[i - 1], groups[i])
    <3>1. CASE i = m
      <4>1. g[m] = GroupStep(f[m - 1], groups[m]) /\ g[m - 1] = f[m - 1]
        BY <2>2, <2>3
      <4> QED
        BY <2>3, <3>1, <4>1
    <3>2. CASE i # m
      <4>1. i \in 0 .. m - 1 /\ g[i] = f[i]
        BY <2>2, <3>2
      <4>2. f[i] = IF i = 0 THEN {GroupStart} ELSE GroupStep(f[i - 1], groups[i])
        BY <2>1, <4>1 DEF IsRun
      <4>3. i # 0 => i - 1 \in 0 .. m /\ i - 1 # m
        BY <3>2
      <4>4. i # 0 => g[i - 1] = f[i - 1]
        BY <2>2, <4>3
      <4> QED
        BY <4>1, <4>2, <4>4
    <3> QED
      BY <3>1, <3>2
  <2>5. g = [i \in 0 .. m |-> g[i]]
    BY <2>2
  <2>6. g = [i \in 0 .. m |-> IF i = 0 THEN {GroupStart} ELSE GroupStep(g[i - 1], groups[i])]
    BY <2>4, <2>5
  <2> QED
    BY <2>6 DEF IsRun
<1>3. n \in T
  <2> HIDE DEF T
  <2>1. \A i \in 0 .. n : i \in T
    BY <1>1, <1>2, IntervalInduction
  <2> QED
    BY <2>1
<1> QED
  BY <1>3

(***************************************************************************)
(* Snipers are the wallets that are mapped, each of them to a cluster that*)
(* is large enough; and each was signaled, once.                         *)
(***************************************************************************)
ClustersOK(known, map, signaled) ==
    /\ known \in [ClusterIds -> SUBSET Snipers]
    /\ map \in [Snipers -> ClusterIds \cup {NoCluster}]
    /\ signaled = {w \in Snipers : map[w] # NoCluster}
    /\ \A w \in Snipers : map[w] # NoCluster => Cardinality(known[map[w]]) >= min_cluster_size

SniperInv ==
    /\ EntriesOK
    /\ ClustersOK(known_clusters, wallet_cluster_map, signaled_wallets)
    /\ SignalsAreOf(signals, signaled_wallets)

Free(known) == {id \in ClusterIds : known[id] = {}}

\* While clusters are gone through: the signals to come, the ids left for l more.
RunningOK(s, l) ==
    /\ ClustersOK(s.known, s.map, s.signaled)
    /\ signaled_wallets \subseteq s.signaled
    /\ SignalsAreOf(s.out, s.signaled \ signaled_wallets)
    /\ l <= Cardinality(Free(s.known))

LEMMA IdIs ==
    ASSUME NEW known, NEW map, NEW signaled, ClustersOK(known, map, signaled), Free(known) # {},
           NEW group \in SUBSET Snipers, NEW id \in get_or_create_cluster_id(group, map, known)
    PROVE  id \in ClusterIds /\ (known[id] = {} => \A w \in Snipers : map[w] # id)
<1> DEFINE in(i) == Cardinality({w \in group : map[w] = i})
           old == {i \in ClusterIds : in(i) > 0}
           best == {i \in old : \A other \in old : in(i) >= in(other)}
           reused == {i \in best : in(i) >= Cardinality(group) \div 2}
           new(i) == known[i] = {} /\ \A w \in Snipers : map[w] # i
<1>1. ASSUME NEW i \in ClusterIds, known[i] = {}
      PROVE  new(i)
  <2>1. Cardinality(known[i]) = 0
    BY <1>1, FS_EmptySet
  <2>2. min_cluster_size \in Nat \ {0} /\ i # NoCluster
    BY SniperAssumption
  <2>3. ASSUME NEW w \in Snipers, map[w] = i
        PROVE  FALSE
    <3>1. Cardinality(known[i]) >= min_cluster_size
      BY <2>2, <2>3 DEF ClustersOK
    <3> QED
      BY <2>1, <2>2, <3>1
  <2> QED
    BY <1>1, <2>3
<1>2. PICK i \in ClusterIds : known[i] = {}
  BY DEF Free
<1>3. id \in ClusterIds
  <2>1. id \in IF reused # {} THEN reused ELSE {CHOOSE j \in ClusterIds : new(j)}
    BY DEF get_or_create_cluster_id
  <2>2. reused \subseteq ClusterIds
    OBVIOUS
  <2>3. (CHOOSE j \in ClusterIds : new(j)) \in ClusterIds
    BY <1>1, <1>2
  <2> HIDE DEF reused, new
  <2> QED
    BY <2>1, <2>2, <2>3
<1> QED
  BY <1>1, <1>3

LEMMA GroupKeepsOK ==
    ASSUME EntriesOK, NEW s, NEW l \in Nat, RunningOK(s, l + 1),
           NEW group \in SUBSET Snipers, Cardinality(group) >= min_cluster_size,
           NEW id \in get_or_create_cluster_id(group, s.map, s.known)
    PROVE  RunningOK(Process(group, id, s), l)
<1> PICK known, map, signaled, out : known = s.known /\ map = s.map /\ signaled = s.signaled /\ out = s.out
  OBVIOUS
<1>1. /\ ClustersOK(known, map, signaled) /\ signaled_wallets \subseteq signaled
      /\ SignalsAreOf(out, signaled \ signaled_wallets) /\ l + 1 <= Cardinality(Free(known))
  BY DEF RunningOK
<1>2. IsFiniteSet(Free(known)) /\ Cardinality(Free(known)) \in Nat
  BY SniperAssumption, FS_Subset, FS_CardinalityType DEF Free
<1>3. Free(known) # {}
  <2>1. Cardinality(Free(known)) # 0
    BY <1>1, <1>2
  <2> QED
    BY <1>2, <2>1, FS_EmptySet
<1>4. id \in ClusterIds /\ (known[id] = {} => \A w \in Snipers : map[w] # id)
  BY <1>1, <1>3, IdIs
<1>5. PICK new : new = group \ signaled
  OBVIOUS
<1>6. PICK more : more = SetToSeq({[wallet |-> w, cluster |-> id, size |-> Cardinality(group),
                                     confidence |-> confidence(group)] : w \in new})
  OBVIOUS
<1>7. PICK s2 : s2 = Process(group, id, s)
  OBVIOUS
<1>8. /\ s2.known = [known EXCEPT ![id] = group]
      /\ s2.map = [w \in Snipers |-> IF w \in group THEN id ELSE map[w]]
      /\ s2.signaled = signaled \cup new /\ s2.out = out \o more
  BY <1>5, <1>6, <1>7 DEF Process
<1>9. ClustersOK(s2.known, s2.map, s2.signaled)
  <2> PICK k, m : k = s2.known /\ m = s2.map
    OBVIOUS
  <2>1. k \in [ClusterIds -> SUBSET Snipers] /\ m \in [Snipers -> ClusterIds \cup {NoCluster}]
    BY <1>1, <1>4, <1>8 DEF ClustersOK
  <2>2. /\ \A w \in Snipers : m[w] = IF w \in group THEN id ELSE map[w]
        /\ \A i \in ClusterIds : k[i] = IF i = id THEN group ELSE known[i]
    BY <1>1, <1>8 DEF ClustersOK
  <2>3. signaled \cup new = {w \in Snipers : m[w] # NoCluster}
    BY <1>1, <1>4, <1>5, <2>2, SniperAssumption DEF ClustersOK
  <2>4. ASSUME NEW w \in Snipers, m[w] # NoCluster
        PROVE  Cardinality(k[m[w]]) >= min_cluster_size
    <3>1. CASE m[w] = id
      BY <1>4, <2>2, <3>1
    <3>2. CASE m[w] # id
      <4>1. m[w] = map[w] /\ m[w] \in ClusterIds
        BY <2>1, <2>2, <2>4, <3>2
      <4>2. k[m[w]] = known[map[w]]
        BY <2>2, <3>2, <4>1
      <4> QED
        BY <1>1, <2>4, <4>1, <4>2 DEF ClustersOK
    <3> QED
      BY <3>1, <3>2
  <2> QED
    BY <1>8, <2>1, <2>3, <2>4 DEF ClustersOK
<1>10. signaled_wallets \subseteq s2.signaled
  BY <1>1, <1>8
<1>11. SignalsAreOf(s2.out, s2.signaled \ signaled_wallets)
  <2>1. IsFiniteSet(new)
    BY <1>5, SniperAssumption, FS_Subset
  <2>2. SignalsAreOf(more, new)
    <3>1. confidence(group) \in 0 .. 100
      BY GroupConfidence
    <3> QED
      BY <1>6, <2>1, <3>1, SignalsOfGroup
  <2>3. new \cap (signaled \ signaled_wallets) = {}
    BY <1>5
  <2>4. SignalsAreOf(out \o more, (signaled \ signaled_wallets) \cup new)
    BY <1>1, <2>2, <2>3, MoreSignals
  <2>5. (signaled \ signaled_wallets) \cup new = s2.signaled \ signaled_wallets
    BY <1>1, <1>5, <1>8
  <2> QED
    BY <1>8, <2>4, <2>5
<1>12. l <= Cardinality(Free(s2.known))
  <2>1. IsFiniteSet(Free(known) \ {id}) /\ Cardinality(Free(known) \ {id}) >= Cardinality(Free(known)) - 1
    <3>1. CASE id \in Free(known)
      <4>1. PICK F : F = Free(known)
        OBVIOUS
      <4>2. IsFiniteSet(F \ {id}) /\ Cardinality(F \ {id}) = Cardinality(F) - 1
        BY <1>2, <3>1, <4>1, FS_RemoveElement
      <4> QED
        BY <1>2, <4>1, <4>2
    <3>2. CASE id \notin Free(known)
      <4>1. Free(known) \ {id} = Free(known)
        BY <3>2
      <4> QED
        BY <1>2, <4>1
    <3> QED
      BY <3>1, <3>2
  <2>2. Free(known) \ {id} \subseteq Free(s2.known)
    BY <1>1, <1>8 DEF Free, ClustersOK
  <2>3. IsFiniteSet(Free(s2.known))
    BY SniperAssumption, FS_Subset DEF Free
  <2>4. /\ Cardinality(Free(known) \ {id}) <= Cardinality(Free(s2.known))
        /\ Cardinality(Free(known) \ {id}) \in Nat /\ Cardinality(Free(s2.known)) \in Nat
    BY <2>1, <2>2, <2>3, FS_Subset, FS_CardinalityType
  <2> QED
    BY <1>1, <1>2, <2>1, <2>4
<1> QED
  BY <1>7, <1>9, <1>10, <1>11, <1>12 DEF RunningOK

LEMMA RunKeepsOK ==
    ASSUME SniperInv, NEW n \in Nat, NEW groups, n <= Cardinality(Free(known_clusters)),
           \A i \in 1 .. n : groups[i] \in SUBSET Snipers /\ Cardinality(groups[i]) >= min_cluster_size,
           NEW f, IsRun(f, groups, n)
    PROVE  \A s \in f[n] : RunningOK(s, 0)
<1> DEFINE T == {i \in 0 .. n : \A s \in f[i] : RunningOK(s, n - i)}
<1>1. \A i \in 0 .. n : f[i] = IF i = 0 THEN {GroupStart} ELSE GroupStep(f[i - 1], groups[i])
  BY DEF IsRun
<1>2. 0 \in T
  <2>1. f[0] = {GroupStart}
    BY <1>1
  <2>2. SignalsAreOf(<<>>, {})
    <3>1. <<>> \in Seq({}) /\ Len(<<>>) = 0 /\ \A i : i \notin 1 .. 0
      OBVIOUS
    <3> QED
      BY <3>1 DEF SignalsAreOf
  <2>3. /\ GroupStart.known = known_clusters /\ GroupStart.map = wallet_cluster_map
        /\ GroupStart.signaled = signaled_wallets /\ GroupStart.out = <<>>
    BY DEF GroupStart
  <2>4. signaled_wallets \ signaled_wallets = {} /\ n - 0 = n
    OBVIOUS
  <2>5. RunningOK(GroupStart, n - 0)
    BY <2>2, <2>3, <2>4 DEF RunningOK, SniperInv
  <2> QED
    BY <2>1, <2>5
<1>3. ASSUME NEW i \in 1 .. n, i - 1 \in T
      PROVE  i \in T
  <2>1. f[i] = GroupStep(f[i - 1], groups[i])
    BY <1>1
  <2> SUFFICES ASSUME NEW t \in f[i]
               PROVE  RunningOK(t, n - i)
    OBVIOUS
  <2>2. PICK s \in f[i - 1] : \E id \in get_or_create_cluster_id(groups[i], s.map, s.known) :
                                  t = Process(groups[i], id, s)
    BY <2>1 DEF GroupStep
  <2>3. RunningOK(s, (n - i) + 1)
    <3>1. RunningOK(s, n - (i - 1)) /\ n - (i - 1) = (n - i) + 1
      BY <1>3
    <3> QED
      BY <3>1
  <2>4. n - i \in Nat
    OBVIOUS
  <2> HIDE DEF T
  <2> QED
    BY <2>2, <2>3, <2>4, GroupKeepsOK DEF SniperInv
<1>4. n \in T
  <2> HIDE DEF T
  <2>1. \A i \in 0 .. n : i \in T
    BY <1>2, <1>3, IntervalInduction
  <2> QED
    BY <2>1
<1>5. n - n = 0
  OBVIOUS
<1> QED
  BY <1>4, <1>5

LEMMA ClusteringKeepsInv ==
    ASSUME SniperInv, run_clustering
    PROVE  SniperInv'
<1>1. PICK groups \in Groupings :
          /\ Len(groups) <= Cardinality({id \in ClusterIds : known_clusters[id] = {}})
          /\ \E s \in Outcomes(groups) :
              /\ known_clusters' = s.known
              /\ wallet_cluster_map' = s.map
              /\ signaled_wallets' = s.signaled
              /\ signals' = signals \o s.out
  BY DEF run_clustering
<1>2. PICK s \in Outcomes(groups) :
              /\ known_clusters' = s.known
              /\ wallet_cluster_map' = s.map
              /\ signaled_wallets' = s.signaled
              /\ signals' = signals \o s.out
  BY <1>1
<1> DEFINE Large == {g \in SUBSET eligible_wallets : Cardinality(g) >= min_cluster_size}
<1>3. PICK n \in Nat : groups \in [1 .. n -> Large]
  <2>1. PICK n \in 0 .. MaxGroups : groups \in [1 .. n -> Large]
    BY DEF Groupings, SeqOf
  <2> HIDE DEF Large
  <2> QED
    BY <2>1, SniperAssumption
<1>4. Len(groups) = n /\ n <= Cardinality(Free(known_clusters))
  <2> HIDE DEF Large
  <2>1. Len(groups) = n
    BY <1>3
  <2> QED
    BY <1>1, <2>1 DEF Free
<1>5. \A i \in 1 .. n : groups[i] \in SUBSET Snipers /\ Cardinality(groups[i]) >= min_cluster_size
  BY <1>3 DEF eligible_wallets
<1>6. PICK f : IsRun(f, groups, n) /\ s \in f[n]
  <2> DEFINE start == [known |-> known_clusters, map |-> wallet_cluster_map,
                       signaled |-> signaled_wallets, out |-> <<>>]
             one(results, group) ==
                 UNION {{Process(group, id, t) : id \in get_or_create_cluster_id(group, t.map, t.known)} :
                          t \in results}
             after[i \in 0 .. Len(groups)] ==
                 IF i = 0 THEN {start} ELSE one(after[i - 1], groups[i])
  <2>1. s \in after[Len(groups)]
    BY <1>2 DEF Outcomes
  <2>2. \E g : IsRun(g, groups, Len(groups))
    BY <1>4, RunExists
  <2>3. IsRun(after, groups, Len(groups))
    BY <2>2 DEF IsRun, GroupStart, GroupStep
  <2> HIDE DEF after
  <2> QED
    BY <1>4, <2>1, <2>3
<1>7. RunningOK(s, 0)
  <2> HIDE DEF Large
  <2> QED
    BY <1>4, <1>5, <1>6, RunKeepsOK
<1>8. ClustersOK(known_clusters, wallet_cluster_map, signaled_wallets)'
  BY <1>2, <1>7 DEF RunningOK, ClustersOK
<1>9. SignalsAreOf(signals', signaled_wallets')
  <2>1. signaled_wallets \cap (s.signaled \ signaled_wallets) = {}
    OBVIOUS
  <2>2. SignalsAreOf(signals \o s.out, signaled_wallets \cup (s.signaled \ signaled_wallets))
    BY <1>7, <2>1, MoreSignals DEF RunningOK, SniperInv
  <2>3. signaled_wallets \cup (s.signaled \ signaled_wallets) = s.signaled
    BY <1>7 DEF RunningOK
  <2> QED
    BY <1>2, <2>2, <2>3
<1>10. EntriesOK'
  BY DEF run_clustering, SniperInv, EntriesOK
<1> QED
  BY <1>8, <1>9, <1>10 DEF SniperInv, SignalsAreOf

LEMMA SniperKeepsInv ==
    ASSUME SniperInv, [SniperNext]_sniper_vars
    PROVE  SniperInv'
<1>1. ASSUME UNCHANGED cluster_vars, EntriesOK'
      PROVE  SniperInv'
  BY <1>1 DEF cluster_vars, SniperInv, ClustersOK, SignalsAreOf
<1>2. CASE run_clustering
  BY <1>2, ClusteringKeepsInv
<1>3. ASSUME NEW w \in Snipers, NEW m \in SniperMarkets, NEW delta \in Deltas, record_entry(w, m, delta)
      PROVE  SniperInv'
  <2>1. PICK e : e = [market |-> m, delta |-> delta]
    OBVIOUS
  <2>2. e \in Entry
    BY <1>3, <2>1 DEF Entry, record_entry
  <2>3. wallet_entries' = [wallet_entries EXCEPT ![w] = Append(@, e)]
    BY <1>3, <2>1 DEF record_entry
  <2>4. wallet_entries \in [Snipers -> Seq(Entry)]
    BY DEF SniperInv, EntriesOK
  <2>5. Append(wallet_entries[w], e) \in Seq(Entry)
    BY <2>2, <2>4
  <2>6. EntriesOK'
    BY <2>3, <2>4, <2>5 DEF EntriesOK, Entry
  <2> QED
    BY <1>1, <1>3, <2>6 DEF record_entry
<1>4. CASE clear_entries
  <2>1. EntriesOK'
    BY <1>4 DEF clear_entries, EntriesOK, Entry
  <2> QED
    BY <1>1, <1>4, <2>1 DEF clear_entries
<1>5. CASE UNCHANGED sniper_vars
  <2>1. EntriesOK'
    BY <1>5 DEF sniper_vars, SniperInv, EntriesOK, Entry
  <2> QED
    BY <1>1, <1>5, <2>1 DEF sniper_vars
<1> QED
  BY <1>2, <1>3, <1>4, <1>5 DEF SniperNext

LEMMA SnipersSignaledOnce == SniperInv => SnipersWereSignaled
<1> SUFFICES ASSUME SniperInv, NEW w \in Snipers
             PROVE  /\ Cardinality({i \in DOMAIN signals : signals[i].wallet = w}) = IF is_sniper(w) THEN 1 ELSE 0
                    /\ is_sniper(w) => Cardinality(known_clusters[wallet_cluster_map[w]]) >= min_cluster_size
  BY DEF SnipersWereSignaled
<1>1. is_sniper(w) <=> w \in signaled_wallets
  BY DEF SniperInv, ClustersOK, is_sniper
<1>2. DOMAIN signals = 1 .. Len(signals)
  BY DEF SniperInv, SignalsAreOf
<1> DEFINE I == {i \in DOMAIN signals : signals[i].wallet = w}
<1>3. CASE is_sniper(w)
  <2>1. PICK i \in 1 .. Len(signals) : signals[i].wallet = w
    BY <1>1, <1>3 DEF SniperInv, SignalsAreOf
  <2>2. I = {i}
    BY <1>2, <2>1 DEF SniperInv, SignalsAreOf
  <2>3. Cardinality(I) = 1
    BY <2>2, FS_Singleton
  <2>4. Cardinality(known_clusters[wallet_cluster_map[w]]) >= min_cluster_size
    BY <1>3 DEF SniperInv, ClustersOK, is_sniper
  <2> QED
    BY <1>3, <2>3, <2>4
<1>4. CASE ~is_sniper(w)
  <2>1. I = {}
    BY <1>1, <1>2, <1>4 DEF SniperInv, SignalsAreOf
  <2>2. Cardinality(I) = 0
    BY <2>1, FS_EmptySet
  <2> QED
    BY <1>4, <2>2
<1> QED
  BY <1>3, <1>4

LEMMA SniperInvHolds == SniperSpec => []SniperInv
<1>1. SniperInit => SniperInv
  <2> SUFFICES ASSUME SniperInit
               PROVE  SniperInv
    OBVIOUS
  <2>1. ClustersOK(known_clusters, wallet_cluster_map, signaled_wallets)
    BY DEF SniperInit, ClustersOK
  <2>2. signals \in Seq({}) /\ Len(signals) = 0 /\ \A i : i \notin 1 .. 0
    BY DEF SniperInit
  <2>3. SignalsAreOf(signals, signaled_wallets)
    BY <2>2 DEF SignalsAreOf, SniperInit
  <2>4. EntriesOK
    BY DEF SniperInit, EntriesOK
  <2> QED
    BY <2>1, <2>3, <2>4 DEF SniperInv
<1>2. SniperInv /\ [SniperNext]_sniper_vars => SniperInv'
  BY SniperKeepsInv
<1> QED
  BY <1>1, <1>2, PTL DEF SniperSpec

LEMMA SniperTypes == SniperInv => SniperTypeOK
<1> SUFFICES ASSUME SniperInv
             PROVE  SniperTypeOK
  OBVIOUS
<1>1. wallet_entries \in [Snipers -> Seq([market : SniperMarkets, delta : Deltas])]
  <2>1. Entry \subseteq [market : SniperMarkets, delta : Deltas]
    BY DEF Entry
  <2>2. ASSUME NEW w \in Snipers
        PROVE  wallet_entries[w] \in Seq([market : SniperMarkets, delta : Deltas])
    <3>1. PICK s \in Seq(Entry) : s = wallet_entries[w]
      BY DEF SniperInv, EntriesOK
    <3>2. PICK n \in Nat : n = Len(s) /\ DOMAIN s = 1 .. n
      OBVIOUS
    <3>3. \A i \in 1 .. n : s[i] \in [market : SniperMarkets, delta : Deltas]
      BY <2>1, <3>2
    <3>4. s = [i \in 1 .. n |-> s[i]]
      BY <3>2
    <3> HIDE DEF Entry
    <3>5. [i \in 1 .. n |-> s[i]] \in Seq([market : SniperMarkets, delta : Deltas])
      BY <3>3
    <3> QED
      BY <3>1, <3>4, <3>5
  <2> QED
    BY <2>2 DEF SniperInv, EntriesOK
<1>2. signaled_wallets \subseteq Snipers
  BY DEF SniperInv, ClustersOK
<1>3. ASSUME NEW s \in ToSet(signals)
      PROVE  s.wallet \in Snipers /\ s.confidence \in 0 .. 100
  <2>1. DOMAIN signals = 1 .. Len(signals)
    BY DEF SniperInv, SignalsAreOf
  <2>2. PICK i \in 1 .. Len(signals) : s = signals[i]
    BY <1>3, <2>1 DEF ToSet
  <2> QED
    BY <1>2, <2>2 DEF SniperInv, SignalsAreOf
<1> QED
  BY <1>1, <1>2, <1>3 DEF SniperTypeOK, SniperInv, ClustersOK

\* A wallet is signaled once, when it first is in a cluster, and is from then
\* on in one of min_cluster_size wallets at least: whatever DBSCAN finds, in
\* whatever order, whichever clusters it moves to, and however often the
\* entries are cleared.
THEOREM SnipersAreSignaledOnce == SniperSpec => []SnipersWereSignaled
<1>1. SniperInv => SnipersWereSignaled
  BY SnipersSignaledOnce
<1> QED
  BY <1>1, SniperInvHolds, PTL

\* The detector's state keeps its type, and no signal claims more than
\* certainty or less than nothing: record_entry() keeps no entry that is
\* later than the threshold, so the time part of _calculate_confidence() is
\* neither negative nor above its share.
THEOREM SniperConfidences == SniperSpec => []SniperTypeOK
<1>1. SniperInv => SniperTypeOK
  BY SniperTypes
<1> QED
  BY <1>1, SniperInvHolds, PTL

-----------------------------------------------------------------------------
(* The replay of a capture.                                              *)

(***************************************************************************)
(* What a resolver was told it says for good, so every assessment is what *)
(* the heuristics make of its trade with the caches as they are now: that *)
(* is what makes two assessments comparable, whenever they were made.    *)
(***************************************************************************)
judged(t, of_wallet, of_market) ==
    signals_of(t, of_wallet[t.wallet] = "known",
               IF of_market[t.market] = "known" THEN snapshot_of[t.market] ELSE NoSnapshot)

JudgedBy(a, of_wallet, of_market) ==
    /\ of_wallet[Capture[a.trade].wallet] # "never" /\ of_market[Capture[a.trade].market] # "never"
    /\ a.signals = judged(Capture[a.trade], of_wallet, of_market)

ReplayInv ==
    /\ BacktestTypeOK
    /\ \A a \in assessments : JudgedBy(a, wallet_cache, market_cache)

LEMMA CaptureIs ==
    /\ Len(Capture) \in Nat /\ DOMAIN Capture = 1 .. Len(Capture)
    /\ \A i \in 1 .. Len(Capture) :
          /\ Capture[i].wallet \in ReplayedWallets /\ Capture[i].market \in ReplayedMarkets
          /\ Capture[i].notional \in Nat /\ snapshot_of[Capture[i].market].daily_volume \in Nat
<1>1. Len(Capture) \in Nat /\ DOMAIN Capture = 1 .. Len(Capture)
  BY BacktestAssumption
<1>2. ASSUME NEW i \in DOMAIN Capture
      PROVE  Capture[i].wallet \in ReplayedWallets /\ Capture[i].market \in ReplayedMarkets
  BY DEF ReplayedWallets, ReplayedMarkets
<1>3. \A i \in 1 .. Len(Capture) : Capture[i].notional \in Nat
  BY BacktestAssumption
<1>4. \A i \in 1 .. Len(Capture) : snapshot_of[Capture[i].market].daily_volume \in Nat
  BY BacktestAssumption
<1> QED
  BY <1>1, <1>2, <1>3, <1>4

LEMMA SignalsAreKnown == \A t, k, m : signals_of(t, k, m) \in SUBSET KNOWN_SIGNALS
<1> SUFFICES ASSUME NEW t, NEW k, NEW m
             PROVE  \A s : s \in signals_of(t, k, m) => s \in KNOWN_SIGNALS
  OBVIOUS
<1> QED
  BY SMT DEF signals_of

\* Of a key that was asked for, a resolver says what it said.
LEMMA ResolvedStays ==
    ASSUME NEW c \in Asked, NEW v \in resolved_as(c)
    PROVE  v \in Asked /\ v # "never" /\ (c # "never" => v = c)
BY DEF resolved_as, Asked

LEMMA TradeKeepsReplayInv ==
    ASSUME ReplayInv, ReplayTrade
    PROVE  ReplayInv'
<1>0. PICK n, t : n = replayed' /\ t = Capture[replayed']
  OBVIOUS
<1>1. replayed' = n /\ t = Capture[n] /\ n \in Nat /\ n = replayed + 1 /\ n \in 1 .. Len(Capture)
  <2>1. replayed \in Nat /\ Len(Capture) \in Nat /\ replayed < Len(Capture) /\ n = replayed + 1
    BY <1>0, CaptureIs DEF ReplayTrade, ReplayInv, BacktestTypeOK
  <2> QED
    BY <1>0, <2>1
<1>2. PICK w \in resolved_as(wallet_cache[Capture[replayed'].wallet]),
           m \in resolved_as(market_cache[Capture[replayed'].market]) :
        /\ wallet_cache' = [wallet_cache EXCEPT ![Capture[replayed'].wallet] = w]
        /\ market_cache' = [market_cache EXCEPT ![Capture[replayed'].market] = m]
        /\ LET market == IF m = "known" THEN snapshot_of[Capture[replayed'].market] ELSE NoSnapshot
               found == signals_of(Capture[replayed'], w = "known", market)
           IN assessments' = IF found = {} THEN assessments
                             ELSE assessments \cup {[trade |-> replayed', signals |-> found]}
  BY DEF ReplayTrade
<1>20. /\ wallet_cache' = [wallet_cache EXCEPT ![t.wallet] = w]
       /\ market_cache' = [market_cache EXCEPT ![t.market] = m]
       /\ w \in resolved_as(wallet_cache[t.wallet]) /\ m \in resolved_as(market_cache[t.market])
  BY <1>0, <1>2
<1>3. t.wallet \in ReplayedWallets /\ t.market \in ReplayedMarkets
  BY <1>1, CaptureIs
<1>4. /\ wallet_cache' \in [ReplayedWallets -> Asked] /\ wallet_cache'[t.wallet] # "never" /\ wallet_cache'[t.wallet] = w
      /\ \A x \in ReplayedWallets : wallet_cache[x] # "never" => wallet_cache'[x] = wallet_cache[x]
  <2>1. wallet_cache \in [ReplayedWallets -> Asked]
    BY DEF ReplayInv, BacktestTypeOK
  <2>2. w \in Asked /\ w # "never" /\ (wallet_cache[t.wallet] # "never" => w = wallet_cache[t.wallet])
    BY <1>20, <1>3, <2>1, ResolvedStays
  <2> QED
    BY <1>20, <1>3, <2>1, <2>2
<1>5. /\ market_cache' \in [ReplayedMarkets -> Asked] /\ market_cache'[t.market] # "never" /\ market_cache'[t.market] = m
      /\ \A x \in ReplayedMarkets : market_cache[x] # "never" => market_cache'[x] = market_cache[x]
  <2>1. market_cache \in [ReplayedMarkets -> Asked]
    BY DEF ReplayInv, BacktestTypeOK
  <2>2. m \in Asked /\ m # "never" /\ (market_cache[t.market] # "never" => m = market_cache[t.market])
    BY <1>20, <1>3, <2>1, ResolvedStays
  <2> QED
    BY <1>20, <1>3, <2>1, <2>2
<1> PICK found : found = judged(t, wallet_cache', market_cache')
  OBVIOUS
<1>6. assessments' = IF found = {} THEN assessments ELSE assessments \cup {[trade |-> n, signals |-> found]}
  <2>1. found = signals_of(Capture[replayed'], w = "known",
                  IF m = "known" THEN snapshot_of[Capture[replayed'].market] ELSE NoSnapshot)
    BY <1>0, <1>4, <1>5 DEF judged
  <2> QED
    BY <1>0, <1>2, <2>1
<1>7. found \in SUBSET KNOWN_SIGNALS
  BY SignalsAreKnown DEF judged
<1>8. ASSUME NEW a \in assessments'
      PROVE  /\ a \in [trade : 1 .. replayed', signals : (SUBSET KNOWN_SIGNALS) \ {{}}]
             /\ JudgedBy(a, wallet_cache', market_cache')
  <2>1. CASE a \in assessments
    <3>1. a \in [trade : 1 .. replayed, signals : (SUBSET KNOWN_SIGNALS) \ {{}}] /\ replayed \in Nat
      BY <2>1, CaptureIs DEF ReplayInv, BacktestTypeOK
    <3>2. a.trade \in 1 .. Len(Capture)
      BY <1>1, <3>1
    <3>3. PICK u : u = Capture[a.trade] /\ u.wallet \in ReplayedWallets /\ u.market \in ReplayedMarkets
      BY <3>2, CaptureIs
    <3>4. wallet_cache[u.wallet] # "never" /\ market_cache[u.market] # "never"
          /\ a.signals = judged(u, wallet_cache, market_cache)
      BY <2>1, <3>3 DEF ReplayInv, JudgedBy
    <3>5. wallet_cache'[u.wallet] = wallet_cache[u.wallet] /\ market_cache'[u.market] = market_cache[u.market]
      BY <1>4, <1>5, <3>3, <3>4
    <3>6. judged(u, wallet_cache', market_cache') = judged(u, wallet_cache, market_cache)
      BY <3>5, Zenon DEF judged
    <3>7. JudgedBy(a, wallet_cache', market_cache')
      BY <3>3, <3>4, <3>5, <3>6, Zenon DEF JudgedBy
    <3>8. 1 .. replayed \subseteq 1 .. replayed'
      BY <1>1, <3>1
    <3> QED
      BY <3>1, <3>7, <3>8
  <2>2. CASE a \notin assessments
    <3>1. found # {} /\ a = [trade |-> n, signals |-> found]
      BY <1>6, <2>2
    <3>2. a.trade = n /\ a.signals = found /\ n \in 1 .. replayed'
      BY <1>1, <3>1
    <3>3. JudgedBy(a, wallet_cache', market_cache')
      BY <1>1, <1>4, <1>5, <3>2 DEF JudgedBy
    <3>4. a \in [trade : 1 .. replayed', signals : (SUBSET KNOWN_SIGNALS) \ {{}}]
      <4>1. PICK I, Some : I = 1 .. replayed' /\ Some = (SUBSET KNOWN_SIGNALS) \ {{}}
        OBVIOUS
      <4>2. n \in I
        BY <3>2, <4>1, Zenon
      <4>3. found \in SUBSET KNOWN_SIGNALS /\ found \notin {{}}
        <5> HIDE DEF KNOWN_SIGNALS
        <5> QED
          BY <1>7, <3>1
      <4>4. found \in Some
        <5>1. found \in (SUBSET KNOWN_SIGNALS) \ {{}}
          <6> HIDE DEF KNOWN_SIGNALS
          <6> QED
            BY <4>3, SMT
        <5> QED
          BY <4>1, <5>1, Zenon
      <4>5. a \in [trade : I, signals : Some]
        BY <3>1, <4>2, <4>4
      <4> QED
        BY <4>1, <4>5, Zenon
    <3> QED
      BY <3>3, <3>4
  <2> QED
    BY <2>1, <2>2
<1>9. replayed' \in 0 .. Len(Capture)
  BY <1>1
<1> QED
  BY <1>4, <1>5, <1>8, <1>9 DEF ReplayInv, BacktestTypeOK

LEMMA ReplayInvHolds == BacktestSpec => []ReplayInv
<1>1. BacktestInit => ReplayInv
  BY CaptureIs DEF BacktestInit, ReplayInv, BacktestTypeOK, Asked
<1>2. ASSUME ReplayInv, [BacktestNext]_backtest_vars
      PROVE  ReplayInv'
  <2>1. CASE UNCHANGED backtest_vars
    BY <1>2, <2>1 DEF backtest_vars, ReplayInv, BacktestTypeOK, JudgedBy, judged
  <2> QED
    BY <1>2, <2>1, TradeKeepsReplayInv DEF BacktestNext
<1> QED
  BY <1>1, <1>2, PTL DEF BacktestSpec

-----------------------------------------------------------------------------
(* Scores.                                                               *)

\* A larger trade of a wallet in a market has the signals of a smaller one.
LEMMA LargerHasSignals ==
    ASSUME NEW t, NEW u, t.wallet = u.wallet, t.notional \in Nat, u.notional \in Nat,
           t.notional <= u.notional, NEW k, NEW m, m = NoSnapshot \/ m.daily_volume \in Nat
    PROVE  signals_of(t, k, m) \subseteq signals_of(u, k, m)
<1> SUFFICES ASSUME NEW s \in signals_of(t, k, m)
             PROVE  s \in signals_of(u, k, m)
  OBVIOUS
<1> PICK w : w = t.wallet
  OBVIOUS
<1>1. PICK x \in Nat, y \in Nat : x = t.notional /\ y = u.notional /\ w = t.wallet /\ w = u.wallet /\ x <= y
  OBVIOUS
<1>2. PICK volume \in Nat : volume = IF m = NoSnapshot THEN 0 ELSE m.daily_volume
  OBVIOUS
<1>3. \/ s = "fresh_wallet" /\ k /\ nonce_of[w] < 5 /\ x >= 1000
      \/ s = "size_anomaly" /\ volume > 0 /\ 50 * x > volume
      \/ s = "niche_market" /\ volume > 0 /\ volume < 50000 /\ x >= 1000
         /\ m.category \in {"science", "tech", "finance", "other"}
  BY <1>1, <1>2, SMT DEF signals_of
<1>4. (x >= 1000 => y >= 1000) /\ (50 * x > volume => 50 * y > volume)
  BY <1>1
<1>5. s \in KNOWN_SIGNALS
  BY SMT DEF signals_of
<1> QED
  BY <1>1, <1>2, <1>3, <1>4, <1>5, SMT DEF signals_of

\* What the weights of the signals sum up to, in hundredths of a percent.
WeightOf == [s \in KNOWN_SIGNALS |-> CASE s = "fresh_wallet" -> 4000 [] s = "size_anomaly" -> 3500 [] s = "niche_market" -> 2500]

bonus_of(s) == IF Cardinality(s) >= 3 THEN 156 ELSE IF Cardinality(s) = 2 THEN 120 ELSE 100

LEMMA KnownIsFinite == IsFiniteSet(KNOWN_SIGNALS)
<1>1. IsFiniteSet({"niche_market"}) /\ IsFiniteSet({"niche_market"} \cup {"size_anomaly"})
  BY FS_Singleton, FS_AddElement
<1>2. IsFiniteSet(({"niche_market"} \cup {"size_anomaly"}) \cup {"fresh_wallet"})
  BY <1>1, FS_AddElement
<1>3. KNOWN_SIGNALS = ({"niche_market"} \cup {"size_anomaly"}) \cup {"fresh_wallet"}
  BY DEF KNOWN_SIGNALS
<1> QED
  BY <1>2, <1>3

\* replay_score is of the sum of the weights, and of their number.
LEMMA ScoreIs ==
    ASSUME NEW f, IsSum(f, WeightOf, KNOWN_SIGNALS), NEW A \in SUBSET KNOWN_SIGNALS
    PROVE  replay_score(A) = Min({(f[A] * bonus_of(A)) \div 100, Whole})
<1> DEFINE weight == [fresh_wallet |-> 40, size_anomaly |-> 35, niche_market |-> 25]
           worth(x) == 100 * weight[x]
           iter[s \in SUBSET A] ==
               IF s = {} THEN 0 ELSE LET x == CHOOSE x \in s : TRUE IN worth(x) + iter[s \ {x}]
<1>1. replay_score(A) = Min({(iter[A] * bonus_of(A)) \div 100, Whole})
  BY DEF replay_score, bonus_of, MapThenSumSet, MapThenFoldSet
<1>2. \A x \in KNOWN_SIGNALS : worth(x) = WeightOf[x]
  BY DEF WeightOf, KNOWN_SIGNALS
<1> HIDE DEF worth
<1>3. IsSum(iter, WeightOf, A)
  <2>1. PICK g : IsSum(g, WeightOf, A)
    <3>1. IsFiniteSet(A)
      BY KnownIsFinite, FS_Subset
    <3> QED
      BY <3>1, SumExists
  <2>2. \A s \in SUBSET A : s # {} => (CHOOSE x \in s : TRUE) \in KNOWN_SIGNALS
    <3> HIDE DEF KNOWN_SIGNALS
    <3> QED
      OBVIOUS
  <2>3. ASSUME NEW s \in SUBSET A
        PROVE  SumStep(g, WeightOf, s)
               = IF s = {} THEN 0 ELSE LET x == CHOOSE x \in s : TRUE IN worth(x) + g[s \ {x}]
    BY <1>2, <2>2 DEF SumStep
  <2>4. g = [s \in SUBSET A |->
               IF s = {} THEN 0 ELSE LET x == CHOOSE x \in s : TRUE IN worth(x) + g[s \ {x}]]
    BY <2>1, <2>3 DEF IsSum
  <2>5. iter = [s \in SUBSET A |->
               IF s = {} THEN 0 ELSE LET x == CHOOSE x \in s : TRUE IN worth(x) + iter[s \ {x}]]
    BY <2>4
  <2> HIDE DEF iter
  <2>6. ASSUME NEW s \in SUBSET A
        PROVE  SumStep(iter, WeightOf, s)
               = IF s = {} THEN 0 ELSE LET x == CHOOSE x \in s : TRUE IN worth(x) + iter[s \ {x}]
    BY <1>2, <2>2 DEF SumStep
  <2> QED
    BY <2>5, <2>6 DEF IsSum
<1> HIDE DEF iter
<1>4. f[A] = iter[A]
  BY <1>3, KnownIsFinite, SumsAgree
<1> QED
  BY <1>1, <1>4

\* The smaller of two numbers.
LEMMA SmallerOf ==
    ASSUME NEW z \in Nat, NEW cap \in Nat
    PROVE  Min({z, cap}) = IF z <= cap THEN z ELSE cap
<1>1. PICK both : both = {z, cap}
  OBVIOUS
<1>2. both \in SUBSET (0 .. z + cap) /\ both # {} /\ z + cap \in Nat
  BY <1>1
<1>3. Min(both) \in both /\ \A e \in both : Min(both) <= e
  BY <1>2, MinIs
<1>4. PICK l : l = Min(both)
  OBVIOUS
<1>5. l \in {z, cap} /\ l <= z /\ l <= cap
  BY <1>1, <1>3, <1>4
<1> QED
  BY <1>1, <1>4, <1>5

\* More signals never score less.
LEMMA ScoreGrows ==
    ASSUME NEW A \in SUBSET KNOWN_SIGNALS, NEW B \in SUBSET KNOWN_SIGNALS, A \subseteq B
    PROVE  replay_score(A) <= replay_score(B)
<1>1. \A s \in KNOWN_SIGNALS : WeightOf[s] \in Nat
  BY DEF WeightOf, KNOWN_SIGNALS
<1>2. PICK f : IsSum(f, WeightOf, KNOWN_SIGNALS)
  BY KnownIsFinite, SumExists
<1>3. SumFacts(f, WeightOf, KNOWN_SIGNALS)
  BY <1>1, <1>2, KnownIsFinite, SumIs
<1> PICK C : C = B \ A
  OBVIOUS
<1>4. C \in SUBSET KNOWN_SIGNALS /\ A \cap C = {} /\ A \cup C = B
  OBVIOUS
<1>5. f[B] = f[A] + f[C] /\ f[A] \in Nat /\ f[B] \in Nat /\ f[C] \in Nat
  <2>1. f[A \cup C] = f[A] + f[C]
    <3>1. \A X \in SUBSET KNOWN_SIGNALS : A \cap X = {} => f[A \cup X] = f[A] + f[X]
      <4>1. PICK K, weights : K = KNOWN_SIGNALS /\ weights = WeightOf
        BY Zenon
      <4>2. /\ IsFiniteSet(K) /\ A \in SUBSET K /\ SumFacts(f, weights, K)
            /\ \A s \in K : weights[s] \in Nat
        BY <1>1, <1>3, <4>1, KnownIsFinite
      <4>3. \A X \in SUBSET K : A \cap X = {} => f[A \cup X] = f[A] + f[X]
        BY <4>2, SumOfUnion
      <4> QED
        BY <4>1, <4>3, Zenon
    <3> QED
      BY <1>4, <3>1
  <2>2. \A s \in SUBSET KNOWN_SIGNALS : f[s] \in Nat
    BY <1>3 DEF SumFacts
  <2> QED
    BY <1>4, <2>1, <2>2
<1>6. PICK x \in Nat, y \in Nat : x = f[A] /\ y = f[B] /\ x <= y
  BY <1>5
<1>7. PICK k \in Nat, n \in Nat : k = Cardinality(A) /\ n = Cardinality(B) /\ k <= n
  <2>1. IsFiniteSet(B) /\ IsFiniteSet(A)
    BY KnownIsFinite, FS_Subset
  <2>2. Cardinality(A) \in Nat /\ Cardinality(B) \in Nat
    BY <2>1, FS_CardinalityType
  <2>3. Cardinality(A) <= Cardinality(B)
    BY <2>1, FS_Subset
  <2> QED
    BY <2>2, <2>3
<1>8. PICK p \in {100, 120, 156}, q \in {100, 120, 156} : p = bonus_of(A) /\ q = bonus_of(B) /\ p <= q
  BY <1>7 DEF bonus_of
<1>9. PICK v \in Nat, w \in Nat : v = (x * p) \div 100 /\ w = (y * q) \div 100 /\ v <= w
  <2>1. x * p <= y * q /\ x * p \in Nat /\ y * q \in Nat
    BY <1>6, <1>8
  <2>2. PICK i \in Nat, j \in Nat : i = x * p /\ j = y * q /\ i <= j
    BY <2>1
  <2>3. i \div 100 <= j \div 100 /\ i \div 100 \in Nat /\ j \div 100 \in Nat
    BY <2>2
  <2> QED
    BY <2>2, <2>3
<1>10. Whole \in Nat /\ Min({v, Whole}) = (IF v <= Whole THEN v ELSE Whole) /\ Min({w, Whole}) = IF w <= Whole THEN w ELSE Whole
  BY SmallerOf DEF Whole
<1>11. replay_score(A) = Min({v, Whole}) /\ replay_score(B) = Min({w, Whole})
  BY <1>2, <1>6, <1>8, <1>9, ScoreIs
<1> QED
  BY <1>9, <1>10, <1>11

LEMMA AlikeJudged == ReplayInv => JudgedAlike
<1> SUFFICES ASSUME ReplayInv, NEW a \in assessments, NEW b \in assessments,
                    NEW t, t = Capture[a.trade], NEW u, u = Capture[b.trade],
                    t.wallet = u.wallet, t.market = u.market, t.notional <= u.notional
             PROVE  a.signals \subseteq b.signals /\ replay_score(a.signals) <= replay_score(b.signals)
  BY DEF JudgedAlike
<1>1. \A c \in assessments : c.trade \in 1 .. replayed /\ c.signals \in SUBSET KNOWN_SIGNALS
  <2>1. \A c \in [trade : 1 .. replayed, signals : (SUBSET KNOWN_SIGNALS) \ {{}}] :
           c.trade \in 1 .. replayed /\ c.signals \in SUBSET KNOWN_SIGNALS
    OBVIOUS
  <2> QED
    BY <2>1 DEF ReplayInv, BacktestTypeOK
<1>2. a.trade \in 1 .. Len(Capture) /\ b.trade \in 1 .. Len(Capture)
  BY <1>1, CaptureIs DEF ReplayInv, BacktestTypeOK
<1>3. /\ t.notional \in Nat /\ u.notional \in Nat /\ snapshot_of[t.market].daily_volume \in Nat
  BY <1>2, CaptureIs
<1> PICK k, m : /\ k = (wallet_cache[t.wallet] = "known")
                /\ m = IF market_cache[t.market] = "known" THEN snapshot_of[t.market] ELSE NoSnapshot
  OBVIOUS
<1>4. a.signals = signals_of(t, k, m) /\ b.signals = signals_of(u, k, m)
  BY DEF ReplayInv, JudgedBy, judged
<1>5. m = NoSnapshot \/ m.daily_volume \in Nat
  BY <1>3
<1>6. signals_of(t, k, m) \subseteq signals_of(u, k, m)
  BY <1>3, <1>5, LargerHasSignals
<1>7. a.signals \subseteq b.signals
  BY <1>4, <1>6, Zenon
<1> QED
  BY <1>1, <1>7, ScoreGrows

\* Whatever the resolvers fail at and whichever trades the capture holds, larger
\* trades of a wallet in a market have all signals of smaller ones and score no
\* less (replay.py, __main__.py).
THEOREM ReplayJudgesAlike == BacktestSpec => []JudgedAlike
<1> QED
  BY AlikeJudged, ReplayInvHolds, PTL
=============================================================================
