------------------------- MODULE AssignComposerProofs -------------------------
(***************************************************************************)
(* Proofs about AssignComposer: an answer always finds the composer        *)
(* waiting for it, no previewed draft is let go of and no approval posture *)
(* strays, for any staff, texts, number of tasks and failures.  Before     *)
(* that, of PlanDrafts, for any staff and any number of drafts: of the     *)
(* amendments of a task at most one can be confirmed, confirming it takes  *)
(* away nothing that was started, and the plan of every task verifies.     *)
(***************************************************************************)
EXTENDS AssignComposer, FiniteSetTheorems, SequenceTheorems, TLAPS

-----------------------------------------------------------------------------
(***************************************************************************)
(* Rows at some places of a plan: what Among keeps of a sequence.          *)
(***************************************************************************)
(* A row of a plan, and what its hash holds of it.                          *)
Ids     == {"s1", "s2", "n", "review"}
PlanRow == [id : Ids, who : Staff, mail : BOOLEAN, sys : BOOLEAN,
            status : {"pending", "running", "done", "failed"}]
Mat     == [id : Ids, who : Staff, mail : BOOLEAN]

(* at enumerates places upwards.                                            *)
Climbs(at) == \A k, l \in DOMAIN at : k < l => at[k] < at[l]

(* Of a set of numbers one is least.                                         *)
LEMMA Least ==
    ASSUME NEW S, S \subseteq Nat, S # {} PROVE \E x \in S : \A y \in S : x <= y
<1> DEFINE Less == OpToRel(<, Nat)
<1>1. \A x, y \in Nat : y < x => <<y, x>> \in Less
  BY DEF OpToRel
<1>2. PICK x \in S : \A y \in S : ~(<<y, x>> \in Less)
  BY NatLessThanWellFounded, WFMin DEF OpToRel
<1> HIDE DEF Less
<1>3. \A y \in S : x <= y
  <2>1. TAKE y \in S
  <2>2. x \in Nat /\ y \in Nat /\ ~(y < x) BY <1>1, <1>2
  <2>. QED BY <2>2
<1>. QED BY <1>3

(* Counting a finite set of places upwards: each gets the number of those   *)
(* that are not above it.                                                   *)
LEMMA ClimbsOnto ==
    ASSUME NEW K, K \subseteq Nat, IsFiniteSet(K),
           NEW at \in [1..Cardinality(K) -> K], Climbs(at)
    PROVE  at \in Bijection(1..Cardinality(K), K)
<1>. DEFINE n == Cardinality(K)
<1>1. n \in Nat BY FS_CardinalityType
<1>. HIDE DEF n
<1>2. ASSUME NEW k \in 1..n, NEW l \in 1..n, at[k] = at[l] PROVE k = l
  <2>1. at[k] \in Nat /\ at[l] \in Nat BY DEF n
  <2>2. k < l \/ l < k \/ k = l BY <1>1
  <2>. QED BY <1>2, <2>1, <2>2 DEF Climbs, n
<1>3. at \in Injection(1..n, K) BY <1>2 DEF Injection, IsInjective, n
<1>4. IsFiniteSet(1..n) /\ Cardinality(1..n) = n BY <1>1, FS_Interval
<1>5. at \in Surjection(1..n, K) BY <1>3, <1>4, FS_Injection DEF n
<1>. QED BY <1>3, <1>5 DEF Bijection, n

(* A finite set of places has one ascent.                                    *)
LEMMA OneAscent ==
    ASSUME NEW K, K \subseteq Nat, IsFiniteSet(K),
           NEW at \in [1..Cardinality(K) -> K], Climbs(at),
           NEW bt \in [1..Cardinality(K) -> K], Climbs(bt)
    PROVE  at = bt
<1>. DEFINE n == Cardinality(K)
            Differ == {k \in 1..n : at[k] # bt[k]}
<1>1. n \in Nat BY FS_CardinalityType
<1>2. at \in Bijection(1..n, K) /\ bt \in Bijection(1..n, K) BY ClimbsOnto
<1>. HIDE DEF n
<1>. SUFFICES ASSUME at # bt PROVE FALSE OBVIOUS
<1>3. Differ # {}
  <2>1. SUFFICES ASSUME \A k \in 1..n : at[k] = bt[k] PROVE FALSE OBVIOUS
  <2>2. at = [k \in 1..n |-> at[k]] /\ bt = [k \in 1..n |-> bt[k]] BY DEF n
  <2>. QED BY <2>1, <2>2
<1>5. Differ \subseteq Nat BY <1>1
<1>6. PICK k \in Differ : \A l \in Differ : k <= l
  <2>. HIDE DEF Differ
  <2>. QED BY <1>3, <1>5, Least
<1>7. k \in 1..n /\ at[k] # bt[k] /\ \A l \in 1..n : l < k => at[l] = bt[l]
  <2>1. \A l \in 1..n : l < k => ~(k <= l) BY <1>1, <1>6
  <2>. QED BY <1>6, <2>1
<1>2a. /\ \A i, j \in 1..n : (at[i] = at[j] \/ bt[i] = bt[j]) => i = j
  BY <1>2 DEF Bijection, Injection, IsInjective
<1>8. at[k] \in K /\ bt[k] \in K /\ \A l \in 1..n : at[l] \in Nat /\ bt[l] \in Nat
  BY <1>7 DEF n
<1>9. PICK l \in 1..n : bt[l] = at[k] BY <1>2, <1>8 DEF Bijection, Surjection
<1>10. PICK m \in 1..n : at[m] = bt[k] BY <1>2, <1>8 DEF Bijection, Surjection
<1>11. ~(l < k) /\ ~(m < k)
  <2>1. CASE l < k
    <3>1. at[l] = at[k] BY <2>1, <1>7, <1>9
    <3>. QED BY <2>1, <3>1, <1>2a, <1>7, <1>1
  <2>2. CASE m < k
    <3>1. bt[m] = bt[k] BY <2>2, <1>7, <1>10
    <3>. QED BY <2>2, <3>1, <1>2a, <1>7, <1>1
  <2>. QED BY <2>1, <2>2
<1>12. k < l /\ k < m BY <1>1, <1>7, <1>9, <1>10, <1>11
<1>13. bt[k] < at[k] /\ at[k] < bt[k]
  <2>1. DOMAIN bt = 1..n /\ DOMAIN at = 1..n BY DEF n
  <2>. QED BY <1>7, <1>9, <1>10, <1>12, <2>1 DEF Climbs
<1>. QED BY <1>13, <1>8, <1>7

(* A finite set of places has an ascent.                                     *)
LEMMA AnAscent ==
    ASSUME NEW K, K \subseteq Nat, IsFiniteSet(K)
    PROVE  \E at \in [1..Cardinality(K) -> K] : Climbs(at)
<1>. DEFINE n == Cardinality(K)
            Upto(i) == {j \in K : j <= i}
            r == [i \in K |-> Cardinality(Upto(i))]
<1>1. n \in Nat BY FS_CardinalityType
<1>2. ASSUME NEW i \in K PROVE r[i] \in 1..n
  <2>1. Upto(i) \subseteq K /\ Upto(i) # {} OBVIOUS
  <2>. HIDE DEF Upto
  <2>2. IsFiniteSet(Upto(i)) /\ Cardinality(Upto(i)) <= n BY <2>1, FS_Subset
  <2>3. Cardinality(Upto(i)) \in Nat /\ Cardinality(Upto(i)) # 0
    BY <2>1, <2>2, FS_CardinalityType, FS_EmptySet
  <2>. QED BY <1>1, <2>2, <2>3
<1>3. ASSUME NEW i \in K, NEW j \in K, i < j PROVE r[i] < r[j]
  <2>1. Upto(i) \subseteq Upto(j) /\ j \in Upto(j) /\ j \notin Upto(i) /\ Upto(j) \subseteq K
    <3>1. i \in Nat /\ j \in Nat /\ ~(j <= i) /\ j <= j BY <1>3
    <3>2. \A x \in K : x <= i => x <= j BY <1>3, <3>1
    <3>. QED BY <3>1, <3>2
  <2>. HIDE DEF Upto
  <2>2. IsFiniteSet(Upto(j)) BY <2>1, FS_Subset
  <2>3. IsFiniteSet(Upto(i)) /\ Cardinality(Upto(i)) <= Cardinality(Upto(j))
        /\ Cardinality(Upto(i)) # Cardinality(Upto(j))
    BY <2>1, <2>2, FS_Subset
  <2>4. Cardinality(Upto(i)) \in Nat /\ Cardinality(Upto(j)) \in Nat
    BY <2>2, <2>3, FS_CardinalityType
  <2>. QED BY <2>3, <2>4
<1>4. r \in [K -> 1..n] BY <1>2
<1>. HIDE DEF r, Upto, n
<1>5. ASSUME NEW i \in K, NEW j \in K, r[i] = r[j] PROVE i = j
  <2>1. r[i] \in Nat BY <1>1, <1>2
  <2>2. i < j \/ j < i \/ i = j OBVIOUS
  <2>. QED BY <1>3, <1>5, <2>1, <2>2
<1>6. r \in Injection(K, 1..n) BY <1>4, <1>5 DEF Injection, IsInjective
<1>7. IsFiniteSet(1..n) /\ Cardinality(1..n) = n BY <1>1, FS_Interval
<1>8. r \in Surjection(K, 1..n) BY <1>6, <1>7, FS_Injection DEF n
<1>. DEFINE at == [k \in 1..n |-> CHOOSE i \in K : r[i] = k]
<1>9. ASSUME NEW k \in 1..n PROVE at[k] \in K /\ r[at[k]] = k
  <2>1. \E i \in K : r[i] = k BY <1>8 DEF Surjection
  <2>. QED BY <2>1
<1>10. at \in [1..n -> K] BY <1>9
<1>11. Climbs(at)
  <2>1. SUFFICES ASSUME NEW k \in 1..n, NEW l \in 1..n, k < l PROVE at[k] < at[l]
    BY <1>10 DEF Climbs
  <2>2. at[k] \in K /\ at[l] \in K /\ r[at[k]] = k /\ r[at[l]] = l BY <1>9
  <2>. HIDE DEF at
  <2>3. at[k] \in Nat /\ at[l] \in Nat BY <2>2
  <2>4. at[k] < at[l] \/ at[l] < at[k] \/ at[k] = at[l] BY <2>3
  <2>5. ~(at[l] < at[k])
    <3>1. SUFFICES ASSUME at[l] < at[k] PROVE FALSE OBVIOUS
    <3>2. r[at[l]] < r[at[k]] BY <3>1, <2>2, <1>3
    <3>. QED BY <3>2, <2>2, <2>1, <1>1
  <2>6. at[k] # at[l] BY <2>1, <2>2, <1>1
  <2>. QED BY <2>4, <2>5, <2>6
<1>. HIDE DEF at
<1>. QED BY <1>10, <1>11 DEF n

\* Ascending lists every place of a finite set once, in order.
LEMMA AscendingFacts ==
    ASSUME NEW K, K \subseteq Nat, IsFiniteSet(K)
    PROVE  /\ Cardinality(K) \in Nat
           /\ Ascending(K) \in [1..Cardinality(K) -> K]
           /\ Climbs(Ascending(K))
           /\ \A i \in K : \E k \in 1..Cardinality(K) : Ascending(K)[k] = i
           /\ \A k, l \in 1..Cardinality(K) : Ascending(K)[k] = Ascending(K)[l] => k = l
<1>. DEFINE n == Cardinality(K)  at == Ascending(K)
<1>1. n \in Nat BY FS_CardinalityType
<1>2. at \in [1..n -> K] /\ \A k, l \in DOMAIN at : k < l => at[k] < at[l]
  BY AnAscent DEF Ascending, Climbs
<1>. HIDE DEF at
<1>3. at \in Bijection(1..n, K) BY <1>2, ClimbsOnto DEF Climbs
<1>. QED BY <1>1, <1>2, <1>3 DEF at, Climbs, Bijection, Injection, IsInjective, Surjection

(* Whoever climbs all of the places takes the ascent.                        *)
LEMMA AscendingIs ==
    ASSUME NEW K, K \subseteq Nat, NEW n \in Nat, NEW at \in [1..n -> K], Climbs(at),
           \A i \in K : \E k \in 1..n : at[k] = i
    PROVE  IsFiniteSet(K) /\ Cardinality(K) = n /\ Ascending(K) = at
<1>1. ASSUME NEW k \in 1..n, NEW l \in 1..n, at[k] = at[l] PROVE k = l
  <2>1. at[k] \in Nat /\ at[l] \in Nat OBVIOUS
  <2>2. k < l \/ l < k \/ k = l OBVIOUS
  <2>. QED BY <1>1, <2>1, <2>2 DEF Climbs
<1>2. at \in Bijection(1..n, K)
  BY <1>1 DEF Bijection, Injection, IsInjective, Surjection
<1>3. IsFiniteSet(1..n) /\ Cardinality(1..n) = n BY FS_Interval
<1>4. IsFiniteSet(K) /\ Cardinality(K) = n BY <1>2, <1>3, FS_Bijection DEF ExistsBijection
<1>. QED BY <1>4, OneAscent, AscendingFacts

(* The rows at some places: theirs, all of them, no place twice.             *)
LEMMA AmongFacts ==
    ASSUME NEW s \in Seq(PlanRow), NEW K, K \subseteq DOMAIN s
    PROVE  /\ IsFiniteSet(K) /\ K \subseteq Nat
           /\ Among(s, K) \in Seq(PlanRow) /\ DOMAIN Among(s, K) = 1..Cardinality(K)
           /\ Len(Among(s, K)) = Cardinality(K)
           /\ \A k \in DOMAIN Among(s, K) : Ascending(K)[k] \in K /\ Among(s, K)[k] = s[Ascending(K)[k]]
           /\ \A i \in K : \E k \in 1..Cardinality(K) : Among(s, K)[k] = s[i]
<1>. DEFINE n == Cardinality(K)  at == Ascending(K)  f == [k \in 1..n |-> s[at[k]]]
<1>1. IsFiniteSet(K) /\ K \subseteq Nat
  <2>1. DOMAIN s = 1..Len(s) /\ Len(s) \in Nat OBVIOUS
  <2>2. IsFiniteSet(1..Len(s)) BY <2>1, FS_Interval
  <2>. QED BY <2>1, <2>2, FS_Subset
<1>2. n \in Nat /\ at \in [1..n -> K] /\ \A i \in K : \E k \in 1..n : at[k] = i
  BY <1>1, AscendingFacts
<1>3. Among(s, K) = f BY <1>2 DEF Among
<1>. HIDE DEF n, at
<1>4. f \in [1..n -> PlanRow] BY <1>2
<1>5. f \in Seq(PlanRow) /\ Len(f) = n /\ DOMAIN f = 1..n BY <1>2, <1>4
<1>6. \A k \in 1..n : at[k] \in K /\ f[k] = s[at[k]] BY <1>2
<1>7. \A i \in K : \E k \in 1..n : f[k] = s[i] BY <1>2
<1>. HIDE DEF f
<1>8. /\ IsFiniteSet(K) /\ K \subseteq Nat
      /\ f \in Seq(PlanRow) /\ DOMAIN f = 1..n /\ Len(f) = n
      /\ \A k \in DOMAIN f : at[k] \in K /\ f[k] = s[at[k]]
      /\ \A i \in K : \E k \in 1..n : f[k] = s[i]
  BY <1>1, <1>5, <1>6, <1>7
<1>. QED BY <1>3, <1>8 DEF n, at
\* Rows that read the same to the hash give the same plan.
LEMMA AmongHash ==
    ASSUME NEW s \in Seq(PlanRow), NEW t \in Seq(PlanRow), NEW K, K \subseteq DOMAIN s, K \subseteq DOMAIN t,
           \A i \in K : Material(s[i]) = Material(t[i])
    PROVE  Hash(Among(s, K)) = Hash(Among(t, K))
<1>. DEFINE f == Among(s, K)  g == Among(t, K)  at == Ascending(K)
<1>1. /\ DOMAIN f = 1..Cardinality(K) /\ DOMAIN g = 1..Cardinality(K)
      /\ \A k \in DOMAIN f : at[k] \in K /\ f[k] = s[at[k]] /\ g[k] = t[at[k]]
  <2>1. DOMAIN f = 1..Cardinality(K) /\ \A k \in DOMAIN f : at[k] \in K /\ f[k] = s[at[k]]
    BY AmongFacts
  <2>2. DOMAIN g = 1..Cardinality(K) /\ \A k \in DOMAIN g : at[k] \in K /\ g[k] = t[at[k]]
    BY AmongFacts
  <2>. QED BY <2>1, <2>2
<1>. HIDE DEF f, g, at
<1>2. \A k \in DOMAIN f : Material(f[k]) = Material(g[k]) BY <1>1
<1>3. Hash(f) = Hash(g) BY <1>1, <1>2, Zenon DEF Hash
<1>. QED BY <1>3 DEF f, g

\* L are the places K0 among those of K, and all of what follows them.
Continues(s, K, K0, tl, L) ==
    /\ s \in Seq(PlanRow) /\ tl \in Seq(PlanRow) /\ K \subseteq DOMAIN s /\ K0 \subseteq K
    /\ L \subseteq 1..(Cardinality(K) + Len(tl))
    /\ \A k \in 1..Cardinality(K) : k \in L <=> Ascending(K)[k] \in K0
    /\ \A k \in 1..Len(tl) : Cardinality(K) + k \in L

\* Taking places among rows that were taken and continued is taking fewer and
\* continuing those.
LEMMA AmongConcat ==
    ASSUME NEW s, NEW K, NEW K0, NEW tl, NEW L, Continues(s, K, K0, tl, L)
    PROVE  Among(Among(s, K) \o tl, L) = Among(s, K0) \o tl
<1>. USE DEF Continues
<1>. DEFINE m == Cardinality(K)  m0 == Cardinality(K0)  q == Len(tl)
            e == Ascending(K)  e0 == Ascending(K0)
            f == Among(s, K)  f0 == Among(s, K0)  g == f \o tl
<1>1. /\ f \in Seq(PlanRow) /\ Len(f) = m /\ DOMAIN f = 1..m /\ K \subseteq Nat
      /\ \A k \in 1..m : f[k] = s[e[k]]
      /\ m \in Nat /\ e \in [1..m -> K] /\ Climbs(e)
      /\ \A i \in K : \E k \in 1..m : e[k] = i
      /\ \A k, l \in 1..m : e[k] = e[l] => k = l
  <2>1. /\ IsFiniteSet(K) /\ K \subseteq Nat /\ f \in Seq(PlanRow) /\ Len(f) = m /\ DOMAIN f = 1..m
        /\ \A k \in 1..m : f[k] = s[e[k]]
    BY AmongFacts
  <2>. QED BY <2>1, AscendingFacts
<1>2. /\ f0 \in Seq(PlanRow) /\ Len(f0) = m0 /\ DOMAIN f0 = 1..m0
      /\ \A k \in 1..m0 : f0[k] = s[e0[k]]
      /\ m0 \in Nat /\ e0 \in [1..m0 -> K0] /\ Climbs(e0)
      /\ \A i \in K0 : \E k \in 1..m0 : e0[k] = i
  <2>0. K0 \subseteq DOMAIN s OBVIOUS
  <2>1. /\ IsFiniteSet(K0) /\ K0 \subseteq Nat /\ f0 \in Seq(PlanRow) /\ Len(f0) = m0 /\ DOMAIN f0 = 1..m0
        /\ \A k \in 1..m0 : f0[k] = s[e0[k]]
    BY <2>0, AmongFacts
  <2>. QED BY <2>1, AscendingFacts
<1>3. q \in Nat OBVIOUS
<1>4. /\ L \subseteq 1..(m + q)
      /\ \A k \in 1..m : k \in L <=> e[k] \in K0
      /\ \A k \in 1..q : m + k \in L
  OBVIOUS
<1>. HIDE DEF m, m0, e, e0, f, f0
<1>5. /\ g \in Seq(PlanRow) /\ Len(g) = m + q /\ DOMAIN g = 1..(m + q)
      /\ \A k \in 1..m : g[k] = f[k]
      /\ \A k \in 1..q : g[m + k] = tl[k]
  <2>1. /\ g \in Seq(PlanRow) /\ Len(g) = m + q
        /\ \A k \in 1..(m + q) : g[k] = IF k <= m THEN f[k] ELSE tl[k - m]
    BY <1>1, ConcatProperties
  <2>. HIDE DEF g, q
  <2>2. DOMAIN g = 1..(m + q) BY <2>1
  <2>3. ASSUME NEW k \in 1..m PROVE g[k] = f[k] BY <2>1, <1>1, <1>3
  <2>4. ASSUME NEW k \in 1..q PROVE g[m + k] = tl[k]
    <3>1. m + k \in 1..(m + q) /\ ~(m + k <= m) /\ (m + k) - m = k BY <1>1, <1>3
    <3>. QED BY <2>1, <3>1
  <2>. QED BY <2>1, <2>2, <2>3, <2>4
<1>. DEFINE Low(k) == CHOOSE l \in 1..m : e[l] = e0[k]
            h == [k \in 1..(m0 + q) |-> IF k <= m0 THEN Low(k) ELSE m + (k - m0)]
<1>6. ASSUME NEW k \in 1..m0 PROVE Low(k) \in 1..m /\ e[Low(k)] = e0[k] /\ e0[k] \in K0
  <2>1. e0[k] \in K0 BY <1>2
  <2>2. \E l \in 1..m : e[l] = e0[k] BY <2>1, <1>1
  <2>. QED BY <2>1, <2>2
<1>. HIDE DEF Low, g
<1>7. /\ \A k \in 1..(m0 + q) : k <= m0 => h[k] = Low(k) /\ k \in 1..m0
      /\ \A k \in 1..(m0 + q) : ~(k <= m0) => h[k] = m + (k - m0) /\ k - m0 \in 1..q
  BY <1>2, <1>3
<1>8. h \in [1..(m0 + q) -> L]
  <2>1. ASSUME NEW k \in 1..(m0 + q) PROVE h[k] \in L
    <3>1. CASE k <= m0
      <4>1. Low(k) \in 1..m /\ e[Low(k)] \in K0 /\ h[k] = Low(k) BY <3>1, <1>6, <1>7
      <4>. QED BY <4>1, <1>4
    <3>2. CASE ~(k <= m0)
      <4>1. h[k] = m + (k - m0) /\ k - m0 \in 1..q BY <3>2, <1>7
      <4>. QED BY <4>1, <1>4
    <3>. QED BY <3>1, <3>2
  <2>. QED BY <2>1
<1>9. \A k \in 1..(m0 + q) : g[h[k]] = IF k <= m0 THEN f0[k] ELSE tl[k - m0]
  <2>1. SUFFICES ASSUME NEW k \in 1..(m0 + q)
                 PROVE  g[h[k]] = IF k <= m0 THEN f0[k] ELSE tl[k - m0]
    OBVIOUS
  <2>2. CASE k <= m0
    <3>1. k \in 1..m0 /\ h[k] = Low(k) BY <2>2, <1>7
    <3>2. Low(k) \in 1..m /\ e[Low(k)] = e0[k] BY <3>1, <1>6
    <3>3. g[Low(k)] = s[e0[k]] BY <3>2, <1>1, <1>5
    <3>. QED BY <2>2, <3>1, <3>3, <1>2
  <2>3. CASE ~(k <= m0)
    <3>1. h[k] = m + (k - m0) /\ k - m0 \in 1..q BY <2>3, <1>7
    <3>. QED BY <2>3, <3>1, <1>5
  <2>. QED BY <2>2, <2>3
<1>10. Climbs(h)
  <2>1. SUFFICES ASSUME NEW k \in 1..(m0 + q), NEW l \in 1..(m0 + q), k < l PROVE h[k] < h[l]
    BY DEF Climbs
  <2>2. CASE l <= m0
    <3>1. k \in 1..m0 /\ l \in 1..m0 BY <2>1, <2>2, <1>2, <1>3
    <3>2. /\ h[k] = Low(k) /\ h[l] = Low(l) BY <3>1, <1>7, <2>2, <2>1, <1>2
    <3>3. /\ Low(k) \in 1..m /\ Low(l) \in 1..m
          /\ e[Low(k)] = e0[k] /\ e[Low(l)] = e0[l]
      BY <3>1, <1>6
    <3>4. e0[k] < e0[l]
      <4>1. DOMAIN e0 = 1..m0 BY <1>2
      <4>. QED BY <4>1, <3>1, <2>1, <1>2 DEF Climbs
    <3>5. e0[k] \in Nat /\ e0[l] \in Nat BY <3>1, <1>1, <1>2
    <3>6. ~(Low(l) < Low(k)) /\ Low(l) # Low(k)
      <4>1. DOMAIN e = 1..m BY <1>1
      <4>2. Low(l) < Low(k) => e0[l] < e0[k] BY <4>1, <3>3, <1>1 DEF Climbs
      <4>3. Low(l) = Low(k) => e0[l] = e0[k] BY <3>3
      <4>. QED BY <4>2, <4>3, <3>4, <3>5
    <3>. QED BY <3>2, <3>3, <3>6
  <2>3. CASE k <= m0 /\ ~(l <= m0)
    <3>1. h[k] \in 1..m BY <2>3, <1>6, <1>7
    <3>2. h[l] = m + (l - m0) /\ l - m0 \in 1..q BY <2>3, <1>7
    <3>. QED BY <3>1, <3>2, <1>1, <1>3
  <2>4. CASE ~(k <= m0)
    <3>1. ~(l <= m0) BY <2>1, <2>4, <1>2, <1>3
    <3>2. h[k] = m + (k - m0) /\ h[l] = m + (l - m0) BY <2>4, <3>1, <1>7
    <3>. QED BY <3>2, <2>1, <1>1, <1>2, <1>3
  <2>. QED BY <2>2, <2>3, <2>4
<1>11. \A i \in L : \E k \in 1..(m0 + q) : h[k] = i
  <2>1. SUFFICES ASSUME NEW i \in L PROVE \E k \in 1..(m0 + q) : h[k] = i OBVIOUS
  <2>2. i \in 1..(m + q) /\ (i \in 1..m => e[i] \in K0) BY <1>4
  <2>3. CASE i <= m
    <3>1. i \in 1..m /\ e[i] \in K0 BY <2>2, <2>3, <1>1, <1>3
    <3>2. PICK k \in 1..m0 : e0[k] = e[i] BY <3>1, <1>2
    <3>3. Low(k) = i BY <3>1, <3>2, <1>1, <1>6
    <3>4. k \in 1..(m0 + q) /\ k <= m0 BY <1>2, <1>3
    <3>. QED BY <3>3, <3>4, <1>7
  <2>4. CASE ~(i <= m)
    <3>1. i - m \in 1..q BY <2>2, <2>4, <1>1, <1>3
    <3>. DEFINE k == m0 + (i - m)
    <3>2. k \in 1..(m0 + q) /\ ~(k <= m0) /\ m + (k - m0) = i BY <3>1, <1>1, <1>2, <1>3, <2>2
    <3>. HIDE DEF k
    <3>. QED BY <3>2, <1>7
  <2>. QED BY <2>3, <2>4
<1>12. L \subseteq Nat /\ m0 + q \in Nat /\ L \subseteq DOMAIN g BY <1>1, <1>2, <1>3, <1>4, <1>5
<1>. HIDE DEF h
<1>13. Cardinality(L) = m0 + q /\ Ascending(L) = h
  <2>. DEFINE w == m0 + q
  <2>1. /\ w \in Nat /\ h \in [1..w -> L] /\ \A i \in L : \E k \in 1..w : h[k] = i
    BY <1>8, <1>11, <1>12
  <2>. HIDE DEF w
  <2>2. Cardinality(L) = w /\ Ascending(L) = h BY <2>1, <1>10, <1>12, AscendingIs
  <2>. QED BY <2>2 DEF w
<1>14. Among(g, L) = [k \in 1..(m0 + q) |-> g[h[k]]] BY <1>8, <1>13 DEF Among
<1>15. /\ f0 \o tl \in Seq(PlanRow) /\ Len(f0 \o tl) = m0 + q
       /\ \A k \in 1..(m0 + q) : (f0 \o tl)[k] = IF k <= m0 THEN f0[k] ELSE tl[k - m0]
  BY <1>2, ConcatProperties
<1>16. Among(g, L) = f0 \o tl
  <2>1. Among(g, L) \in Seq(PlanRow) /\ Len(Among(g, L)) = m0 + q BY <1>5, <1>12, <1>13, AmongFacts
  <2>2. \A k \in 1..(m0 + q) : Among(g, L)[k] = g[h[k]] BY <1>14
  <2>. DEFINE x == Among(g, L)  y == f0 \o tl  w == m0 + q
  <2>3. /\ x \in Seq(PlanRow) /\ y \in Seq(PlanRow) /\ Len(x) = w /\ Len(y) = w
        /\ \A k \in 1..w : x[k] = y[k]
    BY <1>9, <1>15, <2>1, <2>2
  <2>. HIDE DEF x, y, w
  <2>4. x = y BY <2>3, SeqEqual
  <2>. QED BY <2>4 DEF x, y
<1>. QED BY <1>16 DEF f, f0, g

-----------------------------------------------------------------------------
(***************************************************************************)
(* Plans and their hashes.                                                 *)
(***************************************************************************)
(* The rows of a plan have an id each; the inserted one is the review.       *)
WellFormed(rows) ==
    /\ rows \in Seq(PlanRow)
    /\ \A i \in DOMAIN rows : rows[i].mail => Mail
    /\ \A i, j \in DOMAIN rows : rows[i].id = rows[j].id => i = j
    /\ \A i \in DOMAIN rows : rows[i].sys <=> rows[i].id = "review"

LEMMA HashFits ==
    ASSUME NEW s \in Seq(PlanRow)
    PROVE  /\ Hash(s) \in Seq(Mat) /\ Len(Hash(s)) = Len(s) /\ DOMAIN Hash(s) = DOMAIN s
           /\ \A i \in DOMAIN s : Hash(s)[i] = Material(s[i])
<1>. DEFINE h == Hash(s)  n == Len(s)
<1>1. n \in Nat /\ DOMAIN s = 1..n OBVIOUS
<1>2. h = [i \in 1..n |-> Material(s[i])] BY <1>1 DEF Hash
<1>3. \A i \in 1..n : Material(s[i]) \in Mat
  <2>1. \A i \in 1..n : s[i] \in PlanRow BY <1>1
  <2>. QED BY <2>1 DEF PlanRow, Mat, Material
<1>4. h \in [1..n -> Mat] BY <1>2, <1>3
<1>5. \A i \in 1..n : h[i] = Material(s[i]) BY <1>2
<1>. HIDE DEF h
<1>. QED BY <1>1, <1>4, <1>5 DEF h

LEMMA HashConcat ==
    ASSUME NEW s \in Seq(PlanRow), NEW t \in Seq(PlanRow) PROVE Hash(s \o t) = Hash(s) \o Hash(t)
<1>. DEFINE x == Hash(s \o t)  y == Hash(s) \o Hash(t)  n == Len(s) + Len(t)
<1>1. /\ s \o t \in Seq(PlanRow) /\ Len(s \o t) = n
      /\ \A i \in 1..n : (s \o t)[i] = IF i <= Len(s) THEN s[i] ELSE t[i - Len(s)]
  BY ConcatProperties
<1>2. /\ x \in Seq(Mat) /\ Len(x) = n /\ DOMAIN (s \o t) = 1..n
      /\ \A i \in 1..n : x[i] = Material((s \o t)[i])
  <2>. DEFINE u == s \o t
  <2>1. u \in Seq(PlanRow) /\ Len(u) = n BY <1>1
  <2>. HIDE DEF u, n
  <2>2. DOMAIN u = 1..n BY <2>1
  <2>. QED BY <2>1, <2>2, HashFits DEF u
<1>3. /\ Hash(s) \in Seq(Mat) /\ Len(Hash(s)) = Len(s) /\ Hash(t) \in Seq(Mat) /\ Len(Hash(t)) = Len(t)
      /\ \A i \in 1..Len(s) : Hash(s)[i] = Material(s[i])
      /\ \A i \in 1..Len(t) : Hash(t)[i] = Material(t[i])
  BY HashFits
<1>4. /\ y \in Seq(Mat) /\ Len(y) = n
      /\ \A i \in 1..n : y[i] = IF i <= Len(s) THEN Hash(s)[i] ELSE Hash(t)[i - Len(s)]
  <2>. DEFINE hs == Hash(s)  ht == Hash(t)
  <2>1. hs \in Seq(Mat) /\ Len(hs) = Len(s) /\ ht \in Seq(Mat) /\ Len(ht) = Len(t) BY <1>3
  <2>. HIDE DEF hs, ht
  <2>2. /\ hs \o ht \in Seq(Mat) /\ Len(hs \o ht) = Len(hs) + Len(ht)
        /\ \A i \in 1..(Len(hs) + Len(ht)) : (hs \o ht)[i] = IF i <= Len(hs) THEN hs[i] ELSE ht[i - Len(hs)]
    BY <2>1, ConcatProperties
  <2>3. /\ hs \o ht \in Seq(Mat) /\ Len(hs \o ht) = n
        /\ \A i \in 1..n : (hs \o ht)[i] = IF i <= Len(s) THEN hs[i] ELSE ht[i - Len(s)]
    BY <2>1, <2>2, Zenon
  <2>. QED BY <2>3, Zenon DEF hs, ht
<1>5. Len(s) \in Nat /\ Len(t) \in Nat OBVIOUS
<1>6. ASSUME NEW i \in 1..n PROVE x[i] = y[i]
  <2>1. CASE i <= Len(s)
    <3>1. i \in 1..Len(s) BY <2>1, <1>5
    <3>2. x[i] = Material(s[i]) BY <2>1, <1>1, <1>2
    <3>3. y[i] = Hash(s)[i] BY <2>1, <1>4
    <3>. QED BY <3>1, <3>2, <3>3, <1>3
  <2>2. CASE ~(i <= Len(s))
    <3>1. i - Len(s) \in 1..Len(t) BY <2>2, <1>5
    <3>2. x[i] = Material(t[i - Len(s)]) BY <2>2, <1>1, <1>2
    <3>3. y[i] = Hash(t)[i - Len(s)] BY <2>2, <1>4
    <3>. QED BY <3>1, <3>2, <3>3, <1>3
  <2>. QED BY <2>1, <2>2
<1>. HIDE DEF x, y, n
<1>7. x = y BY <1>2, <1>4, <1>6, SeqEqual
<1>. QED BY <1>7 DEF x, y

(* The places of the confirmed rows that are under way.                     *)
Under(rows) == {i \in DOMAIN rows : ~rows[i].sys /\ rows[i].status # "pending"}

KeepsAll(rows, K, new) == \A i \in K : \E j \in DOMAIN new : new[j] = rows[i]
Swaps(rows, base, x, K, new) ==
    /\ WellFormed(rows) /\ WellFormed(base) /\ Hash(base) = Hash(rows)
    /\ x \in PlanRow /\ x.id = "n" /\ ~x.sys /\ ~x.mail
    /\ \A k \in DOMAIN FrozenPrefix(base) : FrozenPrefix(base)[k].id # "n"
    /\ K \subseteq DOMAIN rows /\ \A i \in DOMAIN rows : i \in K <=> rows[i].id \notin PendingIds(base)
    /\ new = Among(rows, K) \o <<x>>

\* What is swapped in for the pending steps of a plan with the hash of the one
\* that was read leaves the plan that the draft's hash was made of.
LEMMA SwapVerifies ==
    ASSUME NEW rows, NEW base, NEW x, NEW K, NEW new, Swaps(rows, base, x, K, new)
    PROVE  /\ WellFormed(new)
           /\ Hash(Confirmed(new)) = FrozenPrefix(base) \o Hash(<<x>>)
           /\ KeepsAll(rows, K, new)
<1>. USE DEF Swaps
<1>1. /\ rows \in Seq(PlanRow) /\ base \in Seq(PlanRow) /\ DOMAIN base = DOMAIN rows
      /\ \A i \in DOMAIN rows : Material(rows[i]) = Material(base[i])
  BY HashFits DEF WellFormed
<1>2. \A i \in DOMAIN rows : rows[i].id = base[i].id
  <2>1. \A i \in DOMAIN rows : rows[i] \in PlanRow /\ base[i] \in PlanRow BY <1>1
  <2>. QED BY <1>1, <2>1 DEF Material
<1>3. \A i \in DOMAIN rows : rows[i].sys <=> base[i].sys BY <1>1, <1>2 DEF WellFormed
<1>4. \A i \in DOMAIN rows : i \in K <=> base[i].status # "pending"
  <2>1. \A i \in DOMAIN rows : rows[i].id \in PendingIds(base) <=>
           \E j \in DOMAIN base : base[j].status = "pending" /\ base[j].id = rows[i].id
    BY DEF PendingIds
  <2>. QED BY <2>1, <1>1, <1>2 DEF WellFormed
<1>. DEFINE K0 == Under(base)  m == Cardinality(K)  e == Ascending(K)  f == Among(rows, K)  tl == <<x>>
<1>5. /\ K \subseteq DOMAIN rows /\ K0 \subseteq K
      /\ \A i \in K : i \in K0 <=> ~rows[i].sys
  BY <1>1, <1>3, <1>4 DEF Under
<1>6. /\ tl \in Seq(PlanRow) /\ Len(tl) = 1 /\ tl[1] = x OBVIOUS
<1>7. /\ f \in Seq(PlanRow) /\ DOMAIN f = 1..m /\ Len(f) = m /\ m \in Nat
      /\ \A k \in 1..m : e[k] \in K /\ f[k] = rows[e[k]]
      /\ \A k, l \in 1..m : e[k] = e[l] => k = l
  <2>1. /\ IsFiniteSet(K) /\ K \subseteq Nat /\ f \in Seq(PlanRow) /\ DOMAIN f = 1..m /\ Len(f) = m
        /\ \A k \in 1..m : e[k] \in K /\ f[k] = rows[e[k]]
    <3>1. rows \in Seq(PlanRow) /\ K \subseteq DOMAIN rows BY <1>1, <1>5
    <3>. QED BY <3>1, AmongFacts
  <2>. QED BY <2>1, AscendingFacts
<1>. HIDE DEF K0, m, e, f, tl
<1>8. /\ new \in Seq(PlanRow) /\ Len(new) = m + 1 /\ DOMAIN new = 1..(m + 1)
      /\ \A k \in 1..m : new[k] = rows[e[k]]
      /\ new[m + 1] = x
  <2>1. new = f \o tl BY DEF f, tl
  <2>2. /\ new \in Seq(PlanRow) /\ Len(new) = m + 1
        /\ \A k \in 1..(m + 1) : new[k] = IF k <= m THEN f[k] ELSE tl[k - m]
    <3>1. f \in Seq(PlanRow) /\ tl \in Seq(PlanRow) /\ Len(f) = m /\ Len(tl) = 1 BY <1>6, <1>7
    <3>2. /\ f \o tl \in Seq(PlanRow) /\ Len(f \o tl) = Len(f) + Len(tl)
          /\ \A k \in 1..(Len(f) + Len(tl)) : (f \o tl)[k] = IF k <= Len(f) THEN f[k] ELSE tl[k - Len(f)]
      BY <3>1, ConcatProperties
    <3>. QED BY <2>1, <3>1, <3>2, Zenon
  <2>3. DOMAIN new = 1..(m + 1) BY <2>2
  <2>4. \A k \in 1..m : new[k] = f[k] BY <2>2, <1>7
  <2>5. new[m + 1] = tl[1] BY <2>2, <1>7
  <2>. QED BY <2>2, <2>3, <2>4, <2>5, <1>6, <1>7
<1>9. \A k \in 1..(m + 1) : k \in 1..m \/ k = m + 1 BY <1>7
<1>10. \A k \in 1..m : new[k].id # "n"
  <2>1. SUFFICES ASSUME NEW k \in 1..m, new[k].id = "n" PROVE FALSE OBVIOUS
  <2>2. e[k] \in K /\ rows[e[k]].id = "n" /\ e[k] \in DOMAIN rows BY <2>1, <1>5, <1>7, <1>8
  <2>3. ~rows[e[k]].sys BY <2>2 DEF WellFormed
  <2>4. e[k] \in K0 BY <2>2, <2>3, <1>5
  <2>. DEFINE g == Among(base, K0)
  <2>5. g \in Seq(PlanRow) /\ \E l \in DOMAIN g : g[l] = base[e[k]]
    <3>1. base \in Seq(PlanRow) /\ K0 \subseteq DOMAIN base BY <1>1, <1>5
    <3>2. g \in Seq(PlanRow) /\ DOMAIN g = 1..Cardinality(K0) BY <3>1, AmongFacts
    <3>3. \A i \in K0 : \E l \in 1..Cardinality(K0) : g[l] = base[i] BY <3>1, AmongFacts
    <3>. HIDE DEF g
    <3>. QED BY <3>2, <3>3, <2>4
  <2>6. PICK l \in DOMAIN g : g[l] = base[e[k]] BY <2>5
  <2>7. FrozenPrefix(base) = Hash(g) BY DEF FrozenPrefix, K0, Under
  <2>. HIDE DEF g
  <2>8. DOMAIN Hash(g) = DOMAIN g /\ Hash(g)[l] = Material(base[e[k]]) BY <2>5, <2>6, HashFits
  <2>9. Hash(g)[l].id = "n" BY <2>2, <2>8, <1>2 DEF Material
  <2>. QED BY <2>6, <2>7, <2>8, <2>9
<1>11. WellFormed(new)
  <2>1. ASSUME NEW k \in DOMAIN new, NEW l \in DOMAIN new, new[k].id = new[l].id PROVE k = l
    <3>1. CASE k \in 1..m /\ l \in 1..m
      <4>1. rows[e[k]].id = rows[e[l]].id /\ e[k] \in DOMAIN rows /\ e[l] \in DOMAIN rows
        BY <2>1, <3>1, <1>5, <1>7, <1>8
      <4>2. e[k] = e[l] BY <4>1 DEF WellFormed
      <4>. QED BY <3>1, <4>2, <1>7
    <3>2. CASE k = m + 1 \/ l = m + 1
      <4>. QED BY <2>1, <3>2, <1>8, <1>9, <1>10
    <3>. QED BY <3>1, <3>2, <1>8, <1>9
  <2>2. ASSUME NEW k \in DOMAIN new PROVE new[k].sys <=> new[k].id = "review"
    <3>1. CASE k \in 1..m
      <4>1. new[k] = rows[e[k]] /\ e[k] \in DOMAIN rows BY <3>1, <1>5, <1>7, <1>8
      <4>. QED BY <4>1 DEF WellFormed
    <3>2. CASE k = m + 1 BY <3>2, <1>8
    <3>. QED BY <3>1, <3>2, <1>8, <1>9
  <2>3. ASSUME NEW k \in DOMAIN new, new[k].mail PROVE Mail
    <3>1. CASE k \in 1..m
      <4>1. new[k] = rows[e[k]] /\ e[k] \in DOMAIN rows BY <3>1, <1>5, <1>7, <1>8
      <4>. QED BY <4>1, <2>3 DEF WellFormed
    <3>2. CASE k = m + 1 BY <2>3, <3>2, <1>8
    <3>. QED BY <3>1, <3>2, <1>8, <1>9
  <2>. QED BY <2>1, <2>2, <2>3, <1>8 DEF WellFormed
<1>12. Confirmed(new) = Among(rows, K0) \o tl
  <2>. DEFINE L == {i \in DOMAIN new : ~new[i].sys}
  <2>1. /\ L \subseteq 1..(m + Len(tl))
        /\ \A k \in 1..m : k \in L <=> e[k] \in K0
        /\ \A k \in 1..Len(tl) : m + k \in L
    <3>1. L \subseteq 1..(m + 1) BY <1>8
    <3>2. ASSUME NEW k \in 1..m PROVE k \in L <=> e[k] \in K0
      <4>1. e[k] \in K /\ new[k] = rows[e[k]] BY <1>7, <1>8
      <4>2. k \in DOMAIN new BY <1>7, <1>8
      <4>. QED BY <4>1, <4>2, <1>5
    <3>3. m + 1 \in L BY <1>7, <1>8
    <3>4. \A k \in 1..Len(tl) : k = 1 BY <1>6
    <3>. HIDE DEF L
    <3>. QED BY <3>1, <3>2, <3>3, <3>4, <1>6
  <2>2. Confirmed(new) = Among(new, L) BY DEF Confirmed
  <2>. HIDE DEF L
  <2>3. Among(f \o tl, L) = Among(rows, K0) \o tl
    <3>1. Continues(rows, K, K0, tl, L)
      BY <1>1, <1>5, <1>6, <2>1 DEF m, e, Continues
    <3>. QED BY <3>1, AmongConcat DEF f
  <2>. QED BY <2>2, <2>3 DEF f, tl
<1>13. Hash(Confirmed(new)) = Hash(Among(rows, K0)) \o Hash(tl)
  <2>1. Among(rows, K0) \in Seq(PlanRow) BY <1>1, <1>5, AmongFacts
  <2>. QED BY <2>1, <1>6, <1>12, HashConcat
<1>14. Hash(Among(rows, K0)) = Hash(Among(base, K0))
  <2>1. K0 \subseteq DOMAIN rows /\ K0 \subseteq DOMAIN base BY <1>1, <1>5
  <2>2. \A i \in K0 : Material(rows[i]) = Material(base[i]) BY <2>1, <1>1
  <2>. QED BY <2>1, <2>2, <1>1, AmongHash
<1>15. \A i \in K : \E j \in DOMAIN new : new[j] = rows[i]
  <2>1. /\ DOMAIN f = 1..m /\ \A i \in K : \E k \in 1..m : f[k] = rows[i]
    <3>1. rows \in Seq(PlanRow) /\ K \subseteq DOMAIN rows BY <1>1, <1>5
    <3>2. \A i \in K : \E k \in 1..Cardinality(K) : Among(rows, K)[k] = rows[i] BY <3>1, AmongFacts
    <3>. QED BY <3>2, <1>7 DEF f, m
  <2>2. \A k \in 1..m : k \in DOMAIN new /\ new[k] = f[k]
    <3>1. \A k \in 1..m : k \in 1..(m + 1) BY <1>7
    <3>. QED BY <3>1, <1>7, <1>8, Zenon
  <2>. QED BY <2>1, <2>2
<1>. QED BY <1>11, <1>13, <1>14, <1>15 DEF KeepsAll, FrozenPrefix, K0, Under, tl

\* Without mail the amended plan's hash holds the rows under way as they are.
LEMMA NoMailFrozen == ASSUME NEW rows, WellFormed(rows), ~Mail PROVE FrozenMaterial(rows) = FrozenPrefix(rows)
<1>. DEFINE K == Under(rows)  g == Among(rows, K)  h == FrozenPrefix(rows)
<1>1. h = Hash(g) BY DEF FrozenPrefix, Under
<1>2. /\ g \in Seq(PlanRow) /\ \A k \in DOMAIN g : Ascending(K)[k] \in K /\ g[k] = rows[Ascending(K)[k]]
  <2>1. rows \in Seq(PlanRow) /\ K \subseteq DOMAIN rows BY DEF WellFormed, Under
  <2>. QED BY <2>1, AmongFacts
<1>3. \A k \in DOMAIN g : ~g[k].mail
  <2>1. K \subseteq DOMAIN rows BY DEF Under
  <2>. HIDE DEF K, g
  <2>. QED BY <2>1, <1>2 DEF WellFormed
<1>. HIDE DEF g
<1>4. DOMAIN h = DOMAIN g /\ \A k \in DOMAIN g : h[k] = Material(g[k]) BY <1>1, <1>2, HashFits
<1>5. h = [k \in DOMAIN g |-> h[k]] BY <1>1 DEF Hash
<1>6. \A k \in DOMAIN g : [h[k] EXCEPT !.mail = FALSE] = h[k]
  <2>1. \A k \in DOMAIN g : g[k] \in PlanRow BY <1>2
  <2>2. \A k \in DOMAIN g : g[k].mail = FALSE BY <1>3, <2>1 DEF PlanRow
  <2>. QED BY <2>2, <1>4 DEF Material
<1>7. FrozenMaterial(rows) = [k \in DOMAIN h |-> [h[k] EXCEPT !.mail = FALSE]] BY DEF FrozenMaterial
<1>. HIDE DEF h
<1>8. FrozenMaterial(rows) = h BY <1>4, <1>5, <1>6, <1>7, Zenon
<1>. QED BY <1>8 DEF h

\* Rows that differ in their status only are the same plan.
LEMMA SamePlan ==
    ASSUME NEW s \in Seq(PlanRow), NEW t \in Seq(PlanRow), DOMAIN s = DOMAIN t,
           \A i \in DOMAIN s : s[i].sys = t[i].sys /\ Material(s[i]) = Material(t[i])
    PROVE  Hash(Confirmed(s)) = Hash(Confirmed(t))
<1>. DEFINE K == {i \in DOMAIN s : ~s[i].sys}
<1>1. K = {i \in DOMAIN t : ~t[i].sys} OBVIOUS
<1>2. K \subseteq DOMAIN s /\ K \subseteq DOMAIN t /\ \A i \in K : Material(s[i]) = Material(t[i]) OBVIOUS
<1>3. Confirmed(s) = Among(s, K) /\ Confirmed(t) = Among(t, K) BY <1>1 DEF Confirmed
<1>. HIDE DEF K
<1>. QED BY <1>2, <1>3, AmongHash

LEMMA RowWritten ==
    ASSUME NEW rows, WellFormed(rows), NEW i \in DOMAIN rows, NEW row \in PlanRow,
           row.id = rows[i].id, row.sys = rows[i].sys, row.mail = rows[i].mail,
           NEW new, new = [rows EXCEPT ![i] = row]
    PROVE  /\ WellFormed(new)
           /\ row.who = rows[i].who => Hash(Confirmed(new)) = Hash(Confirmed(rows))
<1>1. rows \in Seq(PlanRow) /\ DOMAIN rows = 1..Len(rows) /\ Len(rows) \in Nat BY DEF WellFormed
<1>2. new \in Seq(PlanRow) /\ DOMAIN new = DOMAIN rows
  <2>1. new \in Seq(PlanRow) /\ Len(new) = Len(rows) BY <1>1, ExceptSeq
  <2>. QED BY <1>1, <2>1
<1>3. \A j \in DOMAIN rows : new[j] = IF j = i THEN row ELSE rows[j] BY <1>1
<1>4. \A j \in DOMAIN rows : /\ new[j].id = rows[j].id /\ new[j].sys = rows[j].sys /\ new[j].mail = rows[j].mail
                             /\ row.who = rows[i].who => new[j].who = rows[j].who
  BY <1>3
<1>5. WellFormed(new) BY <1>2, <1>4 DEF WellFormed
<1>6. ASSUME row.who = rows[i].who PROVE Hash(Confirmed(new)) = Hash(Confirmed(rows))
  <2>1. \A j \in DOMAIN new : new[j].sys = rows[j].sys /\ Material(new[j]) = Material(rows[j])
    BY <1>2, <1>4, <1>6 DEF Material
  <2>. QED BY <1>1, <1>2, <2>1, SamePlan
<1>. QED BY <1>5, <1>6

LEMMA ReviewAdded ==
    ASSUME NEW rows, WellFormed(rows), \A i \in DOMAIN rows : rows[i].id # "review",
           NEW new, new = Append(rows, Review)
    PROVE  WellFormed(new) /\ Hash(Confirmed(new)) = Hash(Confirmed(rows))
<1>. DEFINE n == Len(rows)
<1>1. Review \in PlanRow /\ Review.id = "review" /\ Review.sys /\ ~Review.mail
  <2>1. Planner \in Staff BY DraftAssumption DEF Planner
  <2>. QED BY <2>1 DEF Review, PlanRow, Ids
<1>2. /\ new \in Seq(PlanRow) /\ n \in Nat /\ DOMAIN rows = 1..n /\ DOMAIN new = 1..(n + 1)
      /\ new[n + 1] = Review /\ \A j \in 1..n : new[j] = rows[j]
  <2>1. rows \in Seq(PlanRow) BY DEF WellFormed
  <2>2. new \in Seq(PlanRow) /\ Len(new) = n + 1 BY <1>1, <2>1, AppendProperties
  <2>. HIDE DEF n
  <2>3. DOMAIN new = 1..(n + 1) BY <2>2
  <2>4. n \in Nat /\ DOMAIN rows = 1..n BY <2>1 DEF n
  <2>5. new[n + 1] = Review /\ \A j \in 1..n : new[j] = rows[j] BY <1>1, <2>1, AppendProperties DEF n
  <2>. QED BY <2>2, <2>3, <2>4, <2>5
<1>. HIDE DEF n
<1>3. WellFormed(new)
  <2>1. \A j \in 1..(n + 1) : j \in 1..n \/ j = n + 1 BY <1>2
  <2>2. ASSUME NEW i \in DOMAIN new, NEW j \in DOMAIN new, new[i].id = new[j].id PROVE i = j
    BY <1>1, <1>2, <2>1, <2>2 DEF WellFormed
  <2>3. ASSUME NEW i \in DOMAIN new PROVE (new[i].mail => Mail) /\ (new[i].sys <=> new[i].id = "review")
    BY <1>1, <1>2, <2>1 DEF WellFormed
  <2>. QED BY <1>2, <2>2, <2>3 DEF WellFormed
<1>4. Hash(Confirmed(new)) = Hash(Confirmed(rows))
  <2>. DEFINE K == {i \in DOMAIN rows : ~rows[i].sys}
  <2>1. K = {i \in DOMAIN new : ~new[i].sys}
    <3>1. \A j \in 1..(n + 1) : j \in 1..n \/ j = n + 1 BY <1>2
    <3>2. \A j \in 1..n : j \in 1..(n + 1) BY <1>2
    <3>. QED BY <1>1, <1>2, <3>1, <3>2
  <2>2. K \subseteq DOMAIN rows /\ K \subseteq DOMAIN new /\ \A i \in K : Material(new[i]) = Material(rows[i])
    <3>1. K \subseteq 1..n /\ 1..n \subseteq 1..(n + 1) BY <1>2
    <3>. QED BY <1>2, <3>1
  <2>3. Confirmed(rows) = Among(rows, K) /\ Confirmed(new) = Among(new, K) BY <2>1 DEF Confirmed
  <2>4. rows \in Seq(PlanRow) /\ new \in Seq(PlanRow) BY <1>2 DEF WellFormed
  <2>. HIDE DEF K
  <2>5. Hash(Among(new, K)) = Hash(Among(rows, K)) BY <2>2, <2>4, AmongHash
  <2>. QED BY <2>3, <2>5
<1>. QED BY <1>3, <1>4

\* While no row is inserted the plan is all of the rows.
LEMMA AllConfirmed ==
    ASSUME NEW rows \in Seq(PlanRow), \A i \in DOMAIN rows : ~rows[i].sys PROVE Confirmed(rows) = rows
<1>. DEFINE n == Len(rows)  K == 1..n  at == [i \in 1..n |-> i]
<1>1. n \in Nat /\ DOMAIN rows = K /\ K \subseteq Nat OBVIOUS
<1>2. Confirmed(rows) = Among(rows, K)
  <2>1. {i \in DOMAIN rows : ~rows[i].sys} = K BY <1>1
  <2>. QED BY <2>1 DEF Confirmed
<1>3. at \in [1..n -> K] /\ Climbs(at) /\ (\A i \in K : \E k \in 1..n : at[k] = i) /\ DOMAIN at = 1..n
      /\ \A k \in 1..n : at[k] = k
  BY DEF Climbs
<1>. HIDE DEF K, at, n
<1>4. Ascending(K) = at BY <1>1, <1>3, AscendingIs
<1>5. Among(rows, K) = [k \in 1..n |-> rows[k]] BY <1>3, <1>4 DEF Among
<1>. QED BY <1>1, <1>2, <1>5 DEF K

-----------------------------------------------------------------------------
(***************************************************************************)
(* The drafts of PlanDrafts, which the composer confirms.                  *)
(***************************************************************************)
(* What a draft binds comes from a set that grows with every draft: only    *)
(* the shape of a row of team_task_amendments matters here.                 *)
Status    == {"draft", "stale", "confirmed", "expired"}
Draft(V)  == [task : V, base : V, new : V, tail : V, pending : V, status : Status, by : V]
DraftsFit == \E V : drafts \in Seq(Draft(V))

DraftInv == DraftsFit /\ OneLiveDraft

-----------------------------------------------------------------------------
LEMMA DraftsGrow == ASSUME NEW V, NEW W, V \subseteq W PROVE Seq(Draft(V)) \subseteq Seq(Draft(W))
<1>1. Draft(V) \subseteq Draft(W) BY DEF Draft
<1>. QED BY <1>1

(* A draft that is closed keeps its task and its place.                     *)
LEMMA ClosedFits ==
    ASSUME NEW V, drafts \in Seq(Draft(V)), NEW d \in DOMAIN drafts, NEW st \in Status, <<>> \in V, {} \in V
    PROVE  Closed(d, st) \in Draft(V) /\ Closed(d, st).status = st /\ Closed(d, st).task = drafts[d].task
<1>1. drafts[d] \in Draft(V) OBVIOUS
<1>. QED BY <1>1 DEF Closed, Draft

(* Superseding a task's drafts leaves none of them live and the others as   *)
(* they are.                                                                *)
LEMMA SupersededFits ==
    ASSUME NEW V, drafts \in Seq(Draft(V)), <<>> \in V, {} \in V, NEW t
    PROVE  /\ Superseded(t) \in Seq(Draft(V)) /\ Len(Superseded(t)) = Len(drafts)
           /\ \A d \in DOMAIN drafts :
                /\ Superseded(t)[d].task = drafts[d].task
                /\ Superseded(t)[d].status = "draft" => drafts[d].status = "draft" /\ drafts[d].task # t
<1>1. \A d \in DOMAIN drafts :
        /\ drafts[d] \in Draft(V) /\ Closed(d, "stale") \in Draft(V)
        /\ Closed(d, "stale").status = "stale" /\ Closed(d, "stale").task = drafts[d].task
  <2> TAKE d \in DOMAIN drafts
  <2>1. drafts[d] \in Draft(V) OBVIOUS
  <2>2. "stale" \in Status BY DEF Status
  <2>. QED BY <2>1, <2>2, ClosedFits
<1>2. DOMAIN Superseded(t) = 1..Len(drafts) /\ Len(drafts) \in Nat BY DEF Superseded
<1>3. \A d \in DOMAIN drafts :
        Superseded(t)[d] = IF drafts[d].task = t /\ drafts[d].status = "draft"
                           THEN Closed(d, "stale") ELSE drafts[d]
  BY DEF Superseded
<1>4. \A d \in DOMAIN drafts : Superseded(t)[d] \in Draft(V) BY <1>1, <1>3
<1>5. Superseded(t) \in [1..Len(drafts) -> Draft(V)] BY <1>4 DEF Superseded
<1>6. Superseded(t) \in Seq(Draft(V)) /\ Len(Superseded(t)) = Len(drafts) BY <1>2, <1>5
<1>. QED BY <1>1, <1>3, <1>6

LEMMA RowFits ==
    ASSUME NEW V, NEW t, NEW b, NEW n, NEW tl, NEW p, NEW by,
           NEW row, row = [task |-> t, base |-> b, new |-> n, tail |-> tl, pending |-> p, status |-> "draft", by |-> by]
    PROVE  row \in Draft(V \cup {<<>>, {}, t, b, n, tl, p, by}) /\ row.status = "draft" /\ row.task = t
BY DEF Draft, Status

(* A new draft finds no other live draft of its task.                       *)
LEMMA WriteKeeps ==
    ASSUME DraftInv, NEW a, NEW tail, WriteDraft(a, tail)
    PROVE  DraftInv'
<1>1. PICK V : drafts \in Seq(Draft(V)) BY DEF DraftInv, DraftsFit
<1> DEFINE new == [task |-> a.task, base |-> Hash(a.rows), new |-> FrozenMaterial(a.rows) \o Hash(tail),
                   tail |-> tail, pending |-> PendingIds(a.rows), status |-> "draft", by |-> a.by]
           W == V \cup {<<>>, {}, a.task, Hash(a.rows), FrozenMaterial(a.rows) \o Hash(tail),
                       tail, PendingIds(a.rows), a.by}
<1>2. drafts \in Seq(Draft(W)) /\ <<>> \in W /\ {} \in W BY <1>1, DraftsGrow
<1>3. new \in Draft(W) /\ new.status = "draft" /\ new.task = a.task BY RowFits
<1>4. drafts' = Append(Superseded(a.task), new) BY DEF WriteDraft
<1> HIDE DEF new, W
<1> DEFINE old == Superseded(a.task)
<1>5. /\ old \in Seq(Draft(W)) /\ Len(old) = Len(drafts)
      /\ \A d \in DOMAIN drafts :
           /\ old[d].task = drafts[d].task
           /\ old[d].status = "draft" => drafts[d].status = "draft" /\ drafts[d].task # a.task
  BY <1>2, SupersededFits
<1> HIDE DEF old
<1>6. /\ drafts' \in Seq(Draft(W)) /\ Len(drafts) \in Nat /\ DOMAIN drafts = 1..Len(drafts)
      /\ DOMAIN drafts' = 1..(Len(drafts) + 1) /\ drafts'[Len(drafts) + 1] = new
      /\ \A d \in 1..Len(drafts) : drafts'[d] = old[d]
  BY <1>2, <1>3, <1>4, <1>5 DEF old
<1>7. OneLiveDraft'
  <2> SUFFICES ASSUME NEW d \in DOMAIN drafts', NEW e \in DOMAIN drafts', drafts'[d].task = drafts'[e].task,
                      drafts'[d].status = "draft", drafts'[e].status = "draft"
               PROVE  d = e
    BY DEF OneLiveDraft
  <2>1. CASE d \in DOMAIN drafts /\ e \in DOMAIN drafts
    BY <1>5, <1>6, <2>1 DEF DraftInv, OneLiveDraft
  <2>2. CASE d = Len(drafts) + 1 /\ e \in DOMAIN drafts
    BY <1>3, <1>5, <1>6, <2>2
  <2>3. CASE e = Len(drafts) + 1 /\ d \in DOMAIN drafts
    BY <1>3, <1>5, <1>6, <2>3
  <2>. QED BY <1>6, <2>1, <2>2, <2>3
<1>. QED BY <1>6, <1>7 DEF DraftInv, DraftsFit

(* Closing a draft makes no other live.                                     *)
LEMMA CloseKeeps ==
    ASSUME DraftInv, NEW d \in DOMAIN drafts, NEW st \in Status, st # "draft",
           drafts' = [drafts EXCEPT ![d] = Closed(d, st)]
    PROVE  DraftInv'
<1>1. PICK V : drafts \in Seq(Draft(V)) BY DEF DraftInv, DraftsFit
<1> DEFINE W == V \cup {<<>>, {}}
<1>2. drafts \in Seq(Draft(W)) /\ <<>> \in W /\ {} \in W BY <1>1, DraftsGrow
<1> HIDE DEF W
<1>3. Closed(d, st) \in Draft(W) /\ Closed(d, st).status = st /\ Closed(d, st).task = drafts[d].task
  BY <1>2, ClosedFits
<1>4. drafts' \in Seq(Draft(W)) /\ DOMAIN drafts' = DOMAIN drafts
  BY <1>2, <1>3
<1>5. \A e \in DOMAIN drafts : drafts'[e] = IF e = d THEN Closed(d, st) ELSE drafts[e]
  BY <1>2
<1>6. OneLiveDraft' BY <1>3, <1>4, <1>5 DEF DraftInv, OneLiveDraft
<1>. QED BY <1>4, <1>6 DEF DraftInv, DraftsFit

LEMMA ConfirmKeeps == ASSUME DraftInv, NEW d \in DOMAIN drafts, ConfirmAmendment(d) PROVE DraftInv'
<1>1. CASE Applies(d)
  <2>1. drafts' = [drafts EXCEPT ![d] = Closed(d, "confirmed")] BY <1>1 DEF ConfirmAmendment
  <2>2. "confirmed" \in Status BY DEF Status
  <2>. QED BY <2>1, <2>2, CloseKeeps
<1>2. CASE ~Applies(d) BY <1>2 DEF ConfirmAmendment, DraftInv, DraftsFit, OneLiveDraft
<1>. QED BY <1>1, <1>2

LEMMA NoDrafts == ASSUME ServerInit PROVE DraftInv
<1>1. drafts = <<>> BY DEF ServerInit
<1>2. drafts \in Seq(Draft({})) BY <1>1
<1>. QED BY <1>1, <1>2 DEF DraftInv, DraftsFit, OneLiveDraft

LEMMA DraftStep == ASSUME DraftInv, [Tick \/ Chat]_serverVars PROVE DraftInv'
<1>1. CASE UNCHANGED drafts BY <1>1 DEF DraftInv, DraftsFit, OneLiveDraft
<1>2. ASSUME NEW d \in DOMAIN drafts, Expire(d) PROVE DraftInv'
  <2>1. "expired" \in Status BY DEF Status
  <2>. QED BY <1>2, <2>1, CloseKeeps DEF Expire
<1>3. ASSUME NEW d \in DOMAIN drafts, ChatConfirm(d) PROVE DraftInv' BY <1>3, ConfirmKeeps DEF ChatConfirm
<1>4. ASSUME NEW a \in amending, ChatDraft(a) PROVE DraftInv'
  <2>1. CASE DropAmend(a) BY <1>1, <2>1 DEF DropAmend
  <2>2. ASSUME NEW tail \in Tails, WriteDraft(a, tail) PROVE DraftInv' BY <2>2, WriteKeeps
  <2>. QED BY <1>4, <2>1, <2>2 DEF ChatDraft
<1>5. CASE Chat
  BY <1>1, <1>3, <1>4, <1>5 DEF Chat, ChatAdjust
<1>6. CASE Tick
  BY <1>1, <1>2, <1>6 DEF Tick, InsertReview, Reserve, Finish, Reassign, Rewrite
<1>7. CASE UNCHANGED serverVars BY <1>1, <1>7 DEF serverVars
<1>. QED BY <1>5, <1>6, <1>7

(* Of the amendments drafted for a task, over whichever channel and however *)
(* long the model took, at most one can still be confirmed                  *)
(* (set_amendment_draft).                                                   *)
THEOREM OneDraftIsLive == DraftSpec => []OneLiveDraft
<1>1. ServerInit => DraftInv BY NoDrafts
<1>2. DraftInv /\ [Tick \/ Chat]_serverVars => DraftInv' BY DraftStep
<1>3. DraftInv => OneLiveDraft BY DEF DraftInv
<1>. QED BY <1>1, <1>2, <1>3, PTL DEF DraftSpec

-----------------------------------------------------------------------------
(***************************************************************************)
(* The plan of every task verifies, and what was started stays.            *)
(***************************************************************************)
\* What besides the rows is kept of a task comes from any set.
PlanTask(V) == [status : V, rows : Seq(PlanRow), hash : V, room : V, scope : V]

\* The plan of every task is the one its hash was confirmed with.
PlansFit ==
    /\ \E V : tasks \in [DOMAIN tasks -> PlanTask(V)]
    /\ \A t \in DOMAIN tasks : WellFormed(tasks[t].rows) /\ (~Mail => Verified(tasks[t]))

\* A live draft was made from rows that were the task's, and its new step is
\* not named as one of those under way.
Drafted(draft) ==
    /\ draft.task \in DOMAIN tasks
    /\ \E base, x :
         /\ WellFormed(base) /\ draft.base = Hash(base) /\ draft.pending = PendingIds(base)
         /\ x \in PlanRow /\ x.id = "n" /\ ~x.sys /\ ~x.mail
         /\ draft.tail = <<x>> /\ draft.new = FrozenMaterial(base) \o Hash(<<x>>)
         /\ \A k \in DOMAIN FrozenPrefix(base) : FrozenPrefix(base)[k].id # "n"

LiveDrafted == \A d \in DOMAIN drafts : drafts[d].status = "draft" => Drafted(drafts[d])
ReadsFit    == \A a \in amending : a.task \in DOMAIN tasks /\ WellFormed(a.rows)

PlanInv == PlansFit /\ LiveDrafted /\ ReadsFit

LEMMA OnePlan ==
    ASSUME PlansFit, NEW t \in DOMAIN tasks, NEW V, NEW r \in PlanTask(V),
           tasks' = [tasks EXCEPT ![t] = r], WellFormed(r.rows), ~Mail => Verified(r)
    PROVE  PlansFit' /\ DOMAIN tasks' = DOMAIN tasks
<1>1. PICK U : tasks \in [DOMAIN tasks -> PlanTask(U)] BY DEF PlansFit
<1>. DEFINE W == U \cup V
<1>2. \A u \in DOMAIN tasks : tasks[u] \in PlanTask(W) BY <1>1 DEF PlanTask
<1>3. r \in PlanTask(W) BY DEF PlanTask
<1>. HIDE DEF W
<1>4. /\ DOMAIN tasks' = DOMAIN tasks
      /\ \A u \in DOMAIN tasks : tasks'[u] = IF u = t THEN r ELSE tasks[u]
  BY <1>1
<1>5. tasks' \in [DOMAIN tasks' -> PlanTask(W)] BY <1>1, <1>2, <1>3, <1>4
<1>6. \A u \in DOMAIN tasks' : WellFormed(tasks'[u].rows) /\ (~Mail => Verified(tasks'[u]))
  BY <1>4 DEF PlansFit
<1>. QED BY <1>4, <1>5, <1>6 DEF PlansFit, WellFormed, Verified

LEMMA PlanFields ==
    ASSUME PlansFit, NEW t \in DOMAIN tasks
    PROVE  /\ \E V : tasks[t] \in PlanTask(V)
           /\ WellFormed(tasks[t].rows)
           /\ ~Mail => tasks[t].hash = Hash(Confirmed(tasks[t].rows))
<1>1. PICK V : tasks \in [DOMAIN tasks -> PlanTask(V)] BY DEF PlansFit
<1>2. tasks[t] \in PlanTask(V) BY <1>1
<1>. QED BY <1>2 DEF PlansFit, Verified

\* Nothing but the tasks is changed: drafts and readings stay what they are.
LEMMA TasksOnly ==
    ASSUME PlanInv, PlansFit', DOMAIN tasks' = DOMAIN tasks, UNCHANGED <<drafts, amending>>
    PROVE  PlanInv'
BY DEF PlanInv, DraftsFit, LiveDrafted, ReadsFit, Drafted

LEMMA CloseKeepsLive ==
    ASSUME DraftsFit, LiveDrafted, DOMAIN tasks' = DOMAIN tasks, NEW d \in DOMAIN drafts, NEW st, st # "draft",
           drafts' = [drafts EXCEPT ![d] = Closed(d, st)]
    PROVE  LiveDrafted'
<1>1. PICK V : drafts \in Seq(Draft(V)) BY DEF DraftsFit
<1>2. drafts[d] \in Draft(V) BY <1>1
<1>3. Closed(d, st).status = st BY <1>2 DEF Closed, Draft
<1>4. DOMAIN drafts' = DOMAIN drafts /\ \A e \in DOMAIN drafts : drafts'[e] = IF e = d THEN Closed(d, st) ELSE drafts[e]
  <2>1. drafts \in [1..Len(drafts) -> Draft(V)] BY <1>1
  <2>. QED BY <2>1
<1>5. \A e \in DOMAIN drafts' : drafts'[e].status = "draft" => Drafted(drafts'[e])
  BY <1>3, <1>4 DEF LiveDrafted
<1>. QED BY <1>5 DEF LiveDrafted, Drafted

LEMMA WriteKeepsLive ==
    ASSUME DraftsFit, PlanInv, NEW a, NEW tail \in Tails, WriteDraft(a, tail)
    PROVE  PlanInv'
<1>1. PICK V : drafts \in Seq(Draft(V)) BY DEF DraftsFit
<1>2. tasks' = tasks /\ amending' \subseteq amending /\ a \in amending BY DEF WriteDraft
<1>3. PlansFit' /\ ReadsFit' BY <1>2 DEF PlanInv, PlansFit, ReadsFit, Verified
<1>. DEFINE new == [task |-> a.task, base |-> Hash(a.rows), new |-> FrozenMaterial(a.rows) \o Hash(tail),
                    tail |-> tail, pending |-> PendingIds(a.rows), status |-> "draft", by |-> a.by]
            old == Superseded(a.task)  n == Len(drafts)
<1>4. PICK x : /\ x \in PlanRow /\ x.id = "n" /\ ~x.sys /\ ~x.mail /\ tail = <<x>>
  <2>1. PICK who \in Staff : tail = <<Step("n", who, FALSE)>> BY DEF Tails
  <2>2. /\ Step("n", who, FALSE) \in PlanRow /\ Step("n", who, FALSE).id = "n"
        /\ ~Step("n", who, FALSE).sys /\ ~Step("n", who, FALSE).mail
    BY DEF Step, PlanRow, Ids
  <2>. QED BY <2>1, <2>2
<1>5. WellFormed(a.rows) /\ a.task \in DOMAIN tasks BY <1>2 DEF PlanInv, ReadsFit
<1>6. \A k \in DOMAIN FrozenPrefix(a.rows) : FrozenPrefix(a.rows)[k].id # "n"
  <2>1. \A row \in Range(FrozenPrefix(a.rows)) : row.id # x.id
    <3>1. x \in Range(tail) BY <1>4 DEF Range
    <3>. QED BY <3>1 DEF WriteDraft
  <2>2. \A k \in DOMAIN FrozenPrefix(a.rows) : FrozenPrefix(a.rows)[k] \in Range(FrozenPrefix(a.rows))
    BY DEF Range
  <2>. QED BY <2>1, <2>2, <1>4
<1>7. Drafted(new)
  <2>1. /\ new.task = a.task /\ new.base = Hash(a.rows) /\ new.pending = PendingIds(a.rows)
        /\ new.tail = <<x>> /\ new.new = FrozenMaterial(a.rows) \o Hash(<<x>>)
    BY <1>4
  <2>. HIDE DEF new
  <2>. QED BY <2>1, <1>4, <1>5, <1>6 DEF Drafted
<1>8. /\ old \in Seq(Draft(V \cup {<<>>, {}})) /\ Len(old) = n
      /\ \A d \in 1..n : old[d].status = "draft" => drafts[d].status = "draft" /\ old[d] = drafts[d]
  <2>1. old \in Seq(Draft(V \cup {<<>>, {}})) /\ Len(old) = n
    <3>. DEFINE W == V \cup {<<>>, {}}
    <3>1. drafts \in Seq(Draft(W)) /\ <<>> \in W /\ {} \in W BY <1>1, DraftsGrow
    <3>. HIDE DEF W
    <3>2. Superseded(a.task) \in Seq(Draft(W)) /\ Len(Superseded(a.task)) = Len(drafts) BY <3>1, SupersededFits
    <3>. QED BY <3>2 DEF W
  <2>2. DOMAIN drafts = 1..n BY <1>1
  <2>3. ASSUME NEW d \in 1..n, old[d].status = "draft" PROVE drafts[d].status = "draft" /\ old[d] = drafts[d]
    <3>1. drafts[d] \in Draft(V) BY <1>1, <2>2
    <3>2. Closed(d, "stale").status = "stale" BY <3>1 DEF Closed, Draft
    <3>3. old[d] = IF drafts[d].task = a.task /\ drafts[d].status = "draft" THEN Closed(d, "stale") ELSE drafts[d]
      BY <2>2 DEF Superseded
    <3>. QED BY <2>3, <3>2, <3>3
  <2>. QED BY <2>1, <2>3
<1>9. drafts' = Append(old, new) BY DEF WriteDraft
<1>. HIDE DEF new, old, n
<1>10. /\ \A d \in DOMAIN drafts' : d \in 1..n \/ d = n + 1
       /\ \A d \in 1..n : drafts'[d] = old[d]
       /\ drafts'[n + 1] = new
  BY <1>8, <1>9
<1>11. \A d \in 1..n : d \in DOMAIN drafts BY <1>1 DEF n
<1>12. \A d \in DOMAIN drafts' : drafts'[d].status = "draft" => Drafted(drafts'[d])
  BY <1>7, <1>8, <1>10, <1>11 DEF PlanInv, LiveDrafted
<1>13. LiveDrafted' BY <1>2, <1>12 DEF LiveDrafted, Drafted
<1>. QED BY <1>3, <1>13 DEF PlanInv

\* The rows that an amendment leaves in place: all that were not pending.
RowsOf(d) == tasks[drafts[d].task].rows

LEMMA SwapKeepsPlan ==
    ASSUME PlanInv, NEW d \in DOMAIN drafts, Applies(d)
    PROVE  /\ drafts[d].task \in DOMAIN tasks
           /\ WellFormed(Swapped(RowsOf(d), d))
           /\ ~Mail => Hash(Confirmed(Swapped(RowsOf(d), d))) = drafts[d].new
           /\ \A i \in DOMAIN RowsOf(d) : RowsOf(d)[i].id \notin drafts[d].pending =>
                 \E j \in DOMAIN Swapped(RowsOf(d), d) : Swapped(RowsOf(d), d)[j] = RowsOf(d)[i]
<1>. DEFINE rows == RowsOf(d)
<1>1. PICK base, x :
         /\ drafts[d].task \in DOMAIN tasks
         /\ WellFormed(base) /\ drafts[d].base = Hash(base) /\ drafts[d].pending = PendingIds(base)
         /\ x \in PlanRow /\ x.id = "n" /\ ~x.sys /\ ~x.mail
         /\ drafts[d].tail = <<x>> /\ drafts[d].new = FrozenMaterial(base) \o Hash(<<x>>)
         /\ \A k \in DOMAIN FrozenPrefix(base) : FrozenPrefix(base)[k].id # "n"
  BY DEF PlanInv, LiveDrafted, Drafted, Applies
<1>2. Hash(base) = Hash(rows) BY <1>1 DEF Applies, RowsOf
<1>3. WellFormed(rows) BY <1>1 DEF PlanInv, PlansFit, RowsOf
<1>. HIDE DEF rows
<1>. DEFINE K == {i \in DOMAIN rows : rows[i].id \notin drafts[d].pending}  new == Swapped(rows, d)
<1>4. Swaps(rows, base, x, K, new) BY <1>1, <1>2, <1>3 DEF Swaps, Swapped
<1>5. \A i \in DOMAIN rows : rows[i].id \notin drafts[d].pending => i \in K OBVIOUS
<1>. HIDE DEF K, new
<1>6. WellFormed(new) /\ Hash(Confirmed(new)) = FrozenPrefix(base) \o Hash(<<x>>) /\ KeepsAll(rows, K, new)
  BY <1>4, SwapVerifies
<1>7. ~Mail => Hash(Confirmed(new)) = drafts[d].new BY <1>1, <1>6, NoMailFrozen
<1>8. \A i \in DOMAIN rows : rows[i].id \notin drafts[d].pending => \E j \in DOMAIN new : new[j] = rows[i]
  BY <1>5, <1>6 DEF KeepsAll
<1>. QED BY <1>1, <1>6, <1>7, <1>8 DEF new, rows

LEMMA ConfirmKeepsPlan ==
    ASSUME DraftsFit, PlanInv, NEW d \in DOMAIN drafts, Applies(d), ConfirmAmendment(d), UNCHANGED amending
    PROVE  PlanInv'
<1>. DEFINE t == drafts[d].task  rows == Swapped(RowsOf(d), d)
<1>1. t \in DOMAIN tasks /\ WellFormed(rows) /\ (~Mail => Hash(Confirmed(rows)) = drafts[d].new)
  BY SwapKeepsPlan
<1>2. /\ tasks' = [tasks EXCEPT ![t].rows = Swapped(@, d), ![t].hash = drafts[d].new]
      /\ drafts' = [drafts EXCEPT ![d] = Closed(d, "confirmed")]
  BY DEF ConfirmAmendment
<1>3. PICK V : tasks[t] \in PlanTask(V) BY <1>1, PlanFields DEF PlanInv
<1>. DEFINE r == [tasks[t] EXCEPT !.rows = rows, !.hash = drafts[d].new]  W == V \cup {drafts[d].new}
<1>4. tasks' = [tasks EXCEPT ![t] = r]
  <2>1. \E U : tasks \in [DOMAIN tasks -> PlanTask(U)] BY DEF PlanInv, PlansFit
  <2>. QED BY <1>1, <1>2, <1>3, <2>1 DEF RowsOf, PlanTask
<1>. HIDE DEF rows
<1>5. r \in PlanTask(W) /\ r.rows = rows /\ r.hash = drafts[d].new
  <2>1. rows \in Seq(PlanRow) BY <1>1 DEF WellFormed
  <2>. QED BY <1>3, <2>1 DEF PlanTask
<1>. HIDE DEF r, W
<1>6. WellFormed(r.rows) /\ (~Mail => Verified(r)) BY <1>1, <1>5 DEF Verified
<1>7. PlansFit' /\ DOMAIN tasks' = DOMAIN tasks BY <1>1, <1>4, <1>5, <1>6, OnePlan DEF PlanInv
<1>8. LiveDrafted' BY <1>2, <1>7, CloseKeepsLive DEF PlanInv
<1>9. ReadsFit' BY <1>7 DEF PlanInv, ReadsFit
<1>. QED BY <1>7, <1>8, <1>9 DEF PlanInv

LEMMA RewriteKeepsPlan ==
    ASSUME DraftsFit, PlanInv, NEW t \in DOMAIN tasks, NEW i \in Steps(t), NEW st \in {"running", "done", "failed"},
           Rewrite(t, i, st), UNCHANGED <<drafts, amending>>
    PROVE  PlanInv'
<1>1. PICK V : tasks[t] \in PlanTask(V) /\ WellFormed(tasks[t].rows)
               /\ (~Mail => tasks[t].hash = Hash(Confirmed(tasks[t].rows)))
  BY PlanFields DEF PlanInv
<1>. DEFINE old == tasks[t].rows  row == [old[i] EXCEPT !.status = st]  new == [old EXCEPT ![i] = row]
            r == [tasks[t] EXCEPT !.rows = new]
<1>2. i \in DOMAIN old /\ old[i] \in PlanRow BY <1>1 DEF Steps, WellFormed
<1>3. /\ row \in PlanRow /\ row.id = old[i].id /\ row.sys = old[i].sys /\ row.mail = old[i].mail
      /\ row.who = old[i].who
  BY <1>2 DEF PlanRow
<1>4. tasks' = [tasks EXCEPT ![t] = r] BY DEF Rewrite
<1>. HIDE DEF old, row
<1>5. WellFormed(new) /\ Hash(Confirmed(new)) = Hash(Confirmed(old)) BY <1>1, <1>2, <1>3, RowWritten DEF old
<1>6. new \in Seq(PlanRow) BY <1>5 DEF WellFormed
<1>. HIDE DEF new
<1>7. r \in PlanTask(V) /\ r.rows = new /\ r.hash = tasks[t].hash BY <1>1, <1>6 DEF PlanTask
<1>. HIDE DEF r
<1>8. WellFormed(r.rows) /\ (~Mail => Verified(r)) BY <1>1, <1>5, <1>7 DEF Verified, old
<1>9. PlansFit' /\ DOMAIN tasks' = DOMAIN tasks BY <1>4, <1>7, <1>8, OnePlan DEF PlanInv
<1>. QED BY <1>9, TasksOnly

LEMMA StallKeepsPlan ==
    ASSUME DraftsFit, PlanInv, NEW t \in DOMAIN tasks, tasks' = [tasks EXCEPT ![t].status = "stalled"],
           UNCHANGED <<drafts, amending>>
    PROVE  PlanInv'
<1>1. PICK V : tasks[t] \in PlanTask(V) /\ WellFormed(tasks[t].rows)
               /\ (~Mail => tasks[t].hash = Hash(Confirmed(tasks[t].rows)))
  BY PlanFields DEF PlanInv
<1>. DEFINE r == [tasks[t] EXCEPT !.status = "stalled"]  W == V \cup {"stalled"}
<1>2. tasks' = [tasks EXCEPT ![t] = r] OBVIOUS
<1>3. r \in PlanTask(W) /\ r.rows = tasks[t].rows /\ r.hash = tasks[t].hash BY <1>1 DEF PlanTask
<1>. HIDE DEF r, W
<1>4. WellFormed(r.rows) /\ (~Mail => Verified(r)) BY <1>1, <1>3 DEF Verified
<1>5. PlansFit' /\ DOMAIN tasks' = DOMAIN tasks BY <1>2, <1>3, <1>4, OnePlan DEF PlanInv
<1>. QED BY <1>5, TasksOnly

LEMMA ReassignKeepsPlan ==
    ASSUME DraftsFit, PlanInv, NEW t \in DOMAIN tasks, NEW i \in Steps(t), NEW who \in Staff, Reassign(t, i, who)
    PROVE  PlanInv'
<1>1. PICK V : tasks[t] \in PlanTask(V) /\ WellFormed(tasks[t].rows)
  BY PlanFields DEF PlanInv
<1>. DEFINE old == tasks[t].rows  row == [old[i] EXCEPT !.who = who, !.status = "pending"]
            new == [old EXCEPT ![i] = row]  h == Hash(Confirmed(new))
            r == [tasks[t] EXCEPT !.rows = new, !.hash = h]  W == V \cup {h}
<1>2. i \in DOMAIN old /\ old[i] \in PlanRow BY <1>1 DEF Steps, WellFormed
<1>3. row \in PlanRow /\ row.id = old[i].id /\ row.sys = old[i].sys /\ row.mail = old[i].mail
  BY <1>2 DEF PlanRow
<1>4. tasks' = [tasks EXCEPT ![t] = r]
  <2>1. [tasks[t].rows EXCEPT ![i].who = who, ![i].status = "pending"] = new BY <1>2
  <2>2. tasks' = [tasks EXCEPT ![t].rows = new, ![t].hash = h] BY <2>1 DEF Reassign
  <2>3. \E U : tasks \in [DOMAIN tasks -> PlanTask(U)] BY DEF PlanInv, PlansFit
  <2>. HIDE DEF new, h
  <2>. QED BY <1>1, <2>2, <2>3
<1>. HIDE DEF old, row
<1>5. WellFormed(new) BY <1>1, <1>2, <1>3, RowWritten DEF old
<1>6. new \in Seq(PlanRow) BY <1>5 DEF WellFormed
<1>7. /\ UNCHANGED <<drafts, amending>> BY DEF Reassign
<1>. HIDE DEF new
<1>8. h = Hash(Confirmed(new)) OBVIOUS
<1>. HIDE DEF h
<1>9. r \in PlanTask(W) /\ r.rows = new /\ r.hash = h BY <1>1, <1>6 DEF PlanTask
<1>. HIDE DEF r, W
<1>10. WellFormed(r.rows) /\ (~Mail => Verified(r)) BY <1>5, <1>8, <1>9 DEF Verified
<1>11. PlansFit' /\ DOMAIN tasks' = DOMAIN tasks BY <1>4, <1>9, <1>10, OnePlan DEF PlanInv
<1>. QED BY <1>7, <1>11, TasksOnly

LEMMA ReviewKeepsPlan ==
    ASSUME DraftsFit, PlanInv, NEW t \in DOMAIN tasks, InsertReview(t) PROVE PlanInv'
<1>1. PICK V : tasks[t] \in PlanTask(V) /\ WellFormed(tasks[t].rows)
               /\ (~Mail => tasks[t].hash = Hash(Confirmed(tasks[t].rows)))
  BY PlanFields DEF PlanInv
<1>. DEFINE old == tasks[t].rows  new == Append(old, Review)  r == [tasks[t] EXCEPT !.rows = new]
<1>2. tasks' = [tasks EXCEPT ![t] = r]
  <2>1. tasks' = [tasks EXCEPT ![t].rows = Append(@, Review)] BY DEF InsertReview
  <2>. QED BY <2>1
<1>3. WellFormed(new) /\ Hash(Confirmed(new)) = Hash(Confirmed(old)) BY <1>1, ReviewAdded DEF InsertReview
<1>4. new \in Seq(PlanRow) BY <1>3 DEF WellFormed
<1>5. UNCHANGED <<drafts, amending>> BY DEF InsertReview
<1>. HIDE DEF new
<1>6. r \in PlanTask(V) /\ r.rows = new /\ r.hash = tasks[t].hash BY <1>1, <1>4 DEF PlanTask
<1>. HIDE DEF r
<1>7. WellFormed(r.rows) /\ (~Mail => Verified(r)) BY <1>1, <1>3, <1>6 DEF Verified
<1>8. PlansFit' /\ DOMAIN tasks' = DOMAIN tasks BY <1>2, <1>6, <1>7, OnePlan DEF PlanInv
<1>. QED BY <1>5, <1>8, TasksOnly

LEMMA FirstPlan == ASSUME ServerInit PROVE PlanInv
<1>1. PICK plan \in Plans, rm \in {"room"} :
        tasks = <<[NewTask(plan, rm) EXCEPT !.status = "open", !.rows[1].status = "running"]>>
  BY Zenon DEF ServerInit
<1>. DEFINE a == Step("s1", Planner, Mail)  b == Step("s2", Planner, FALSE)
            first == [a EXCEPT !.status = "running"]  rows == [plan EXCEPT ![1] = first]
            new == NewTask(plan, rm)  V == {"open", "planning", Hash(plan), rm, new.scope}
            r == [new EXCEPT !.status = "open", !.rows = rows]
<1>2. plan = <<a, b>> BY <1>1 DEF Plans
<1>3. /\ a \in PlanRow /\ a.id = "s1" /\ ~a.sys /\ a.mail = Mail /\ b \in PlanRow /\ b.id = "s2" /\ ~b.sys /\ ~b.mail
      /\ first \in PlanRow /\ first.id = "s1" /\ ~first.sys /\ first.mail = Mail /\ first.who = a.who
  <2>1. Planner \in Staff /\ Mail \in BOOLEAN BY DraftAssumption DEF Planner
  <2>. QED BY <2>1 DEF Step, PlanRow, Ids
<1>4. plan \in Seq(PlanRow) /\ DOMAIN plan = 1..2 /\ plan[1] = a /\ plan[2] = b
  <2>. HIDE DEF a, b, first
  <2>. QED BY <1>2, <1>3
<1>5. new \in PlanTask(V) /\ new.rows = plan /\ new.hash = Hash(plan)
  <2>1. new.rows = plan /\ new.hash = Hash(plan) BY Zenon DEF NewTask
  <2>. QED BY <2>1, <1>4, Zenon DEF NewTask, PlanTask
<1>6a. tasks = <<r>>
  <2>1. plan[1] = a /\ new.rows = plan BY <1>4, <1>5
  <2>. HIDE DEF new, a
  <2>2. tasks = <<[new EXCEPT !.status = "open", !.rows[1].status = "running"]>> BY <1>1 DEF new
  <2>. QED BY <2>1, <2>2, <1>5 DEF PlanTask
<1>. HIDE DEF a, b, first, new
<1>6. /\ rows \in Seq(PlanRow) /\ DOMAIN rows = 1..2 /\ rows[1] = first /\ rows[2] = b
  <2>1. plan \in [1..2 -> PlanRow]
    <3>1. Len(plan) = 2 BY <1>2
    <3>2. plan \in [1..Len(plan) -> PlanRow]
      <4>. DEFINE p == plan
      <4>1. p \in Seq(PlanRow) BY <1>4
      <4>. HIDE DEF p
      <4>2. p \in [1..Len(p) -> PlanRow] BY <4>1
      <4>. QED BY <4>2 DEF p
    <3>. QED BY <3>1, <3>2, Zenon
  <2>2. rows \in [1..2 -> PlanRow] /\ rows[1] = first /\ rows[2] = b BY <1>3, <1>4, <2>1
  <2>. HIDE DEF rows
  <2>3. rows \in Seq(PlanRow)
    <3>1. rows \in UNION {[1..n -> PlanRow] : n \in Nat} BY <2>2
    <3>. QED BY <3>1, SeqDef
  <2>. QED BY <2>2, <2>3
<1>. HIDE DEF rows
<1>7. WellFormed(rows)
  <2>1. \A i \in 1..2 : i = 1 \/ i = 2 OBVIOUS
  <2>. QED BY <1>3, <1>4, <1>6, <2>1 DEF WellFormed
<1>8. Hash(plan) = Hash(Confirmed(rows))
  <2>1. \A i \in 1..2 : i = 1 \/ i = 2 OBVIOUS
  <2>2. Confirmed(rows) = rows
    <3>1. \A i \in DOMAIN rows : ~rows[i].sys BY <1>3, <1>4, <1>6, <2>1
    <3>. QED BY <1>6, <3>1, AllConfirmed
  <2>3. Material(a) = Material(first) BY <1>3 DEF Material
  <2>4. Hash(plan) = Hash(rows)
    <3>1. \A i \in 1..2 : Material(plan[i]) = Material(rows[i]) BY <1>4, <1>6, <2>1, <2>3
    <3>. QED BY <1>4, <1>6, <3>1 DEF Hash
  <2>. QED BY <2>2, <2>4
<1>9. r \in PlanTask(V) /\ r.rows = rows /\ r.hash = Hash(plan) BY <1>5, <1>6 DEF PlanTask
<1>. HIDE DEF r, V
<1>10. WellFormed(r.rows) /\ Verified(r) BY <1>7, <1>8, <1>9 DEF Verified
<1>11. PlansFit
  <2>1. DOMAIN tasks = 1..1 /\ \A t \in DOMAIN tasks : tasks[t] = r BY <1>6a
  <2>2. tasks \in [DOMAIN tasks -> PlanTask(V)] BY <1>6a, <1>9
  <2>. QED BY <1>10, <2>1, <2>2 DEF PlansFit
<1>12. LiveDrafted /\ ReadsFit BY DEF ServerInit, LiveDrafted, ReadsFit
<1>. QED BY <1>11, <1>12 DEF PlanInv

LEMMA PlanStep == ASSUME DraftsFit, PlanInv, [Tick \/ Chat]_serverVars PROVE PlanInv'
<1>1. CASE UNCHANGED serverVars
  <2>1. PlansFit' /\ DOMAIN tasks' = DOMAIN tasks BY <1>1 DEF serverVars, PlanInv, PlansFit, Verified
  <2>. QED BY <1>1, <2>1, TasksOnly DEF serverVars
<1>2. ASSUME NEW t \in DOMAIN tasks, InsertReview(t) PROVE PlanInv' BY <1>2, ReviewKeepsPlan
<1>3. ASSUME NEW t \in DOMAIN tasks, NEW i \in Steps(t), Reserve(t, i) PROVE PlanInv'
  <2>1. CASE Verified(tasks[t]) BY <1>3, <2>1, RewriteKeepsPlan DEF Reserve
  <2>2. CASE ~Verified(tasks[t]) BY <1>3, <2>2, StallKeepsPlan DEF Reserve
  <2>. QED BY <2>1, <2>2
<1>4. ASSUME NEW t \in DOMAIN tasks, NEW i \in Steps(t), Finish(t, i) PROVE PlanInv'
  BY <1>4, RewriteKeepsPlan DEF Finish
<1>5. ASSUME NEW t \in DOMAIN tasks, NEW who \in Staff, NEW i \in Steps(t), Reassign(t, i, who) PROVE PlanInv'
  BY <1>5, ReassignKeepsPlan
<1>6. ASSUME NEW d \in DOMAIN drafts, Expire(d) PROVE PlanInv'
  <2>1. tasks' = tasks /\ amending' = amending /\ drafts' = [drafts EXCEPT ![d] = Closed(d, "expired")]
    BY <1>6 DEF Expire
  <2>2. LiveDrafted' BY <2>1, CloseKeepsLive DEF PlanInv
  <2>. QED BY <2>1, <2>2 DEF PlanInv, PlansFit, ReadsFit, Verified
<1>7. ASSUME NEW t \in DOMAIN tasks, ChatAdjust(t) PROVE PlanInv'
  <2>1. /\ tasks' = tasks /\ drafts' = drafts
        /\ amending' = amending \cup {[task |-> t, rows |-> tasks[t].rows, by |-> "chat"]}
    BY <1>7 DEF ChatAdjust, StartAmend
  <2>2. ReadsFit' BY <1>7, <2>1 DEF PlanInv, PlansFit, ReadsFit
  <2>3. PlansFit' /\ LiveDrafted' BY <2>1 DEF PlanInv, PlansFit, Verified, LiveDrafted, Drafted
  <2>. QED BY <2>2, <2>3 DEF PlanInv
<1>8. ASSUME NEW a \in amending, ChatDraft(a) PROVE PlanInv'
  <2>1. CASE DropAmend(a)
    <3>1. tasks' = tasks /\ drafts' = drafts /\ amending' \subseteq amending BY <2>1 DEF DropAmend
    <3>. QED BY <3>1 DEF PlanInv, PlansFit, Verified, LiveDrafted, Drafted, ReadsFit
  <2>2. ASSUME NEW tail \in Tails, WriteDraft(a, tail) PROVE PlanInv' BY <2>2, WriteKeepsLive
  <2>. QED BY <1>8, <2>1, <2>2 DEF ChatDraft
<1>9. ASSUME NEW d \in DOMAIN drafts, ChatConfirm(d) PROVE PlanInv' BY <1>9, ConfirmKeepsPlan DEF ChatConfirm
<1>10. CASE Tick BY <1>10, <1>2, <1>3, <1>4, <1>5, <1>6 DEF Tick
<1>11. CASE Chat BY <1>11, <1>7, <1>8, <1>9 DEF Chat
<1>. QED BY <1>1, <1>10, <1>11

\* A step that makes a draft a confirmed one is the confirming of that draft.
LEMMA OnlyConfirmed ==
    ASSUME DraftsFit, [Tick \/ Chat]_serverVars, NEW d \in DOMAIN drafts,
           drafts[d].status = "draft", drafts'[d].status = "confirmed"
    PROVE  ChatConfirm(d)
<1>1. PICK V : drafts \in Seq(Draft(V)) BY DEF DraftsFit
<1>2. \A e \in DOMAIN drafts, st \in {"stale", "expired", "confirmed"} : Closed(e, st).status = st
  <2>1. \A e \in DOMAIN drafts : drafts[e] \in Draft(V) BY <1>1
  <2>. QED BY <2>1 DEF Closed, Draft
<1>3. drafts' # drafts OBVIOUS
<1>4. ASSUME NEW e \in DOMAIN drafts, NEW st \in {"stale", "expired", "confirmed"},
             drafts' = [drafts EXCEPT ![e] = Closed(e, st)]
      PROVE  e = d /\ st = "confirmed"
  <2>1. drafts'[d] = IF d = e THEN Closed(e, st) ELSE drafts[d] BY <1>1, <1>4
  <2>. QED BY <2>1, <1>2
<1>5. ASSUME NEW e \in DOMAIN drafts, Expire(e) PROVE FALSE BY <1>4, <1>5 DEF Expire
<1>6. ASSUME NEW a, NEW tail, WriteDraft(a, tail) PROVE FALSE
  <2>1. DOMAIN drafts = 1..Len(drafts) /\ Len(drafts) \in Nat BY <1>1
  <2>. DEFINE old == Superseded(a.task)
  <2>2. old \in Seq(Draft(V \cup {<<>>, {}})) /\ Len(old) = Len(drafts)
    <3>. DEFINE W == V \cup {<<>>, {}}
    <3>1. drafts \in Seq(Draft(W)) /\ <<>> \in W /\ {} \in W BY <1>1, DraftsGrow
    <3>. HIDE DEF W
    <3>2. Superseded(a.task) \in Seq(Draft(W)) /\ Len(Superseded(a.task)) = Len(drafts) BY <3>1, SupersededFits
    <3>. QED BY <3>2 DEF W
  <2>3. old[d].status # "confirmed"
    <3>1. old[d] = IF drafts[d].task = a.task /\ drafts[d].status = "draft" THEN Closed(d, "stale") ELSE drafts[d]
      BY DEF Superseded
    <3>. QED BY <3>1, <1>2
  <2>. HIDE DEF old
  <2>4. drafts'[d] = old[d] BY <1>6, <2>1, <2>2 DEF WriteDraft, old
  <2>. QED BY <2>3, <2>4
<1>7. ASSUME NEW e \in DOMAIN drafts, ChatConfirm(e) PROVE ChatConfirm(d)
  <2>1. drafts' = [drafts EXCEPT ![e] = Closed(e, "confirmed")] BY <1>7 DEF ChatConfirm, ConfirmAmendment
  <2>2. e = d BY <1>4, <2>1
  <2>. QED BY <1>7, <2>2
<1>8. CASE Tick
  <2>1. ASSUME NEW t, InsertReview(t) PROVE FALSE BY <1>3, <2>1 DEF InsertReview
  <2>2. ASSUME NEW t, NEW i, Reserve(t, i) \/ Finish(t, i) PROVE FALSE BY <1>3, <2>2 DEF Reserve, Finish
  <2>3. ASSUME NEW t, NEW i, NEW who, Reassign(t, i, who) PROVE FALSE BY <1>3, <2>3 DEF Reassign
  <2>. QED BY <1>5, <1>8, <2>1, <2>2, <2>3 DEF Tick
<1>9. CASE Chat BY <1>3, <1>6, <1>7, <1>9 DEF Chat, ChatAdjust, ChatDraft, DropAmend
<1>10. CASE UNCHANGED serverVars BY <1>3, <1>10 DEF serverVars
<1>. QED BY <1>8, <1>9, <1>10

LEMMA ConfirmKeepsStarted ==
    ASSUME PlanInv, NEW d \in DOMAIN drafts, ChatConfirm(d), NEW i \in Steps(drafts[d].task),
           RowsOf(d)[i].status # "pending" \/ RowsOf(d)[i].id \notin drafts[d].pending
    PROVE  \E j \in DOMAIN tasks'[drafts[d].task].rows : tasks'[drafts[d].task].rows[j] = RowsOf(d)[i]
<1>. DEFINE t == drafts[d].task  rows == RowsOf(d)  new == Swapped(rows, d)
<1>1. Applies(d) /\ t \in DOMAIN tasks BY SwapKeepsPlan DEF ChatConfirm
<1>2. tasks'[t].rows = new
  <2>1. \E U : tasks \in [DOMAIN tasks -> PlanTask(U)] BY DEF PlanInv, PlansFit
  <2>2. tasks' = [tasks EXCEPT ![t].rows = Swapped(@, d), ![t].hash = drafts[d].new]
    BY <1>1 DEF ChatConfirm, ConfirmAmendment
  <2>. HIDE DEF t
  <2>. QED BY <1>1, <2>1, <2>2 DEF PlanTask, RowsOf, t
<1>3. WellFormed(rows) /\ i \in DOMAIN rows BY <1>1 DEF PlanInv, PlansFit, RowsOf, Steps
<1>4. rows[i].id \notin drafts[d].pending
  <2>1. SUFFICES ASSUME rows[i].id \in drafts[d].pending, rows[i].status # "pending" PROVE FALSE OBVIOUS
  <2>2. rows[i].id \in PendingIds(rows) BY <1>1, <2>1 DEF Applies, RowsOf
  <2>3. PICK j \in DOMAIN rows : rows[j].status = "pending" /\ rows[j].id = rows[i].id BY <2>2 DEF PendingIds
  <2>4. j = i BY <1>3, <2>3 DEF WellFormed
  <2>. QED BY <2>1, <2>3, <2>4
<1>5. \E j \in DOMAIN new : new[j] = rows[i] BY <1>1, <1>3, <1>4, SwapKeepsPlan
<1>. QED BY <1>2, <1>5

-----------------------------------------------------------------------------
(* The plan of an open task is the one that was confirmed, whatever is      *)
(* amended, reassigned or inserted meanwhile: the tick never takes it for a *)
(* tampered one.  Plans with a step that reads mail are left out, for an    *)
(* amendment forgets that (_amend_frozen_prefix).                           *)
THEOREM PlansVerify == ASSUME ~Mail PROVE DraftSpec => []PlanVerifies
<1>1. ServerInit => DraftInv /\ PlanInv BY NoDrafts, FirstPlan
<1>2. DraftInv /\ PlanInv /\ [Tick \/ Chat]_serverVars => (DraftInv /\ PlanInv)'
  BY DraftStep, PlanStep DEF DraftInv
<1>3. PlanInv => PlanVerifies BY DEF PlanInv, PlansFit, PlanVerifies
<1>. QED BY <1>1, <1>2, <1>3, PTL DEF DraftSpec

(* Confirming an amendment takes away no step that has been started, and no *)
(* review row that came after it was drafted (confirm_amendment), whichever *)
(* steps were started and however often the model was asked meanwhile.      *)
THEOREM StartedWorkStays == DraftSpec => StartedWorkKept
<1>. DEFINE Keeps == \A d \in DOMAIN drafts :
         drafts[d].status = "draft" /\ drafts'[d].status = "confirmed" =>
            \A i \in Steps(drafts[d].task) :
               LET row == tasks[drafts[d].task].rows[i] IN
               row.status # "pending" \/ row.id \notin drafts[d].pending
                 => \E j \in DOMAIN tasks'[drafts[d].task].rows : tasks'[drafts[d].task].rows[j] = row
<1>1. ServerInit => DraftInv /\ PlanInv BY NoDrafts, FirstPlan
<1>2. DraftInv /\ PlanInv /\ [Tick \/ Chat]_serverVars => (DraftInv /\ PlanInv)'
  BY DraftStep, PlanStep DEF DraftInv
<1>3. DraftInv /\ PlanInv /\ [Tick \/ Chat]_serverVars => Keeps
  <2>. SUFFICES ASSUME DraftInv, PlanInv, [Tick \/ Chat]_serverVars, NEW d \in DOMAIN drafts,
                       drafts[d].status = "draft", drafts'[d].status = "confirmed",
                       NEW i \in Steps(drafts[d].task),
                       RowsOf(d)[i].status # "pending" \/ RowsOf(d)[i].id \notin drafts[d].pending
                PROVE  \E j \in DOMAIN tasks'[drafts[d].task].rows :
                         tasks'[drafts[d].task].rows[j] = RowsOf(d)[i]
    BY DEF RowsOf
  <2>1. ChatConfirm(d) BY OnlyConfirmed DEF DraftInv
  <2>. QED BY <2>1, ConfirmKeepsStarted
<1>. HIDE DEF Keeps
<1>4. DraftSpec => [][Keeps]_serverVars
  <2>1. DraftInv /\ PlanInv /\ [Tick \/ Chat]_serverVars => [Keeps]_serverVars BY <1>3
  <2>. QED BY <1>1, <1>2, <2>1, PTL DEF DraftSpec
<1>. QED BY <1>4 DEF StartedWorkKept, Keeps

-----------------------------------------------------------------------------
(***************************************************************************)
(* The composer.                                                           *)
(***************************************************************************)
(* The rows of a task and its room come from a set that grows: only the     *)
(* status and the posture of a task matter here.                            *)
Statuses == {"planning", "open", "cancelled", "stalled"}
TaskRow(V) == [status : Statuses, rows : V, hash : V, room : V, scope : Scopes]

(* A posture is on tasks that were confirmed, and stays there.              *)
TasksFit ==
    /\ \E V : tasks \in Seq(TaskRow(V))
    /\ \A t \in DOMAIN tasks : tasks[t].scope # "" => tasks[t].status \in {"open", "stalled"}

Planning == {t \in DOMAIN tasks : tasks[t].status = "planning"}

(* What may come back of which request.                                     *)
IsRequest(q) ==
    /\ q = [kind |-> q.kind, ref |-> q.ref, room |-> q.room, scope |-> q.scope, answer |-> q.answer]
    /\ q.kind \in {"none", "preview", "chat", "amend", "confirm", "confirmAdjust"} /\ q.scope \in Scopes
    /\ q.kind = "none" => q.answer.kind = "none"
    /\ q.kind \in {"preview", "chat"} => q.answer.kind \in {"none", "preview", "done", "error", "reply"}
    /\ q.kind = "amend" => q.answer.kind \in {"none", "error", "adjust-preview"}
    /\ q.kind \in {"confirm", "confirmAdjust"} => q.answer.kind \in {"none", "done", "error"}

Waits == request.kind # "none" <=> phase.kind \in Busy

(* A posture is picked only while a card is shown: none waits for the card  *)
(* that a request under way may bring.                                      *)
ScopeFits ==
    /\ scope.scope \in Scopes
    /\ request.kind \in {"preview", "chat", "amend"} => scope.scope = ""
    /\ request.kind = "confirm" /\ request.scope # "" => scope.task = request.ref
    /\ phase.kind = "preview" /\ scope.scope # "" => scope.task = phase.ref

(* A confirm that was answered leaves no draft behind.                      *)
ConfirmsEnd == request.kind = "confirm" /\ request.answer.kind # "none" => request.ref \notin Planning

Kept == Planning \subseteq Shown \cup DraftOf(request) \cup cancels \cup forsaken

ComposerInv == TasksFit /\ IsRequest(request) /\ Waits /\ ScopeFits /\ ConfirmsEnd /\ Kept

-----------------------------------------------------------------------------
LEMMA Rewritten ==
    ASSUME NEW S, NEW s \in Seq(S), NEW i \in DOMAIN s, NEW e \in S, NEW u, u = [s EXCEPT ![i] = e]
    PROVE  u \in Seq(S) /\ DOMAIN u = DOMAIN s /\ \A j \in DOMAIN s : u[j] = IF j = i THEN e ELSE s[j]
<1>1. DOMAIN s = 1..Len(s) BY LenProperties
<1>2. i \in 1..Len(s) BY <1>1
<1>3. u \in Seq(S) /\ Len(u) = Len(s) BY <1>2, ExceptSeq
<1>4. DOMAIN u = 1..Len(u) BY <1>3, LenProperties
<1>. QED BY <1>1, <1>3, <1>4

LEMMA Extended ==
    ASSUME NEW S, NEW s \in Seq(S), NEW e \in S, NEW u, u = Append(s, e)
    PROVE  /\ u \in Seq(S) /\ Len(s) \in Nat /\ DOMAIN s = 1..Len(s) /\ DOMAIN u = 1..(Len(s) + 1)
           /\ u[Len(s) + 1] = e /\ \A j \in 1..Len(s) : u[j] = s[j]
<1>1. Len(s) \in Nat /\ DOMAIN s = 1..Len(s) BY LenProperties
<1>2. u \in Seq(S) /\ Len(u) = Len(s) + 1 BY AppendProperties
<1>3. DOMAIN u = 1..Len(u) BY <1>2, LenProperties
<1>. QED BY <1>1, <1>2, <1>3, AppendProperties

LEMMA RowsGrow == ASSUME NEW V, NEW W, V \subseteq W PROVE Seq(TaskRow(V)) \subseteq Seq(TaskRow(W))
<1>1. TaskRow(V) \subseteq TaskRow(W) BY DEF TaskRow
<1>. QED BY <1>1

(* A step on the server that neither drafts a plan nor strays with one.     *)
Calm == /\ TasksFit' /\ Planning' \subseteq Planning

LEMMA SameTasksAreCalm == ASSUME TasksFit, UNCHANGED tasks PROVE Calm
BY DEF TasksFit, Calm, Planning

(* One task is rewritten, without becoming a draft again.                   *)
LEMMA OneTask ==
    ASSUME TasksFit, NEW t \in DOMAIN tasks, NEW V, NEW r \in TaskRow(V),
           tasks' = [tasks EXCEPT ![t] = r],
           r.status = "planning" => tasks[t].status = "planning",
           r.scope # "" => r.status \in {"open", "stalled"}
    PROVE  Calm /\ (r.status # "planning" => t \notin Planning')
<1>1. PICK U : tasks \in Seq(TaskRow(U)) BY DEF TasksFit
<1> DEFINE W == U \cup V
<1>2. tasks \in Seq(TaskRow(W)) BY <1>1, RowsGrow
<1>3. r \in TaskRow(W) BY DEF TaskRow
<1> HIDE DEF W
<1>4. /\ tasks' \in Seq(TaskRow(W)) /\ DOMAIN tasks' = DOMAIN tasks
      /\ \A u \in DOMAIN tasks : tasks'[u] = IF u = t THEN r ELSE tasks[u]
  BY <1>2, <1>3, Rewritten
<1>5. \A u \in DOMAIN tasks : tasks'[u] = IF u = t THEN r ELSE tasks[u] BY <1>4
<1>6. TasksFit' BY <1>4, <1>5 DEF TasksFit
<1>. QED BY <1>4, <1>5, <1>6 DEF Calm, Planning

LEMMA TaskFields ==
    ASSUME TasksFit, NEW t \in DOMAIN tasks
    PROVE  \E V : /\ tasks[t] \in TaskRow(V)
                  /\ tasks[t].scope # "" => tasks[t].status \in {"open", "stalled"}
<1>1. PICK V : tasks \in Seq(TaskRow(V)) BY DEF TasksFit
<1>2. tasks[t] \in TaskRow(V) BY <1>1
<1>. QED BY <1>2 DEF TasksFit

LEMMA ConfirmPlanIsCalm ==
    ASSUME TasksFit, NEW t, NEW h, h = tasks[t].hash, NEW s \in Scopes, ConfirmPlan(t, h, s)
    PROVE  Calm /\ t \notin Planning'
<1>1. CASE CanConfirm(t, h) /\ t \in DOMAIN tasks
  <2>1. PICK V : tasks[t] \in TaskRow(V) BY <1>1, TaskFields
  <2> DEFINE r == [tasks[t] EXCEPT !.status = "open", !.scope = s]
  <2>2. r \in TaskRow(V) /\ r.status = "open" BY <2>1 DEF TaskRow, Statuses
  <2>3. tasks' = [tasks EXCEPT ![t] = r]
    <3>1. tasks' = [tasks EXCEPT ![t].status = "open", ![t].scope = s] BY <1>1 DEF ConfirmPlan
    <3>2. \E U : tasks \in Seq(TaskRow(U)) BY DEF TasksFit
    <3>. QED BY <1>1, <3>1, <3>2
  <2> HIDE DEF r
  <2>. QED BY <1>1, <2>2, <2>3, OneTask
<1>2. CASE t \notin DOMAIN tasks
  <2>1. tasks' = tasks
    <3>1. PICK U : tasks \in Seq(TaskRow(U)) BY DEF TasksFit
    <3>. QED BY <1>2, <3>1 DEF ConfirmPlan
  <2>. QED BY <1>2, <2>1, SameTasksAreCalm DEF Planning
<1>3. CASE ~CanConfirm(t, h)
  <2>1. tasks' = tasks /\ tasks[t].status # "planning" BY <1>3 DEF ConfirmPlan, CanConfirm
  <2>. QED BY <2>1, SameTasksAreCalm DEF Planning
<1>. QED BY <1>1, <1>2, <1>3

LEMMA CancelPlanIsCalm == ASSUME TasksFit, NEW t, CancelPlan(t) PROVE Calm /\ t \notin Planning'
<1>1. CASE tasks[t].status = "planning" /\ t \in DOMAIN tasks
  <2>1. PICK V : tasks[t] \in TaskRow(V) /\ (tasks[t].scope # "" => tasks[t].status \in {"open", "stalled"})
    BY <1>1, TaskFields
  <2> DEFINE r == [tasks[t] EXCEPT !.status = "cancelled"]
  <2>2. r \in TaskRow(V) /\ r.status = "cancelled" /\ r.scope = tasks[t].scope BY <2>1 DEF TaskRow, Statuses
  <2>3. tasks' = [tasks EXCEPT ![t] = r]
    <3>1. tasks' = [tasks EXCEPT ![t].status = "cancelled"] BY <1>1 DEF CancelPlan
    <3>. QED BY <3>1
  <2> HIDE DEF r
  <2>. QED BY <1>1, <2>1, <2>2, <2>3, OneTask
<1>2. CASE t \notin DOMAIN tasks
  <2>1. tasks' = tasks
    <3>1. PICK U : tasks \in Seq(TaskRow(U)) BY DEF TasksFit
    <3>. QED BY <1>2, <3>1 DEF CancelPlan
  <2>. QED BY <1>2, <2>1, SameTasksAreCalm DEF Planning
<1>3. CASE tasks[t].status # "planning"
  <2>1. tasks' = tasks BY <1>3 DEF CancelPlan
  <2>. QED BY <1>3, <2>1, SameTasksAreCalm DEF Planning
<1>. QED BY <1>1, <1>2, <1>3

LEMMA AmendmentIsCalm == ASSUME TasksFit, NEW d, ConfirmAmendment(d) PROVE Calm
<1> DEFINE t == drafts[d].task
           rows == Swapped(tasks[t].rows, d)
<1>1. CASE Applies(d) /\ t \in DOMAIN tasks
  <2>1. PICK V : tasks[t] \in TaskRow(V) /\ (tasks[t].scope # "" => tasks[t].status \in {"open", "stalled"})
    BY <1>1, TaskFields
  <2> DEFINE r == [tasks[t] EXCEPT !.rows = rows, !.hash = drafts[d].new]
             W == V \cup {rows, drafts[d].new}
  <2>2. tasks' = [tasks EXCEPT ![t] = r]
    <3>1. tasks' = [tasks EXCEPT ![t].rows = Swapped(@, d), ![t].hash = drafts[d].new]
      BY <1>1 DEF ConfirmAmendment
    <3>2. \E U : tasks \in Seq(TaskRow(U)) BY DEF TasksFit
    <3>. QED BY <1>1, <3>1, <3>2
  <2> HIDE DEF rows
  <2>3. r \in TaskRow(W) /\ r.status = tasks[t].status /\ r.scope = tasks[t].scope BY <2>1 DEF TaskRow
  <2> HIDE DEF r, W
  <2>. QED BY <1>1, <2>1, <2>2, <2>3, OneTask
<1>2. CASE t \notin DOMAIN tasks
  <2>1. tasks' = tasks
    <3>1. PICK U : tasks \in Seq(TaskRow(U)) BY DEF TasksFit
    <3>. QED BY <1>2, <3>1 DEF ConfirmAmendment
  <2>. QED BY <2>1, SameTasksAreCalm
<1>3. CASE ~Applies(d) BY <1>3, SameTasksAreCalm DEF ConfirmAmendment
<1>. QED BY <1>1, <1>2, <1>3

LEMMA ReserveIsCalm == ASSUME TasksFit, NEW t, NEW i, Reserve(t, i) PROVE Calm
<1>1. CASE t \in DOMAIN tasks
  <2>1. PICK V : tasks[t] \in TaskRow(V) /\ (tasks[t].scope # "" => tasks[t].status \in {"open", "stalled"})
    BY <1>1, TaskFields
  <2>2. CASE Verified(tasks[t])
    <3> DEFINE rows == [tasks[t].rows EXCEPT ![i].status = "running"]
               r == [tasks[t] EXCEPT !.rows = rows]
               W == V \cup {rows}
    <3>1. tasks' = [tasks EXCEPT ![t] = r]
      <4>1. tasks' = [tasks EXCEPT ![t].rows[i].status = "running"] BY <2>2 DEF Reserve, Rewrite
      <4>. QED BY <4>1
    <3> HIDE DEF rows
    <3>2. r \in TaskRow(W) /\ r.status = tasks[t].status /\ r.scope = tasks[t].scope BY <2>1 DEF TaskRow
    <3> HIDE DEF r, W
    <3>. QED BY <1>1, <2>1, <3>1, <3>2, OneTask
  <2>3. CASE ~Verified(tasks[t])
    <3> DEFINE r == [tasks[t] EXCEPT !.status = "stalled"]
    <3>1. tasks' = [tasks EXCEPT ![t] = r]
      <4>1. tasks' = [tasks EXCEPT ![t].status = "stalled"] BY <2>3 DEF Reserve
      <4>. QED BY <4>1
    <3>2. r \in TaskRow(V) /\ r.status = "stalled" BY <2>1 DEF TaskRow, Statuses
    <3> HIDE DEF r
    <3>. QED BY <1>1, <3>1, <3>2, OneTask
  <2>. QED BY <2>2, <2>3
<1>2. CASE t \notin DOMAIN tasks
  <2>1. tasks' = tasks
    <3>1. PICK U : tasks \in Seq(TaskRow(U)) BY DEF TasksFit
    <3>. QED BY <1>2, <3>1 DEF Reserve, Rewrite
  <2>. QED BY <2>1, SameTasksAreCalm
<1>. QED BY <1>1, <1>2

(* A preview adds one task: a draft, unless the plan confirms itself.       *)
LEMMA DraftPlanAdds ==
    ASSUME TasksFit, NEW plan, NEW rm, NEW auto \in BOOLEAN, DraftPlan(plan, rm, auto)
    PROVE  TasksFit' /\ Planning' \subseteq Planning \cup (IF auto THEN {} ELSE {Len(tasks) + 1})
<1>1. PICK U : tasks \in Seq(TaskRow(U)) BY DEF TasksFit
<1> DEFINE W == U \cup {plan, rm, Hash(plan)}
           new == IF auto THEN [NewTask(plan, rm) EXCEPT !.status = "open"] ELSE NewTask(plan, rm)
<1>2. tasks' = Append(tasks, new) BY DEF DraftPlan
<1>3. tasks \in Seq(TaskRow(W)) BY <1>1, RowsGrow
<1>4. new \in TaskRow(W) /\ new.scope = "" /\ new.status = IF auto THEN "open" ELSE "planning"
  BY DEF TaskRow, Statuses, Scopes, NewTask
<1> HIDE DEF new, W
<1>5. /\ tasks' \in Seq(TaskRow(W)) /\ Len(tasks) \in Nat /\ DOMAIN tasks = 1..Len(tasks)
      /\ DOMAIN tasks' = 1..(Len(tasks) + 1) /\ tasks'[Len(tasks) + 1] = new
      /\ \A t \in 1..Len(tasks) : tasks'[t] = tasks[t]
  <2> DEFINE S == TaskRow(W)
  <2>1. tasks \in Seq(S) /\ new \in S BY <1>3, <1>4
  <2> HIDE DEF S
  <2>2. /\ tasks' \in Seq(S) /\ Len(tasks) \in Nat /\ DOMAIN tasks = 1..Len(tasks)
        /\ DOMAIN tasks' = 1..(Len(tasks) + 1) /\ tasks'[Len(tasks) + 1] = new
        /\ \A t \in 1..Len(tasks) : tasks'[t] = tasks[t]
    BY <1>2, <2>1, Extended
  <2>. QED BY <2>2 DEF S
<1>6. \A t \in DOMAIN tasks' : t \in DOMAIN tasks \/ t = Len(tasks) + 1 BY <1>5
<1>7. TasksFit' BY <1>4, <1>5, <1>6 DEF TasksFit
<1>. QED BY <1>4, <1>5, <1>6, <1>7 DEF Planning

-----------------------------------------------------------------------------
(* The task a request may leave behind.                                     *)
LEMMA DraftOfRequest ==
    ASSUME NEW q, IsRequest(q)
    PROVE  /\ q.kind = "confirm" => DraftOf(q) = {q.ref}
           /\ q.kind # "confirm" /\ q.answer.kind = "preview" => DraftOf(q) = {q.answer.ref}
           /\ q.kind # "confirm" /\ q.answer.kind # "preview" => DraftOf(q) = {}
<1>1. q.kind = "confirm" => q.answer.kind # "preview" BY DEF IsRequest
<1>2. CASE q.kind = "confirm" BY <1>1, <1>2 DEF DraftOf
<1>3. CASE q.kind # "confirm" /\ q.answer.kind = "preview" BY <1>3 DEF DraftOf
<1>4. CASE q.kind # "confirm" /\ q.answer.kind # "preview" BY <1>4 DEF DraftOf
<1>. QED BY <1>1, <1>2, <1>3, <1>4

LEMMA NewRequest ==
    ASSUME NEW k \in {"preview", "chat", "confirm", "confirmAdjust"}, NEW ref, NEW sc \in Scopes,
           NEW q, q = Request(k, ref, sc)
    PROVE  /\ IsRequest(q) /\ q.kind = k /\ q.ref = ref /\ q.scope = sc /\ q.answer.kind = "none"
           /\ DraftOf(q) = IF k = "confirm" THEN {ref} ELSE {}
<1>1. q = [kind |-> k, ref |-> ref, room |-> room, scope |-> sc, answer |-> Phase("none")]
  BY DEF Request, NoRequest
<1>2. q.answer.kind = "none" BY <1>1 DEF Phase
<1>3. IsRequest(q) BY <1>1, <1>2 DEF IsRequest
<1>. QED BY <1>1, <1>2, <1>3, DraftOfRequest

LEMMA NoneIsRequest == IsRequest(NoRequest) /\ NoRequest.kind = "none" /\ DraftOf(NoRequest) = {}
<1>1. NoRequest.kind = "none" /\ NoRequest.answer.kind = "none" BY DEF NoRequest, Phase
<1>2. IsRequest(NoRequest) BY <1>1 DEF IsRequest, NoRequest, Scopes
<1>. QED BY <1>1, <1>2, DraftOfRequest

(* While nothing is under way only the card and the cancels hold drafts.    *)
LEMMA AtRest ==
    ASSUME ComposerInv, phase.kind \notin Busy
    PROVE  request.kind = "none" /\ DraftOf(request) = {} /\ Planning \subseteq Shown \cup cancels \cup forsaken
<1>1. request.kind = "none" /\ IsRequest(request) BY DEF ComposerInv, Waits
<1>2. request.answer.kind = "none" BY <1>1 DEF IsRequest
<1>3. DraftOf(request) = {} BY <1>1, <1>2, DraftOfRequest
<1>. QED BY <1>1, <1>3 DEF ComposerInv, Kept

LEMMA SendKeeps ==
    ASSUME ComposerInv, NEW text, Send(text), phase.kind \notin Busy, phase.kind # "preview",
           UNCHANGED <<tasks, cancels, forsaken>>
    PROVE  ComposerInv'
<1>1. request.kind = "none" /\ Planning \subseteq cancels \cup forsaken BY AtRest DEF Shown
<1>2. TasksFit' /\ Planning' = Planning BY DEF ComposerInv, TasksFit, Planning
<1>3. /\ request' = Request(IF room = NoRoom THEN "preview" ELSE "chat", 0, "")
      /\ phase'.kind = "previewing" /\ scope'.scope = ""
  BY DEF Send, Phase, Unpicked
<1>4. "" \in Scopes BY DEF Scopes
<1>5. /\ IsRequest(request') /\ request'.kind \in {"preview", "chat"} /\ request'.answer.kind = "none"
      /\ DraftOf(request') = {}
  <2> DEFINE k == IF room = NoRoom THEN "preview" ELSE "chat"
             ref == 0
             sc == ""
  <2>1. k \in {"preview", "chat", "confirm", "confirmAdjust"} /\ k \in {"preview", "chat"} /\ k # "confirm" OBVIOUS
  <2>2. request' = Request(k, ref, sc) /\ sc \in Scopes BY <1>3, <1>4
  <2> HIDE DEF k, ref, sc
  <2>. QED BY <2>1, <2>2, NewRequest
<1>6. IsRequest(request)' /\ Waits' /\ ScopeFits' /\ ConfirmsEnd'
  BY <1>3, <1>4, <1>5 DEF Waits, ScopeFits, ConfirmsEnd, Busy, IsRequest
<1>7. Kept' BY <1>1, <1>2 DEF Kept
<1>. QED BY <1>2, <1>6, <1>7 DEF ComposerInv

(* A click that asks the server for nothing.                                *)
LEMMA ClickKeeps ==
    ASSUME ComposerInv, UNCHANGED <<tasks, request, forsaken>>, cancels \subseteq cancels',
           phase'.kind \in Busy <=> phase.kind \in Busy,
           phase'.kind = "preview" => phase' = phase,
           Shown \subseteq Shown' \cup cancels',
           scope' = scope \/ /\ phase.kind = "preview" /\ scope'.scope \in Scopes /\ scope'.task = phase.ref
    PROVE  ComposerInv'
<1>1. TasksFit' /\ Planning' = Planning BY DEF ComposerInv, TasksFit, Planning
<1>2. DraftOf(request') = DraftOf(request) OBVIOUS
<1>3. IsRequest(request)' /\ Waits' /\ ConfirmsEnd' BY <1>1 DEF ComposerInv, IsRequest, Waits, ConfirmsEnd
<1>4. phase.kind = "preview" => request.kind = "none" BY AtRest DEF Busy
<1>5. ScopeFits'
  <2>1. CASE scope' = scope BY <2>1 DEF ComposerInv, ScopeFits
  <2>2. CASE scope' # scope BY <1>4, <2>2 DEF ScopeFits
  <2>. QED BY <2>1, <2>2
<1>6. Kept' BY <1>1, <1>2 DEF ComposerInv, Kept
<1>. QED BY <1>1, <1>3, <1>5, <1>6 DEF ComposerInv

LEMMA CEOKeeps == ASSUME ComposerInv, CEO PROVE ComposerInv'
<1>1. ASSUME NEW text \in Texts, Type(text) PROVE ComposerInv'
  <2>1. UNCHANGED <<tasks, request, cancels, forsaken, scope>> BY <1>1 DEF Type, Idle, serverVars
  <2>2. phase' = phase \/ (phase.kind \in {"error", "done"} /\ phase'.kind = "idle") BY <1>1 DEF Type, Phase
  <2>. QED BY <2>1, <2>2, ClickKeeps DEF Busy, Shown
<1>2. CASE Submit
  <2>1. UNCHANGED <<tasks, cancels, forsaken>> /\ phase.kind # "preview"
    BY <1>2 DEF Submit, Idle, serverVars, LivePreview
  <2>2. CASE ShouldQueue
    <3>1. UNCHANGED <<phase, scope, request>> BY <1>2, <2>2 DEF Submit
    <3>. QED BY <2>1, <3>1, ClickKeeps DEF Shown
  <2>3. CASE ~ShouldQueue
    <3>1. Send(brief) BY <1>2, <2>3 DEF Submit
    <3>. QED BY <2>1, <2>3, <3>1, SendKeeps DEF ShouldQueue
  <2>. QED BY <2>2, <2>3
<1>3. ASSUME NEW i \in DOMAIN queued, RemoveQueued(i) PROVE ComposerInv'
  <2>1. UNCHANGED <<tasks, request, cancels, forsaken, scope, phase>> BY <1>3 DEF RemoveQueued, Idle, serverVars
  <2>. QED BY <2>1, ClickKeeps DEF Shown
<1>4. ASSUME NEW sc \in Scopes, PickScope(sc) PROVE ComposerInv'
  <2>1. UNCHANGED <<tasks, request, cancels, forsaken, phase>> /\ phase.kind = "preview"
        /\ scope' = [scope |-> sc, task |-> phase.ref]
    BY <1>4 DEF PickScope, Idle, serverVars
  <2>. QED BY <2>1, ClickKeeps DEF Shown
<1>5. CASE Confirm \/ ConfirmAdjust
  <2>1. /\ UNCHANGED <<tasks, cancels, forsaken, scope>> /\ phase'.kind = "confirming"
        /\ phase.kind \in {"preview", "adjust-preview"}
    <3>1. CASE Confirm BY <3>1 DEF Confirm, Idle, serverVars, Phase
    <3>2. CASE ConfirmAdjust BY <3>2 DEF ConfirmAdjust, Idle, serverVars, Phase
    <3>. QED BY <1>5, <3>1, <3>2
  <2>2. TasksFit' /\ Planning' = Planning /\ Planning \subseteq Shown \cup cancels \cup forsaken
    BY <2>1, AtRest DEF ComposerInv, TasksFit, Planning, Busy
  <2>3. scope.scope \in Scopes /\ "" \in Scopes BY DEF ComposerInv, ScopeFits, Scopes
  <2>4. CASE Confirm
    <3>1. request' = Request("confirm", phase.ref, scope.scope) /\ phase.kind = "preview" BY <2>4 DEF Confirm
    <3>2. /\ IsRequest(request') /\ request'.kind = "confirm" /\ request'.ref = phase.ref
          /\ request'.scope = scope.scope /\ request'.answer.kind = "none" /\ DraftOf(request') = {phase.ref}
      <4> DEFINE k == "confirm"
                 ref == phase.ref
                 sc == scope.scope
      <4>1. k \in {"preview", "chat", "confirm", "confirmAdjust"} /\ k = "confirm" OBVIOUS
      <4>2. request' = Request(k, ref, sc) /\ sc \in Scopes /\ ref = phase.ref /\ sc = scope.scope BY <2>3, <3>1
      <4> HIDE DEF k, ref, sc
      <4>. QED BY <4>1, <4>2, NewRequest
    <3>3. Waits' /\ ScopeFits' /\ ConfirmsEnd'
      BY <2>1, <3>1, <3>2 DEF ComposerInv, Waits, ScopeFits, ConfirmsEnd, Busy
    <3>4. Kept' BY <2>1, <2>2, <3>1, <3>2 DEF Kept, Shown
    <3>. QED BY <2>2, <3>2, <3>3, <3>4 DEF ComposerInv
  <2>5. CASE ConfirmAdjust
    <3>1. request' = Request("confirmAdjust", phase.ref, "") /\ phase.kind = "adjust-preview"
      BY <2>5 DEF ConfirmAdjust
    <3>2. /\ IsRequest(request') /\ request'.kind = "confirmAdjust" /\ request'.answer.kind = "none"
          /\ DraftOf(request') = {}
      <4> DEFINE k == "confirmAdjust"
                 ref == phase.ref
                 sc == ""
      <4>1. k \in {"preview", "chat", "confirm", "confirmAdjust"} /\ k = "confirmAdjust" /\ k # "confirm" OBVIOUS
      <4>2. request' = Request(k, ref, sc) /\ sc \in Scopes BY <2>3, <3>1
      <4> HIDE DEF k, ref, sc
      <4>. QED BY <4>1, <4>2, NewRequest
    <3>3. Waits' /\ ScopeFits' /\ ConfirmsEnd'
      BY <2>1, <3>1, <3>2 DEF ComposerInv, Waits, ScopeFits, ConfirmsEnd, Busy
    <3>4. Kept' BY <2>1, <2>2, <3>1, <3>2 DEF Kept, Shown
    <3>. QED BY <2>2, <3>2, <3>3, <3>4 DEF ComposerInv
  <2>. QED BY <1>5, <2>4, <2>5
<1>6. CASE Cancel
  <2>1. /\ UNCHANGED <<tasks, request, scope, forsaken>> /\ cancels' = cancels \cup {phase.ref}
        /\ phase.kind = "preview" /\ phase'.kind = "idle"
    BY <1>6 DEF Cancel, Idle, serverVars, Phase
  <2>. QED BY <2>1, ClickKeeps DEF Shown, Busy
<1>7. CASE Dismiss
  <2>1. /\ UNCHANGED <<tasks, request, scope, forsaken, cancels>>
        /\ phase.kind = "adjust-preview" /\ phase'.kind = "idle"
    BY <1>7 DEF Dismiss, Idle, serverVars, Phase
  <2>. QED BY <2>1, ClickKeeps DEF Shown, Busy
<1>8. CASE Navigate
  <2>1. UNCHANGED <<tasks, request, cancels, forsaken, scope, phase>> BY <1>8 DEF Navigate, Idle, serverVars
  <2>. QED BY <2>1, ClickKeeps DEF Shown
<1>9. CASE Leave
  <2>1. /\ UNCHANGED <<tasks, cancels>> /\ request' = NoRequest /\ phase'.kind = "idle" /\ scope'.scope = ""
        /\ forsaken' = forsaken \cup Shown \cup DraftOf(request)
    BY <1>9 DEF Leave, Idle, serverVars, Phase, Unpicked
  <2>2. TasksFit' /\ Planning' = Planning BY <2>1 DEF ComposerInv, TasksFit, Planning
  <2>3. IsRequest(request') /\ request'.kind = "none" BY <2>1, NoneIsRequest
  <2>4. Waits' /\ ScopeFits' /\ ConfirmsEnd' BY <2>1, <2>3 DEF Waits, ScopeFits, ConfirmsEnd, Busy, Scopes
  <2>5. Kept' BY <2>1, <2>2 DEF ComposerInv, Kept
  <2>. QED BY <2>2, <2>3, <2>4, <2>5 DEF ComposerInv
<1>. QED BY <1>1, <1>2, <1>3, <1>4, <1>5, <1>6, <1>7, <1>8, <1>9 DEF CEO

-----------------------------------------------------------------------------
(* The server answers, or passes an amendment on to the model.              *)
LEMMA AnswerFacts ==
    ASSUME IsRequest(request), NEW card, AnswerWith(card)
    PROVE  /\ request' = [kind |-> request.kind, ref |-> request.ref, room |-> request.room,
                          scope |-> request.scope, answer |-> card]
           /\ request'.kind = request.kind /\ request'.ref = request.ref /\ request'.scope = request.scope
           /\ request'.answer = card
BY DEF IsRequest, AnswerWith

LEMMA ServedKeeps ==
    ASSUME ComposerInv, Client, TasksFit', IsRequest(request)', request.kind # "none", request'.kind # "none",
           request.kind = "confirm" <=> request'.kind = "confirm",
           request'.ref = request.ref, request'.scope = request.scope,
           request'.kind \in {"preview", "chat", "amend"} => request.kind \in {"preview", "chat", "amend"},
           request.answer.kind = "none" \/ request' = request,
           request'.kind = "confirm" /\ request'.answer.kind # "none" => request.ref \notin Planning',
           Planning' \subseteq Planning \cup DraftOf(request')
    PROVE  ComposerInv'
<1>1. UNCHANGED <<phase, scope, cancels, forsaken>> BY DEF Client
<1>2. DraftOf(request) \subseteq DraftOf(request')
  <2>1. IsRequest(request) /\ IsRequest(request') BY DEF ComposerInv
  <2>. QED BY <2>1, DraftOfRequest
<1>3. Waits' /\ ScopeFits' /\ ConfirmsEnd' BY <1>1 DEF ComposerInv, Waits, ScopeFits, ConfirmsEnd
<1>4. Kept' BY <1>1, <1>2 DEF ComposerInv, Kept, Shown
<1>. QED BY <1>3, <1>4 DEF ComposerInv

LEMMA RestKeeps == ASSUME ComposerInv, Calm, UNCHANGED clientVars PROVE ComposerInv'
<1>1. UNCHANGED <<phase, scope, request, cancels, forsaken>> BY DEF clientVars
<1>2. TasksFit' /\ Planning' \subseteq Planning BY DEF Calm
<1>3. IsRequest(request)' /\ Waits' /\ ScopeFits' /\ ConfirmsEnd'
  BY <1>1, <1>2 DEF ComposerInv, IsRequest, Waits, ScopeFits, ConfirmsEnd
<1>4. Kept' BY <1>1, <1>2 DEF ComposerInv, Kept, Shown, DraftOf
<1>. QED BY <1>2, <1>3, <1>4 DEF ComposerInv

LEMMA ServeKeeps == ASSUME ComposerInv, Serve PROVE ComposerInv'
<1>0. TasksFit /\ IsRequest(request) BY DEF ComposerInv
<1>1. ASSUME NEW plan \in Plans, NEW auto \in BOOLEAN, ServePlan(plan, auto) PROVE ComposerInv'
  <2> DEFINE card == IF auto THEN Phase("done") ELSE Card("preview", Len(tasks) + 1)
             rm == request.room
  <2>1. request.kind \in {"preview", "chat"} /\ request.answer.kind = "none" /\ Client BY <1>1 DEF ServePlan, Waiting
  <2>2. DraftPlan(plan, rm, auto) /\ AnswerWith(card) BY <1>1 DEF ServePlan
  <2>3. card.kind = (IF auto THEN "done" ELSE "preview") /\ (~auto => card.ref = Len(tasks) + 1)
    BY DEF Phase, Card
  <2> HIDE DEF card, rm
  <2>4. /\ request'.kind = request.kind /\ request'.ref = request.ref /\ request'.scope = request.scope
        /\ request'.answer = card
        /\ request' = [kind |-> request.kind, ref |-> request.ref, room |-> request.room,
                       scope |-> request.scope, answer |-> card]
    BY <1>0, <2>2, AnswerFacts
  <2>5. IsRequest(request)' BY <1>0, <2>1, <2>3, <2>4 DEF IsRequest
  <2>6. TasksFit' /\ Planning' \subseteq Planning \cup (IF auto THEN {} ELSE {Len(tasks) + 1})
    BY <1>0, <2>2, DraftPlanAdds
  <2>7. ~auto => DraftOf(request') = {Len(tasks) + 1} BY <2>1, <2>3, <2>4, <2>5, DraftOfRequest
  <2>8. Planning' \subseteq Planning \cup DraftOf(request') BY <2>6, <2>7
  <2>. QED BY <2>1, <2>4, <2>5, <2>6, <2>8, ServedKeeps
<1>2. CASE ServeOther
  <2>1. request.kind \in {"preview", "chat"} /\ request.answer.kind = "none" /\ Client /\ UNCHANGED tasks
    BY <1>2 DEF ServeOther, Waiting, serverVars
  <2>2. PICK card : AnswerWith(card) /\ card.kind \in {"error", "reply"} BY <1>2 DEF ServeOther, Phase
  <2>3. /\ request'.kind = request.kind /\ request'.ref = request.ref /\ request'.scope = request.scope
        /\ request'.answer = card
        /\ request' = [kind |-> request.kind, ref |-> request.ref, room |-> request.room,
                       scope |-> request.scope, answer |-> card]
    BY <1>0, <2>2, AnswerFacts
  <2>4. IsRequest(request)' BY <1>0, <2>1, <2>2, <2>3 DEF IsRequest
  <2>5. TasksFit' /\ Planning' \subseteq Planning BY <1>0, <2>1, SameTasksAreCalm DEF Calm
  <2>. QED BY <2>1, <2>3, <2>4, <2>5, ServedKeeps
<1>3. ASSUME NEW t \in DOMAIN tasks, ServeAdjust(t) PROVE ComposerInv'
  <2>1. request.kind = "chat" /\ request.answer.kind = "none" /\ Client /\ UNCHANGED tasks
        /\ request' = [request EXCEPT !.kind = "amend"]
    BY <1>3 DEF ServeAdjust, Waiting
  <2>2. request' = [kind |-> "amend", ref |-> request.ref, room |-> request.room, scope |-> request.scope,
                    answer |-> request.answer]
    BY <1>0, <2>1 DEF IsRequest
  <2>3. IsRequest(request)' BY <1>0, <2>1, <2>2 DEF IsRequest
  <2>4. TasksFit' /\ Planning' \subseteq Planning BY <1>0, <2>1, SameTasksAreCalm DEF Calm
  <2>. QED BY <2>1, <2>2, <2>3, <2>4, ServedKeeps
<1>4. ASSUME NEW a \in amending, ServeDraft(a) PROVE ComposerInv'
  <2>1. PICK card \in {Phase("error"), Card("adjust-preview", Len(drafts) + 1)} :
          /\ IF card.kind = "error" THEN DropAmend(a) ELSE \E tail \in Tails : WriteDraft(a, tail)
          /\ request' = IF Waiting({"amend"}) THEN [request EXCEPT !.answer = card] ELSE request
    BY <1>4 DEF ServeDraft
  <2>2. UNCHANGED tasks /\ Client BY <1>4, <2>1 DEF DropAmend, WriteDraft, ServeDraft
  <2>3. Calm BY <1>0, <2>2, SameTasksAreCalm
  <2>4. card.kind \in {"error", "adjust-preview"} BY <2>1 DEF Phase, Card
  <2>5. CASE Waiting({"amend"})
    <3>1. request.kind = "amend" /\ request.answer.kind = "none" BY <2>5 DEF Waiting
    <3>2. AnswerWith(card) BY <2>1, <2>5 DEF AnswerWith
    <3>3. /\ request'.kind = request.kind /\ request'.ref = request.ref /\ request'.scope = request.scope
          /\ request'.answer = card
          /\ request' = [kind |-> request.kind, ref |-> request.ref, room |-> request.room,
                         scope |-> request.scope, answer |-> card]
      BY <1>0, <3>2, AnswerFacts
    <3>4. IsRequest(request)' BY <1>0, <2>4, <3>1, <3>3 DEF IsRequest
    <3>5. TasksFit' /\ Planning' \subseteq Planning BY <2>3 DEF Calm
    <3>. QED BY <2>2, <3>1, <3>3, <3>4, <3>5, ServedKeeps
  <2>6. CASE ~Waiting({"amend"})
    <3>1. UNCHANGED clientVars BY <2>1, <2>2, <2>6 DEF Client, clientVars
    <3>. QED BY <2>3, <3>1, RestKeeps
  <2>. QED BY <2>5, <2>6
<1>5. CASE ServeConfirm
  <2> DEFINE h == tasks[request.ref].hash
             ref == request.ref
             sc == request.scope
             card == Phase(IF CanConfirm(request.ref, tasks[request.ref].hash) THEN "done" ELSE "error")
  <2>1. request.kind = "confirm" /\ request.answer.kind = "none" /\ Client BY <1>5 DEF ServeConfirm, Waiting
  <2>2. ConfirmPlan(ref, h, sc) /\ h = tasks[ref].hash /\ ref = request.ref /\ AnswerWith(card)
    BY <1>5 DEF ServeConfirm
  <2>3. sc \in Scopes BY <1>0 DEF IsRequest
  <2>4. card.kind \in {"done", "error"} BY DEF Phase
  <2> HIDE DEF h, sc, card, ref
  <2>5. Calm /\ ref \notin Planning' BY <1>0, <2>2, <2>3, ConfirmPlanIsCalm
  <2>6. /\ request'.kind = request.kind /\ request'.ref = request.ref /\ request'.scope = request.scope
        /\ request'.answer = card
        /\ request' = [kind |-> request.kind, ref |-> request.ref, room |-> request.room,
                       scope |-> request.scope, answer |-> card]
    BY <1>0, <2>2, AnswerFacts
  <2>7. IsRequest(request)' BY <1>0, <2>1, <2>4, <2>6 DEF IsRequest
  <2>8. TasksFit' /\ Planning' \subseteq Planning /\ request.ref \notin Planning' BY <2>2, <2>5 DEF Calm
  <2>. QED BY <2>1, <2>6, <2>7, <2>8, ServedKeeps
<1>6. CASE ServeConfirmAdjust
  <2> DEFINE ref == request.ref
             card == Phase(IF Applies(request.ref) THEN "done" ELSE "error")
  <2>1. request.kind = "confirmAdjust" /\ request.answer.kind = "none" /\ Client
    BY <1>6 DEF ServeConfirmAdjust, Waiting
  <2>2. ConfirmAmendment(ref) /\ AnswerWith(card) BY <1>6 DEF ServeConfirmAdjust
  <2>3. card.kind \in {"done", "error"} BY DEF Phase
  <2> HIDE DEF ref, card
  <2>4. Calm BY <1>0, <2>2, AmendmentIsCalm
  <2>5. /\ request'.kind = request.kind /\ request'.ref = request.ref /\ request'.scope = request.scope
        /\ request'.answer = card
        /\ request' = [kind |-> request.kind, ref |-> request.ref, room |-> request.room,
                       scope |-> request.scope, answer |-> card]
    BY <1>0, <2>2, AnswerFacts
  <2>6. IsRequest(request)' BY <1>0, <2>1, <2>3, <2>5 DEF IsRequest
  <2>7. TasksFit' /\ Planning' \subseteq Planning BY <2>4 DEF Calm
  <2>. QED BY <2>1, <2>5, <2>6, <2>7, ServedKeeps
<1>. QED BY <1>1, <1>2, <1>3, <1>4, <1>5, <1>6 DEF Serve

(* A draft that is being cancelled needs no card any more.                  *)
LEMMA ServeCancelKeeps == ASSUME ComposerInv, NEW t \in cancels, ServeCancel(t) PROVE ComposerInv'
<1>1. /\ UNCHANGED <<phase, scope, request, forsaken>> /\ cancels' = cancels \ {t} /\ CancelPlan(t)
  BY DEF ServeCancel
<1>2. TasksFit' /\ Planning' \subseteq Planning /\ t \notin Planning'
  BY <1>1, CancelPlanIsCalm DEF ComposerInv, Calm
<1>3. IsRequest(request)' /\ Waits' /\ ScopeFits' /\ ConfirmsEnd'
  BY <1>1, <1>2 DEF ComposerInv, IsRequest, Waits, ScopeFits, ConfirmsEnd
<1>4. DraftOf(request') = DraftOf(request) /\ Shown' = Shown BY <1>1 DEF Shown
<1>5. Kept' BY <1>1, <1>2, <1>4 DEF ComposerInv, Kept
<1>. QED BY <1>2, <1>3, <1>5 DEF ComposerInv

(* A previewed plan comes on the card it answers.                           *)
LEMMA AnswerKeeps == ASSUME ComposerInv, Answer PROVE ComposerInv'
<1>1. /\ UNCHANGED <<tasks, scope, cancels, forsaken>> /\ request.answer.kind # "none"
      /\ phase' = request.answer /\ request' = NoRequest
  BY DEF Answer, serverVars
<1>2. TasksFit' /\ Planning' = Planning BY <1>1 DEF ComposerInv, TasksFit, Planning
<1>3. IsRequest(request) /\ request.kind # "none" BY <1>1 DEF ComposerInv, IsRequest
<1>4. phase.kind # "preview" BY <1>3 DEF ComposerInv, Waits, Busy
<1>5. phase'.kind \notin Busy BY <1>1, <1>3 DEF IsRequest, Busy
<1>6. IsRequest(request') /\ request'.kind = "none" BY <1>1, NoneIsRequest
<1>7. phase'.kind = "preview" => request.kind \in {"preview", "chat"} BY <1>1, <1>3 DEF IsRequest
<1>8. Waits' /\ ScopeFits' /\ ConfirmsEnd'
  BY <1>1, <1>5, <1>6, <1>7 DEF ComposerInv, Waits, ScopeFits, ConfirmsEnd
<1>9. Planning \cap DraftOf(request) \subseteq Shown'
  <2>1. CASE request.kind = "confirm" BY <1>1, <1>3, <2>1, DraftOfRequest DEF ComposerInv, ConfirmsEnd
  <2>2. CASE request.kind # "confirm" BY <1>1, <1>3, <2>2, DraftOfRequest DEF Shown
  <2>. QED BY <2>1, <2>2
<1>10. Kept' BY <1>1, <1>2, <1>4, <1>9 DEF ComposerInv, Kept, Shown
<1>. QED BY <1>2, <1>6, <1>8, <1>10 DEF ComposerInv

LEMMA FailKeeps == ASSUME ComposerInv, Fail PROVE ComposerInv'
<1>1. UNCHANGED <<tasks, scope>> BY DEF Fail, serverVars
<1>2. TasksFit' /\ Planning' = Planning BY <1>1 DEF ComposerInv, TasksFit, Planning
<1>3. CASE /\ request.kind # "none" /\ phase' = Phase("error") /\ request' = NoRequest
           /\ forsaken' = forsaken \cup DraftOf(request) /\ UNCHANGED cancels
  <2>1. phase.kind # "preview" BY <1>3 DEF ComposerInv, Waits, Busy
  <2>2. phase'.kind = "error" BY <1>3 DEF Phase
  <2>3. IsRequest(request') /\ request'.kind = "none" BY <1>3, NoneIsRequest
  <2>4. Waits' /\ ScopeFits' /\ ConfirmsEnd'
    BY <1>1, <2>2, <2>3 DEF ComposerInv, Waits, ScopeFits, ConfirmsEnd, Busy
  <2>5. Kept' BY <1>2, <1>3, <2>1 DEF ComposerInv, Kept, Shown
  <2>. QED BY <1>2, <2>3, <2>4, <2>5 DEF ComposerInv
<1>4. ASSUME NEW t \in cancels, cancels' = cancels \ {t}, forsaken' = forsaken \cup {t},
             UNCHANGED <<phase, request>>
      PROVE  ComposerInv'
  <2>1. IsRequest(request)' /\ Waits' /\ ScopeFits' /\ ConfirmsEnd'
    BY <1>1, <1>2, <1>4 DEF ComposerInv, IsRequest, Waits, ScopeFits, ConfirmsEnd
  <2>2. DraftOf(request') = DraftOf(request) /\ Shown' = Shown BY <1>4 DEF Shown
  <2>3. Kept' BY <1>2, <1>4, <2>2 DEF ComposerInv, Kept
  <2>. QED BY <1>2, <2>1, <2>3 DEF ComposerInv
<1>. QED BY <1>3, <1>4 DEF Fail

LEMMA FlushKeeps == ASSUME ComposerInv, Flush PROVE ComposerInv'
<1>1. Send(Head(queued)) /\ UNCHANGED <<tasks, cancels, forsaken>> BY DEF Flush, serverVars
<1>2. phase.kind \notin Busy /\ phase.kind # "preview" BY DEF Flush, CanFlush, Flushable, Busy
<1>. QED BY <1>1, <1>2, SendKeeps

LEMMA ComposerInit == Init => ComposerInv
<1> SUFFICES ASSUME Init PROVE ComposerInv OBVIOUS
<1>1. PICK plan \in Plans : tasks = <<[NewTask(plan, "room") EXCEPT !.status = "open", !.rows[1].status = "running"]>>
  BY DEF Init, ServerInit
<1> DEFINE new == [NewTask(plan, "room") EXCEPT !.status = "open", !.rows[1].status = "running"]
           V == {new.rows, new.hash, new.room}
<1>2. new \in TaskRow(V) /\ new.scope = "" /\ new.status = "open" BY DEF NewTask, TaskRow, Statuses, Scopes
<1>3. tasks = <<new>> BY <1>1
<1> HIDE DEF new
<1> DEFINE S == TaskRow(V)
<1>4. tasks \in Seq(TaskRow(V)) /\ DOMAIN tasks = {1} /\ tasks[1] = new
  <2>1. new \in S BY <1>2
  <2> HIDE DEF S
  <2>2. tasks \in Seq(S) /\ DOMAIN tasks = 1..1 /\ tasks[1] = new BY <1>3, <2>1
  <2>3. 1..1 = {1} OBVIOUS
  <2>. QED BY <2>2, <2>3 DEF S
<1> HIDE DEF V, S
<1>5. TasksFit /\ Planning = {} BY <1>2, <1>4 DEF TasksFit, Planning
<1>6. request = NoRequest /\ phase.kind = "idle" /\ scope.scope = "" BY DEF Init, Phase, Unpicked
<1>7. IsRequest(request) /\ request.kind = "none" BY <1>6, NoneIsRequest
<1>8. Waits /\ ScopeFits /\ ConfirmsEnd BY <1>6, <1>7 DEF Waits, ScopeFits, ConfirmsEnd, Busy, Scopes
<1>. QED BY <1>5, <1>7, <1>8 DEF ComposerInv, Kept

LEMMA ComposerStep == ComposerInv /\ [Next]_vars => ComposerInv'
<1> SUFFICES ASSUME ComposerInv, [Next]_vars PROVE ComposerInv' OBVIOUS
<1>1. CASE CEO BY <1>1, CEOKeeps
<1>2. CASE Flush BY <1>2, FlushKeeps
<1>3. CASE Serve BY <1>3, ServeKeeps
<1>4. CASE Answer BY <1>4, AnswerKeeps
<1>5. CASE Fail BY <1>5, FailKeeps
<1>6. CASE Dispatch
  <2>1. PICK i \in Steps(1) : Reserve(1, i) BY <1>6 DEF Dispatch
  <2>2. TasksFit BY DEF ComposerInv
  <2> DEFINE one == 1
  <2>3. Reserve(one, i) BY <2>1
  <2> HIDE DEF one
  <2>4. Calm BY <2>2, <2>3, ReserveIsCalm
  <2>. QED BY <1>6, <2>4, RestKeeps DEF Dispatch
<1>7. ASSUME NEW t \in cancels, ServeCancel(t) PROVE ComposerInv' BY <1>7, ServeCancelKeeps
<1>8. CASE UNCHANGED vars
  <2>1. UNCHANGED clientVars /\ UNCHANGED tasks BY <1>8 DEF vars, clientVars, serverVars
  <2>2. Calm BY <2>1, SameTasksAreCalm DEF ComposerInv
  <2>. QED BY <2>1, <2>2, RestKeeps
<1>. QED BY <1>1, <1>2, <1>3, <1>4, <1>5, <1>6, <1>7, <1>8 DEF Next

-----------------------------------------------------------------------------
(* No previewed plan is let go of: an unconfirmed one is on the card, on    *)
(* its way, being cancelled, or was forsaken with its request or its page   *)
(* (submitText, review m5).                                                 *)
THEOREM NoDraftIsOrphaned == Spec => []NoOrphanDraft
<1>1. ComposerInv => NoOrphanDraft BY DEF ComposerInv, Kept, Planning, NoOrphanDraft
<1>. QED BY <1>1, ComposerInit, ComposerStep, PTL DEF Spec

(* A confirm carries the posture picked on the card of its own plan, and a  *)
(* task has one only once it was confirmed (preauthScope).                  *)
THEOREM PosturesStay == Spec => []ScopeIsOfThisPlan
<1>1. ComposerInv => ScopeIsOfThisPlan BY DEF ComposerInv, TasksFit, ScopeFits, ScopeIsOfThisPlan
<1>. QED BY <1>1, ComposerInit, ComposerStep, PTL DEF Spec

(* One round trip at a time: an answer finds the composer in the phase that *)
(* waits for it, and no request replaces another (composer-queue.ts).       *)
THEOREM OneRoundTripAtATime == Spec => OneRoundTrip
<1>1. ComposerInv => (request.kind # "none" <=> phase.kind \in Busy) BY DEF ComposerInv, Waits
<1>2. ComposerInv /\ [Next]_vars
        => [request.kind # "none" /\ request'.kind # "none" =>
              request'.kind \in {request.kind, "amend"} /\ request'.ref = request.ref]_vars
  <2> SUFFICES ASSUME ComposerInv, Next, request.kind # "none", request'.kind # "none"
               PROVE  request'.kind \in {request.kind, "amend"} /\ request'.ref = request.ref
    OBVIOUS
  <2>1. phase.kind \in Busy /\ IsRequest(request) BY DEF ComposerInv, Waits
  <2>2. CASE CEO
    <3>1. UNCHANGED request \/ request' = NoRequest
      BY <2>1, <2>2 DEF CEO, Type, Submit, RemoveQueued, PickScope, Confirm, ConfirmAdjust, Cancel, Dismiss,
         Navigate, Leave, ShouldQueue, Busy
    <3>. QED BY <3>1, NoneIsRequest
  <2>3. CASE Flush BY <2>1, <2>3 DEF Flush, CanFlush, Flushable, Busy
  <2>4. CASE Serve
    <3>1. \/ \E card : AnswerWith(card)
          \/ request' = [request EXCEPT !.kind = "amend"]
          \/ UNCHANGED request
      BY <2>4 DEF Serve, ServePlan, ServeOther, ServeAdjust, ServeDraft, ServeConfirm, ServeConfirmAdjust, AnswerWith
    <3>. QED BY <2>1, <3>1, AnswerFacts DEF IsRequest
  <2>5. CASE Answer BY <2>5, NoneIsRequest DEF Answer
  <2>6. CASE Fail
    <3>1. UNCHANGED request \/ request' = NoRequest BY <2>6 DEF Fail
    <3>. QED BY <3>1, NoneIsRequest
  <2>7. CASE Dispatch BY <2>7 DEF Dispatch, clientVars
  <2>8. ASSUME NEW t \in cancels, ServeCancel(t) PROVE UNCHANGED request BY <2>8 DEF ServeCancel
  <2>. QED BY <2>2, <2>3, <2>4, <2>5, <2>6, <2>7, <2>8 DEF Next
<1>. QED BY <1>1, <1>2, ComposerInit, ComposerStep, PTL DEF Spec, OneRoundTrip
=============================================================================
