-------------------------- MODULE RecordingDataProofs --------------------------
(***************************************************************************)
(* The camera grid, the extraction, the scenario selection and the split,  *)
(* for every log, rate, tolerance, number of cameras, set of rules and of  *)
(* scenes, and test fraction.                                              *)
(*                                                                         *)
(*  1. Loops and orders.  A set of naturals has a least element            *)
(*     (well-foundedness of strict inclusion on finite sets), so induction *)
(*     with a set for its predicate is at hand, and a recursively defined  *)
(*     function is what its equations say.                                 *)
(*  2. The grid.  A period of at least one unit keeps rounded targets      *)
(*     apart; a root of the union-find structure is the nearest free       *)
(*     batch; each turn of the loop matches one more target with the       *)
(*     nearest free batch, which later turns do not disturb.               *)
(*  3. The extraction.  Every submission of a camera waits or is answered  *)
(*     once; what is staged is one sample for each answered submission of  *)
(*     the grid, with its own picture; sorting puts them in the order of   *)
(*     the log.                                                            *)
(*  4. The selection.  The audit of a rule that had its turn is what       *)
(*     _validate_scenario_selection computes from scratch, so the check    *)
(*     never fails.                                                        *)
(*  5. The split.  Allocations are added by their places.  Every move of   *)
(*     the two loops keeps the total, and when they end either nobody can  *)
(*     give, or nobody can take, or every stratum of two or more is on     *)
(*     both sides; no allocation of the total can do better.               *)
(*  6. Selection and split always have something to choose: the remainders *)
(*     are enough for what is left, the loops end in an allocation, and    *)
(*     every allocation can be drawn.                                      *)
(*  7. Validity.  Were other codes enabled, the observations of a result   *)
(*     would be the same, and an entry would be judged by its own; so no   *)
(*     reason hides another, and the enforcement finds nothing to refuse.  *)
(***************************************************************************)
EXTENDS RecordingAssembly, RecordingExtraction, SceneAssignment, FiniteSetTheorems, FunctionTheorems, TLAPS

-----------------------------------------------------------------------------
(* 1. Loops and orders.                                                    *)

(* Every set of naturals has a least one.                                  *)
LEMMA Least ==
    ASSUME NEW T \in SUBSET Nat, T # {}
    PROVE  \E n \in T : \A m \in T : n <= m
  <1> DEFINE R == StrictSubsetOrdering(Nat)
             F == FiniteSubsetsOf(Nat)
             U == {0 .. n - 1 : n \in T}
  <1>1. U \subseteq F /\ U # {}
    <2>1. ASSUME NEW n \in T PROVE 0 .. n - 1 \in F
      <3>1. n \in Nat /\ 0 .. n - 1 \in SUBSET Nat
        OBVIOUS
      <3>2. IsFiniteSet(0 .. n - 1)
        BY <3>1, FS_Interval
      <3> QED
        BY <3>1, <3>2 DEF FiniteSubsetsOf
    <2> QED
      BY <2>1
  <1>2. IsWellFoundedOn(R, F)
    BY FS_StrictSubsetOrderingWellFounded
  <1> HIDE DEF R, F, U
  <1>3. \E x \in U : \A y \in U : <<y, x>> \notin R
    BY <1>1, <1>2, WFMin
  <1>4. PICK n \in T : \A m \in T : <<0 .. m - 1, 0 .. n - 1>> \notin R
    BY <1>3 DEF U
  <1>5. ASSUME NEW m \in T, m < n PROVE FALSE
    <2>1. 0 .. m - 1 \in SUBSET Nat /\ 0 .. n - 1 \in SUBSET Nat
      OBVIOUS
    <2>2. 0 .. m - 1 \subseteq 0 .. n - 1 /\ m \in 0 .. n - 1 /\ m \notin 0 .. m - 1
      BY <1>5
    <2> QED
      BY <1>4, <2>1, <2>2 DEF R, StrictSubsetOrdering
  <1> QED
    BY <1>5

(* Induction, with a set in the place of a predicate.                      *)
LEMMA InductionOn ==
    ASSUME NEW S \in SUBSET Nat, 0 \in S, \A n \in S : n + 1 \in S
    PROVE  S = Nat
  <1> SUFFICES ASSUME Nat \ S # {} PROVE FALSE
    OBVIOUS
  <1>1. PICK n \in Nat \ S : \A m \in Nat \ S : n <= m
    BY Least
  <1>2. n - 1 \in S
    BY <1>1
  <1> QED
    BY <1>1, <1>2

(* The states of a loop over 1 .. n: D[s][k] is what turn k makes of s.    *)
Run(g, c, n, D) == g[0] = c /\ \A k \in 1 .. n : g[k] = D[g[k - 1]][k]

(* A loop has a state after every turn.                                    *)
LEMMA Iterates ==
    ASSUME NEW S, NEW c \in S, NEW n \in Nat, NEW D \in [S -> [1 .. n -> S]]
    PROVE  \E g \in [0 .. n -> S] : Run(g, c, n, D)
  <1> DEFINE G(m, g) == g[0] = c /\ \A k \in 1 .. m : g[k] = D[g[k - 1]][k]
             T == {m \in Nat : m <= n => \E g \in [0 .. m -> S] : G(m, g)}
  <1>1. 0 \in T
    <2>1. [k \in 0 .. 0 |-> c] \in [0 .. 0 -> S] /\ G(0, [k \in 0 .. 0 |-> c])
      OBVIOUS
    <2> QED
      BY <2>1
  <1>2. ASSUME NEW m \in T PROVE m + 1 \in T
    <2>1. CASE m + 1 <= n
      <3>1. m \in Nat /\ m <= n
        BY <2>1
      <3>2. PICK g \in [0 .. m -> S] : G(m, g)
        BY <3>1
      <3> DEFINE h == [k \in 0 .. m + 1 |-> IF k <= m THEN g[k] ELSE D[g[m]][m + 1]]
      <3>3. g[m] \in S /\ m + 1 \in 1 .. n
        BY <3>1, <3>2, <2>1
      <3>4. D[g[m]][m + 1] \in S
        BY <3>3
      <3>5. h \in [0 .. m + 1 -> S]
        BY <3>1, <3>2, <3>4
      <3>6. h[0] = c
        BY <3>1, <3>2
      <3>7. ASSUME NEW k \in 1 .. m + 1 PROVE h[k] = D[h[k - 1]][k]
        <4>1. CASE k <= m
          <5>1. k \in 1 .. m /\ k - 1 \in 0 .. m /\ k \in 0 .. m + 1 /\ k - 1 \in 0 .. m + 1
            BY <4>1, <3>1
          <5>2. h[k] = g[k] /\ h[k - 1] = g[k - 1]
            BY <4>1, <5>1, <3>1
          <5> QED
            BY <3>2, <5>1, <5>2
        <4>2. CASE k = m + 1
          <5>1. h[k] = D[g[m]][m + 1] /\ h[m] = g[m] /\ k - 1 = m
            BY <4>2, <3>1
          <5> QED
            BY <4>2, <5>1
        <4> QED
          BY <3>1, <4>1, <4>2
      <3>8. G(m + 1, h)
        BY <3>6, <3>7
      <3> HIDE DEF h, G
      <3>9. \E f \in [0 .. m + 1 -> S] : G(m + 1, f)
        BY <3>5, <3>8
      <3> QED
        BY <3>1, <3>9
    <2>2. CASE ~(m + 1 <= n)
      BY <2>2
    <2> QED
      BY <2>1, <2>2
  <1>3. T \in SUBSET Nat
    OBVIOUS
  <1> HIDE DEF T
  <1>4. n \in T
    BY <1>1, <1>2, <1>3, InductionOn
  <1> QED
    BY <1>4 DEF T, Run

(* A set of indices that is closed downward is an initial segment.         *)
LEMMA Segment ==
    ASSUME NEW a \in Nat, NEW b \in Int, NEW D \in SUBSET (a .. b),
           \A i \in D : \A j \in a .. i : j \in D
    PROVE  /\ IsFiniteSet(D) /\ Cardinality(D) \in Nat
           /\ D = a .. a + Cardinality(D) - 1
  <1> a \in Int
    OBVIOUS
  <1>0. IsFiniteSet(a .. b)
    BY FS_Interval
  <1>1. IsFiniteSet(D) /\ Cardinality(D) \in Nat
    BY <1>0, FS_Subset, FS_CardinalityType
  <1>2. CASE a .. b \subseteq D
    <2>1. D = a .. b
      BY <1>2
    <2>2. CASE a > b
      <3>1. Cardinality(D) = 0
        BY <2>1, <2>2, FS_Interval
      <3> QED
        BY <1>1, <2>1, <2>2, <3>1
    <2>3. CASE ~(a > b)
      <3>1. Cardinality(a .. b) = b - a + 1
        BY <2>3, FS_Interval
      <3>2. a + Cardinality(D) - 1 = b
        BY <2>1, <3>1
      <3> QED
        BY <1>1, <2>1, <3>2
    <2> QED
      BY <2>2, <2>3
  <1>3. CASE ~(a .. b \subseteq D)
    <2> DEFINE out == (a .. b) \ D
    <2>1. out \in SUBSET Nat /\ out # {}
      BY <1>3
    <2>2. PICK k \in out : \A m \in out : k <= m
      BY <2>1, Least
    <2>3. ASSUME NEW i \in D PROVE i \in a .. k - 1
      <3>1. i \in a .. b /\ k \in a .. b /\ k \notin D
        BY <2>2
      <3>2. ~(k <= i)
        BY <3>1
      <3> QED
        BY <3>1, <3>2
    <2>4. ASSUME NEW i \in a .. k - 1 PROVE i \in D
      BY <2>2
    <2>5. D = a .. k - 1
      BY <2>3, <2>4
    <2>6. k \in Int /\ k - 1 \in Int /\ a <= k
      BY <2>2
    <2>7. Cardinality(a .. k - 1) = k - a
      <3>1. CASE a > k - 1
        <4>1. Cardinality(a .. k - 1) = 0
          BY <2>6, <3>1, FS_Interval
        <4> QED
          BY <2>6, <3>1, <4>1
      <3>2. CASE ~(a > k - 1)
        <4>1. Cardinality(a .. k - 1) = k - 1 - a + 1
          BY <2>6, <3>2, FS_Interval
        <4> QED
          BY <2>6, <4>1
      <3> QED
        BY <3>1, <3>2
    <2>8. a + Cardinality(D) - 1 = k - 1
      BY <2>5, <2>6, <2>7
    <2> QED
      BY <1>1, <2>5, <2>8
  <1> QED
    BY <1>1, <1>2, <1>3

LEMMA Ranks ==
    ASSUME NEW B \in SUBSET Int, IsFiniteSet(B)
    PROVE  /\ \A b \in B : Cardinality({a \in B : a < b}) \in 0 .. Cardinality(B) - 1
           /\ \A b \in B, c \in B :
                b < c => Cardinality({a \in B : a < b}) < Cardinality({a \in B : a < c})
  <1> DEFINE Below(b) == {a \in B : a < b}
  <1>1. \A b : IsFiniteSet(Below(b)) /\ Cardinality(Below(b)) \in Nat
    <2> TAKE b
    <2>1. Below(b) \in SUBSET B
      OBVIOUS
    <2> QED
      BY <2>1, FS_Subset, FS_CardinalityType
  <1>2. Cardinality(B) \in Nat
    BY FS_CardinalityType
  <1>3. ASSUME NEW b \in B PROVE Cardinality(Below(b)) \in 0 .. Cardinality(B) - 1
    <2>1. Below(b) \in SUBSET B /\ b \notin Below(b)
      OBVIOUS
    <2> HIDE DEF Below
    <2>2. Cardinality(Below(b)) <= Cardinality(B) /\ Cardinality(Below(b)) # Cardinality(B)
      BY <2>1, FS_Subset
    <2> QED
      BY <1>1, <1>2, <2>2
  <1>4. ASSUME NEW b \in B, NEW c \in B, b < c PROVE Cardinality(Below(b)) < Cardinality(Below(c))
    <2>0. b \in Int /\ c \in Int
      OBVIOUS
    <2>1. ASSUME NEW a \in B, a < b PROVE a < c
      BY <1>4, <2>0, <2>1
    <2>2. Below(b) \in SUBSET Below(c)
      BY <2>1
    <2>3. b \in Below(c) /\ b \notin Below(b)
      BY <1>4
    <2> HIDE DEF Below
    <2>4. /\ Cardinality(Below(b)) <= Cardinality(Below(c))
          /\ Cardinality(Below(b)) # Cardinality(Below(c))
      BY <1>1, <2>2, <2>3, FS_Subset
    <2> QED
      BY <1>1, <2>4
  <1> QED
    BY <1>3, <1>4

(* A log with different stamps.                                            *)
Stamps(log) ==
    /\ Len(log) \in Nat
    /\ log \in [1 .. Len(log) -> Int]
    /\ Cardinality(ToSet(log)) = Len(log)

Sorted(ordered, n) ==
    /\ n \in Nat
    /\ ordered \in [1 .. n -> Int] /\ Len(ordered) = n
    /\ \A i, j \in 1 .. n : i < j => ordered[i] < ordered[j]

(* Ordered sorts: it is increasing and has every batch.                    *)
LEMMA Sorting ==
    ASSUME NEW log, Stamps(log)
    PROVE  /\ Sorted(Ordered(log), Len(log))
           /\ ToSet(log) = {Ordered(log)[i] : i \in 1 .. Len(log)}
  <1> DEFINE n == Len(log)
             B == ToSet(log)
             ord == Ordered(log)
             Rank(b) == Cardinality({a \in B : a < b})
             rank == [b \in B |-> Rank(b)]
  <1>1. n \in Nat /\ DOMAIN log = 1 .. n /\ B \in SUBSET Int
    BY DEF Stamps, ToSet
  <1>2. IsFiniteSet(B)
    <2>1. log \in Surjection(1 .. n, B)
      BY DEF Stamps, ToSet, Surjection
    <2>2. IsFiniteSet(1 .. n)
      BY <1>1, FS_Interval
    <2> QED
      BY <2>1, <2>2, FS_Surjection
  <1>3. Cardinality(B) = n
    BY DEF Stamps
  <1>10. ord = [i \in 1 .. n |-> CHOOSE b \in B : Rank(b) = i - 1]
    BY <1>1 DEF Ordered
  <1>4. /\ \A b \in B : Rank(b) \in 0 .. n - 1
        /\ \A b \in B, c \in B : b < c => Rank(b) < Rank(c)
    BY <1>1, <1>2, <1>3, Ranks
  <1> HIDE DEF B, n, Rank
  <1>5. \A b, c \in B : b # c => rank[b] # rank[c]
    <2> SUFFICES ASSUME NEW b \in B, NEW c \in B, b # c PROVE rank[b] # rank[c]
      OBVIOUS
    <2>1. b < c \/ c < b
      BY <1>1
    <2>2. Rank(b) < Rank(c) \/ Rank(c) < Rank(b)
      BY <1>4, <2>1
    <2>3. Rank(b) \in Int /\ Rank(c) \in Int
      BY <1>4
    <2> QED
      BY <2>2, <2>3
  <1>6. rank \in Injection(B, 0 .. n - 1)
    BY <1>4, <1>5 DEF Injection, IsInjective
  <1>7. IsFiniteSet(0 .. n - 1) /\ Cardinality(0 .. n - 1) = n
    <2>1. n \in Int /\ n - 1 \in Int
      BY <1>1
    <2>2. IsFiniteSet(0 .. n - 1)
          /\ Cardinality(0 .. n - 1) = IF 0 > n - 1 THEN 0 ELSE n - 1 - 0 + 1
      BY <2>1, FS_Interval
    <2> QED
      BY <1>1, <2>1, <2>2
  <1>8. rank \in Surjection(B, 0 .. n - 1)
    BY <1>3, <1>6, <1>7, FS_Injection
  <1>9. \A i \in 1 .. n : \E b \in B : Rank(b) = i - 1
    <2> TAKE i \in 1 .. n
    <2>1. i - 1 \in 0 .. n - 1
      BY <1>1
    <2>2. PICK b \in B : rank[b] = i - 1
      BY <1>8, <2>1 DEF Surjection
    <2> QED
      BY <2>2
  <1>11. \A i \in 1 .. n : ord[i] \in B /\ Rank(ord[i]) = i - 1
    BY <1>9, <1>10
  <1>12. DOMAIN ord = 1 .. n
    BY <1>10
  <1>13. ord \in [1 .. n -> B]
    BY <1>10, <1>11
  <1> HIDE DEF ord
  <1>14. Len(ord) = n
    BY <1>1, <1>13
  <1>15. ASSUME NEW i \in 1 .. n, NEW j \in 1 .. n, i < j PROVE ord[i] < ord[j]
    <2>1. ord[i] \in B /\ ord[j] \in B /\ Rank(ord[i]) = i - 1 /\ Rank(ord[j]) = j - 1
      BY <1>11
    <2>2. ord[i] \in Int /\ ord[j] \in Int
      BY <2>1, <1>1
    <2>3. i - 1 # j - 1
      BY <1>1, <1>15
    <2>4. ord[i] # ord[j]
      BY <2>1, <2>3
    <2>5. ord[j] < ord[i] => Rank(ord[j]) < Rank(ord[i])
      BY <2>1, <1>4
    <2>6. ~(ord[j] < ord[i])
      BY <2>1, <2>5, <1>1, <1>15
    <2> QED
      BY <2>2, <2>4, <2>6
  <1>16. ASSUME NEW b \in B PROVE \E i \in 1 .. n : ord[i] = b
    <2>1. Rank(b) \in 0 .. n - 1
      BY <1>4
    <2>2. PICK i \in 1 .. n : i - 1 = Rank(b)
      <3>1. Rank(b) + 1 \in 1 .. n
        BY <1>1, <2>1
      <3> QED
        BY <2>1, <3>1
    <2>3. ord[i] \in B /\ Rank(ord[i]) = Rank(b)
      BY <1>11, <2>2
    <2>4. rank[ord[i]] = rank[b]
      BY <2>3
    <2> QED
      BY <1>5, <2>3, <2>4
  <1>17. B = {ord[i] : i \in 1 .. n}
    BY <1>13, <1>16
  <1>18. Sorted(ord, n)
    <2>1. ord \in [1 .. n -> Int]
      BY <1>1, <1>13
    <2> QED
      BY <1>1, <1>14, <1>15, <2>1 DEF Sorted
  <1> QED
    BY <1>17, <1>18 DEF B, n, ord

-----------------------------------------------------------------------------
(* 2. The grid (grid.py).                                                  *)

(* The number nearest to a / d, above it when two are.                     *)
RoundsTo(r, a, d) == 1 - d <= 2 * (d * r) - 2 * a /\ 2 * (d * r) - 2 * a <= d

(* _rounded_fraction rounds to the nearest.                                *)
LEMMA Rounding ==
    ASSUME NEW a \in Nat, NEW d \in Nat \ {0}
    PROVE  Rounded(a, d) \in Nat /\ RoundsTo(Rounded(a, d), a, d)
  <1> DEFINE q == a \div d
             m == a % d
  <1>1. q \in Nat /\ m \in Nat /\ m < d /\ a = d * q + m
    OBVIOUS
  <1> HIDE DEF q, m
  <1>2. d * q \in Nat /\ d * (q + 1) = d * q + d
    BY <1>1
  <1>3. CASE m * 2 < d
    <2>1. Rounded(a, d) = q
      BY <1>3 DEF Rounded, q, m
    <2> QED
      BY <1>1, <1>2, <1>3, <2>1 DEF RoundsTo
  <1>4. CASE ~(m * 2 < d)
    <2>1. Rounded(a, d) = q + 1
      BY <1>4 DEF Rounded, q, m
    <2> QED
      BY <1>1, <1>2, <1>4, <2>1 DEF RoundsTo
  <1> QED
    BY <1>3, <1>4

(* Different numbers are at least d apart when multiplied by it, so one    *)
(* number is the rounded fraction.                                         *)
LEMMA RoundsApart ==
    ASSUME NEW d \in Nat \ {0}, NEW r \in Int, NEW s \in Int, r < s
    PROVE  d * r \in Int /\ d * s \in Int /\ d * r + d <= d * s
  <1>1. s - r - 1 \in Nat /\ s = r + 1 + (s - r - 1)
    OBVIOUS
  <1>2. d * (s - r - 1) \in Nat
    BY <1>1
  <1>3. d * s = d * r + d + d * (s - r - 1)
    BY <1>1
  <1> QED
    BY <1>2, <1>3

LEMMA RoundsOnce ==
    ASSUME NEW a \in Int, NEW d \in Nat \ {0}, NEW r \in Int, NEW s \in Int,
           RoundsTo(r, a, d), RoundsTo(s, a, d)
    PROVE  r = s
  <1>1. ~(r < s)
    BY RoundsApart DEF RoundsTo
  <1>2. ~(s < r)
    BY RoundsApart DEF RoundsTo
  <1> QED
    BY <1>1, <1>2

(* A frame period of at least one unit.                                    *)
Period(period) == \E num \in Nat, den \in Nat \ {0} : period = <<num, den>> /\ den <= num

(* The grid: it begins at the anchor, its targets differ, and the k-th is  *)
(* at least k units from it.                                               *)
LEMMA TargetsGrow ==
    ASSUME NEW anchor \in Int, NEW period, Period(period)
    PROVE  /\ \A k \in Nat :
                /\ Target(anchor, period, k) \in Int
                /\ anchor + k <= Target(anchor, period, k)
                /\ RoundsTo(Target(anchor, period, k) - anchor, k * period[1], period[2])
           /\ \A k, l \in Nat : k < l => Target(anchor, period, k) < Target(anchor, period, l)
  <1>1. PICK num \in Nat, den \in Nat \ {0} : period = <<num, den>> /\ den <= num
    BY DEF Period
  <1>2. \A k \in Nat : Target(anchor, period, k) = anchor + Rounded(k * num, den)
    BY <1>1 DEF Target
  <1>3. \A k \in Nat : /\ k * num \in Nat /\ Rounded(k * num, den) \in Nat
                       /\ RoundsTo(Rounded(k * num, den), k * num, den)
    <2> TAKE k \in Nat
    <2>1. k * num \in Nat
      OBVIOUS
    <2> QED
      BY <2>1, Rounding
  <1>4. ASSUME NEW k \in Nat PROVE k <= Rounded(k * num, den)
    <2> DEFINE r == Rounded(k * num, den)
    <2>1. r \in Nat /\ RoundsTo(r, k * num, den)
      BY <1>3
    <2> HIDE DEF r
    <2>2. den * k <= k * num
      <3>1. k * num = k * den + k * (num - den)
        OBVIOUS
      <3>2. k * (num - den) \in Nat
        BY <1>1
      <3>3. k * den = den * k /\ den * k \in Nat
        OBVIOUS
      <3> QED
        BY <3>1, <3>2, <3>3
    <2>3. k * num \in Nat /\ den * k \in Nat
      OBVIOUS
    <2>4. r < k => den * r \in Int /\ den * r + den <= den * k
      BY <2>1, RoundsApart
    <2>5. ~(r < k)
      BY <2>1, <2>2, <2>3, <2>4 DEF RoundsTo
    <2> QED
      BY <2>1, <2>5 DEF r
  <1>5. ASSUME NEW k \in Nat, NEW l \in Nat, k < l
        PROVE  Rounded(k * num, den) < Rounded(l * num, den)
    <2> DEFINE r == Rounded(k * num, den)
               s == Rounded(l * num, den)
    <2>1. r \in Nat /\ RoundsTo(r, k * num, den) /\ s \in Nat /\ RoundsTo(s, l * num, den)
      BY <1>3
    <2> HIDE DEF r, s
    <2>2. k * num \in Nat /\ l * num \in Nat /\ k * num + den <= l * num
      <3>1. l - k - 1 \in Nat /\ l * num = k * num + num + (l - k - 1) * num
        BY <1>5
      <3>2. (l - k - 1) * num \in Nat /\ k * num \in Nat
        BY <3>1
      <3> QED
        BY <1>1, <3>1, <3>2
    <2>3. den * r \in Int /\ den * s \in Int
      BY <2>1
    <2>4. den * r < den * s
      BY <2>1, <2>2, <2>3 DEF RoundsTo
    <2>5. s < r => den * s + den <= den * r
      BY <2>1, RoundsApart
    <2>6. s # r /\ ~(s < r)
      BY <2>3, <2>4, <2>5
    <2> QED
      BY <2>1, <2>6 DEF r, s
  <1>6. ASSUME NEW k \in Nat
        PROVE  /\ Target(anchor, period, k) \in Int
               /\ anchor + k <= Target(anchor, period, k)
               /\ RoundsTo(Target(anchor, period, k) - anchor, k * period[1], period[2])
    <2>1. Target(anchor, period, k) - anchor = Rounded(k * num, den)
      BY <1>2, <1>3
    <2>2. period[1] = num /\ period[2] = den
      BY <1>1
    <2>3. RoundsTo(Target(anchor, period, k) - anchor, k * period[1], period[2])
      BY <1>3, <2>1, <2>2
    <2> QED
      BY <1>2, <1>3, <1>4, <2>3
  <1>7. ASSUME NEW k \in Nat, NEW l \in Nat, k < l
        PROVE  Target(anchor, period, k) < Target(anchor, period, l)
    BY <1>2, <1>3, <1>5, <1>7
  <1> QED
    BY <1>6, <1>7

(* Root follows its pointers to the end that measure bounds.               *)
LEMMA RootIs ==
    ASSUME NEW D, NEW parent \in [D -> D], NEW measure \in [D -> Nat],
           NEW F \in [D -> D],
           \A j \in D : F[j] = IF parent[j] = j THEN j ELSE F[parent[j]],
           \A j \in D : parent[j] # j => measure[parent[j]] < measure[j]
    PROVE  \A i \in D : Root(parent, i) = F[i]
  <1> DEFINE Def(g) == g = [j \in D |-> IF parent[j] = j THEN j ELSE g[parent[j]]]
             root == CHOOSE g : Def(g)
  <1>1. \E g : Def(g)
    <2>1. Def(F)
      OBVIOUS
    <2> QED
      BY <2>1
  <1>2. Def(root)
    <2> HIDE DEF Def
    <2> QED
      BY <1>1
  <1>3. DOMAIN parent = D
    OBVIOUS
  <1>4. \A i : Root(parent, i) = root[i]
    BY <1>3 DEF Root
  <1> HIDE DEF root
  <1>5. \A j \in D : root[j] = IF parent[j] = j THEN j ELSE root[parent[j]]
    BY <1>2
  <1>6. \A j \in D : F[j] = IF parent[j] = j THEN j ELSE F[parent[j]]
    OBVIOUS
  <1> DEFINE wrong == {measure[j] : j \in {l \in D : root[l] # F[l]}}
  <1>7. wrong = {}
    <2> SUFFICES ASSUME wrong # {} PROVE FALSE
      OBVIOUS
    <2>1. wrong \in SUBSET Nat
      OBVIOUS
    <2>2. PICK n \in wrong : \A m \in wrong : n <= m
      BY <2>1, Least
    <2>3. PICK j \in D : root[j] # F[j] /\ n = measure[j]
      BY <2>2
    <2>4. parent[j] \in D /\ parent[j] # j
      BY <1>5, <1>6, <2>3
    <2>5. measure[parent[j]] < measure[j] /\ measure[parent[j]] \in Nat /\ measure[j] \in Nat
      BY <2>4
    <2>6. root[parent[j]] # F[parent[j]]
      BY <1>5, <1>6, <2>3, <2>4
    <2>7. measure[parent[j]] \in wrong
      BY <2>4, <2>6
    <2> HIDE DEF wrong
    <2>8. measure[j] <= measure[parent[j]]
      BY <2>2, <2>3, <2>7
    <2> QED
      BY <2>5, <2>8
  <1>8. ASSUME NEW i \in D PROVE root[i] = F[i]
    <2>1. root[i] # F[i] => measure[i] \in wrong
      OBVIOUS
    <2> HIDE DEF wrong
    <2> QED
      BY <1>7, <2>1
  <1> QED
    BY <1>4, <1>8

(* A used batch leads to an earlier one, over used ones; the others lead   *)
(* to themselves.                                                          *)
Backward(predecessor, used, n) ==
    /\ predecessor \in [0 .. n -> 0 .. n]
    /\ \A j \in 0 .. n :
         /\ j \notin used => predecessor[j] = j
         /\ j \in used => /\ predecessor[j] < j
                          /\ \A m \in predecessor[j] + 1 .. j : m \in used

(* And to a later one.                                                     *)
Forward(successor, used, n) ==
    /\ successor \in [1 .. n + 1 -> 1 .. n + 1]
    /\ \A j \in 1 .. n + 1 :
         /\ j \notin used => successor[j] = j
         /\ j \in used => /\ j < successor[j]
                          /\ \A m \in j .. successor[j] - 1 : m \in used

(* find_predecessor finds the nearest free batch at or before i.           *)
LEMMA RootBackward ==
    ASSUME NEW n \in Nat, NEW used \in SUBSET (1 .. n), NEW p, Backward(p, used, n),
           NEW i \in 0 .. n
    PROVE  /\ Root(p, i) \in (0 .. i) \ used
           /\ \A m \in Root(p, i) + 1 .. i : m \in used
  <1> DEFINE AtOf(j, l) == j \in (0 .. l) \ used /\ \A m \in j + 1 .. l : m \in used
             F == [l \in 0 .. n |-> CHOOSE j \in Nat : AtOf(j, l)]
  <1>1. ASSUME NEW l \in 0 .. n PROVE \E j \in Nat : AtOf(j, l)
    <2> DEFINE gaps == {g \in Nat : l - g \in (0 .. l) \ used}
    <2>1. l \in gaps /\ gaps \in SUBSET Nat
      OBVIOUS
    <2>2. PICK g \in gaps : \A m \in gaps : g <= m
      BY <2>1, Least
    <2>3. ASSUME NEW m \in l - g + 1 .. l PROVE m \in used
      <3>1. l - m \in Nat /\ l - (l - m) = m /\ l - m < g /\ m \in 0 .. l
        BY <2>2, <2>3
      <3>2. ~(g <= l - m)
        BY <3>1, <2>2
      <3>3. l - m \notin gaps
        BY <3>2, <2>2
      <3> QED
        BY <3>1, <3>3
    <2>4. AtOf(l - g, l) /\ l - g \in Nat
      BY <2>2, <2>3
    <2> QED
      BY <2>4
  <1>2. ASSUME NEW l \in 0 .. n, NEW j \in Nat, NEW k \in Nat, AtOf(j, l), AtOf(k, l) PROVE j = k
    <2>1. ~(j < k)
      BY <1>2
    <2>2. ~(k < j)
      BY <1>2
    <2> QED
      BY <2>1, <2>2
  <1>3. \A l \in 0 .. n : F[l] \in Nat /\ AtOf(F[l], l)
    <2> HIDE DEF AtOf
    <2> QED
      BY <1>1
  <1> HIDE DEF F
  <1>4. ASSUME NEW j \in 0 .. n PROVE F[j] = IF p[j] = j THEN j ELSE F[p[j]]
    <2>1. CASE p[j] = j
      <3>1. j \notin used
        BY <2>1 DEF Backward
      <3>2. AtOf(j, j) /\ j \in Nat
        BY <3>1
      <3> HIDE DEF AtOf
      <3>3. F[j] = j
        BY <3>2, <1>2, <1>3
      <3> QED
        BY <2>1, <3>3
    <2>2. CASE p[j] # j
      <3>1. p[j] \in 0 .. n /\ p[j] < j /\ \A m \in p[j] + 1 .. j : m \in used
        BY <2>2 DEF Backward
      <3>2. F[p[j]] \in Nat /\ AtOf(F[p[j]], p[j])
        BY <1>3, <3>1
      <3>3. F[p[j]] \in (0 .. j) \ used
        BY <3>1, <3>2
      <3>4. ASSUME NEW m \in F[p[j]] + 1 .. j PROVE m \in used
        <4>1. m \in F[p[j]] + 1 .. p[j] \/ m \in p[j] + 1 .. j
          BY <3>1, <3>2
        <4> QED
          BY <3>1, <3>2, <4>1
      <3>5. AtOf(F[p[j]], j)
        BY <3>3, <3>4
      <3> HIDE DEF AtOf
      <3>6. F[j] = F[p[j]]
        BY <3>2, <3>5, <1>2, <1>3
      <3> QED
        BY <2>2, <3>6
    <2> QED
      BY <2>1, <2>2
  <1>5. F \in [0 .. n -> 0 .. n]
    BY <1>3 DEF F
  <1>6. \A j \in 0 .. n : F[j] = IF p[j] = j THEN j ELSE F[p[j]]
    BY <1>4
  <1> DEFINE measure == [l \in 0 .. n |-> l]
  <1>7. measure \in [0 .. n -> Nat]
    OBVIOUS
  <1>8. \A j \in 0 .. n : p[j] # j => measure[p[j]] < measure[j]
    <2> SUFFICES ASSUME NEW j \in 0 .. n, p[j] # j PROVE measure[p[j]] < measure[j]
      OBVIOUS
    <2>1. p[j] \in 0 .. n /\ p[j] < j
      BY DEF Backward
    <2> QED
      BY <2>1
  <1>9. p \in [0 .. n -> 0 .. n]
    BY DEF Backward
  <1> HIDE DEF measure
  <1>10. \A l \in 0 .. n : Root(p, l) = F[l]
    BY <1>5, <1>6, <1>7, <1>8, <1>9, RootIs
  <1> QED
    BY <1>3, <1>10

(* find_successor finds the nearest free batch at or after i.              *)
LEMMA RootForward ==
    ASSUME NEW n \in Nat, NEW used \in SUBSET (1 .. n), NEW s, Forward(s, used, n),
           NEW i \in 1 .. n + 1
    PROVE  /\ Root(s, i) \in (i .. n + 1) \ used
           /\ \A m \in i .. Root(s, i) - 1 : m \in used
  <1> DEFINE AtOf(j, l) == j \in (l .. n + 1) \ used /\ \A m \in l .. j - 1 : m \in used
             F == [l \in 1 .. n + 1 |-> CHOOSE j \in Nat : AtOf(j, l)]
  <1>1. ASSUME NEW l \in 1 .. n + 1 PROVE \E j \in Nat : AtOf(j, l)
    <2> DEFINE free == {j \in Nat : j \in (l .. n + 1) \ used}
    <2>1. n + 1 \in free /\ free \in SUBSET Nat
      OBVIOUS
    <2>2. PICK j \in free : \A m \in free : j <= m
      BY <2>1, Least
    <2>3. ASSUME NEW m \in l .. j - 1 PROVE m \in used
      <3>1. m \in Nat /\ m \in l .. n + 1 /\ ~(j <= m)
        BY <2>2, <2>3
      <3> QED
        BY <3>1, <2>2
    <2> QED
      BY <2>2, <2>3
  <1>2. ASSUME NEW l \in 1 .. n + 1, NEW j \in Nat, NEW k \in Nat, AtOf(j, l), AtOf(k, l) PROVE j = k
    <2>1. ~(j < k)
      BY <1>2
    <2>2. ~(k < j)
      BY <1>2
    <2> QED
      BY <2>1, <2>2
  <1>3. \A l \in 1 .. n + 1 : F[l] \in Nat /\ AtOf(F[l], l)
    <2> HIDE DEF AtOf
    <2> QED
      BY <1>1
  <1> HIDE DEF F
  <1>4. ASSUME NEW j \in 1 .. n + 1 PROVE F[j] = IF s[j] = j THEN j ELSE F[s[j]]
    <2>1. CASE s[j] = j
      <3>1. j \notin used
        BY <2>1 DEF Forward
      <3>2. AtOf(j, j) /\ j \in Nat
        BY <3>1
      <3> HIDE DEF AtOf
      <3>3. F[j] = j
        BY <3>2, <1>2, <1>3
      <3> QED
        BY <2>1, <3>3
    <2>2. CASE s[j] # j
      <3>1. s[j] \in 1 .. n + 1 /\ j < s[j] /\ \A m \in j .. s[j] - 1 : m \in used
        BY <2>2 DEF Forward
      <3>2. F[s[j]] \in Nat /\ AtOf(F[s[j]], s[j])
        BY <1>3, <3>1
      <3>3. F[s[j]] \in (j .. n + 1) \ used
        BY <3>1, <3>2
      <3>4. ASSUME NEW m \in j .. F[s[j]] - 1 PROVE m \in used
        <4>1. m \in j .. s[j] - 1 \/ m \in s[j] .. F[s[j]] - 1
          BY <3>1, <3>2
        <4> QED
          BY <3>1, <3>2, <4>1
      <3>5. AtOf(F[s[j]], j)
        BY <3>3, <3>4
      <3> HIDE DEF AtOf
      <3>6. F[j] = F[s[j]]
        BY <3>2, <3>5, <1>2, <1>3
      <3> QED
        BY <2>2, <3>6
    <2> QED
      BY <2>1, <2>2
  <1>5. F \in [1 .. n + 1 -> 1 .. n + 1]
    BY <1>3 DEF F
  <1>6. \A j \in 1 .. n + 1 : F[j] = IF s[j] = j THEN j ELSE F[s[j]]
    BY <1>4
  <1> DEFINE measure == [l \in 1 .. n + 1 |-> n + 1 - l]
  <1>7. measure \in [1 .. n + 1 -> Nat]
    OBVIOUS
  <1>8. \A j \in 1 .. n + 1 : s[j] # j => measure[s[j]] < measure[j]
    <2> SUFFICES ASSUME NEW j \in 1 .. n + 1, s[j] # j PROVE measure[s[j]] < measure[j]
      OBVIOUS
    <2>1. s[j] \in 1 .. n + 1 /\ j < s[j]
      BY DEF Forward
    <2> QED
      BY <2>1
  <1>9. s \in [1 .. n + 1 -> 1 .. n + 1]
    BY DEF Forward
  <1> HIDE DEF measure
  <1>10. \A l \in 1 .. n + 1 : Root(s, l) = F[l]
    BY <1>5, <1>6, <1>7, <1>8, <1>9, RootIs
  <1> QED
    BY <1>3, <1>10

(* The log before a target are the first ones of the ordered log.      *)
LEMMA BatchesBelow ==
    ASSUME NEW ordered, NEW n, Sorted(ordered, n), NEW target \in Int
    PROVE  LET below == Cardinality({i \in DOMAIN ordered : ordered[i] < target})
           IN  /\ below \in 0 .. n
               /\ \A i \in 1 .. n : ordered[i] < target <=> i <= below
  <1> DEFINE D == {i \in DOMAIN ordered : ordered[i] < target}
             below == Cardinality(D)
  <1>1. n \in Nat /\ DOMAIN ordered = 1 .. n
    BY DEF Sorted
  <1>2. D \in SUBSET (1 .. n)
    BY <1>1
  <1>3. \A i \in D : \A j \in 1 .. i : j \in D
    <2> SUFFICES ASSUME NEW i \in D, NEW j \in 1 .. i PROVE j \in D
      OBVIOUS
    <2>1. i \in 1 .. n /\ j \in 1 .. n /\ (j = i \/ j < i)
      BY <1>1
    <2>2. ordered[i] \in Int /\ ordered[j] \in Int /\ (j < i => ordered[j] < ordered[i])
      BY <2>1 DEF Sorted
    <2>3. ordered[i] < target
      OBVIOUS
    <2>4. ordered[j] < target
      BY <2>1, <2>2, <2>3
    <2> QED
      BY <1>1, <2>1, <2>4
  <1> HIDE DEF D
  <1>4. below \in Nat /\ D = 1 .. 1 + below - 1
    <2>1. n \in Int /\ 1 \in Nat
      BY <1>1
    <2> QED
      BY <1>2, <1>3, <2>1, Segment
  <1>5. 1 + below - 1 = below
    BY <1>4
  <1>6. below \in 0 .. n
    <2>1. below = 0 \/ below \in D
      BY <1>4, <1>5
    <2> QED
      BY <1>1, <1>2, <1>4, <2>1
  <1>7. \A i \in 1 .. n : i \in D <=> i <= below
    BY <1>4, <1>5
  <1>8. \A i \in 1 .. n : i \in D <=> ordered[i] < target
    BY <1>1 DEF D
  <1> QED
    BY <1>6, <1>7, <1>8 DEF D

(* The union-find structure as remove leaves it.                           *)
Structure(state, n) ==
    /\ state.used \in SUBSET (1 .. n)
    /\ Backward(state.predecessor, state.used, n)
    /\ Forward(state.successor, state.used, n)

LoopStates(n) ==
    {state \in [predecessor : [0 .. n -> 0 .. n], successor : [1 .. n + 1 -> 1 .. n + 1],
                used : SUBSET (1 .. n), entries : Seq([target : Int, batch : Int]),
                misses : Seq(Int)] : Structure(state, n)}

(* remove takes a batch out of the structure.                              *)
LEMMA UseKeepsStructure ==
    ASSUME NEW n \in Nat, NEW state \in LoopStates(n), NEW i \in (1 .. n) \ state.used
    PROVE  /\ Use(state, i) \in LoopStates(n)
           /\ Use(state, i).used = state.used \cup {i}
           /\ Use(state, i).entries = state.entries /\ Use(state, i).misses = state.misses
  <1> DEFINE back == Root(state.predecessor, i - 1)
             forth == Root(state.successor, i + 1)
             p == [state.predecessor EXCEPT ![i] = back]
             s == [state.successor EXCEPT ![i] = forth]
             used == state.used \cup {i}
             next == Use(state, i)
  <1>1. state \in [predecessor : [0 .. n -> 0 .. n], successor : [1 .. n + 1 -> 1 .. n + 1],
                   used : SUBSET (1 .. n), entries : Seq([target : Int, batch : Int]),
                   misses : Seq(Int)]
    BY DEF LoopStates
  <1>2. /\ Backward(state.predecessor, state.used, n) /\ Forward(state.successor, state.used, n)
        /\ state.used \in SUBSET (1 .. n)
    BY DEF LoopStates, Structure
  <1>3. i - 1 \in 0 .. n /\ i + 1 \in 1 .. n + 1 /\ i \in 1 .. n /\ i \in Nat
    OBVIOUS
  <1>4. back \in (0 .. i - 1) \ state.used /\ \A m \in back + 1 .. i - 1 : m \in state.used
    BY <1>2, <1>3, RootBackward
  <1>5. forth \in (i + 1 .. n + 1) \ state.used /\ \A m \in i + 1 .. forth - 1 : m \in state.used
    BY <1>2, <1>3, RootForward
  <1> HIDE DEF back, forth
  <1>6. Backward(p, used, n)
    <2>0. state.predecessor \in [0 .. n -> 0 .. n]
      BY <1>1
    <2>1. p \in [0 .. n -> 0 .. n] /\ p[i] = back
      BY <2>0, <1>3, <1>4
    <2>2. \A j \in 0 .. n : j # i => p[j] = state.predecessor[j]
      BY <2>0
    <2>3. ASSUME NEW j \in 0 .. n
          PROVE  /\ j \notin used => p[j] = j
                 /\ j \in used => p[j] < j /\ \A m \in p[j] + 1 .. j : m \in used
      <3>1. CASE j = i
        <4>1. back < i /\ \A m \in back + 1 .. i : m \in used
          BY <1>3, <1>4
        <4> QED
          BY <2>1, <3>1, <4>1
      <3>2. CASE j # i
        <4>1. /\ j \notin state.used => state.predecessor[j] = j
              /\ j \in state.used =>
                   /\ state.predecessor[j] < j
                   /\ \A m \in state.predecessor[j] + 1 .. j : m \in state.used
          BY <1>2 DEF Backward
        <4>2. p[j] = state.predecessor[j]
          BY <2>2, <3>2
        <4> HIDE DEF p
        <4> QED
          BY <3>2, <4>1, <4>2
      <3> QED
        BY <3>1, <3>2
    <2> QED
      BY <2>1, <2>3 DEF Backward
  <1>7. Forward(s, used, n)
    <2>0. state.successor \in [1 .. n + 1 -> 1 .. n + 1]
      BY <1>1
    <2>1. s \in [1 .. n + 1 -> 1 .. n + 1] /\ s[i] = forth
      <3>1. i \in 1 .. n + 1 /\ forth \in 1 .. n + 1
        BY <1>3, <1>5
      <3> QED
        BY <2>0, <3>1
    <2>2. \A j \in 1 .. n + 1 : j # i => s[j] = state.successor[j]
      BY <2>0
    <2>3. ASSUME NEW j \in 1 .. n + 1
          PROVE  /\ j \notin used => s[j] = j
                 /\ j \in used => j < s[j] /\ \A m \in j .. s[j] - 1 : m \in used
      <3>1. CASE j = i
        <4>1. i < forth /\ \A m \in i .. forth - 1 : m \in used
          BY <1>3, <1>5
        <4> QED
          BY <2>1, <3>1, <4>1
      <3>2. CASE j # i
        <4>1. /\ j \notin state.used => state.successor[j] = j
              /\ j \in state.used =>
                   /\ j < state.successor[j]
                   /\ \A m \in j .. state.successor[j] - 1 : m \in state.used
          BY <1>2 DEF Forward
        <4>2. s[j] = state.successor[j]
          BY <2>2, <3>2
        <4> HIDE DEF s
        <4> QED
          BY <3>2, <4>1, <4>2
      <3> QED
        BY <3>1, <3>2
    <2> QED
      BY <2>1, <2>3 DEF Forward
  <1>8. next = [predecessor |-> p, successor |-> s, used |-> used,
                entries |-> state.entries, misses |-> state.misses]
    <2>1. next = [[[state EXCEPT !.used = used] EXCEPT !.predecessor[i] = back]
                   EXCEPT !.successor[i] = forth]
      BY DEF Use, back, forth
    <2>2. [[state EXCEPT !.used = used] EXCEPT !.predecessor[i] = back]
            = [[state EXCEPT !.used = used] EXCEPT !.predecessor = p]
      BY <1>1
    <2> QED
      BY <1>1, <2>1
  <1>9. used \in SUBSET (1 .. n) /\ p \in [0 .. n -> 0 .. n] /\ s \in [1 .. n + 1 -> 1 .. n + 1]
    BY <1>2, <1>6, <1>7 DEF Backward, Forward
  <1> HIDE DEF p, s, used
  <1>10. next \in LoopStates(n)
    BY <1>1, <1>6, <1>7, <1>8, <1>9 DEF LoopStates, Structure
  <1> QED
    BY <1>8, <1>10 DEF used

(* The free batch the matching must take for a target.                     *)
Chosen(ordered, n, used, tolerance, target, i) ==
    /\ i \in (1 .. n) \ used
    /\ Distance(ordered[i], target) <= tolerance
    /\ \A j \in (1 .. n) \ used :
         \/ Distance(ordered[i], target) < Distance(ordered[j], target)
         \/ Distance(ordered[i], target) = Distance(ordered[j], target) /\ ordered[i] <= ordered[j]

Taken(ordered, state, target, i) ==
    [Use(state, i) EXCEPT !.entries = Append(@, [target |-> target, batch |-> ordered[i]])]

Missed(state, target) == [state EXCEPT !.misses = Append(@, target)]

(* A turn of the loop takes the nearest free batch, or misses the target   *)
(* because no free batch is near enough.                                   *)
LEMMA MatchChooses ==
    ASSUME NEW n, NEW ordered, Sorted(ordered, n), NEW tolerance \in Int,
           NEW state \in LoopStates(n), NEW target \in Int
    PROVE  \/ \E i \in 1 .. n : /\ Chosen(ordered, n, state.used, tolerance, target, i)
                                /\ Match(ordered, tolerance, state, target)
                                     = Taken(ordered, state, target, i)
           \/ /\ \A i \in (1 .. n) \ state.used : Distance(ordered[i], target) > tolerance
              /\ Match(ordered, tolerance, state, target) = Missed(state, target)
  <1> DEFINE below == Cardinality({i \in DOMAIN ordered : ordered[i] < target})
             back == Root(state.predecessor, below)
             forth == Root(state.successor, below + 1)
             near == {back, forth} \cap DOMAIN ordered
             best == {i \in near : /\ \A j \in near : Distance(ordered[i], target)
                                                        <= Distance(ordered[j], target)
                                   /\ Distance(ordered[i], target) <= tolerance}
             chosen == CHOOSE i \in best : \A j \in best : i <= j
             d(i) == Distance(ordered[i], target)
             free == (1 .. n) \ state.used
  <1>1. n \in Nat /\ DOMAIN ordered = 1 .. n
    BY DEF Sorted
  <1>2. below \in 0 .. n /\ \A i \in 1 .. n : ordered[i] < target <=> i <= below
    BY BatchesBelow
  <1>3. /\ Backward(state.predecessor, state.used, n) /\ Forward(state.successor, state.used, n)
        /\ state.used \in SUBSET (1 .. n)
    BY DEF LoopStates, Structure
  <1>4. Match(ordered, tolerance, state, target)
          = IF best = {} THEN Missed(state, target) ELSE Taken(ordered, state, target, chosen)
    BY DEF Match, Missed, Taken
  <1>5. back \in (0 .. below) \ state.used /\ \A m \in back + 1 .. below : m \in state.used
    <2> HIDE DEF below
    <2> QED
      BY <1>1, <1>2, <1>3, RootBackward
  <1>6. /\ forth \in (below + 1 .. n + 1) \ state.used
        /\ \A m \in below + 1 .. forth - 1 : m \in state.used
    <2>1. below + 1 \in 1 .. n + 1
      BY <1>1, <1>2
    <2> HIDE DEF below
    <2> QED
      BY <1>1, <1>3, <2>1, RootForward
  <1> HIDE DEF below, back, forth
  <1>7. \A i \in 1 .. n : ordered[i] \in Int
    BY DEF Sorted
  <1>8. \A i \in 1 .. n : d(i) \in Nat
    BY <1>7 DEF Distance
  <1>9. near \subseteq free
    BY <1>1, <1>2, <1>5, <1>6
  <1>10. ASSUME NEW j \in free
         PROVE  \E m \in near : d(m) < d(j) \/ (d(m) = d(j) /\ ordered[m] <= ordered[j])
    <2>0. j \in 1 .. n /\ j \notin state.used /\ j \in Int
      OBVIOUS
    <2>1. CASE j <= below
      <3>1. j <= back /\ back \in 1 .. n /\ back <= below
        BY <1>1, <1>2, <1>5, <2>0, <2>1
      <3>2. back \in near
        BY <1>1, <3>1
      <3>3. j = back \/ ordered[j] < ordered[back]
        BY <2>0, <3>1 DEF Sorted
      <3>4. ordered[back] < target /\ ordered[j] < target
        BY <1>2, <2>0, <2>1, <3>1
      <3>5. j = back \/ d(back) < d(j)
        BY <1>7, <2>0, <3>1, <3>3, <3>4 DEF Distance
      <3>6. j = back => d(back) = d(j) /\ ordered[back] <= ordered[j]
        BY <1>7, <2>0
      <3> HIDE DEF d
      <3> QED
        BY <3>2, <3>5, <3>6
    <2>2. CASE ~(j <= below)
      <3>1. forth <= j /\ forth \in 1 .. n /\ ~(forth <= below)
        BY <1>1, <1>2, <1>6, <2>0, <2>2
      <3>2. forth \in near
        BY <1>1, <3>1
      <3>3. j = forth \/ ordered[forth] < ordered[j]
        BY <2>0, <3>1 DEF Sorted
      <3>4. ~(ordered[forth] < target) /\ ~(ordered[j] < target)
        BY <1>2, <2>0, <2>2, <3>1
      <3>5. j = forth \/ d(forth) < d(j)
        BY <1>7, <2>0, <3>1, <3>3, <3>4 DEF Distance
      <3>6. j = forth => d(forth) = d(j) /\ ordered[forth] <= ordered[j]
        BY <1>7, <2>0
      <3> HIDE DEF d
      <3> QED
        BY <3>2, <3>5, <3>6
    <2> QED
      BY <2>1, <2>2
  <1>11. near \subseteq 1 .. n /\ near \subseteq {back, forth} /\ free \subseteq 1 .. n
    BY <1>1
  <1>12. best = {i \in near : (\A j \in near : d(i) <= d(j)) /\ d(i) <= tolerance}
    OBVIOUS
  <1> HIDE DEF near, best, d, free
  <1>13. CASE best = {}
    <2>1. ASSUME NEW i \in free PROVE d(i) > tolerance
      <3> DEFINE dist == {d(m) : m \in near}
      <3>1. PICK m \in near : d(m) <= d(i)
        <4>1. PICK m \in near : d(m) < d(i) \/ (d(m) = d(i) /\ ordered[m] <= ordered[i])
          BY <1>10
        <4>2. d(m) \in Nat /\ d(i) \in Nat
          BY <1>8, <1>11
        <4> QED
          BY <4>1, <4>2
      <3>2. dist \in SUBSET Nat /\ dist # {}
        BY <1>8, <1>11
      <3>3. PICK l \in near : \A k \in near : d(l) <= d(k)
        <4>1. PICK x \in dist : \A y \in dist : x <= y
          BY <3>2, Least
        <4> QED
          BY <4>1
      <3>4. ~(d(l) <= tolerance)
        BY <1>12, <1>13, <3>3
      <3>5. d(l) \in Nat /\ d(m) \in Nat /\ d(i) \in Nat /\ d(l) <= d(m)
        BY <1>8, <1>11, <3>3
      <3> QED
        BY <3>1, <3>4, <3>5
    <2> QED
      BY <1>4, <1>13, <2>1 DEF d, free
  <1>14. CASE best # {}
    <2>1. best \in SUBSET Nat
      BY <1>11, <1>12
    <2>2. chosen \in best /\ \A j \in best : chosen <= j
      <3>1. \E i \in best : \A j \in best : i <= j
        BY <1>14, <2>1, Least
      <3> QED
        BY <3>1
    <2> HIDE DEF chosen
    <2>3. chosen \in near /\ (\A j \in near : d(chosen) <= d(j)) /\ d(chosen) <= tolerance
      BY <1>12, <2>2
    <2>4. chosen \in free /\ chosen \in 1 .. n
      BY <1>9, <1>11, <2>3
    <2>5. ASSUME NEW j \in free
          PROVE  d(chosen) < d(j) \/ (d(chosen) = d(j) /\ ordered[chosen] <= ordered[j])
      <3>1. PICK m \in near : d(m) < d(j) \/ (d(m) = d(j) /\ ordered[m] <= ordered[j])
        BY <1>10
      <3>2. /\ d(m) \in Nat /\ d(j) \in Nat /\ d(chosen) \in Nat
            /\ d(chosen) <= d(m) /\ m \in 1 .. n /\ j \in 1 .. n
        BY <1>8, <1>11, <2>3, <2>4
      <3>3. CASE d(chosen) = d(j)
        <4>1. d(m) = d(chosen) /\ ordered[m] <= ordered[j]
          BY <3>1, <3>2, <3>3
        <4>2. m \in best
          BY <1>12, <2>3, <4>1
        <4>3. chosen <= m
          BY <2>2, <4>2
        <4>4. chosen = m \/ ordered[chosen] < ordered[m]
          BY <2>4, <3>2, <4>3 DEF Sorted
        <4>5. ordered[chosen] \in Int /\ ordered[m] \in Int /\ ordered[j] \in Int
          BY <1>7, <2>4, <3>2
        <4> QED
          BY <3>3, <4>1, <4>4, <4>5
      <3>4. CASE d(chosen) # d(j)
        BY <3>1, <3>2, <3>4
      <3> QED
        BY <3>3, <3>4
    <2>6. Chosen(ordered, n, state.used, tolerance, target, chosen)
      BY <2>3, <2>4, <2>5 DEF Chosen, d, free
    <2> QED
      BY <1>4, <1>14, <2>4, <2>6
  <1> QED
    BY <1>13, <1>14

LEMMA Appending ==
    ASSUME NEW S, NEW s \in Seq(S), NEW x \in S
    PROVE  /\ Append(s, x) \in Seq(S) /\ Len(Append(s, x)) = Len(s) + 1
           /\ Len(s) \in Nat
           /\ ToSet(Append(s, x)) = ToSet(s) \cup {x}
  <1>1. Append(s, x) \in Seq(S) /\ Len(Append(s, x)) = Len(s) + 1 /\ Len(s) \in Nat
    OBVIOUS
  <1>2. ToSet(s) = {s[i] : i \in 1 .. Len(s)}
    BY DEF ToSet
  <1>3. ToSet(Append(s, x)) = {Append(s, x)[i] : i \in 1 .. Len(s) + 1}
    <2>1. DOMAIN Append(s, x) = 1 .. Len(s) + 1
      BY <1>1
    <2> QED
      BY <2>1 DEF ToSet
  <1>4. \A i \in 1 .. Len(s) : Append(s, x)[i] = s[i]
    OBVIOUS
  <1>5. Append(s, x)[Len(s) + 1] = x
    OBVIOUS
  <1>6. 1 .. Len(s) + 1 = (1 .. Len(s)) \cup {Len(s) + 1}
    BY <1>1
  <1> QED
    BY <1>1, <1>2, <1>3, <1>4, <1>5, <1>6

(* What a turn does to what the loop has selected.                         *)
LEMMA TakenIs ==
    ASSUME NEW n, NEW ordered, Sorted(ordered, n), NEW state \in LoopStates(n),
           NEW target \in Int, NEW i \in (1 .. n) \ state.used
    PROVE  LET after == Taken(ordered, state, target, i)
           IN  /\ after \in LoopStates(n)
               /\ after.used = state.used \cup {i}
               /\ after.entries = Append(state.entries, [target |-> target, batch |-> ordered[i]])
               /\ after.misses = state.misses
  <1> DEFINE used == Use(state, i)
             entry == [target |-> target, batch |-> ordered[i]]
             after == [used EXCEPT !.entries = Append(@, entry)]
  <1>1. n \in Nat /\ entry \in [target : Int, batch : Int]
    BY DEF Sorted
  <1>2. /\ used \in LoopStates(n) /\ used.used = state.used \cup {i}
        /\ used.entries = state.entries /\ used.misses = state.misses
    BY <1>1, UseKeepsStructure
  <1> HIDE DEF used, entry
  <1>3. Append(used.entries, entry) \in Seq([target : Int, batch : Int])
    BY <1>1, <1>2, Appending DEF LoopStates
  <1>4. after \in LoopStates(n)
    BY <1>2, <1>3 DEF LoopStates, Structure
  <1>5. /\ after.used = used.used /\ after.entries = Append(used.entries, entry)
        /\ after.misses = used.misses
    BY <1>2 DEF LoopStates
  <1>6. Taken(ordered, state, target, i) = after
    BY DEF Taken, used, entry
  <1> HIDE DEF after
  <1> QED
    BY <1>2, <1>4, <1>5, <1>6 DEF entry

LEMMA MissedIs ==
    ASSUME NEW n, NEW state \in LoopStates(n), NEW target \in Int
    PROVE  LET after == Missed(state, target)
           IN  /\ after \in LoopStates(n)
               /\ after.used = state.used /\ after.entries = state.entries
               /\ after.misses = Append(state.misses, target)
  <1>1. Append(state.misses, target) \in Seq(Int)
    BY Appending DEF LoopStates
  <1> QED
    BY <1>1 DEF Missed, LoopStates, Structure

(* The states of the loop.                                                 *)
IsLoop(turn, ordered, n, tolerance, targets) ==
    /\ turn[0].used = {} /\ turn[0].entries = <<>> /\ turn[0].misses = <<>>
    /\ \A k \in 0 .. Len(targets) : turn[k] \in LoopStates(n)
    /\ \A k \in 1 .. Len(targets) :
         turn[k] = Match(ordered, tolerance, turn[k - 1], targets[k])

(* The recursive function of Turns has these states.                       *)
LEMMA TurnsRun ==
    ASSUME NEW n, NEW ordered, Sorted(ordered, n), NEW tolerance \in Int,
           NEW targets \in Seq(Int)
    PROVE  IsLoop(Turns(ordered, tolerance, targets), ordered, n, tolerance, targets)
  <1> DEFINE m == Len(targets)
             S == LoopStates(n)
             start == [predecessor |-> [i \in 0 .. Len(ordered) |-> i],
                       successor |-> [i \in 1 .. Len(ordered) + 1 |-> i],
                       used |-> {}, entries |-> <<>>, misses |-> <<>>]
             Def(g) == g = [k \in 0 .. m |->
                             IF k = 0 THEN start
                             ELSE Match(ordered, tolerance, g[k - 1], targets[k])]
             turn == CHOOSE g : Def(g)
             D == [s \in S |-> [k \in 1 .. m |-> Match(ordered, tolerance, s, targets[k])]]
  <1>1. n \in Nat /\ Len(ordered) = n /\ m \in Nat
    BY DEF Sorted
  <1>2. Turns(ordered, tolerance, targets) = turn
    BY DEF Turns
  <1>3. start \in S
    <2>1. start \in [predecessor : [0 .. n -> 0 .. n], successor : [1 .. n + 1 -> 1 .. n + 1],
                     used : SUBSET (1 .. n), entries : Seq([target : Int, batch : Int]),
                     misses : Seq(Int)]
      BY <1>1
    <2>2. Backward(start.predecessor, start.used, n) /\ Forward(start.successor, start.used, n)
      BY <1>1 DEF Backward, Forward
    <2> QED
      BY <2>1, <2>2 DEF LoopStates, Structure
  <1>4. ASSUME NEW s \in S, NEW k \in 1 .. m
        PROVE  Match(ordered, tolerance, s, targets[k]) \in S
    <2>1. targets[k] \in Int
      OBVIOUS
    <2>2. CASE \E i \in 1 .. n : /\ Chosen(ordered, n, s.used, tolerance, targets[k], i)
                                 /\ Match(ordered, tolerance, s, targets[k])
                                      = Taken(ordered, s, targets[k], i)
      <3>1. PICK i \in 1 .. n : /\ Chosen(ordered, n, s.used, tolerance, targets[k], i)
                               /\ Match(ordered, tolerance, s, targets[k])
                                    = Taken(ordered, s, targets[k], i)
        BY <2>2
      <3>2. i \in (1 .. n) \ s.used
        BY <3>1 DEF Chosen
      <3>3. Taken(ordered, s, targets[k], i) \in S
        BY <2>1, <3>2, TakenIs
      <3> QED
        BY <3>1, <3>3
    <2>3. CASE Match(ordered, tolerance, s, targets[k]) = Missed(s, targets[k])
      BY <2>1, <2>3, MissedIs
    <2>4. \/ \E i \in 1 .. n : /\ Chosen(ordered, n, s.used, tolerance, targets[k], i)
                               /\ Match(ordered, tolerance, s, targets[k])
                                    = Taken(ordered, s, targets[k], i)
          \/ Match(ordered, tolerance, s, targets[k]) = Missed(s, targets[k])
      BY <2>1, MatchChooses
    <2> QED
      BY <2>2, <2>3, <2>4
  <1>5. D \in [S -> [1 .. m -> S]]
    BY <1>4
  <1>6. \A s \in S, k \in 1 .. m : D[s][k] = Match(ordered, tolerance, s, targets[k])
    OBVIOUS
  <1>7. start.used = {} /\ start.entries = <<>> /\ start.misses = <<>>
    OBVIOUS
  <1> HIDE DEF D, S, start, m
  <1>16. PICK g \in [0 .. m -> S] : Run(g, start, m, D)
    BY <1>1, <1>3, <1>5, Iterates
  <1>8. g[0] = start /\ \A k \in 1 .. m : g[k] = D[g[k - 1]][k]
    BY <1>16 DEF Run
  <1>9. ASSUME NEW k \in 1 .. m
        PROVE  g[k - 1] \in S /\ g[k] = Match(ordered, tolerance, g[k - 1], targets[k])
    <2>1. k - 1 \in 0 .. m
      BY <1>1
    <2> QED
      BY <1>6, <1>8, <2>1
  <1>10. Def(g)
    <2>1. ASSUME NEW k \in 0 .. m
          PROVE g[k] = IF k = 0 THEN start ELSE Match(ordered, tolerance, g[k - 1], targets[k])
      <3>1. CASE k = 0
        BY <1>8, <3>1
      <3>2. CASE k # 0
        <4>1. k \in 1 .. m
          BY <1>1, <3>2
        <4> QED
          BY <1>9, <3>2, <4>1
      <3> QED
        BY <3>1, <3>2
    <2>2. g = [k \in 0 .. m |-> g[k]]
      BY <1>8
    <2> QED
      BY <2>1, <2>2
  <1>11. Def(turn)
    <2> HIDE DEF Def
    <2> QED
      BY <1>10
  <1> HIDE DEF turn
  <1>12. turn[0] = start
    BY <1>1, <1>11
  <1>13. ASSUME NEW k \in 1 .. m
         PROVE  turn[k] = Match(ordered, tolerance, turn[k - 1], targets[k])
    BY <1>1, <1>11
  <1> DEFINE good == {k \in Nat : k <= m => turn[k] \in S}
  <1>14. good = Nat
    <2>1. 0 \in good
      BY <1>3, <1>12
    <2>2. ASSUME NEW k \in good PROVE k + 1 \in good
      <3> SUFFICES ASSUME k + 1 <= m PROVE turn[k + 1] \in S
        OBVIOUS
      <3>1. k + 1 \in 1 .. m /\ k \in Nat /\ k <= m /\ k + 1 - 1 = k
        BY <1>1
      <3>2. turn[k] \in S
        BY <3>1
      <3>3. turn[k + 1] = Match(ordered, tolerance, turn[k], targets[k + 1])
        BY <1>13, <3>1
      <3> QED
        BY <1>4, <3>1, <3>2, <3>3
    <2>3. good \in SUBSET Nat
      OBVIOUS
    <2> HIDE DEF good
    <2> QED
      BY <2>1, <2>2, <2>3, InductionOn
  <1>15. \A k \in 0 .. m : turn[k] \in S
    BY <1>1, <1>14
  <1> QED
    BY <1>2, <1>7, <1>12, <1>13, <1>15 DEF m, S, IsLoop

(* What is free for a target in the end: the earlier targets took the rest. *)
Batches(ordered, n) == {ordered[i] : i \in 1 .. n}
Found(state) == ToSet(state.entries)
FreeFor(state, ordered, n, target) ==
    Batches(ordered, n) \ {e.batch : e \in {x \in Found(state) : x.target < target}}

(* The first k targets are matched.                                        *)
Matched(state, ordered, n, tolerance, targets, k) ==
    /\ {e.target : e \in Found(state)} \cup ToSet(state.misses) = {targets[j] : j \in 1 .. k}
    /\ Len(state.entries) + Len(state.misses) = k
    /\ {ordered[i] : i \in state.used} = {e.batch : e \in Found(state)}
    /\ \A e \in Found(state) :
         IsNearest(FreeFor(state, ordered, n, e.target), e.target, tolerance, e.batch)
    /\ \A target \in ToSet(state.misses) :
         \A b \in FreeFor(state, ordered, n, target) : Distance(b, target) > tolerance

Growing(targets) == \A j, k \in 1 .. Len(targets) : j < k => targets[j] < targets[k]

(* A turn matches one more target.                                         *)
LEMMA TurnMatches ==
    ASSUME NEW n, NEW ordered, Sorted(ordered, n), NEW tolerance \in Int,
           NEW targets \in Seq(Int), Growing(targets), NEW k \in 1 .. Len(targets),
           NEW state \in LoopStates(n),
           Matched(state, ordered, n, tolerance, targets, k - 1)
    PROVE  Matched(Match(ordered, tolerance, state, targets[k]), ordered, n, tolerance, targets, k)
  <1> DEFINE target == targets[k]
             after == Match(ordered, tolerance, state, target)
             T(j) == {targets[l] : l \in 1 .. j}
             Ts == {e.target : e \in Found(state)}
             Ms == ToSet(state.misses)
             Bs == {e.batch : e \in Found(state)}
  <1>1. k \in Nat /\ k - 1 \in Nat /\ Len(targets) \in Nat /\ target \in Int
    OBVIOUS
  <1>2. T(k) = T(k - 1) \cup {target}
    <2>1. 1 .. k = (1 .. k - 1) \cup {k}
      BY <1>1
    <2> QED
      BY <2>1
  <1>3. \A t \in T(k - 1) : t \in Int /\ t < target
    <2>1. \A l \in 1 .. k - 1 : l \in 1 .. Len(targets) /\ l < k
      BY <1>1
    <2>2. \A l \in 1 .. Len(targets) : targets[l] \in Int
      OBVIOUS
    <2> QED
      BY <2>1, <2>2 DEF Growing
  <1>4. /\ Ts \cup Ms = T(k - 1)
        /\ Len(state.entries) + Len(state.misses) = k - 1
        /\ {ordered[i] : i \in state.used} = Bs
        /\ \A e \in Found(state) :
             IsNearest(FreeFor(state, ordered, n, e.target), e.target, tolerance, e.batch)
        /\ \A t \in Ms : \A b \in FreeFor(state, ordered, n, t) : Distance(b, t) > tolerance
    BY DEF Matched
  <1>5. /\ state.entries \in Seq([target : Int, batch : Int]) /\ state.misses \in Seq(Int)
        /\ state.used \in SUBSET (1 .. n) /\ n \in Nat
        /\ Len(state.entries) \in Nat /\ Len(state.misses) \in Nat
    <2>1. state.entries \in Seq([target : Int, batch : Int]) /\ state.misses \in Seq(Int)
      BY DEF LoopStates
    <2>2. state.used \in SUBSET (1 .. n) /\ n \in Nat
      BY DEF LoopStates, Sorted
    <2>3. Len(state.entries) \in Nat
      BY <2>1
    <2>4. Len(state.misses) \in Nat
      BY <2>1
    <2> QED
      BY <2>1, <2>2, <2>3, <2>4
  <1>6. \A e \in Found(state) : e.target \in Int /\ e.target < target /\ e.target \in Ts
    BY <1>3, <1>4
  <1>7. \A t \in Ms : t \in Int /\ t < target
    BY <1>3, <1>4
  <1>8. FreeFor(state, ordered, n, target) = {ordered[i] : i \in (1 .. n) \ state.used}
    <2>1. {x \in Found(state) : x.target < target} = Found(state)
      BY <1>6
    <2>2. FreeFor(state, ordered, n, target) = Batches(ordered, n) \ Bs
      BY <2>1 DEF FreeFor
    <2>3. \A i, j \in 1 .. n : ordered[i] = ordered[j] => i = j
      <3> SUFFICES ASSUME NEW i \in 1 .. n, NEW j \in 1 .. n, ordered[i] = ordered[j] PROVE i = j
        OBVIOUS
      <3>1. ordered[i] \in Int /\ ordered[j] \in Int
        BY DEF Sorted
      <3>2. ~(i < j) /\ ~(j < i)
        BY <3>1 DEF Sorted
      <3> QED
        BY <3>2
    <2>4. ASSUME NEW b PROVE b \in Batches(ordered, n) \ {ordered[i] : i \in state.used}
                               <=> b \in {ordered[i] : i \in (1 .. n) \ state.used}
      BY <1>5, <2>3 DEF Batches
    <2> QED
      BY <1>4, <2>2, <2>4
  <1>9. T(k - 1) = Ts \cup Ms
    BY <1>4
  <1> HIDE DEF T, Ts, Ms, Bs
  <1>10. CASE \E i \in 1 .. n : /\ Chosen(ordered, n, state.used, tolerance, target, i)
                                /\ after = Taken(ordered, state, target, i)
    <2>1. PICK i \in 1 .. n : /\ Chosen(ordered, n, state.used, tolerance, target, i)
                              /\ after = Taken(ordered, state, target, i)
      BY <1>10
    <2> DEFINE entry == [target |-> target, batch |-> ordered[i]]
    <2>2. i \in (1 .. n) \ state.used
      BY <2>1 DEF Chosen
    <2>3. /\ after.used = state.used \cup {i}
          /\ after.entries = Append(state.entries, entry)
          /\ after.misses = state.misses
      BY <1>1, <2>1, <2>2, TakenIs
    <2>4. entry \in [target : Int, batch : Int]
      BY <1>1 DEF Sorted
    <2>5. entry.target = target /\ entry.batch = ordered[i]
      OBVIOUS
    <2> HIDE DEF after, entry, target
    <2>6. Found(after) = Found(state) \cup {entry} /\ Len(after.entries) = Len(state.entries) + 1
      <3>1. /\ Len(Append(state.entries, entry)) = Len(state.entries) + 1
            /\ ToSet(Append(state.entries, entry)) = ToSet(state.entries) \cup {entry}
        <4> DEFINE E == [target : Int, batch : Int]
        <4>1. state.entries \in Seq(E) /\ entry \in E
          BY <1>5, <2>4
        <4> HIDE DEF E
        <4> QED
          BY <4>1, Appending
      <3> QED
        BY <2>3, <3>1 DEF Found
    <2>7. {e.target : e \in Found(after)} \cup ToSet(after.misses) = T(k)
      <3>1. {e.target : e \in Found(after)} = Ts \cup {target}
        BY <2>5, <2>6 DEF Ts
      <3>2. ToSet(after.misses) = Ms
        BY <2>3 DEF Ms
      <3> QED
        BY <1>2, <1>9, <3>1, <3>2
    <2>8. Len(after.entries) + Len(after.misses) = k
      <3>1. Len(after.entries) = Len(state.entries) + 1 /\ Len(after.misses) = Len(state.misses)
        BY <2>3, <2>6
      <3>2. Len(state.entries) + Len(state.misses) = k - 1
        BY <1>4
      <3>3. Len(state.entries) \in Nat /\ Len(state.misses) \in Nat
        BY <1>5
      <3>4. Len(after.entries) + Len(after.misses) = (Len(state.entries) + 1) + Len(state.misses)
        BY <3>1
      <3>5. k \in Int
        BY <1>1
      <3>6. (Len(state.entries) + 1) + Len(state.misses) = k
        <4>1. PICK a \in Nat : a = Len(state.entries)
          BY <3>3
        <4>2. PICK b \in Nat : b = Len(state.misses)
          BY <3>3
        <4>3. a + b = k - 1
          BY <3>2, <4>1, <4>2
        <4>4. (a + 1) + b = k
          BY <3>5, <4>3
        <4> QED
          BY <4>1, <4>2, <4>4
      <3> QED
        BY <3>4, <3>6
    <2>9. {ordered[j] : j \in after.used} = {e.batch : e \in Found(after)}
      <3>1. {ordered[j] : j \in after.used} = {ordered[j] : j \in state.used} \cup {ordered[i]}
        BY <2>3
      <3>2. {e.batch : e \in Found(after)} = Bs \cup {ordered[i]}
        BY <2>5, <2>6 DEF Bs
      <3> QED
        BY <1>4, <3>1, <3>2 DEF Bs
    <2>10. \A t \in Int : ~(target < t) =>
             FreeFor(after, ordered, n, t) = FreeFor(state, ordered, n, t)
      <3> TAKE t \in Int
      <3> HAVE ~(target < t)
      <3>1. {x \in Found(after) : x.target < t} = {x \in Found(state) : x.target < t}
        BY <2>5, <2>6
      <3> QED
        BY <3>1 DEF FreeFor
    <2>11. \A e \in Found(after) :
             IsNearest(FreeFor(after, ordered, n, e.target), e.target, tolerance, e.batch)
      <3> TAKE e \in Found(after)
      <3>1. CASE e \in Found(state)
        <4>1. FreeFor(after, ordered, n, e.target) = FreeFor(state, ordered, n, e.target)
          BY <1>1, <1>6, <2>10, <3>1 DEF target
        <4> QED
          BY <1>4, <3>1, <4>1
      <3>2. CASE e = entry
        <4>1. FreeFor(after, ordered, n, target) = {ordered[j] : j \in (1 .. n) \ state.used}
          BY <1>1, <1>8, <2>10
        <4>2. /\ Distance(ordered[i], target) <= tolerance
              /\ \A j \in (1 .. n) \ state.used :
                   \/ Distance(ordered[i], target) < Distance(ordered[j], target)
                   \/ /\ Distance(ordered[i], target) = Distance(ordered[j], target)
                      /\ ordered[i] <= ordered[j]
          BY <2>1 DEF Chosen
        <4>3. IsNearest(FreeFor(after, ordered, n, target), target, tolerance, ordered[i])
          BY <2>2, <4>1, <4>2 DEF IsNearest
        <4> QED
          BY <2>5, <3>2, <4>3
      <3> QED
        BY <2>6, <3>1, <3>2
    <2>12. \A t \in ToSet(after.misses) :
             \A b \in FreeFor(after, ordered, n, t) : Distance(b, t) > tolerance
      <3> TAKE t \in ToSet(after.misses)
      <3>1. t \in Ms
        BY <2>3 DEF Ms
      <3>2. FreeFor(after, ordered, n, t) = FreeFor(state, ordered, n, t)
        BY <1>1, <1>7, <2>10, <3>1
      <3> QED
        BY <1>4, <3>1, <3>2 DEF Ms
    <2> QED
      BY <2>7, <2>8, <2>9, <2>11, <2>12 DEF Matched, after, target, T
  <1>11. CASE /\ \A i \in (1 .. n) \ state.used : Distance(ordered[i], target) > tolerance
              /\ after = Missed(state, target)
    <2>1. /\ after.used = state.used /\ after.entries = state.entries
          /\ after.misses = Append(state.misses, target)
      <3>1. target \in Int
        BY <1>1
      <3> HIDE DEF target
      <3>2. /\ Missed(state, target).used = state.used
            /\ Missed(state, target).entries = state.entries
            /\ Missed(state, target).misses = Append(state.misses, target)
        BY <3>1, MissedIs
      <3> QED
        BY <1>11, <3>2
    <2>2. \A i \in (1 .. n) \ state.used : Distance(ordered[i], target) > tolerance
      BY <1>11
    <2>0. target \in Int
      BY <1>1
    <2> HIDE DEF after, target
    <2>3. Found(after) = Found(state) /\ ToSet(after.misses) = Ms \cup {target}
          /\ Len(after.misses) = Len(state.misses) + 1
      <3>1. /\ Len(Append(state.misses, target)) = Len(state.misses) + 1
            /\ ToSet(Append(state.misses, target)) = ToSet(state.misses) \cup {target}
        <4>1. state.misses \in Seq(Int)
          BY <1>5
        <4> QED
          BY <2>0, <4>1, Appending
      <3> QED
        BY <2>1, <3>1 DEF Found, Ms
    <2>4. \A t : FreeFor(after, ordered, n, t) = FreeFor(state, ordered, n, t)
      BY <2>3 DEF FreeFor
    <2>5. {e.target : e \in Found(after)} \cup ToSet(after.misses) = T(k)
      BY <1>2, <1>9, <2>3 DEF Ts
    <2>6. Len(after.entries) + Len(after.misses) = k
      <3>1. Len(after.entries) = Len(state.entries) /\ Len(after.misses) = Len(state.misses) + 1
        BY <2>1, <2>3
      <3>2. Len(state.entries) + Len(state.misses) = k - 1
        BY <1>4
      <3>3. Len(state.entries) \in Nat /\ Len(state.misses) \in Nat
        BY <1>5
      <3>4. Len(after.entries) + Len(after.misses) = Len(state.entries) + (Len(state.misses) + 1)
        BY <3>1
      <3>5. k \in Int
        BY <1>1
      <3>6. Len(state.entries) + (Len(state.misses) + 1) = k
        <4>1. PICK a \in Nat : a = Len(state.entries)
          BY <3>3
        <4>2. PICK b \in Nat : b = Len(state.misses)
          BY <3>3
        <4>3. a + b = k - 1
          BY <3>2, <4>1, <4>2
        <4>4. a + (b + 1) = k
          BY <3>5, <4>3
        <4> QED
          BY <4>1, <4>2, <4>4
      <3> QED
        BY <3>4, <3>6
    <2>7. {ordered[j] : j \in after.used} = {e.batch : e \in Found(after)}
      BY <1>4, <2>1, <2>3 DEF Bs
    <2>8. \A e \in Found(after) :
             IsNearest(FreeFor(after, ordered, n, e.target), e.target, tolerance, e.batch)
      BY <1>4, <2>3, <2>4
    <2>9. \A t \in ToSet(after.misses) :
             \A b \in FreeFor(after, ordered, n, t) : Distance(b, t) > tolerance
      <3>1. \A b \in FreeFor(after, ordered, n, target) : Distance(b, target) > tolerance
        BY <1>8, <2>2, <2>4
      <3>2. \A t \in Ms : \A b \in FreeFor(after, ordered, n, t) : Distance(b, t) > tolerance
        BY <1>4, <2>4 DEF Ms
      <3> QED
        BY <2>3, <3>1, <3>2
    <2> QED
      BY <2>5, <2>6, <2>7, <2>8, <2>9 DEF Matched, after, target, T
  <1>12. target \in Int
    BY <1>1
  <1> HIDE DEF target
  <1> QED
    BY <1>10, <1>11, <1>12, MatchChooses

(* The loop matches every target.                                          *)
LEMMA TurnsMatch ==
    ASSUME NEW n, NEW ordered, Sorted(ordered, n), NEW tolerance \in Int,
           NEW targets \in Seq(Int), Growing(targets)
    PROVE  LET end == Turns(ordered, tolerance, targets)[Len(targets)]
           IN  /\ end \in LoopStates(n)
               /\ Matched(end, ordered, n, tolerance, targets, Len(targets))
  <1> DEFINE turn == Turns(ordered, tolerance, targets)
             m == Len(targets)
             good == {k \in Nat : k <= m => Matched(turn[k], ordered, n, tolerance, targets, k)}
  <1>0. IsLoop(turn, ordered, n, tolerance, targets)
    BY TurnsRun
  <1>1. /\ turn[0].used = {} /\ turn[0].entries = <<>> /\ turn[0].misses = <<>>
        /\ \A k \in 0 .. m : turn[k] \in LoopStates(n)
        /\ \A k \in 1 .. m : turn[k] = Match(ordered, tolerance, turn[k - 1], targets[k])
    BY <1>0 DEF IsLoop
  <1>2. m \in Nat
    OBVIOUS
  <1> HIDE DEF turn
  <1>3. Matched(turn[0], ordered, n, tolerance, targets, 0)
    <2>1. Found(turn[0]) = {} /\ ToSet(turn[0].misses) = {}
      BY <1>1 DEF Found, ToSet
    <2>2. 1 .. 0 = {} /\ Len(turn[0].entries) = 0 /\ Len(turn[0].misses) = 0
      BY <1>1
    <2> QED
      BY <1>1, <2>1, <2>2 DEF Matched
  <1>4. ASSUME NEW k \in good PROVE k + 1 \in good
    <2>1. CASE k + 1 <= m
      <3>1. k \in Nat /\ k <= m /\ k + 1 \in 1 .. m /\ k + 1 - 1 = k /\ k \in 0 .. m
        BY <1>2, <2>1
      <3>2. Matched(turn[k], ordered, n, tolerance, targets, k)
        BY <3>1
      <3>3. /\ turn[k + 1] = Match(ordered, tolerance, turn[k], targets[k + 1])
            /\ turn[k] \in LoopStates(n)
        BY <1>1, <3>1
      <3>4. Matched(turn[k + 1], ordered, n, tolerance, targets, k + 1)
        BY <3>1, <3>2, <3>3, TurnMatches
      <3> QED
        BY <3>1, <3>4
    <2>2. CASE ~(k + 1 <= m)
      BY <2>2
    <2> QED
      BY <2>1, <2>2
  <1>5. 0 \in good /\ good \in SUBSET Nat
    BY <1>3
  <1> HIDE DEF good
  <1>6. m \in good
    BY <1>2, <1>4, <1>5, InductionOn
  <1> QED
    BY <1>1, <1>2, <1>6 DEF good, turn

(* The last batch of the log.                                              *)
LEMMA LatestIs ==
    ASSUME NEW log, Stamps(log), Len(log) # 0
    PROVE  /\ Latest(log) \in Int
           /\ \A b \in ToSet(log) : b \in Int /\ b <= Latest(log)
  <1> DEFINE n == Len(log)
             ord == Ordered(log)
             B == ToSet(log)
  <1>1. Sorted(ord, n) /\ B = {ord[i] : i \in 1 .. n}
    BY Sorting
  <1> HIDE DEF ord, B, n
  <1>2. n \in 1 .. n /\ n \in Nat /\ ord[n] \in B /\ \A i \in 1 .. n : ord[i] \in Int
    BY <1>1 DEF Sorted, n
  <1>3. \A i \in 1 .. n : ord[i] <= ord[n]
    <2> TAKE i \in 1 .. n
    <2>1. i = n \/ i < n
      BY <1>2
    <2>2. ord[i] \in Int /\ ord[n] \in Int
      BY <1>2
    <2> QED
      BY <1>1, <1>2, <2>1, <2>2 DEF Sorted
  <1>4. \E last \in B : \A b \in B : b <= last
    BY <1>1, <1>2, <1>3
  <1>5. Latest(log) \in B /\ \A b \in B : b <= Latest(log)
    BY <1>4 DEF Latest, B
  <1>6. \A b \in B : b \in Int
    BY <1>1, <1>2
  <1> QED
    BY <1>5, <1>6 DEF B

(* The targets grow, they are not too many, and they are the rational grid *)
(* up to the limit.                                                        *)
LEMMA TargetsAre ==
    ASSUME MaxTargets \in Nat, NEW log, Stamps(log), Len(log) # 0, NEW period, Period(period),
           NEW tolerance \in Nat, ~Refused(log, period, tolerance)
    PROVE  LET targets == Targets(log, period, tolerance)
           IN  /\ targets \in Seq(Int) /\ Growing(targets) /\ Len(targets) <= MaxTargets
               /\ \A target \in log[1] .. Latest(log) + tolerance :
                    target \in {targets[j] : j \in 1 .. Len(targets)} <=>
                      \E k \in 0 .. MaxTargets :
                        RoundsTo(target - log[1], k * period[1], period[2])
  <1> DEFINE anchor == log[1]
             limit == Latest(log) + tolerance
             K == {k \in 0 .. limit - anchor : Target(anchor, period, k) <= limit}
             count == Cardinality(K)
             targets == [k \in 1 .. count |-> Target(anchor, period, k - 1)]
  <1>1. Targets(log, period, tolerance) = targets
    BY DEF Targets
  <1>2. anchor \in Int /\ limit \in Int /\ anchor <= limit
    <2>1. 1 \in 1 .. Len(log) /\ DOMAIN log = 1 .. Len(log) /\ anchor \in Int
      BY DEF Stamps
    <2>2. anchor \in ToSet(log)
      BY <2>1 DEF ToSet
    <2> HIDE DEF anchor
    <2>3. Latest(log) \in Int /\ anchor <= Latest(log)
      BY <2>2, LatestIs
    <2> QED
      BY <2>1, <2>3
  <1>3. Target(anchor, period, MaxTargets) > limit
    <2>1. log # <<>>
      OBVIOUS
    <2>2. ~(Target(anchor, period, MaxTargets) <= limit)
      BY <2>1 DEF Refused
    <2>3. Target(anchor, period, MaxTargets) \in Int
      BY <1>2, TargetsGrow
    <2> QED
      BY <1>2, <2>2, <2>3
  <1> DEFINE AtOf(k) == Target(anchor, period, k)
  <1>4. \A k \in Nat : AtOf(k) \in Int /\ anchor + k <= AtOf(k)
                       /\ RoundsTo(AtOf(k) - anchor, k * period[1], period[2])
    BY <1>2, TargetsGrow
  <1>5. \A k, l \in Nat : k < l => AtOf(k) < AtOf(l)
    BY <1>2, TargetsGrow
  <1>6. /\ K = {k \in 0 .. limit - anchor : AtOf(k) <= limit}
        /\ targets = [k \in 1 .. count |-> AtOf(k - 1)]
    OBVIOUS
  <1> HIDE DEF AtOf, anchor, limit, K, targets
  <1>7. count \in Nat /\ K = 0 .. count - 1
    <2>1. limit - anchor \in Int /\ K \in SUBSET (0 .. limit - anchor)
      BY <1>2, <1>6
    <2>2. \A i \in K : \A j \in 0 .. i : j \in K
      <3> SUFFICES ASSUME NEW i \in K, NEW j \in 0 .. i PROVE j \in K
        OBVIOUS
      <3>1. i \in Nat /\ j \in Nat /\ i <= limit - anchor /\ (j = i \/ j < i)
        BY <1>2, <1>6
      <3>2. AtOf(i) <= limit /\ AtOf(i) \in Int /\ AtOf(j) \in Int /\ (j < i => AtOf(j) < AtOf(i))
        BY <1>4, <1>5, <1>6, <3>1
      <3>3. AtOf(j) <= limit
        BY <1>2, <3>1, <3>2
      <3>4. j \in 0 .. limit - anchor
        BY <1>2, <3>1
      <3> QED
        BY <1>6, <3>3, <3>4
    <2>3. Cardinality(K) \in Nat /\ K = 0 .. 0 + Cardinality(K) - 1
      <3>1. 0 \in Nat
        OBVIOUS
      <3> QED
        BY <2>1, <2>2, <3>1, Segment
    <2> QED
      BY <2>3
  <1> HIDE DEF count
  <1>8. targets \in Seq(Int) /\ Len(targets) = count
    <2>1. \A k \in 1 .. count : AtOf(k - 1) \in Int
      BY <1>4, <1>7
    <2>2. targets \in [1 .. count -> Int]
      BY <1>6, <2>1
    <2> QED
      BY <1>7, <2>2
  <1>9. Growing(targets)
    <2> SUFFICES ASSUME NEW j \in 1 .. count, NEW k \in 1 .. count, j < k
                 PROVE  targets[j] < targets[k]
      BY <1>8 DEF Growing
    <2>1. j - 1 \in Nat /\ k - 1 \in Nat /\ j - 1 < k - 1
      BY <1>7
    <2>2. AtOf(j - 1) < AtOf(k - 1)
      BY <1>5, <2>1
    <2> QED
      BY <1>6, <2>2
  <1>10. \A k \in K : k < MaxTargets
    <2> TAKE k \in K
    <2>1. k \in Nat /\ AtOf(k) <= limit
      BY <1>2, <1>6
    <2>2. AtOf(MaxTargets) > limit
      BY <1>3 DEF AtOf
    <2>3. AtOf(k) \in Int /\ AtOf(MaxTargets) \in Int
      BY <1>4, <2>1
    <2>4. k # MaxTargets /\ ~(MaxTargets < k)
      BY <1>2, <1>5, <2>1, <2>2, <2>3
    <2> QED
      BY <2>1, <2>4
  <1>11. count <= MaxTargets
    <2>1. count = 0 \/ count - 1 \in K
      BY <1>7
    <2> QED
      BY <1>7, <1>10, <2>1
  <1>12. {targets[j] : j \in 1 .. count} = {AtOf(k) : k \in K}
    <2>1. ASSUME NEW j \in 1 .. count PROVE \E k \in K : targets[j] = AtOf(k)
      <3>1. j - 1 \in K
        BY <1>7
      <3>2. targets[j] = AtOf(j - 1)
        BY <1>6
      <3> QED
        BY <3>1, <3>2
    <2>2. ASSUME NEW k \in K PROVE \E j \in 1 .. count : targets[j] = AtOf(k)
      <3>1. k + 1 \in 1 .. count /\ k + 1 - 1 = k
        BY <1>7
      <3>2. targets[k + 1] = AtOf(k)
        BY <1>6, <3>1
      <3> QED
        BY <3>1, <3>2
    <2> QED
      BY <2>1, <2>2
  <1>13. period[2] \in Nat \ {0} /\ period[1] \in Nat
    BY DEF Period
  <1>14. ASSUME NEW target \in anchor .. limit
         PROVE  target \in {AtOf(k) : k \in K} <=>
                  \E k \in 0 .. MaxTargets : RoundsTo(target - anchor, k * period[1], period[2])
    <2>1. target \in Int /\ target <= limit /\ target - anchor \in Int
      BY <1>2
    <2>2. ASSUME NEW k \in K, target = AtOf(k)
          PROVE  k \in 0 .. MaxTargets /\ RoundsTo(target - anchor, k * period[1], period[2])
      <3>1. k \in Nat /\ k < MaxTargets
        BY <1>6, <1>7, <1>10
      <3> QED
        BY <1>4, <2>2, <3>1
    <2>3. ASSUME NEW k \in 0 .. MaxTargets, RoundsTo(target - anchor, k * period[1], period[2])
          PROVE  k \in K /\ target = AtOf(k)
      <3>1. k \in Nat /\ k * period[1] \in Int
        BY <1>13
      <3>2. /\ AtOf(k) \in Int /\ anchor + k <= AtOf(k)
            /\ RoundsTo(AtOf(k) - anchor, k * period[1], period[2])
        BY <1>4, <3>1
      <3>3. AtOf(k) - anchor \in Int
        BY <1>2, <3>2
      <3>4. AtOf(k) - anchor = target - anchor
        BY <1>13, <2>1, <2>3, <3>1, <3>2, <3>3, RoundsOnce
      <3>5. AtOf(k) = target
        BY <1>2, <2>1, <3>2, <3>4
      <3>6. k \in 0 .. limit - anchor
        BY <1>2, <2>1, <3>1, <3>2, <3>5
      <3> QED
        BY <1>6, <2>1, <3>5, <3>6
    <2> QED
      BY <2>2, <2>3
  <1> QED
    BY <1>1, <1>8, <1>9, <1>11, <1>12, <1>14 DEF anchor, limit

(* For the provers.                                                        *)
LEMMA Twice ==
    ASSUME NEW a \in Int, NEW b \in Int
    PROVE  2 * a * b = 2 * (a * b)
  OBVIOUS

(* Different targets.                                                      *)
LEMMA CountTargets ==
    ASSUME NEW targets \in Seq(Int), Growing(targets)
    PROVE  Cardinality({targets[j] : j \in 1 .. Len(targets)}) = Len(targets)
  <1> DEFINE m == Len(targets)
             T == {targets[j] : j \in 1 .. m}
  <1>1. m \in Nat /\ targets \in [1 .. m -> Int]
    OBVIOUS
  <1>2. ASSUME NEW j \in 1 .. m, NEW k \in 1 .. m, targets[j] = targets[k] PROVE j = k
    <2>1. targets[j] \in Int /\ targets[k] \in Int
      OBVIOUS
    <2>2. ~(j < k) /\ ~(k < j)
      BY <1>2, <2>1 DEF Growing
    <2> QED
      BY <2>2
  <1> HIDE DEF m
  <1>3. targets \in [1 .. m -> T]
    BY <1>1
  <1>4. targets \in Surjection(1 .. m, T)
    BY <1>3 DEF Surjection
  <1>5. targets \in Injection(1 .. m, T)
    BY <1>2, <1>3 DEF Injection, IsInjective
  <1>6. IsFiniteSet(1 .. m) /\ Cardinality(1 .. m) = m
    BY <1>1, FS_Interval
  <1> HIDE DEF T
  <1>7. Cardinality(T) = m
    BY <1>4, <1>5, <1>6, FS_Surjection
  <1> QED
    BY <1>7 DEF T, m

(* select_camera_grid gives the grid that it promises.                     *)
LEMMA SelectsGrid ==
    ASSUME MaxTargets \in Nat, NEW log \in Seq(Int), log # <<>>,
           NEW period, Period(period), NEW tolerance \in Nat,
           ~Refused(log, period, tolerance)
    PROVE  LET grid == SelectGrid(log, period, tolerance)
           IN  /\ grid.entries \in Seq([target : Int, batch : Int])
               /\ IsGridOf(grid, log, period, tolerance)
  <1> DEFINE n == Len(log)
             ordered == Ordered(log)
             targets == Targets(log, period, tolerance)
             m == Len(targets)
             end == Turns(ordered, tolerance, targets)[m]
             B == ToSet(log)
             T == {targets[j] : j \in 1 .. m}
  <1>1. Stamps(log) /\ Len(log) # 0
    BY DEF Stamps, Refused
  <1>2. Sorted(ordered, n) /\ B = Batches(ordered, n)
    BY <1>1, Sorting DEF Batches
  <1>3. /\ targets \in Seq(Int) /\ Growing(targets) /\ m <= MaxTargets
        /\ \A target \in log[1] .. Latest(log) + tolerance :
             target \in T <=> \E k \in 0 .. MaxTargets :
                                RoundsTo(target - log[1], k * period[1], period[2])
    BY <1>1, TargetsAre
  <1>4. SelectGrid(log, period, tolerance)
          = [entries |-> end.entries, misses |-> end.misses,
             unused |-> {ordered[i] : i \in DOMAIN ordered \ end.used}]
    BY DEF SelectGrid
  <1>5. Cardinality(T) = m
    BY <1>3, CountTargets
  <1> HIDE DEF n, ordered, targets, B, T, m
  <1>6. tolerance \in Int
    OBVIOUS
  <1>7. end \in LoopStates(n) /\ Matched(end, ordered, n, tolerance, targets, m)
    BY <1>2, <1>3, <1>6, TurnsMatch DEF m
  <1> DEFINE grid == SelectGrid(log, period, tolerance)
             entries == ToSet(grid.entries)
             seen == {e.target : e \in entries} \cup ToSet(grid.misses)
             Free(target) == B \ {e.batch : e \in {x \in entries : x.target < target}}
  <1>8. grid.entries = end.entries /\ grid.misses = end.misses
        /\ grid.unused = {ordered[i] : i \in DOMAIN ordered \ end.used}
    BY <1>4
  <1> HIDE DEF end, grid
  <1>9. entries = Found(end)
    BY <1>8 DEF Found
  <1>10. seen = T /\ Len(grid.entries) + Len(grid.misses) = m
    BY <1>7, <1>8, <1>9 DEF Matched, T
  <1>11. \A target : Free(target) = FreeFor(end, ordered, n, target)
    BY <1>2, <1>9 DEF FreeFor
  <1>12. \A e \in entries : IsNearest(Free(e.target), e.target, tolerance, e.batch)
    BY <1>7, <1>9, <1>11 DEF Matched
  <1>13. \A target \in ToSet(grid.misses) :
           \A b \in Free(target) : Distance(b, target) > tolerance
    BY <1>7, <1>8, <1>11 DEF Matched
  <1>14. grid.unused = B \ {e.batch : e \in entries}
    <2>1. \A i, j \in 1 .. n : ordered[i] = ordered[j] => i = j
      <3> SUFFICES ASSUME NEW i \in 1 .. n, NEW j \in 1 .. n, ordered[i] = ordered[j] PROVE i = j
        OBVIOUS
      <3>1. ordered[i] \in Int /\ ordered[j] \in Int
        BY <1>2 DEF Sorted
      <3>2. ~(i < j) /\ ~(j < i)
        BY <1>2, <3>1 DEF Sorted
      <3> QED
        BY <3>2
    <2>2. DOMAIN ordered = 1 .. n /\ end.used \in SUBSET (1 .. n)
      BY <1>2, <1>7 DEF Sorted, LoopStates
    <2>3. {e.batch : e \in entries} = {ordered[i] : i \in end.used}
      BY <1>7, <1>9 DEF Matched
    <2>4. ASSUME NEW b PROVE b \in {ordered[i] : i \in (1 .. n) \ end.used}
                               <=> b \in Batches(ordered, n) \ {ordered[i] : i \in end.used}
      BY <2>1, <2>2 DEF Batches
    <2> QED
      BY <1>2, <1>8, <2>2, <2>3, <2>4
  <1>15. ASSUME NEW target \in log[1] .. Latest(log) + tolerance
         PROVE  target \in seen <=>
                  \E k \in 0 .. MaxTargets :
                    2 * period[2] * (target - log[1]) - 2 * k * period[1]
                      \in 1 - period[2] .. period[2]
    <2>1. period[2] \in Nat \ {0} /\ period[1] \in Nat
      BY DEF Period
    <2>2. log[1] \in Int /\ target \in Int
      <3>1. 1 \in 1 .. Len(log)
        BY <1>1 DEF Stamps
      <3>2. log[1] \in Int
        BY <1>1, <3>1 DEF Stamps
      <3>3. Latest(log) \in Int
        BY <1>1, LatestIs
      <3> QED
        BY <3>2, <3>3
    <2>3. ASSUME NEW k \in 0 .. MaxTargets
          PROVE  RoundsTo(target - log[1], k * period[1], period[2]) <=>
                   2 * period[2] * (target - log[1]) - 2 * k * period[1]
                     \in 1 - period[2] .. period[2]
      <3>1. PICK d \in Nat : d = period[2]
        BY <2>1
      <3>2. PICK p \in Nat : p = period[1]
        BY <2>1
      <3>3. PICK r \in Int : r = target - log[1]
        BY <2>2
      <3>4. k \in Int /\ d * r \in Int /\ k * p \in Int
        BY <3>1, <3>2, <3>3
      <3>5. 2 * d * r = 2 * (d * r) /\ 2 * k * p = 2 * (k * p)
        <4>1. d \in Int /\ r \in Int /\ k \in Int /\ p \in Int
          BY <3>1, <3>2, <3>3
        <4> QED
          BY <4>1, Twice, Zenon
      <3>6. RoundsTo(r, k * p, d) <=> 2 * (d * r) - 2 * (k * p) \in 1 - d .. d
        BY <3>1, <3>4 DEF RoundsTo
      <3> QED
        BY <3>1, <3>2, <3>3, <3>5, <3>6
    <2>4. target \in T <=> \E k \in 0 .. MaxTargets :
                             RoundsTo(target - log[1], k * period[1], period[2])
      BY <1>3
    <2> QED
      BY <1>10, <2>3, <2>4
  <1>16. grid.entries \in Seq([target : Int, batch : Int])
    BY <1>7, <1>8 DEF LoopStates
  <1> QED
    BY <1>3, <1>5, <1>10, <1>12, <1>13, <1>14, <1>15, <1>16 DEF IsGridOf, grid, B

-----------------------------------------------------------------------------
(* 3. The extraction (extraction/service.py, camera.py, mcap_source.py).   *)

LEMMA InitialInv == Init => IInv
  <1> SUFFICES ASSUME Init PROVE IInv
    OBVIOUS
  <1>1. PICK log \in Recordings : content = <<log>>
    BY DEF Init
  <1>2. content \in Seq(Recordings) /\ Len(content) = 1
    BY <1>1
  <1>3. batches = <<>> /\ source = <<>> /\ samples = <<>> /\ submitted = 0 /\ pc = "idle"
        /\ held = [c \in CameraIds |-> {}] /\ pending = held /\ emitted = held
        /\ settings \in [period : Periods, tolerance : Tolerances]
        /\ open = 1 /\ atPath = 1 /\ identity = 1 /\ cursor = 1
    BY DEF Init
  <1>4. TypeOK
    BY <1>2, <1>3 DEF TypeOK, Ended
  <1>5. OneFile /\ OneGrid /\ FramesStayPaired
    BY <1>3 DEF OneFile, OneGrid, FramesStayPaired
  <1>6. EverySubmission
    <2>1. 0 .. submitted - 1 = {}
      BY <1>3
    <2> QED
      BY <1>3, <2>1 DEF EverySubmission
  <1>7. OneSampleEach
    <2>1. Emitted = {}
      BY <1>3 DEF Emitted
    <2> QED
      BY <1>3, <2>1 DEF OneSampleEach, StagedFor
  <1> QED
    BY <1>4, <1>5, <1>6, <1>7 DEF IInv

(* The pieces of the invariant under a step that leaves their state alone. *)

LEMMA SameGrid ==
    ASSUME OneGrid, UNCHANGED <<selection, batches, settings>>,
           pc' \in {"selected", "streaming", "flushing", "done"}
             => pc \in {"selected", "streaming", "flushing", "done"}
    PROVE  OneGrid'
  <1>1. Times' = Times
    BY DEF Times
  <1> QED
    BY <1>1 DEF OneGrid

LEMMA SameSubmissions ==
    ASSUME EverySubmission, UNCHANGED decoders
    PROVE  EverySubmission'
  BY DEF EverySubmission, decoders, CameraOf

LEMMA SameSamples ==
    ASSUME StagedFor(samples, Emitted), UNCHANGED <<samples, decoders, selection, batches, gnss>>
    PROVE  StagedFor(samples, Emitted)'
  <1>1. \A p : TargetOf(p)' = TargetOf(p) /\ SampleOf(p, PictureOf(p))' = SampleOf(p, PictureOf(p))
    BY DEF TargetOf, SampleOf, PictureOf, Pose, CameraTime, BatchOf, CameraOf, decoders
  <1>2. Emitted' = Emitted
    BY DEF Emitted, decoders
  <1> QED
    BY <1>1, <1>2 DEF StagedFor

(* Before the first unit no decoder has anything.                          *)
LEMMA NothingEmitted ==
    ASSUME TypeOK, EverySubmission, submitted = 0
    PROVE  Emitted = {} /\ source = <<>> /\ \A c \in CameraIds : held[c] = {} /\ pending[c] = {}
  <1>1. 0 .. submitted - 1 = {}
    OBVIOUS
  <1>2. \A c \in CameraIds : held[c] = {} /\ pending[c] = {} /\ emitted[c] = {}
    BY <1>1 DEF EverySubmission
  <1>3. source = <<>>
    BY DEF TypeOK
  <1> QED
    BY <1>2, <1>3 DEF Emitted

(* The first pass.                                                         *)

LEMMA Opens ==
    ASSUME IInv, OpenIndex
    PROVE  IInv'
  <1> USE DEF Goto, file, decoders
  <1>1. pc = "idle" /\ pc' = "indexing" /\ open' = atPath /\ identity' = atPath
        /\ UNCHANGED <<settings, file, cursor, batches, gnss, selection, decoders, samples>>
    BY DEF OpenIndex
  <1>2. TypeOK /\ OneFile /\ OneSampleEach /\ EverySubmission
    BY DEF IInv
  <1>3. atPath \in 1 .. atPath
    BY <1>2 DEF TypeOK
  <1>4. TypeOK'
    BY <1>1, <1>2, <1>3 DEF TypeOK
  <1>5. OneFile' /\ OneGrid' /\ FramesStayPaired'
    BY <1>1, <1>2 DEF OneFile, OneGrid, FramesStayPaired
  <1>6. EverySubmission'
    BY <1>1, <1>2, SameSubmissions
  <1>7. OneSampleEach'
    BY <1>1, <1>2, SameSamples DEF OneSampleEach, Ended
  <1> QED
    BY <1>4, <1>5, <1>6, <1>7 DEF IInv

LEMMA MessageRead ==
    ASSUME TypeOK, cursor > 0, cursor <= Len(content[open])
    PROVE  Message \in Messages
  <1>1. content \in Seq(Recordings) /\ open \in 1 .. Len(content)
    BY DEF TypeOK
  <1>2. content[open] \in Recordings
    BY <1>1
  <1>3. content[open] \in Seq(Messages)
    BY <1>2, ExtractionAssumption
  <1>4. cursor \in 1 .. Len(content[open])
    BY <1>3 DEF TypeOK
  <1> QED
    BY <1>3, <1>4 DEF Message

LEMMA Indexes ==
    ASSUME IInv, IndexMessage
    PROVE  IInv'
  <1> USE DEF file, decoders
  <1>1. pc = "indexing" /\ cursor <= Len(content[open]) /\ cursor' = cursor + 1
        /\ (batches' = batches \/ batches' = Append(batches, Message))
        /\ UNCHANGED <<pc, settings, file, open, identity, selection, decoders, samples>>
    BY DEF IndexMessage
  <1>2. TypeOK /\ OneFile /\ OneSampleEach /\ EverySubmission
    BY DEF IInv
  <1>3. cursor > 0 /\ submitted = 0
    BY <1>1, <1>2 DEF OneFile
  <1>4. Message \in Messages
    BY <1>1, <1>2, <1>3, MessageRead
  <1>5. batches' \in Seq(Messages)
    <2>1. batches \in Seq(Messages)
      BY <1>2 DEF TypeOK
    <2> HIDE DEF Message, Messages
    <2>2. Append(batches, Message) \in Seq(Messages)
      BY <1>4, <2>1
    <2> QED
      BY <1>1, <2>1, <2>2
  <1>6. cursor' \in Nat /\ cursor' > 0
    BY <1>1, <1>2, <1>3 DEF TypeOK
  <1>7. TypeOK'
    BY <1>1, <1>2, <1>5, <1>6 DEF TypeOK
  <1>8. OneFile' /\ OneGrid' /\ FramesStayPaired'
    BY <1>1, <1>3, <1>6 DEF OneFile, OneGrid, FramesStayPaired
  <1>9. EverySubmission'
    BY <1>1, <1>2, SameSubmissions
  <1>10. OneSampleEach'
    <2>1. Emitted = {} /\ Emitted' = {}
      BY <1>1, <1>2, <1>3, NothingEmitted DEF Emitted
    <2>2. StagedFor(samples, Emitted)
      BY <1>1, <1>2 DEF OneSampleEach, Ended
    <2>3. samples = <<>>
      BY <2>1, <2>2 DEF StagedFor
    <2> QED
      BY <1>1, <2>1, <2>3 DEF OneSampleEach, StagedFor
  <1> QED
    BY <1>7, <1>8, <1>9, <1>10 DEF IInv

LEMMA Chooses ==
    ASSUME IInv, ChooseGrid
    PROVE  IInv'
  <1> USE DEF file, decoders, index
  <1>1. pc = "indexing" /\ pc' = "selected" /\ cursor' = 1 /\ batches # <<>>
        /\ ~Refused(Times, settings.period, settings.tolerance)
        /\ selection' = SelectGrid(Times, settings.period, settings.tolerance)
        /\ UNCHANGED <<settings, file, open, index, decoders, samples>>
    BY DEF ChooseGrid, Goto
  <1>2. TypeOK /\ OneFile /\ OneSampleEach /\ EverySubmission
    BY DEF IInv
  <1>3. submitted = 0
    BY <1>1, <1>2 DEF OneFile
  <1>4. TypeOK'
    BY <1>1, <1>2 DEF TypeOK
  <1>5. OneFile' /\ FramesStayPaired'
    BY <1>1, <1>3 DEF OneFile, FramesStayPaired
  <1>6. OneGrid'
    <2>1. Times \in Seq(Int) /\ Times # <<>>
      <3>1. batches \in Seq(Messages) /\ Len(batches) \in Nat /\ Len(batches) # 0
            /\ DOMAIN batches = 1 .. Len(batches)
        BY <1>1, <1>2 DEF TypeOK
      <3>2. Times \in [1 .. Len(batches) -> Int]
        BY <3>1, ExtractionAssumption DEF Times
      <3>3. Times \in Seq(Int) /\ Len(Times) = Len(batches)
        BY <3>1, <3>2
      <3> QED
        BY <3>1, <3>3
    <2>2. settings.period \in Periods /\ settings.tolerance \in Tolerances
      BY <1>2 DEF TypeOK
    <2>3. Period(settings.period) /\ settings.tolerance \in Nat /\ MaxTargets \in Nat
      BY <2>2, ExtractionAssumption DEF Period
    <2>4. /\ selection'.entries \in Seq([target : Int, batch : Int])
          /\ IsGridOf(selection', Times, settings.period, settings.tolerance)
      BY <1>1, <2>1, <2>3, SelectsGrid
    <2>5. Times' = Times /\ settings' = settings
      BY <1>1 DEF Times
    <2> QED
      BY <2>4, <2>5 DEF OneGrid
  <1>7. EverySubmission'
    BY <1>1, <1>2, SameSubmissions
  <1>8. OneSampleEach'
    <2>1. Emitted = {} /\ Emitted' = {}
      BY <1>1, <1>2, <1>3, NothingEmitted DEF Emitted
    <2>2. StagedFor(samples, Emitted)
      BY <1>1, <1>2 DEF OneSampleEach, Ended
    <2>3. samples = <<>>
      BY <2>1, <2>2 DEF StagedFor
    <2> QED
      BY <1>1, <2>1, <2>3 DEF OneSampleEach, StagedFor
  <1> QED
    BY <1>4, <1>5, <1>6, <1>7, <1>8 DEF IInv

-----------------------------------------------------------------------------
(* Between the passes, and what happens to the file.                       *)

LEMMA OpensStream ==
    ASSUME IInv, OpenStream
    PROVE  IInv'
  <1> USE DEF file, decoders, index
  <1>1. pc = "selected" /\ pc' = "streaming" /\ atPath = identity /\ open' = atPath
        /\ UNCHANGED <<settings, file, index, cursor, selection, decoders, samples>>
    BY DEF OpenStream, Goto
  <1>2. TypeOK /\ OneFile /\ OneSampleEach /\ EverySubmission /\ OneGrid
    BY DEF IInv
  <1>3. submitted = 0
    BY <1>1, <1>2 DEF OneFile
  <1>4. TypeOK'
    BY <1>1, <1>2 DEF TypeOK
  <1>5. OneFile' /\ FramesStayPaired'
    <2>1. 1 .. submitted' = {}
      BY <1>1, <1>3
    <2> QED
      BY <1>1, <2>1 DEF OneFile, FramesStayPaired
  <1>6. OneGrid' /\ EverySubmission'
    BY <1>1, <1>2, SameSubmissions, SameGrid
  <1>7. OneSampleEach'
    BY <1>1, <1>2, SameSamples DEF OneSampleEach, Ended
  <1> QED
    BY <1>4, <1>5, <1>6, <1>7 DEF IInv

LEMMA Rewrites ==
    ASSUME IInv, NEW log \in Recordings, Rewrite(log)
    PROVE  IInv'
  <1> USE DEF decoders, index
  <1>1. content' = Append(content, log)
    BY DEF Rewrite
  <1>2. pc \notin Ended /\ atPath' = Len(content')
        /\ open' \in {open, IF open = atPath THEN atPath' ELSE open}
        /\ UNCHANGED <<pc, settings, index, cursor, selection, decoders, samples>>
    BY DEF Rewrite
  <1>3. TypeOK /\ OneFile /\ OneSampleEach /\ EverySubmission /\ OneGrid
    BY DEF IInv
  <1>4. content' \in Seq(Recordings) /\ atPath' = atPath + 1 /\ atPath \in Nat
    BY <1>1, <1>2, <1>3 DEF TypeOK
  <1>5. TypeOK'
    <2>1. open' \in 1 .. atPath' /\ identity' \in 1 .. atPath'
      BY <1>2, <1>3, <1>4 DEF TypeOK
    <2> QED
      BY <1>2, <1>3, <1>4, <2>1 DEF TypeOK
  <1>6. OneFile' /\ FramesStayPaired'
    <2>1. atPath' # identity'
      BY <1>2, <1>3, <1>4 DEF TypeOK
    <2>2. pc' # "done" /\ Units' = Units
      BY <1>2 DEF Ended, Units
    <2> QED
      BY <1>2, <1>3, <2>1, <2>2 DEF OneFile, FramesStayPaired
  <1>7. OneGrid' /\ EverySubmission'
    BY <1>2, <1>3, SameSubmissions, SameGrid
  <1>8. OneSampleEach'
    BY <1>2, <1>3, SameSamples DEF OneSampleEach
  <1> QED
    BY <1>5, <1>6, <1>7, <1>8 DEF IInv

LEMMA Fails ==
    ASSUME IInv, Fail
    PROVE  IInv'
  <1> USE DEF file, decoders, index
  <1>1. pc \notin Ended /\ pc' = "failed"
        /\ UNCHANGED <<settings, file, open, index, cursor, selection, decoders>>
    BY DEF Fail
  <1>2. TypeOK /\ EverySubmission
    BY DEF IInv
  <1>3. TypeOK'
    BY <1>1, <1>2 DEF TypeOK, Ended
  <1>4. OneFile' /\ OneGrid' /\ FramesStayPaired' /\ OneSampleEach'
    BY <1>1 DEF OneFile, OneGrid, FramesStayPaired, OneSampleEach, Ended
  <1>5. EverySubmission'
    BY <1>1, <1>2, SameSubmissions
  <1> QED
    BY <1>3, <1>4, <1>5 DEF IInv

LEMMA Loses ==
    ASSUME IInv, LosePicture
    PROVE  IInv'
  <1> USE DEF file, index
  <1>1. pc = "streaming" /\ UNCHANGED <<pc, settings, file, open, index, cursor, selection,
                                       submitted, source, pending, emitted, samples>>
    BY DEF LosePicture
  <1>2. PICK c \in CameraIds : \E p \in held[c] : held' = [held EXCEPT ![c] = @ \ {p}]
    BY DEF LosePicture
  <1>3. TypeOK /\ OneFile /\ OneSampleEach /\ EverySubmission /\ OneGrid
    BY DEF IInv
  <1>4. \A d \in CameraIds : held'[d] \subseteq held[d]
    BY <1>2, <1>3 DEF TypeOK
  <1>5. TypeOK'
    BY <1>1, <1>2, <1>3 DEF TypeOK
  <1>6. OneFile' /\ FramesStayPaired'
    BY <1>1, <1>3 DEF OneFile, FramesStayPaired
  <1>7. OneGrid'
    BY <1>1, <1>3, SameGrid
  <1>8. EverySubmission'
    BY <1>1, <1>3, <1>4 DEF EverySubmission, CameraOf
  <1>9. OneSampleEach'
    <2>1. \A p1 : TargetOf(p1)' = TargetOf(p1)
                  /\ SampleOf(p1, PictureOf(p1))' = SampleOf(p1, PictureOf(p1))
      BY <1>1 DEF TargetOf, SampleOf, PictureOf, Pose, CameraTime, BatchOf, CameraOf
    <2>2. Emitted' = Emitted /\ samples' = samples
      BY <1>1 DEF Emitted
    <2> QED
      BY <1>1, <1>3, <2>1, <2>2 DEF StagedFor, OneSampleEach
  <1> QED
    BY <1>5, <1>6, <1>7, <1>8, <1>9 DEF IInv

LEMMA Ends ==
    ASSUME IInv, EndStream
    PROVE  IInv'
  <1> USE DEF file, decoders, index
  <1>1. pc = "streaming" /\ pc' = "flushing" /\ submitted = Units
        /\ open = identity /\ atPath = identity /\ cursor' = 0
        /\ UNCHANGED <<settings, file, open, index, selection, decoders, samples>>
    BY DEF EndStream, Goto
  <1>2. TypeOK /\ OneFile /\ OneSampleEach /\ EverySubmission /\ OneGrid
    BY DEF IInv
  <1>3. TypeOK'
    BY <1>1, <1>2 DEF TypeOK
  <1>4. OneFile' /\ FramesStayPaired'
    <2>1. Units' = Units
      BY <1>1 DEF Units
    <2> QED
      BY <1>1, <1>2, <2>1 DEF OneFile, FramesStayPaired
  <1>5. OneGrid' /\ EverySubmission'
    BY <1>1, <1>2, SameSubmissions, SameGrid
  <1>6. OneSampleEach'
    BY <1>1, <1>2, SameSamples DEF OneSampleEach, Ended
  <1> QED
    BY <1>3, <1>4, <1>5, <1>6 DEF IInv

(* StagedFor with the editions of the units in a parameter.                *)
PictureFrom(origin, pts) == [pts |-> pts, edition |-> origin[pts + 1]]

Fits(staged, answered, origin) ==
    LET due == {p \in answered : TargetOf(p) # {}}
    IN  /\ staged \in Seq({SampleOf(p, PictureFrom(origin, p)) : p \in due})
        /\ \A i, j \in DOMAIN staged : staged[i].pts = staged[j].pts => i = j
        /\ \A p \in due : \E i \in DOMAIN staged : staged[i].pts = p

(* What stands once submission p was answered.                             *)
Grown(staged, p, origin) ==
    IF TargetOf(p) = {} THEN staged ELSE Append(staged, SampleOf(p, PictureFrom(origin, p)))

(* A sample more, for a submission that was not answered yet.              *)
LEMMA StagesOne ==
    ASSUME NEW staged, NEW answered \in SUBSET Nat, NEW origin, NEW p \in Nat \ answered,
           Fits(staged, answered, origin)
    PROVE  Fits(Grown(staged, p, origin), answered \cup {p}, origin)
  <1> DEFINE due == {q \in answered : TargetOf(q) # {}}
             S == {SampleOf(q, PictureFrom(origin, q)) : q \in due}
             new == SampleOf(p, PictureFrom(origin, p))
             all == {q \in answered \cup {p} : TargetOf(q) # {}}
             T == {SampleOf(q, PictureFrom(origin, q)) : q \in all}
  <1>1. /\ staged \in Seq(S)
        /\ \A i, j \in DOMAIN staged : staged[i].pts = staged[j].pts => i = j
        /\ \A q \in due : \E i \in DOMAIN staged : staged[i].pts = q
    BY DEF Fits
  <1>2. CASE TargetOf(p) = {}
    <2>1. all = due
      BY <1>2
    <2> QED
      BY <1>1, <1>2, <2>1 DEF Fits, Grown
  <1>3. CASE TargetOf(p) # {}
    <2>1. all = due \cup {p} /\ new \in T /\ S \subseteq T
      BY <1>3
    <2>2. new.pts = p
      BY DEF SampleOf
    <2>3. \A s \in S : s.pts \in answered
      BY DEF SampleOf
    <2> HIDE DEF S, T, new, due
    <2>4. staged \in Seq(T)
      BY <1>1, <2>1
    <2> DEFINE after == Append(staged, new)
    <2>5. PICK n \in Nat : n = Len(staged)
      BY <1>1
    <2>6. /\ after \in Seq(T) /\ DOMAIN after = 1 .. n + 1 /\ DOMAIN staged = 1 .. n
          /\ after[n + 1] = new /\ \A i \in 1 .. n : after[i] = staged[i] /\ staged[i] \in S
      BY <1>1, <2>1, <2>4, <2>5
    <2> HIDE DEF after
    <2>7. ASSUME NEW i \in 1 .. n + 1, NEW j \in 1 .. n + 1, after[i].pts = after[j].pts
          PROVE  i = j
      <3>1. CASE i \in 1 .. n /\ j \in 1 .. n
        BY <1>1, <2>6, <2>7, <3>1
      <3>2. CASE i = n + 1 /\ j = n + 1
        BY <3>2
      <3>3. CASE i = n + 1 /\ j \in 1 .. n
        BY <2>2, <2>3, <2>6, <2>7, <3>3
      <3>4. CASE i \in 1 .. n /\ j = n + 1
        BY <2>2, <2>3, <2>6, <2>7, <3>4
      <3> QED
        BY <2>5, <3>1, <3>2, <3>3, <3>4
    <2>8. ASSUME NEW q \in all PROVE \E i \in 1 .. n + 1 : after[i].pts = q
      <3>1. CASE q = p
        <4>1. n + 1 \in 1 .. n + 1
          BY <2>5
        <4> QED
          BY <2>2, <2>6, <3>1, <4>1
      <3>2. CASE q \in due
        <4>1. PICK i \in 1 .. n : staged[i].pts = q
          BY <1>1, <2>6, <3>2
        <4>2. i \in 1 .. n + 1
          BY <2>5
        <4> QED
          BY <2>6, <4>1, <4>2
      <3> QED
        BY <2>1, <3>1, <3>2
    <2>9. Fits(after, answered \cup {p}, origin)
      BY <2>6, <2>7, <2>8 DEF Fits, T
    <2> QED
      BY <1>3, <2>9 DEF after, new, Grown
  <1> QED
    BY <1>2, <1>3

(* What a decoder says of submission p: its picture, with or without pts.  *)
Speaks(output, outputs, p, waiting, origin) ==
    /\ output.picture = PictureFrom(origin, p)
    /\ \/ output.pts = {p}
       \/ output.pts = {} /\ (Len(outputs) = 1 => p \in waiting)

(* _associate gives it that submission, if any.                            *)
LEMMA AssociatesOwn ==
    ASSUME NEW waiting, IsFiniteSet(waiting), NEW done, NEW outputs, NEW output, NEW p, NEW origin,
           Speaks(output, outputs, p, waiting, origin),
           Associate(waiting, done, outputs, output) # {}
    PROVE  /\ Associate(waiting, done, outputs, output) = {p}
           /\ p \in waiting /\ p \notin done
  <1>1. CASE output.pts = {p}
    BY <1>1 DEF Associate
  <1>2. CASE output.pts = {} /\ (Len(outputs) = 1 => p \in waiting)
    <2>1. Len(outputs) = 1 /\ Cardinality(waiting) = 1
      BY <1>2 DEF Associate
    <2>2. PICK q : waiting = {q}
      BY <2>1, FS_Singleton
    <2>3. waiting = {p}
      BY <1>2, <2>1, <2>2
    <2> QED
      BY <1>2, <2>1, <2>3 DEF Associate
  <1> QED
    BY <1>1, <1>2 DEF Speaks

(* The states of the loop over the outputs.                                *)
Work(W, X) == [waiting : SUBSET W, done : SUBSET Nat, samples : Seq(X), refused : BOOLEAN]

(* An output leads from one state of the loop to another.                  *)
LEMMA ConsumeWorks ==
    ASSUME NEW W \in SUBSET Nat, NEW X, NEW state \in Work(W, X), NEW outputs, NEW output,
           \A p \in W : SampleOf(p, output.picture) \in X
    PROVE  ConsumeOutput(state, outputs, output) \in Work(W, X)
  <1> DEFINE found == Associate(state.waiting, state.done, outputs, output)
             pts == CHOOSE p \in found : TRUE
             more == IF TargetOf(pts) = {} THEN state.samples
                     ELSE Append(state.samples, SampleOf(pts, output.picture))
             taken == [state EXCEPT !.waiting = @ \ found, !.done = @ \cup found, !.samples = more]
  <1>1. ConsumeOutput(state, outputs, output) =
          IF state.refused \/ found = {} THEN [state EXCEPT !.refused = TRUE] ELSE taken
    BY DEF ConsumeOutput
  <1>2. /\ state.waiting \in SUBSET W /\ state.done \in SUBSET Nat
        /\ state.samples \in Seq(X) /\ state.refused \in BOOLEAN
    BY DEF Work
  <1>3. found \in SUBSET state.waiting
    BY DEF Associate
  <1>4. [state EXCEPT !.refused = TRUE] \in Work(W, X)
    BY DEF Work
  <1>5. ASSUME found # {} PROVE taken \in Work(W, X)
    <2>1. pts \in W
      BY <1>2, <1>3, <1>5
    <2>2. SampleOf(pts, output.picture) \in X
      BY <2>1
    <2> HIDE DEF found, pts
    <2>3. more \in Seq(X)
      BY <1>2, <2>2, Appending
    <2> HIDE DEF more
    <2> QED
      BY <1>2, <1>3, <2>3 DEF Work
  <1> HIDE DEF found, taken
  <1> QED
    BY <1>1, <1>4, <1>5

(* An output that is not refused takes its own submission.                 *)
Takes(after, state, p, origin) ==
    /\ ~state.refused /\ p \in state.waiting /\ p \notin state.done
    /\ after.waiting = state.waiting \ {p} /\ after.done = state.done \cup {p}
    /\ after.samples = Grown(state.samples, p, origin)

(* Consuming an output does that.                                          *)
LEMMA ConsumeTakes ==
    ASSUME NEW W, IsFiniteSet(W), NEW X, NEW state \in Work(W, X), NEW outputs, NEW output,
           NEW p, NEW origin, Speaks(output, outputs, p, state.waiting, origin),
           ~ConsumeOutput(state, outputs, output).refused
    PROVE  Takes(ConsumeOutput(state, outputs, output), state, p, origin)
  <1> DEFINE found == Associate(state.waiting, state.done, outputs, output)
             pts == CHOOSE q \in found : TRUE
             more == IF TargetOf(pts) = {} THEN state.samples
                     ELSE Append(state.samples, SampleOf(pts, output.picture))
             taken == [state EXCEPT !.waiting = @ \ found, !.done = @ \cup found, !.samples = more]
  <1>1. ConsumeOutput(state, outputs, output) =
          IF state.refused \/ found = {} THEN [state EXCEPT !.refused = TRUE] ELSE taken
    BY DEF ConsumeOutput
  <1>2. [state EXCEPT !.refused = TRUE].refused
    BY DEF Work
  <1>3. ~state.refused /\ found # {} /\ ConsumeOutput(state, outputs, output) = taken
    BY <1>1, <1>2
  <1>4. IsFiniteSet(state.waiting)
    <2>1. state.waiting \in SUBSET W
      BY DEF Work
    <2> QED
      BY <2>1, FS_Subset
  <1>5. found = {p} /\ p \in state.waiting /\ p \notin state.done
    BY <1>3, <1>4, AssociatesOwn
  <1>6. pts = p
    BY <1>5
  <1>7. output.picture = PictureFrom(origin, p)
    BY DEF Speaks
  <1> HIDE DEF pts, found
  <1>8. more = Grown(state.samples, p, origin)
    BY <1>6, <1>7 DEF Grown
  <1> HIDE DEF more
  <1>9. /\ taken.waiting = state.waiting \ found /\ taken.done = state.done \cup found
        /\ taken.samples = more
    BY DEF Work
  <1> HIDE DEF taken
  <1> QED
    BY <1>3, <1>5, <1>8, <1>9 DEF Takes

(* The states of the loop over outputs, and that Consumed has them.        *)
IsConsuming(after, start, outputs, W, X) ==
    /\ after[0] = start
    /\ \A k \in 0 .. Len(outputs) : after[k] \in Work(W, X)
    /\ \A k \in 1 .. Len(outputs) : after[k] = ConsumeOutput(after[k - 1], outputs, outputs[k])

LEMMA ConsumedRuns ==
    ASSUME NEW c, NEW W \in SUBSET Nat, NEW X, NEW outputs, Len(outputs) \in Nat,
           emitted[c] \in SUBSET Nat, samples \in Seq(X),
           \A p \in W : \A k \in 1 .. Len(outputs) : SampleOf(p, outputs[k].picture) \in X
    PROVE  IsConsuming(Consumed(c, W, outputs),
                       [waiting |-> W, done |-> emitted[c], samples |-> samples, refused |-> FALSE],
                       outputs, W, X)
  <1> DEFINE m == Len(outputs)
             S == Work(W, X)
             start == [waiting |-> W, done |-> emitted[c], samples |-> samples, refused |-> FALSE]
             Turn(s, k) == ConsumeOutput(s, outputs, outputs[k])
             Def(g) == g = [k \in 0 .. m |-> IF k = 0 THEN start ELSE Turn(g[k - 1], k)]
             turn == CHOOSE g : Def(g)
             D == [s \in S |-> [k \in 1 .. m |-> Turn(s, k)]]
  <1>1. m \in Nat
    OBVIOUS
  <1>2. Consumed(c, W, outputs) = turn
    BY DEF Consumed
  <1>3. start \in S
    BY DEF Work
  <1>4. ASSUME NEW s \in S, NEW k \in 1 .. m PROVE Turn(s, k) \in S
    BY ConsumeWorks
  <1> HIDE DEF Turn
  <1>5. D \in [S -> [1 .. m -> S]]
    BY <1>4
  <1>6. \A s \in S, k \in 1 .. m : D[s][k] = Turn(s, k)
    OBVIOUS
  <1> HIDE DEF D, S, start, m
  <1>7. PICK g \in [0 .. m -> S] : Run(g, start, m, D)
    BY <1>1, <1>3, <1>5, Iterates
  <1>8. g[0] = start /\ \A k \in 1 .. m : g[k] = D[g[k - 1]][k]
    BY <1>7 DEF Run
  <1>9. ASSUME NEW k \in 1 .. m PROVE g[k - 1] \in S /\ g[k] = Turn(g[k - 1], k)
    <2>1. k - 1 \in 0 .. m
      BY <1>1
    <2> QED
      BY <1>6, <1>8, <2>1
  <1>10. Def(g)
    <2>1. ASSUME NEW k \in 0 .. m PROVE g[k] = IF k = 0 THEN start ELSE Turn(g[k - 1], k)
      <3>1. CASE k = 0
        BY <1>8, <3>1
      <3>2. CASE k # 0
        <4>1. k \in 1 .. m
          BY <1>1, <3>2
        <4> QED
          BY <1>9, <3>2, <4>1
      <3> QED
        BY <3>1, <3>2
    <2>2. g = [k \in 0 .. m |-> g[k]]
      BY <1>8
    <2> QED
      BY <2>1, <2>2
  <1>11. Def(turn)
    <2> HIDE DEF Def
    <2> QED
      BY <1>10
  <1> HIDE DEF turn
  <1>12. turn[0] = start
    BY <1>1, <1>11
  <1>13. ASSUME NEW k \in 1 .. m PROVE turn[k] = Turn(turn[k - 1], k)
    BY <1>1, <1>11
  <1> DEFINE good == {k \in Nat : k <= m => turn[k] \in S}
  <1>14. good = Nat
    <2>1. 0 \in good
      BY <1>3, <1>12
    <2>2. ASSUME NEW k \in good PROVE k + 1 \in good
      <3> SUFFICES ASSUME k + 1 <= m PROVE turn[k + 1] \in S
        OBVIOUS
      <3>1. k + 1 \in 1 .. m /\ k \in Nat /\ k <= m /\ k + 1 - 1 = k
        BY <1>1
      <3>2. turn[k] \in S
        BY <3>1
      <3>3. turn[k + 1] = Turn(turn[k], k + 1)
        BY <1>13, <3>1
      <3> QED
        BY <1>4, <3>1, <3>2, <3>3
    <2>3. good \in SUBSET Nat
      OBVIOUS
    <2> HIDE DEF good
    <2> QED
      BY <2>1, <2>2, <2>3, InductionOn
  <1>15. \A k \in 0 .. m : turn[k] \in S
    BY <1>1, <1>14
  <1> QED
    BY <1>2, <1>12, <1>13, <1>15 DEF m, S, start, Turn, IsConsuming

(* What a decoder that holds some of W may say: of what it holds, with or  *)
(* without the pts, or again of what it answered before.                   *)
Answer(output, H, E, origin, p) ==
    /\ output.picture = PictureFrom(origin, p)
    /\ \/ output.pts = {p} /\ p \in H \cup E
       \/ output.pts = {} /\ p \in H

Answering(outputs, H, E, origin) ==
    /\ Len(outputs) \in Nat /\ DOMAIN outputs = 1 .. Len(outputs)
    /\ \A k \in 1 .. Len(outputs) : \E p : Answer(outputs[k], H, E, origin, p)

(* The submissions the first k outputs answer.                             *)
First(outputs, k) == {outputs[j].picture.pts : j \in 1 .. k}

(* One output more.                                                        *)
LEMMA FirstGrows ==
    ASSUME NEW outputs, NEW k \in Nat
    PROVE  /\ First(outputs, 0) = {}
           /\ First(outputs, k + 1) = First(outputs, k) \cup {outputs[k + 1].picture.pts}
  <1>1. 1 .. 0 = {} /\ 1 .. k + 1 = (1 .. k) \cup {k + 1}
    OBVIOUS
  <1> QED
    BY <1>1 DEF First

(* The loop while no output is refused.                                    *)
Going(state, outputs, k, W, E, base, origin) ==
    LET A == First(outputs, k)
    IN  /\ A \subseteq W
        /\ state.waiting = W \ A /\ state.done = E \cup A
        /\ Fits(state.samples, base \cup A, origin)

(* A loop that refuses nothing answers the submissions of its outputs.     *)
LEMMA ConsumingGoes ==
    ASSUME NEW W \in SUBSET Nat, IsFiniteSet(W), NEW X, NEW E, NEW H \in SUBSET W, NEW origin,
           NEW base \in SUBSET Nat, base \cap W = {}, W \cap E = {},
           NEW outputs, Answering(outputs, H, E, origin), NEW after, NEW start,
           IsConsuming(after, start, outputs, W, X),
           start.waiting = W, start.done = E, Fits(start.samples, base, origin),
           ~after[Len(outputs)].refused
    PROVE  Going(after[Len(outputs)], outputs, Len(outputs), W, E, base, origin)
  <1> DEFINE m == Len(outputs)
             Good(k) == ~after[k].refused => Going(after[k], outputs, k, W, E, base, origin)
             good == {k \in Nat : k <= m => Good(k)}
  <1>1. m \in Nat /\ \A k \in 1 .. m : \E p : Answer(outputs[k], H, E, origin, p)
    BY DEF Answering
  <1>2. /\ after[0] = start /\ \A k \in 0 .. m : after[k] \in Work(W, X)
        /\ \A k \in 1 .. m : after[k] = ConsumeOutput(after[k - 1], outputs, outputs[k])
    BY DEF IsConsuming
  <1>3. 0 \in good
    <2>1. First(outputs, 0) = {}
      BY FirstGrows
    <2> QED
      BY <1>2, <2>1 DEF Going
  <1>4. ASSUME NEW k \in good PROVE k + 1 \in good
    <2> SUFFICES ASSUME k + 1 <= m, ~after[k + 1].refused
                 PROVE  Going(after[k + 1], outputs, k + 1, W, E, base, origin)
      OBVIOUS
    <2>1. k \in Nat /\ k + 1 \in 1 .. m /\ k \in 0 .. m /\ k + 1 - 1 = k
      BY <1>1
    <2> DEFINE state == after[k]
               output == outputs[k + 1]
               next == after[k + 1]
    <2>2. state \in Work(W, X) /\ next = ConsumeOutput(state, outputs, output)
      BY <1>2, <2>1
    <2>3. PICK p : Answer(output, H, E, origin, p)
      BY <1>1, <2>1
    <2>4. Good(k)
      BY <2>1
    <2> HIDE DEF Good, good
    <2>5. Speaks(output, outputs, p, state.waiting, origin)
      <3>1. ASSUME Len(outputs) = 1, p \in H PROVE p \in state.waiting
        <4>1. k = 0
          BY <2>1, <3>1
        <4>2. state.waiting = W
          BY <1>2, <4>1
        <4> QED
          BY <3>1, <4>2
      <3> HIDE DEF state, output
      <3> QED
        BY <2>3, <3>1 DEF Answer, Speaks
    <2> HIDE DEF state, output, next
    <2>6. ~next.refused
      BY DEF next
    <2>7. /\ ~state.refused /\ p \in state.waiting /\ p \notin state.done
          /\ next.waiting = state.waiting \ {p} /\ next.done = state.done \cup {p}
          /\ next.samples = Grown(state.samples, p, origin)
      <3>1. Takes(ConsumeOutput(state, outputs, output), state, p, origin)
        BY <2>2, <2>5, <2>6, ConsumeTakes
      <3>2. Takes(next, state, p, origin)
        BY <2>2, <3>1
      <3> QED
        BY <3>2 DEF Takes
    <2> DEFINE A == First(outputs, k)
    <2>8. A \subseteq W /\ state.waiting = W \ A /\ state.done = E \cup A
          /\ Fits(state.samples, base \cup A, origin)
      BY <2>4, <2>7 DEF Good, Going, state
    <2>9. output.picture.pts = p
      BY <2>3 DEF Answer, PictureFrom
    <2>10. First(outputs, k + 1) = A \cup {p}
      BY <2>1, <2>9, FirstGrows DEF output
    <2> HIDE DEF A
    <2>11. p \in W \ A /\ p \in Nat \ (base \cup A) /\ base \cup A \in SUBSET Nat
      BY <2>7, <2>8
    <2>12. Fits(next.samples, (base \cup A) \cup {p}, origin)
      BY <2>7, <2>8, <2>11, StagesOne
    <2>13. (base \cup A) \cup {p} = base \cup First(outputs, k + 1)
      BY <2>10
    <2>14. First(outputs, k + 1) \subseteq W /\ next.waiting = W \ First(outputs, k + 1)
           /\ next.done = E \cup First(outputs, k + 1)
      BY <2>7, <2>8, <2>10, <2>11
    <2>15. Fits(next.samples, base \cup First(outputs, k + 1), origin)
      BY <2>12, <2>13
    <2> QED
      BY <2>14, <2>15 DEF Going, next
  <1>5. good \in SUBSET Nat
    OBVIOUS
  <1> HIDE DEF good
  <1>6. good = Nat
    BY <1>3, <1>4, <1>5, InductionOn
  <1>7. m \in good
    BY <1>1, <1>6
  <1> QED
    BY <1>1, <1>7 DEF good

(* The decoder's answers are such outputs.                                 *)
LEMMA AnswersSay ==
    ASSUME NEW c, NEW H, NEW origin, NEW outputs \in Answers(c, H, origin)
    PROVE  /\ Answering(outputs, H, emitted[c], origin)
           /\ Answered(outputs) = First(outputs, Len(outputs))
  <1> DEFINE Says(o) == \E p : Answer(o, H, emitted[c], origin, p)
             Output(p, pts) == [picture |-> [pts |-> p, edition |-> origin[p + 1]], pts |-> pts]
             all == {Output(p, {p}) : p \in H \cup emitted[c]} \cup {Output(p, {}) : p \in H}
  <1>1. \A o \in all : Says(o)
    <2>1. \A p \in H \cup emitted[c] : Answer(Output(p, {p}), H, emitted[c], origin, p)
      <3> TAKE p \in H \cup emitted[c]
      <3>1. /\ Output(p, {p}).picture = [pts |-> p, edition |-> origin[p + 1]]
            /\ Output(p, {p}).pts = {p}
        OBVIOUS
      <3> HIDE DEF Output
      <3> QED
        BY <3>1 DEF Answer, PictureFrom
    <2>2. \A p \in H : Answer(Output(p, {}), H, emitted[c], origin, p)
      BY DEF Answer, PictureFrom
    <2> QED
      BY <2>1, <2>2
  <1>2. outputs = <<>> \/ (\E o \in all : outputs = <<o>>) \/ (\E o, q \in all : outputs = <<o, q>>)
    BY DEF Answers
  <1> HIDE DEF all, Says
  <1>3. Len(outputs) \in Nat /\ DOMAIN outputs = 1 .. Len(outputs)
        /\ \A k \in 1 .. Len(outputs) : Says(outputs[k])
    <2>1. CASE outputs = <<>>
      BY <2>1
    <2>2. CASE \E o \in all : outputs = <<o>>
      <3>1. PICK o \in all : outputs = <<o>>
        BY <2>2
      <3>2. Len(outputs) = 1 /\ outputs[1] = o /\ DOMAIN outputs = 1 .. 1
        BY <3>1
      <3> QED
        BY <1>1, <3>2
    <2>3. CASE \E o, q \in all : outputs = <<o, q>>
      <3>1. PICK o \in all, q \in all : outputs = <<o, q>>
        BY <2>3
      <3>2. Len(outputs) = 2 /\ outputs[1] = o /\ outputs[2] = q /\ DOMAIN outputs = 1 .. 2
        BY <3>1
      <3>3. \A k \in 1 .. 2 : k = 1 \/ k = 2
        OBVIOUS
      <3> QED
        BY <1>1, <3>2, <3>3
    <2> QED
      BY <1>2, <2>1, <2>2, <2>3
  <1>4. Answering(outputs, H, emitted[c], origin)
    BY <1>3 DEF Answering, Says
  <1>5. Answered(outputs) = First(outputs, Len(outputs))
    BY <1>3 DEF Answered, First
  <1> QED
    BY <1>4, <1>5

(* What one decoder's outputs do, when none is refused.                    *)
Took(c, W, A, base, origin) ==
    /\ A \subseteq W
    /\ pending' = [pending EXCEPT ![c] = W \ A]
    /\ emitted' = [emitted EXCEPT ![c] = emitted[c] \cup A]
    /\ Fits(samples', base \cup A, origin)

(* _accept does that.                                                      *)
LEMMA Accepts ==
    ASSUME NEW c, NEW W \in SUBSET Nat, IsFiniteSet(W), NEW H \in SUBSET W, NEW origin,
           emitted[c] \in SUBSET Nat, W \cap emitted[c] = {},
           NEW base \in SUBSET Nat, base \cap W = {}, Fits(samples, base, origin),
           NEW outputs \in Answers(c, H, origin), Accept(c, W, outputs)
    PROVE  Took(c, W, Answered(outputs), base, origin)
  <1> DEFINE E == emitted[c]
             m == Len(outputs)
             old == {SampleOf(q, PictureFrom(origin, q)) : q \in {p \in base : TargetOf(p) # {}}}
             X == old \cup {SampleOf(p, outputs[k].picture) : p \in W, k \in 1 .. m}
             start == [waiting |-> W, done |-> E, samples |-> samples, refused |-> FALSE]
             after == Consumed(c, W, outputs)
             end == after[m]
  <1>1. Answering(outputs, H, E, origin) /\ Answered(outputs) = First(outputs, m)
    BY AnswersSay
  <1>2. ~end.refused /\ pending' = [pending EXCEPT ![c] = end.waiting]
        /\ emitted' = [emitted EXCEPT ![c] = end.done] /\ samples' = end.samples
    BY DEF Accept
  <1>3. m \in Nat
    BY <1>1 DEF Answering
  <1>4. samples \in Seq(X)
    <2>1. samples \in Seq(old) /\ old \subseteq X
      BY DEF Fits
    <2> HIDE DEF old, X
    <2> QED
      BY <2>1
  <1>5. \A p \in W : \A k \in 1 .. m : SampleOf(p, outputs[k].picture) \in X
    OBVIOUS
  <1>6. start.waiting = W /\ start.done = E /\ start.samples = samples
    OBVIOUS
  <1> HIDE DEF X
  <1>7. IsConsuming(after, start, outputs, W, X)
    BY <1>3, <1>4, <1>5, ConsumedRuns
  <1> HIDE DEF after, start
  <1>8. Going(end, outputs, m, W, E, base, origin)
    BY <1>1, <1>2, <1>6, <1>7, ConsumingGoes
  <1> HIDE DEF end, m
  <1> QED
    BY <1>1, <1>2, <1>8 DEF Going, Took

(* The samples fit what is answered, whatever is submitted next.           *)
LEMMA FitsSource ==
    ASSUME StagedFor(samples, Emitted), NEW origin,
           \A p \in Emitted : origin[p + 1] = source[p + 1]
    PROVE  Fits(samples, Emitted, origin)
  <1>1. \A p \in Emitted : PictureFrom(origin, p) = PictureOf(p)
    BY DEF PictureFrom, PictureOf
  <1>2. {SampleOf(p, PictureFrom(origin, p)) : p \in {q \in Emitted : TargetOf(q) # {}}}
          = {SampleOf(p, PictureOf(p)) : p \in {q \in Emitted : TargetOf(q) # {}}}
    BY <1>1
  <1> QED
    BY <1>2 DEF Fits, StagedFor

LEMMA SourceFits ==
    ASSUME UNCHANGED <<selection, batches, gnss>>, Fits(samples', Emitted', source')
    PROVE  StagedFor(samples, Emitted)'
  <1>1. \A p : /\ TargetOf(p)' = TargetOf(p)
               /\ SampleOf(p, PictureOf(p))' = SampleOf(p, PictureFrom(source', p))
    BY DEF TargetOf, SampleOf, PictureOf, PictureFrom, Pose, CameraTime,
           BatchOf, CameraOf
  <1> QED
    BY <1>1 DEF Fits, StagedFor

(* One decoder's answers, while new is what it was given.                  *)
LEMMA CameraAnswers ==
    ASSUME TypeOK, EverySubmission, StagedFor(samples, Emitted),
           UNCHANGED <<selection, batches, gnss>>, source' \in Seq(Nat),
           \A i \in 1 .. submitted : source'[i] = source[i],
           NEW c \in CameraIds, NEW new \in SUBSET Nat, submitted' \in Nat,
           \A p \in new : p >= submitted,
           \A d \in CameraIds :
             {p \in 0 .. submitted' - 1 : CameraOf(p) = d}
               = {p \in 0 .. submitted - 1 : CameraOf(p) = d} \cup (IF d = c THEN new ELSE {}),
           NEW outputs \in Answers(c, held[c] \cup new, source'),
           Accept(c, pending[c] \cup new, outputs),
           held' = [held EXCEPT ![c] = (@ \cup new) \ Answered(outputs)]
    PROVE  /\ held' \in [CameraIds -> SUBSET Nat]
           /\ pending' \in [CameraIds -> SUBSET Nat] /\ emitted' \in [CameraIds -> SUBSET Nat]
           /\ EverySubmission' /\ StagedFor(samples, Emitted)'
  <1> DEFINE W == pending[c] \cup new
             H == held[c] \cup new
             A == Answered(outputs)
             Own(d) == {p \in 0 .. submitted - 1 : CameraOf(p) = d}
             Then(d) == {p \in 0 .. submitted' - 1 : CameraOf(p) = d}
  <1>1. /\ submitted \in Nat /\ held \in [CameraIds -> SUBSET Nat]
        /\ pending \in [CameraIds -> SUBSET Nat] /\ emitted \in [CameraIds -> SUBSET Nat]
    BY DEF TypeOK
  <1>2. \A d \in CameraIds : /\ held[d] \subseteq pending[d] /\ pending[d] \cap emitted[d] = {}
                             /\ pending[d] \cup emitted[d] = Own(d)
    BY DEF EverySubmission
  <1>3. \A d \in CameraIds : Then(d) = Own(d) \cup (IF d = c THEN new ELSE {})
    OBVIOUS
  <1>4. \A d \in CameraIds : \A p \in Own(d) : p \in Nat /\ CameraOf(p) = d /\ ~(p >= submitted)
    BY <1>1
  <1>5. \A p \in new : CameraOf(p) = c
    BY <1>3
  <1>6. W \in SUBSET Nat /\ H \in SUBSET W /\ W \cap emitted[c] = {}
    BY <1>1, <1>2, <1>4
  <1>7. IsFiniteSet(W)
    <2>1. W \in SUBSET (0 .. submitted' - 1)
      BY <1>2, <1>3
    <2>2. IsFiniteSet(0 .. submitted' - 1)
      BY FS_Interval
    <2> QED
      BY <2>1, <2>2, FS_Subset
  <1>8. \A p \in Emitted : \E d \in CameraIds : p \in emitted[d] /\ p \in Own(d)
    BY <1>2 DEF Emitted
  <1> HIDE DEF Own, Then
  <1>9. Emitted \in SUBSET Nat
    BY <1>4, <1>8
  <1>10. Emitted \cap W = {}
    <2> SUFFICES ASSUME NEW p \in Emitted, p \in W PROVE FALSE
      OBVIOUS
    <2>1. PICK d \in CameraIds : p \in emitted[d] /\ p \in Own(d)
      BY <1>8
    <2>2. CameraOf(p) = d /\ ~(p >= submitted)
      BY <1>4, <2>1
    <2>3. CameraOf(p) = c
      BY <1>2, <1>4, <1>5
    <2> QED
      BY <1>6, <2>1, <2>2, <2>3
  <1>11. Fits(samples, Emitted, source')
    <2>1. ASSUME NEW p \in Emitted PROVE source'[p + 1] = source[p + 1]
      <3>1. p \in 0 .. submitted - 1
        BY <1>8 DEF Own
      <3>2. p + 1 \in 1 .. submitted
        BY <1>1, <3>1
      <3> QED
        BY <3>2
    <2> QED
      BY <2>1, FitsSource
  <1> HIDE DEF W, H
  <1>12. /\ A \subseteq W /\ pending' = [pending EXCEPT ![c] = W \ A]
         /\ emitted' = [emitted EXCEPT ![c] = emitted[c] \cup A]
         /\ Fits(samples', Emitted \cup A, source')
    <2>1. /\ c \in CameraIds /\ outputs \in Answers(c, H, source')
          /\ Accept(c, W, outputs) /\ emitted[c] \in SUBSET Nat
      BY <1>1 DEF H, W
    <2>2. Took(c, W, A, Emitted, source')
      BY <1>6, <1>7, <1>9, <1>10, <1>11, <2>1, Accepts
    <2> QED
      BY <2>2 DEF Took
  <1> HIDE DEF A
  <1>13. held' = [held EXCEPT ![c] = H \ A]
    BY DEF H, A
  <1>14. /\ held' \in [CameraIds -> SUBSET Nat] /\ pending' \in [CameraIds -> SUBSET Nat]
         /\ emitted' \in [CameraIds -> SUBSET Nat]
    BY <1>1, <1>6, <1>12, <1>13
  <1>15. /\ held'[c] = H \ A /\ pending'[c] = W \ A /\ emitted'[c] = emitted[c] \cup A
         /\ \A d \in CameraIds : d # c =>
              held'[d] = held[d] /\ pending'[d] = pending[d] /\ emitted'[d] = emitted[d]
    BY <1>1, <1>12, <1>13
  <1>16. W \cup emitted[c] = Then(c)
    BY <1>2, <1>3 DEF W
  <1>17. EverySubmission'
    <2>1. ASSUME NEW d \in CameraIds
          PROVE  /\ held'[d] \subseteq pending'[d] /\ pending'[d] \cap emitted'[d] = {}
                 /\ pending'[d] \cup emitted'[d] = Then(d)
      <3>1. CASE d = c
        <4>1. held'[c] \subseteq pending'[c] /\ pending'[c] \cap emitted'[c] = {}
          BY <1>6, <1>12, <1>15
        <4>2. pending'[c] \cup emitted'[c] = Then(c)
          BY <1>12, <1>15, <1>16
        <4> QED
          BY <3>1, <4>1, <4>2
      <3>2. CASE d # c
        <4>1. Then(d) = Own(d)
          BY <1>3, <3>2
        <4> QED
          BY <1>2, <1>15, <3>2, <4>1
      <3> QED
        BY <3>1, <3>2
    <2> QED
      BY <2>1 DEF EverySubmission, Then, CameraOf
  <1>18. Emitted' = Emitted \cup A
    <2>1. ASSUME NEW p \in Emitted' PROVE p \in Emitted \cup A
      BY <1>15 DEF Emitted
    <2>2. ASSUME NEW p \in Emitted \cup A PROVE p \in Emitted'
      BY <1>15 DEF Emitted
    <2> QED
      BY <2>1, <2>2
  <1>19. StagedFor(samples, Emitted)'
    BY <1>12, <1>18, SourceFits
  <1> QED
    BY <1>14, <1>17, <1>19

(* Every submission is of a camera of the rig.                             *)
LEMMA CameraIs == \A p \in Nat : CameraOf(p) \in CameraIds
  BY ExtractionAssumption DEF CameraOf, CameraIds

LEMMA Submits ==
    ASSUME IInv, SubmitUnit
    PROVE  IInv'
  <1> USE DEF file, index
  <1> DEFINE pts == submitted
             c == CameraOf(pts)
             edition == IF c = 0 THEN open ELSE source[pts]
             new == {pts}
  <1>1. /\ pc = "streaming" /\ submitted' = pts + 1 /\ source' = Append(source, edition)
        /\ UNCHANGED <<pc, settings, file, open, index, cursor, selection>>
    BY DEF SubmitUnit
  <1>2. PICK outputs \in Answers(c, held[c] \cup new, Append(source, edition)) :
          /\ Accept(c, pending[c] \cup new, outputs)
          /\ held' = [held EXCEPT ![c] = (@ \cup new) \ Answered(outputs)]
    BY DEF SubmitUnit
  <1>3. TypeOK /\ OneFile /\ OneGrid /\ EverySubmission /\ StagedFor(samples, Emitted)
    BY <1>1 DEF IInv, OneSampleEach, Ended
  <1>4. pts \in Nat /\ c \in CameraIds /\ new \in SUBSET Nat /\ submitted' \in Nat
    BY <1>1, <1>3, CameraIs DEF TypeOK
  <1>5. edition \in Nat
    <2>1. open \in Nat /\ source \in Seq(Nat) /\ Len(source) = pts
      BY <1>3 DEF TypeOK
    <2>2. ASSUME c # 0 PROVE pts \in 1 .. pts
      <3>1. pts # 0
        BY <2>2, ExtractionAssumption DEF CameraOf
      <3> QED
        BY <1>4, <3>1
    <2> QED
      BY <2>1, <2>2
  <1>6. /\ source' \in Seq(Nat) /\ Len(source') = pts + 1 /\ source'[pts + 1] = edition
        /\ \A i \in 1 .. pts : source'[i] = source[i]
    <2>1. source \in Seq(Nat) /\ Len(source) = pts
      BY <1>3 DEF TypeOK
    <2> HIDE DEF edition
    <2> QED
      BY <1>1, <1>5, <2>1
  <1>7. ASSUME NEW d \in CameraIds
        PROVE  {p \in 0 .. submitted' - 1 : CameraOf(p) = d}
                 = {p \in 0 .. submitted - 1 : CameraOf(p) = d} \cup (IF d = c THEN new ELSE {})
    <2>1. 0 .. submitted' - 1 = (0 .. submitted - 1) \cup {submitted}
      BY <1>1, <1>4
    <2> QED
      BY <2>1
  <1>8. /\ held' \in [CameraIds -> SUBSET Nat]
        /\ pending' \in [CameraIds -> SUBSET Nat] /\ emitted' \in [CameraIds -> SUBSET Nat]
        /\ EverySubmission' /\ StagedFor(samples, Emitted)'
    <2>1. /\ outputs \in Answers(c, held[c] \cup new, source')
          /\ UNCHANGED <<selection, batches, gnss>>
          /\ \A p \in new : p >= submitted
      BY <1>1, <1>2, <1>4
    <2> HIDE DEF c, new, edition
    <2> QED
      BY <1>2, <1>3, <1>4, <1>6, <1>7, <2>1, CameraAnswers
  <1> HIDE DEF edition
  <1>9. TypeOK'
    BY <1>1, <1>3, <1>4, <1>6, <1>8 DEF TypeOK
  <1>10. OneFile'
    <2> SUFFICES ASSUME atPath = identity
                 PROVE  open = identity /\ \A i \in 1 .. pts + 1 : source'[i] = identity
      BY <1>1 DEF OneFile
    <2>1. open = identity /\ \A i \in 1 .. pts : source[i] = identity
      BY <1>1, <1>3 DEF OneFile
    <2>2. edition = identity
      <3>1. ASSUME c # 0 PROVE pts \in 1 .. pts
        <4>1. pts # 0
          BY <3>1, ExtractionAssumption DEF CameraOf
        <4> QED
          BY <1>4, <4>1
      <3> QED
        BY <2>1, <3>1 DEF edition
    <2>3. ASSUME NEW i \in 1 .. pts + 1 PROVE source'[i] = identity
      <3>1. i \in 1 .. pts \/ i = pts + 1
        BY <1>4
      <3> QED
        BY <1>6, <2>1, <2>2, <3>1
    <2> QED
      BY <2>1, <2>3
  <1>11. OneGrid' /\ FramesStayPaired'
    BY <1>1, <1>3, SameGrid DEF FramesStayPaired
  <1>12. OneSampleEach'
    BY <1>8 DEF OneSampleEach
  <1> QED
    BY <1>8, <1>9, <1>10, <1>11, <1>12 DEF IInv

LEMMA Flushes ==
    ASSUME IInv, FlushCamera
    PROVE  IInv'
  <1> USE DEF file, index
  <1> DEFINE c == cursor
             new == {}
  <1>1. /\ pc = "flushing" /\ c \in CameraIds /\ cursor' = c + 1
        /\ UNCHANGED <<pc, settings, file, open, index, selection, submitted, source>>
    BY DEF FlushCamera
  <1>2. PICK outputs \in Answers(c, held[c], source) :
          /\ Accept(c, pending[c], outputs)
          /\ held' = [held EXCEPT ![c] = @ \ Answered(outputs)]
    BY DEF FlushCamera
  <1>3. TypeOK /\ OneFile /\ OneGrid /\ EverySubmission /\ StagedFor(samples, Emitted)
    BY <1>1 DEF IInv, OneSampleEach, Ended
  <1>4. /\ held' \in [CameraIds -> SUBSET Nat]
        /\ pending' \in [CameraIds -> SUBSET Nat] /\ emitted' \in [CameraIds -> SUBSET Nat]
        /\ EverySubmission' /\ StagedFor(samples, Emitted)'
    <2>1. /\ outputs \in Answers(c, held[c] \cup new, source')
          /\ UNCHANGED <<selection, batches, gnss>>
          /\ \A p \in new : p >= submitted
          /\ pending[c] = pending[c] \cup new /\ new \in SUBSET Nat
          /\ submitted' \in Nat /\ source' \in Seq(Nat) /\ source' = source
      BY <1>1, <1>2, <1>3 DEF TypeOK
    <2>2. Accept(c, pending[c] \cup new, outputs)
      BY <1>2
    <2>3. held' = [held EXCEPT ![c] = (@ \cup new) \ Answered(outputs)]
      BY <1>2
    <2>4. \A d \in CameraIds :
            {p \in 0 .. submitted' - 1 : CameraOf(p) = d}
              = {p \in 0 .. submitted - 1 : CameraOf(p) = d} \cup (IF d = c THEN new ELSE {})
      BY <1>1
    <2> HIDE DEF c, new
    <2>5. c \in CameraIds
      BY <1>1
    <2> QED
      BY <1>3, <2>1, <2>2, <2>3, <2>4, <2>5, CameraAnswers
  <1>5. TypeOK'
    BY <1>1, <1>3, <1>4 DEF TypeOK
  <1>6. OneFile'
    <2>1. Units' = Units
      BY <1>1 DEF Units
    <2> QED
      BY <1>1, <1>3, <2>1 DEF OneFile
  <1>7. OneGrid' /\ FramesStayPaired'
    BY <1>1, <1>3, SameGrid DEF FramesStayPaired
  <1>8. OneSampleEach'
    BY <1>4 DEF OneSampleEach
  <1> QED
    BY <1>4, <1>5, <1>6, <1>7, <1>8 DEF IInv

(* The elements of a sequence.                                             *)
LEMMA Elements ==
    ASSUME NEW S, NEW s \in Seq(S)
    PROVE  ToSet(s) \subseteq S
  BY DEF ToSet

(* No two targets of a grid have one batch.                                *)
LEMMA OneTarget ==
    ASSUME NEW grid, grid.entries \in Seq([target : Int, batch : Int]),
           NEW times, NEW period, NEW tolerance, IsGridOf(grid, times, period, tolerance),
           NEW e \in ToSet(grid.entries), NEW f \in ToSet(grid.entries), e.batch = f.batch
    PROVE  e.target = f.target
  <1> DEFINE E == ToSet(grid.entries)
             Free(target) == ToSet(times) \ {x.batch : x \in {y \in E : y.target < target}}
  <1>1. E \subseteq [target : Int, batch : Int]
    BY Elements
  <1>2. \A x \in E : x.batch \in Free(x.target)
    BY DEF IsGridOf, IsNearest
  <1> HIDE DEF E
  <1>3. ~(e.target < f.target) /\ ~(f.target < e.target)
    BY <1>2 DEF E
  <1>4. e.target \in Int /\ f.target \in Int
    BY <1>1 DEF E
  <1> QED
    BY <1>3, <1>4

(* A selected batch has one target.                                        *)
LEMMA TargetIs ==
    ASSUME NEW pts, TargetOf(pts) # {}, OneGrid, pc = "flushing"
    PROVE  Cardinality(TargetOf(pts)) = 1
  <1> DEFINE S == {x \in ToSet(selection.entries) : x.batch = batches[BatchOf(pts)].time}
  <1>1. TargetOf(pts) = {e.target : e \in S}
    BY DEF TargetOf
  <1>2. \A e, f \in S : e.target = f.target
    BY OneTarget DEF OneGrid
  <1> HIDE DEF S
  <1>3. PICK e \in S : e.target \in TargetOf(pts)
    BY <1>1
  <1>4. TargetOf(pts) = {e.target}
    BY <1>1, <1>2
  <1> QED
    BY <1>4, FS_Singleton

(* Putting samples of different submissions in order.                      *)
LEMMA SortsBySubmission ==
    ASSUME NEW S, NEW staged \in Seq(S), \A s \in S : s.pts \in Int,
           \A i, j \in DOMAIN staged : staged[i].pts = staged[j].pts => i = j
    PROVE  /\ DOMAIN BySubmission(staged) = 1 .. Len(staged)
           /\ Len(BySubmission(staged)) = Len(staged)
           /\ \A i \in 1 .. Len(staged) :
                \E j \in 1 .. Len(staged) : BySubmission(staged)[i] = staged[j]
           /\ \A i, j \in 1 .. Len(staged) :
                i < j => BySubmission(staged)[i].pts < BySubmission(staged)[j].pts
           /\ Cardinality({staged[i].pts : i \in 1 .. Len(staged)}) = Len(staged)
  <1> DEFINE keys == [i \in DOMAIN staged |-> staged[i].pts]
             K == {staged[i].pts : i \in 1 .. Len(staged)}
             order == Ordered(keys)
             sorted == BySubmission(staged)
  <1>1. PICK n \in Nat : n = Len(staged) /\ DOMAIN staged = 1 .. n
    OBVIOUS
  <1>2. keys \in [1 .. n -> Int] /\ Len(keys) = n /\ DOMAIN keys = 1 .. n
    <2>1. \A i \in 1 .. n : staged[i].pts \in Int
      BY <1>1
    <2>2. keys \in [1 .. n -> Int]
      BY <1>1, <2>1
    <2> QED
      BY <2>2
  <1>3. ToSet(keys) = K
    BY <1>1, <1>2 DEF ToSet
  <1>4. Cardinality(K) = n
    <2>1. keys \in Surjection(1 .. n, K)
      BY <1>1 DEF Surjection
    <2>2. keys \in Injection(1 .. n, K)
      <3>1. keys \in [1 .. n -> K]
        BY <1>1
      <3>2. \A i, j \in 1 .. n : keys[i] = keys[j] => i = j
        BY <1>1
      <3> QED
        BY <3>1, <3>2 DEF Injection, IsInjective
    <2>3. IsFiniteSet(1 .. n) /\ Cardinality(1 .. n) = n
      BY FS_Interval
    <2> HIDE DEF keys, K
    <2>4. Cardinality(K) = Cardinality(1 .. n)
      BY <2>1, <2>2, <2>3, FS_Surjection
    <2> QED
      BY <2>3, <2>4
  <1>5. Stamps(keys)
    BY <1>2, <1>3, <1>4 DEF Stamps
  <1> HIDE DEF keys
  <1>6. Sorted(order, n) /\ K = {order[i] : i \in 1 .. n}
    BY <1>2, <1>3, <1>5, Sorting
  <1>7. sorted = [i \in 1 .. n |-> CHOOSE s \in ToSet(staged) : s.pts = order[i]]
    BY <1>1 DEF BySubmission, keys
  <1>8. ToSet(staged) = {staged[j] : j \in 1 .. n}
    BY <1>1 DEF ToSet
  <1> HIDE DEF order
  <1>9. \A i \in 1 .. n : sorted[i] \in ToSet(staged) /\ sorted[i].pts = order[i]
    <2> TAKE i \in 1 .. n
    <2>1. order[i] \in K
      BY <1>6
    <2>2. PICK j \in 1 .. n : staged[j].pts = order[i]
      BY <1>1, <2>1
    <2>3. \E s \in ToSet(staged) : s.pts = order[i]
      BY <1>8, <2>2
    <2>4. sorted[i] = CHOOSE s \in ToSet(staged) : s.pts = order[i]
      BY <1>7
    <2> HIDE DEF sorted
    <2> QED
      BY <2>3, <2>4
  <1>10. DOMAIN sorted = 1 .. n /\ sorted \in [1 .. n -> ToSet(staged)]
    BY <1>7, <1>9
  <1> HIDE DEF sorted, K
  <1>11. Len(sorted) = n
    BY <1>10
  <1>12. \A i, j \in 1 .. n : i < j => sorted[i].pts < sorted[j].pts
    BY <1>6, <1>9 DEF Sorted
  <1>13. \A i \in 1 .. n : \E j \in 1 .. n : sorted[i] = staged[j]
    BY <1>8, <1>9
  <1> QED
    BY <1>1, <1>4, <1>10, <1>11, <1>12, <1>13 DEF sorted, K

(* What FramesStayPaired says of sample i.                                 *)
PairedAt(i, chosen) ==
    LET sample == samples[i]
    IN  /\ sample.pts \in chosen
        /\ sample.picture = [pts |-> sample.pts, edition |-> identity]
        /\ i > 1 => samples[i - 1].pts < sample.pts
        /\ Cardinality(sample.targets) = 1
        /\ \A g \in sample.pose.before, h \in sample.pose.after :
             g <= CameraTime(sample.pts) /\ CameraTime(sample.pts) <= h

LEMMA Finishes ==
    ASSUME IInv, Finish
    PROVE  IInv'
  <1> USE DEF file, index, decoders
  <1>1. /\ pc = "flushing" /\ pc' = "done" /\ samples' = BySubmission(samples)
        /\ \A c \in CameraIds : pending[c] = {}
        /\ UNCHANGED <<settings, file, open, index, cursor, selection, decoders>>
    BY DEF Finish, Goto
  <1>2. TypeOK /\ OneFile /\ OneGrid /\ EverySubmission /\ StagedFor(samples, Emitted)
    BY <1>1 DEF IInv, OneSampleEach, Ended
  <1>3. TypeOK'
    BY <1>1, <1>2 DEF TypeOK, Ended
  <1>4. Units' = Units /\ submitted = Units /\ submitted \in Nat
    BY <1>1, <1>2 DEF Units, OneFile, TypeOK
  <1>5. OneFile'
    BY <1>1, <1>2, <1>4 DEF OneFile
  <1>6. OneGrid' /\ EverySubmission' /\ OneSampleEach'
    BY <1>1, <1>2, SameSubmissions, SameGrid DEF OneSampleEach, Ended
  <1>7. Emitted = 0 .. Units - 1
    <2>1. \A c \in CameraIds : emitted[c] = {p \in 0 .. Units - 1 : CameraOf(p) = c}
      BY <1>1, <1>2, <1>4 DEF EverySubmission
    <2>2. \A p \in 0 .. Units - 1 : CameraOf(p) \in CameraIds
      BY CameraIs
    <2> QED
      BY <2>1, <2>2 DEF Emitted
  <1> DEFINE selected == {p \in 0 .. Units - 1 : TargetOf(p) # {}}
             S == {SampleOf(p, PictureOf(p)) : p \in selected}
             sorted == BySubmission(samples)
  <1>8. /\ samples \in Seq(S)
        /\ \A i, j \in DOMAIN samples : samples[i].pts = samples[j].pts => i = j
        /\ \A p \in selected : \E i \in DOMAIN samples : samples[i].pts = p
    BY <1>2, <1>7 DEF StagedFor
  <1>9. \A s \in S : s.pts \in selected /\ s.pts \in Int /\ s = SampleOf(s.pts, PictureOf(s.pts))
    BY DEF SampleOf
  <1>10. PICK n \in Nat : n = Len(samples) /\ DOMAIN samples = 1 .. n
    BY <1>8
  <1> HIDE DEF S
  <1>11. /\ DOMAIN sorted = 1 .. n /\ Len(sorted) = n
         /\ \A i \in 1 .. n : \E j \in 1 .. n : sorted[i] = samples[j]
         /\ \A i, j \in 1 .. n : i < j => sorted[i].pts < sorted[j].pts
         /\ Cardinality({samples[i].pts : i \in 1 .. n}) = n
    BY <1>8, <1>9, <1>10, SortsBySubmission
  <1> HIDE DEF sorted
  <1>12. {samples[i].pts : i \in 1 .. n} = selected
    BY <1>8, <1>9, <1>10
  <1>13. Len(sorted) = Cardinality(selected)
    BY <1>11, <1>12
  <1>14. ASSUME NEW i \in 1 .. n
         PROVE  LET s == sorted[i] IN
                /\ s.pts \in selected /\ s = SampleOf(s.pts, PictureOf(s.pts))
                /\ i > 1 => sorted[i - 1].pts < s.pts
    <2>1. PICK j \in 1 .. n : sorted[i] = samples[j]
      BY <1>11
    <2>2. sorted[i] \in S
      BY <1>8, <1>10, <2>1
    <2>3. ASSUME i > 1 PROVE i - 1 \in 1 .. n /\ i - 1 < i
      BY <2>3
    <2> QED
      BY <1>9, <1>11, <2>2, <2>3
  <1>15. ASSUME NEW i \in 1 .. n
         PROVE  LET s == sorted[i] IN
                /\ s.picture = [pts |-> s.pts, edition |-> identity]
                /\ Cardinality(s.targets) = 1
                /\ s.pose = Pose(CameraTime(s.pts))
    <2> DEFINE p == sorted[i].pts
    <2>1. p \in 0 .. Units - 1 /\ TargetOf(p) # {} /\ sorted[i] = SampleOf(p, PictureOf(p))
      BY <1>14
    <2> HIDE DEF p
    <2>2. p + 1 \in 1 .. submitted
      BY <1>4, <2>1
    <2>3. source[p + 1] = identity
      BY <1>1, <1>2, <2>2 DEF OneFile
    <2>4. PictureOf(p) = [pts |-> p, edition |-> identity]
      BY <2>3 DEF PictureOf
    <2>5. Cardinality(TargetOf(p)) = 1
      BY <1>1, <1>2, <2>1, TargetIs
    <2>6. /\ sorted[i].picture = PictureOf(p) /\ sorted[i].targets = TargetOf(p)
          /\ sorted[i].pose = Pose(CameraTime(p))
      BY <2>1 DEF SampleOf
    <2> QED
      BY <2>4, <2>5, <2>6 DEF p
  <1>16. \A time : \A g \in Pose(time).before, h \in Pose(time).after : g <= time /\ time <= h
    BY DEF Pose
  <1>17. /\ \A p : TargetOf(p)' = TargetOf(p) /\ CameraTime(p)' = CameraTime(p)
         /\ samples' = sorted /\ identity' = identity
    BY <1>1 DEF TargetOf, CameraTime, BatchOf, CameraOf, sorted
  <1>18. FramesStayPaired'
    <2> DEFINE chosen == {p \in 0 .. Units - 1 : TargetOf(p) # {}}
    <2>1. chosen' = selected
      BY <1>4, <1>17
    <2>2. ASSUME NEW i \in 1 .. n
          PROVE  /\ sorted[i].pts \in selected
                 /\ sorted[i].picture = [pts |-> sorted[i].pts, edition |-> identity]
                 /\ i > 1 => sorted[i - 1].pts < sorted[i].pts
                 /\ Cardinality(sorted[i].targets) = 1
                 /\ \A g \in sorted[i].pose.before, h \in sorted[i].pose.after :
                      g <= CameraTime(sorted[i].pts) /\ CameraTime(sorted[i].pts) <= h
      BY <1>14, <1>15, <1>16
    <2> HIDE DEF chosen, selected
    <2>3. Len(samples') = Cardinality(chosen')
      BY <1>13, <1>17, <2>1
    <2>4. ASSUME NEW i \in DOMAIN samples' PROVE PairedAt(i, chosen)'
      <3>1. i \in 1 .. n /\ batches' = batches /\ samples' = sorted /\ identity' = identity
        BY <1>1, <1>11, <1>17
      <3>2. CameraTime(samples[i].pts)' = CameraTime(sorted[i].pts)
        BY <3>1 DEF CameraTime, BatchOf, CameraOf
      <3> DEFINE time == CameraTime(samples[i].pts)
      <3>4. PairedAt(i, chosen)' <=>
              /\ samples'[i].pts \in chosen'
              /\ samples'[i].picture = [pts |-> samples'[i].pts, edition |-> identity']
              /\ i > 1 => samples'[i - 1].pts < samples'[i].pts
              /\ Cardinality(samples'[i].targets) = 1
              /\ \A g \in samples'[i].pose.before, h \in samples'[i].pose.after :
                   g <= time' /\ time' <= h
        BY DEF PairedAt
      <3>5. time' = CameraTime(sorted[i].pts)
        BY <3>2
      <3> HIDE DEF time
      <3> QED
        BY <2>1, <2>2, <3>1, <3>4, <3>5
    <2>5. (\A i \in DOMAIN samples : PairedAt(i, chosen))'
      BY <2>4
    <2> QED
      BY <2>3, <2>5 DEF FramesStayPaired, PairedAt, chosen
  <1> QED
    BY <1>3, <1>5, <1>6, <1>18 DEF IInv

LEMMA Stutters ==
    ASSUME IInv, UNCHANGED vars
    PROVE  IInv'
  <1> USE DEF vars
  <1>1. TypeOK /\ OneFile /\ OneGrid /\ EverySubmission /\ OneSampleEach /\ FramesStayPaired
    BY DEF IInv
  <1>2. UNCHANGED decoders
    BY DEF decoders
  <1>3. TypeOK' /\ OneFile'
    BY <1>1 DEF TypeOK, OneFile, Units
  <1>4. OneGrid' /\ EverySubmission'
    BY <1>1, <1>2, SameGrid, SameSubmissions
  <1>5. OneSampleEach'
    BY <1>1, <1>2, SameSamples DEF OneSampleEach
  <1>6. FramesStayPaired'
    BY <1>1 DEF FramesStayPaired, TargetOf, CameraTime, BatchOf, CameraOf, Units
  <1> QED
    BY <1>1, <1>3, <1>4, <1>5, <1>6 DEF IInv

LEMMA StepInv == IInv /\ [Next]_vars => IInv'
  <1> SUFFICES ASSUME IInv, [Next]_vars PROVE IInv'
    OBVIOUS
  <1>1. CASE OpenIndex
    BY <1>1, Opens
  <1>2. CASE IndexMessage
    BY <1>2, Indexes
  <1>3. CASE ChooseGrid
    BY <1>3, Chooses
  <1>4. CASE OpenStream
    BY <1>4, OpensStream
  <1>5. CASE SubmitUnit
    BY <1>5, Submits
  <1>6. CASE LosePicture
    BY <1>6, Loses
  <1>7. CASE EndStream
    BY <1>7, Ends
  <1>8. CASE FlushCamera
    BY <1>8, Flushes
  <1>9. CASE Finish
    BY <1>9, Finishes
  <1>10. CASE Fail
    BY <1>10, Fails
  <1>11. ASSUME NEW log \in Recordings, Rewrite(log) PROVE IInv'
    BY <1>11, Rewrites
  <1>12. CASE Terminated
    BY <1>12, Stutters DEF Terminated
  <1>13. CASE UNCHANGED vars
    BY <1>13, Stutters
  <1> QED
    BY <1>1, <1>2, <1>3, <1>4, <1>5, <1>6, <1>7, <1>8, <1>9, <1>10, <1>11, <1>12, <1>13
    DEF Next, Progress

(* The inductive invariant of the extraction.                              *)
THEOREM Invariance == Spec => []IInv
  BY InitialInv, StepInv, PTL DEF Spec

(* Whatever the log, the rate and the tolerance, select_camera_grid takes  *)
(* the nearest free batch for every target and does not drift.             *)
THEOREM GridStaysNearest == Spec => []GridIsNearest
  <1>1. IInv => GridIsNearest
    BY DEF IInv, OneGrid, GridIsNearest
  <1> QED
    BY <1>1, Invariance, PTL

(* Whatever decoders answer and whatever becomes of the file, a finished   *)
(* extraction has one sample for each batch of the grid and camera, with   *)
(* its own picture, in the order of the log.                               *)
THEOREM FramesStay == Spec => []FramesStayPaired
  <1>1. IInv => FramesStayPaired
    BY DEF IInv
  <1> QED
    BY <1>1, Invariance, PTL

-----------------------------------------------------------------------------
(* 4. The selection (scenario_selection.py).                               *)

(* What no rule before r has claimed, when r had its turn.                 *)
Eligible(r) == Matching(r) \ UNION {audits[e].chosen : e \in 1 .. r - 1}

(* The audit of a rule is what _validate_scenario_selection computes.      *)
Audited(r) ==
    /\ audits[r].matched = Matching(r)
    /\ audits[r].chosen \subseteq Eligible(r)
    /\ Cardinality(audits[r].chosen) = Smaller(rules[r].quota, Cardinality(Eligible(r)))
    /\ audits[r].deficit = rules[r].quota - Cardinality(audits[r].chosen)

(* The audits are those of the rules that had their turn, in their order.  *)
Progressed ==
    /\ task \in Tasks
    /\ phase \in {"filter", "select", "apportion", "draw", "done", "failed"}
    /\ accepted \subseteq DOMAIN scenes
    /\ Len(audits) \in 0 .. Len(rules)
    /\ audits = [r \in 1 .. Len(audits) |-> audits[r]]
    /\ phase = "filter" => audits = <<>>
    /\ phase \in {"apportion", "draw", "done"} => Len(audits) = Len(rules)

(* Audits are right, a strict selection that goes on has no deficit, and a  *)
(* selection fails for a reason.                                           *)
SelectionInv ==
    /\ Progressed
    /\ \A r \in DOMAIN audits : Audited(r)
    /\ task.strict /\ phase # "failed" => \A r \in DOMAIN audits : audits[r].deficit = 0
    /\ phase = "failed" =>
         \/ Assigned = {}
         \/ task.strict /\ \E r \in DOMAIN audits : audits[r].deficit > 0

(* How many rules there are and how many have had their turn.              *)
LEMMA Sizes ==
    ASSUME Progressed
    PROVE  /\ Len(rules) \in Nat /\ Len(audits) \in Nat /\ Len(audits) <= Len(rules)
           /\ DOMAIN rules = 1 .. Len(rules) /\ DOMAIN audits = 1 .. Len(audits)
           /\ \A r \in DOMAIN rules : rules[r].quota \in Nat
  <1>1. /\ Len(rules) \in Nat /\ DOMAIN rules = 1 .. Len(rules)
        /\ \A r \in DOMAIN rules : rules[r].quota \in Nat
    BY TasksAssumption DEF Progressed, rules
  <1>2. Len(audits) \in Nat /\ Len(audits) <= Len(rules)
    <2>1. Len(audits) \in 0 .. Len(rules)
      BY DEF Progressed
    <2> QED
      BY <1>1, <2>1
  <1>3. DOMAIN audits = 1 .. Len(audits)
    BY DEF Progressed
  <1> QED
    BY <1>1, <1>2, <1>3

(* All sets of scenes are finite.                                          *)
LEMMA Finite ==
    ASSUME Progressed, NEW r
    PROVE  /\ IsFiniteSet(Matching(r)) /\ IsFiniteSet(Eligible(r)) /\ IsFiniteSet(Available(r))
           /\ Cardinality(Eligible(r)) \in Nat /\ Cardinality(Available(r)) \in Nat
  <1>1. IsFiniteSet(DOMAIN scenes)
    BY TasksAssumption DEF Progressed, scenes
  <1>2. Matching(r) \in SUBSET DOMAIN scenes
    BY DEF Progressed, Matching
  <1>3. Eligible(r) \in SUBSET DOMAIN scenes /\ Available(r) \in SUBSET DOMAIN scenes
    BY <1>2 DEF Eligible, Available
  <1> QED
    BY <1>1, <1>2, <1>3, FS_Subset, FS_CardinalityType

(* Different rules choose different scenes.                                *)
LEMMA ChosenApart ==
    ASSUME SelectionInv, NEW r \in DOMAIN audits, NEW other \in DOMAIN audits, r # other
    PROVE  audits[r].chosen \cap audits[other].chosen = {}
  <1>1. DOMAIN audits \in SUBSET Nat /\ \A a \in DOMAIN audits : 1 <= a
    BY Sizes DEF SelectionInv
  <1>2. ASSUME NEW a \in DOMAIN audits, NEW b \in DOMAIN audits, a < b
        PROVE  audits[a].chosen \cap audits[b].chosen = {}
    <2>1. a \in 1 .. b - 1
      BY <1>1, <1>2
    <2>2. audits[b].chosen \subseteq Eligible(b)
      BY DEF SelectionInv, Audited
    <2> QED
      BY <2>1, <2>2 DEF Eligible
  <1>3. r < other \/ other < r
    BY <1>1
  <1> QED
    BY <1>2, <1>3

(* Nothing changes the audits but a rule's turn, or what they rest on but  *)
(* the filter.                                                             *)
LEMMA AuditsStay ==
    ASSUME SelectionInv, UNCHANGED <<task, accepted, audits>>
    PROVE  /\ \A r \in DOMAIN audits' : Audited(r)'
           /\ Assigned' = Assigned
  BY DEF SelectionInv, Audited, Eligible, Matching, Assigned, scenes, rules

(* Chosen scenes are finitely many.                                        *)
LEMMA AssignedIsFinite ==
    ASSUME SelectionInv
    PROVE  /\ IsFiniteSet(Assigned) /\ IsFiniteSet(DOMAIN audits) /\ IsFiniteSet(Candidates)
           /\ DOMAIN audits = 1 .. Len(audits) /\ Len(audits) \in Nat
  <1>1. IsFiniteSet(DOMAIN scenes)
    BY TasksAssumption DEF SelectionInv, Progressed, scenes
  <1>2. Assigned \in SUBSET DOMAIN scenes
    <2>1. \A r \in DOMAIN audits : audits[r].chosen \subseteq accepted
      BY DEF SelectionInv, Audited, Eligible, Matching
    <2> QED
      BY <2>1 DEF Assigned, SelectionInv, Progressed
  <1>3. DOMAIN audits = 1 .. Len(audits) /\ Len(audits) \in Nat
    BY Sizes DEF SelectionInv
  <1>4. IsFiniteSet(DOMAIN audits)
    BY <1>3, FS_Interval
  <1>5. IsFiniteSet(Assigned)
    BY <1>1, <1>2, FS_Subset
  <1>6. IsFiniteSet(Assigned \X DOMAIN audits)
    BY <1>4, <1>5, FS_Product
  <1>7. Candidates \in SUBSET (Assigned \X DOMAIN audits)
    BY DEF Candidates
  <1>8. IsFiniteSet(Candidates)
    BY <1>6, <1>7, FS_Subset
  <1> QED
    BY <1>3, <1>4, <1>5, <1>8

(* A finished selection passes its check, and each of its scenes has one   *)
(* primary scenario, so the input of the split is accepted.                *)
LEMMA FinishedIsAccepted ==
    ASSUME SelectionInv, Len(audits) = Len(rules), phase # "failed"
    PROVE  SelectionAccepted /\ SplitAccepted
  <1>1. DOMAIN audits = DOMAIN rules /\ DOMAIN rules = 1 .. Len(rules)
    BY Sizes DEF SelectionInv
  <1>2. SelectionAccepted
    BY <1>1 DEF SelectionInv, SelectionAccepted, Audited, Eligible
  <1>3. Cardinality(Candidates) = Cardinality(Assigned)
    <2> DEFINE first == [c \in Candidates |-> c[1]]
    <2>1. \A c \in Candidates : first[c] \in Assigned
      BY DEF Candidates
    <2>2. ASSUME NEW c \in Candidates, NEW d \in Candidates, c[1] = d[1] PROVE c = d
      <3>1. c[2] = d[2]
        BY <2>2, ChosenApart DEF Candidates
      <3> QED
        BY <2>2, <3>1 DEF Candidates
    <2>3. ASSUME NEW s \in Assigned PROVE \E c \in Candidates : first[c] = s
      <3>1. PICK r \in DOMAIN audits : s \in audits[r].chosen
        BY DEF Assigned
      <3>2. <<s, r>> \in Candidates
        BY <3>1 DEF Candidates
      <3> QED
        BY <3>2
    <2>4. first \in Surjection(Candidates, Assigned) /\ first \in Injection(Candidates, Assigned)
      BY <2>1, <2>2, <2>3 DEF Injection, Surjection, IsInjective
    <2>5. IsFiniteSet(Candidates)
      BY AssignedIsFinite
    <2> QED
      BY <2>4, <2>5, FS_Surjection
  <1> QED
    BY <1>2, <1>3 DEF SplitAccepted

LEMMA Starts == AssignInit => SelectionInv
  <1> SUFFICES ASSUME AssignInit PROVE SelectionInv
    OBVIOUS
  <1>1. Len(rules) \in Nat
    BY TasksAssumption DEF AssignInit, rules
  <1> QED
    BY <1>1 DEF AssignInit, SelectionInv, Progressed, Audited

LEMMA FilterKeeps == ASSUME SelectionInv, FilterScenes PROVE SelectionInv'
  <1>1. audits = <<>>
    BY DEF SelectionInv, Progressed, FilterScenes
  <1> QED
    BY <1>1 DEF SelectionInv, Progressed, FilterScenes, scenes, rules

LEMMA RuleKeeps == ASSUME SelectionInv, SelectRule PROVE SelectionInv'
  <1>0. PICK r \in Nat : r = Len(audits) + 1
    BY Sizes DEF SelectionInv
  <1> DEFINE size == Smaller(rules[r].quota, Cardinality(Available(r)))
  <1>1. PICK chosen \in kSubset(size, Available(r)) :
          audits' = Append(audits, [matched |-> Matching(r), chosen |-> chosen,
                                    deficit |-> rules[r].quota - size])
    BY <1>0 DEF SelectRule
  <1>2. UNCHANGED <<task, accepted>> /\ phase = "select"
    BY DEF SelectRule
  <1>3. DOMAIN rules = 1 .. Len(rules) /\ Len(rules) \in Nat /\ r \in DOMAIN rules
        /\ rules[r].quota \in Nat
    BY <1>0, Sizes DEF SelectionInv, SelectRule
  <1>4. /\ Len(audits') = r /\ audits' = [e \in 1 .. r |-> audits'[e]]
        /\ \A e \in 1 .. Len(audits) : audits'[e] = audits[e]
        /\ audits'[r] = [matched |-> Matching(r), chosen |-> chosen,
                         deficit |-> rules[r].quota - size]
    <2>1. audits \in Seq({audits[e] : e \in DOMAIN audits})
      BY Sizes DEF SelectionInv, Progressed
    <2> QED
      BY <1>0, <1>1, <2>1
  <1>5. Progressed'
    BY <1>0, <1>2, <1>3, <1>4 DEF SelectionInv, Progressed, SelectRule, scenes, rules
  <1>6. \A e : Matching(e)' = Matching(e)
    BY <1>2 DEF Matching, scenes, rules
  <1>7. Available(r) = Eligible(r) /\ \A e \in 1 .. r : Eligible(e)' = Eligible(e)
    <2>1. DOMAIN audits = 1 .. r - 1
      BY <1>0 DEF SelectionInv, Progressed
    <2>2. \A e \in 1 .. r : UNION {audits'[d].chosen : d \in 1 .. e - 1}
                              = UNION {audits[d].chosen : d \in 1 .. e - 1}
      BY <1>0, <1>4, <2>1 DEF SelectionInv, Progressed
    <2> QED
      BY <1>6, <2>1, <2>2 DEF Available, Assigned, Eligible
  <1>8. chosen \subseteq Available(r) /\ Cardinality(chosen) = size
    BY <1>1 DEF kSubset
  <1>9. \A e \in DOMAIN audits' : Audited(e)'
    <2>1. r \in 1 .. r /\ \A e \in 1 .. r : e = r \/ e \in 1 .. Len(audits)
      BY <1>0, Sizes DEF SelectionInv
    <2>2. \A e \in 1 .. Len(audits) : e \in 1 .. r /\ Audited(e)
      BY <1>0, Sizes DEF SelectionInv
    <2>3. \A e \in 1 .. Len(audits) : Audited(e)'
      BY <1>2, <1>4, <1>6, <1>7, <2>2 DEF Audited, rules
    <2>4. Audited(r)'
      <3>1. Eligible(r)' = Eligible(r)
        BY <1>7, <2>1
      <3>2. /\ audits'[r].matched = Matching(r)' /\ audits'[r].chosen = chosen
            /\ audits'[r].deficit = rules[r].quota - Cardinality(chosen)
        BY <1>4, <1>6, <1>8
      <3>3. chosen \subseteq Eligible(r)'
            /\ Cardinality(chosen) = Smaller(rules[r].quota, Cardinality(Eligible(r)'))
        BY <1>7, <1>8, <3>1
      <3>4. rules' = rules
        BY <1>2 DEF rules
      <3> QED
        BY <3>2, <3>3, <3>4 DEF Audited, Smaller
    <2> QED
      <3>1. DOMAIN audits' = 1 .. r
        BY <1>4
      <3> QED
        BY <2>1, <2>3, <2>4, <3>1, Zenon
  <1>10. size <= rules[r].quota /\ size \in Nat
    BY <1>3, Finite DEF SelectionInv, Smaller
  <1>11. task'.strict /\ phase' # "failed" => \A e \in DOMAIN audits' : audits'[e].deficit = 0
    BY <1>0, <1>2, <1>3, <1>4, <1>10 DEF SelectionInv, Progressed, SelectRule
  <1>12. phase' = "failed" => task'.strict /\ \E e \in DOMAIN audits' : audits'[e].deficit > 0
    BY <1>0, <1>2, <1>3, <1>4, <1>10 DEF SelectionInv, Progressed, SelectRule
  <1> QED
    BY <1>5, <1>9, <1>11, <1>12 DEF SelectionInv

LEMMA RestKeeps ==
    ASSUME SelectionInv, FinishSelection \/ Apportion \/ Draw \/ UNCHANGED assignVars
    PROVE  SelectionInv'
  <1>1. UNCHANGED <<task, accepted, audits>>
    BY DEF FinishSelection, Apportion, Draw, assignVars
  <1>2. CASE FinishSelection
    <2>1. SelectionAccepted
      BY <1>2, FinishedIsAccepted DEF FinishSelection
    <2> QED
      BY <1>1, <1>2, <2>1, AuditsStay
      DEF FinishSelection, SelectionInv, Progressed, scenes, rules
  <1>3. CASE Apportion
    <2>1. SplitAccepted
      BY <1>3, FinishedIsAccepted DEF Apportion, SelectionInv, Progressed
    <2> QED
      BY <1>1, <1>3, <2>1, AuditsStay
         DEF Apportion, SelectionInv, Progressed, scenes, rules
  <1>4. CASE Draw \/ UNCHANGED assignVars
    BY <1>1, <1>4, AuditsStay
       DEF Draw, assignVars, SelectionInv, Progressed, scenes, rules
  <1> QED
    BY <1>2, <1>3, <1>4

(* The inductive invariant of selection and split.                         *)
THEOREM SelectionInvariance == AssignSpec => []SelectionInv
  <1>1. SelectionInv /\ [AssignNext]_assignVars => SelectionInv'
    BY FilterKeeps, RuleKeeps, RestKeeps DEF AssignNext, AssignDone
  <1> QED
    BY <1>1, Starts, PTL DEF AssignSpec

(* Whatever the rules and however they overlap, the selection is greedy by *)
(* priority, its deficits are true, a scene is left over only for the      *)
(* reason stated for it, and no check of the finished selection fails.     *)
THEOREM SelectionIsGreedy == AssignSpec => []SelectionIsPriorityQuota
  <1>1. SelectionInv => SelectionIsPriorityQuota
    <2> SUFFICES ASSUME SelectionInv, phase \in {"apportion", "draw", "done"}
                 PROVE  /\ \A r \in DOMAIN rules :
                             /\ audits[r].chosen \subseteq Matching(r)
                             /\ audits[r].deficit = rules[r].quota - Cardinality(audits[r].chosen)
                             /\ task.strict => audits[r].deficit = 0
                             /\ \A s \in Matching(r) :
                                  (\A earlier \in 1 .. r : s \notin audits[earlier].chosen)
                                    => audits[r].deficit = 0
                             /\ \A other \in DOMAIN rules \ {r} :
                                  audits[r].chosen \cap audits[other].chosen = {}
                        /\ \A s \in accepted \ Assigned :
                             Unselected(s) = "quota_filled" <=>
                               \E r \in DOMAIN rules : s \in Matching(r) /\ audits[r].deficit = 0
      BY DEF SelectionIsPriorityQuota, SelectionInv
    <2>1. DOMAIN audits = DOMAIN rules /\ DOMAIN rules = 1 .. Len(rules)
          /\ \A r \in DOMAIN rules : rules[r].quota \in Nat
      BY Sizes DEF SelectionInv, Progressed
    <2>2. ASSUME NEW r \in DOMAIN rules, NEW s \in Matching(r),
                 \A earlier \in 1 .. r : s \notin audits[earlier].chosen
          PROVE  audits[r].deficit = 0
      <3>1. r \in 1 .. r /\ \A e \in 1 .. r - 1 : e \in 1 .. r
        BY <2>1, TasksAssumption DEF SelectionInv, Progressed, rules
      <3>2. s \in Eligible(r) /\ s \notin audits[r].chosen
        BY <2>2, <3>1 DEF Eligible
      <3>3. Audited(r)
        BY <2>1 DEF SelectionInv
      <3>4. Cardinality(audits[r].chosen) # Cardinality(Eligible(r))
        BY <3>2, <3>3, Finite, FS_Subset DEF SelectionInv, Audited
      <3>5. Cardinality(audits[r].chosen) = rules[r].quota
        BY <3>3, <3>4 DEF Audited, Smaller
      <3> QED
        BY <2>1, <3>3, <3>5 DEF Audited
    <2>3. ASSUME NEW s \in accepted \ Assigned, NEW r \in DOMAIN rules, s \in Matching(r)
          PROVE  audits[r].deficit = 0
      <3>1. \A earlier \in 1 .. r : earlier \in DOMAIN audits
        BY <2>1, TasksAssumption DEF SelectionInv, Progressed, rules
      <3>2. \A earlier \in 1 .. r : s \notin audits[earlier].chosen
        BY <3>1 DEF Assigned
      <3> QED
        BY <2>2, <2>3, <3>2
    <2>4. \A s \in accepted \ Assigned : Unselected(s) = "quota_filled" <=>
             \E r \in DOMAIN rules : s \in Matching(r) /\ audits[r].deficit = 0
      BY <2>3 DEF Unselected
    <2>5. \A r \in DOMAIN rules : \A other \in DOMAIN rules \ {r} :
             audits[r].chosen \cap audits[other].chosen = {}
      BY <2>1, ChosenApart
    <2>6. \A r \in DOMAIN rules :
             /\ audits[r].chosen \subseteq Matching(r)
             /\ audits[r].deficit = rules[r].quota - Cardinality(audits[r].chosen)
             /\ task.strict => audits[r].deficit = 0
      <3> SUFFICES ASSUME NEW r \in DOMAIN audits
                   PROVE  /\ audits[r].chosen \subseteq Matching(r)
                          /\ audits[r].deficit = rules[r].quota - Cardinality(audits[r].chosen)
                          /\ task.strict => audits[r].deficit = 0
        BY <2>1
      <3>1. Audited(r)
        BY DEF SelectionInv
      <3> QED
        BY <3>1 DEF SelectionInv, Audited, Eligible
    <2>7. \A r \in DOMAIN rules : \A s \in Matching(r) :
            (\A earlier \in 1 .. r : s \notin audits[earlier].chosen) => audits[r].deficit = 0
      BY <2>2
    <2> SUFFICES ASSUME NEW r \in DOMAIN rules
                 PROVE  /\ audits[r].chosen \subseteq Matching(r)
                        /\ audits[r].deficit = rules[r].quota - Cardinality(audits[r].chosen)
                        /\ task.strict => audits[r].deficit = 0
                        /\ \A s \in Matching(r) :
                             (\A earlier \in 1 .. r : s \notin audits[earlier].chosen)
                               => audits[r].deficit = 0
                        /\ \A other \in DOMAIN rules \ {r} :
                             audits[r].chosen \cap audits[other].chosen = {}
      BY <2>4
    <2>8. \A s \in Matching(r) :
            (\A earlier \in 1 .. r : s \notin audits[earlier].chosen) => audits[r].deficit = 0
      BY <2>7
    <2>9. \A other \in DOMAIN rules \ {r} : audits[r].chosen \cap audits[other].chosen = {}
      BY <2>5
    <2>10. /\ audits[r].chosen \subseteq Matching(r)
           /\ audits[r].deficit = rules[r].quota - Cardinality(audits[r].chosen)
           /\ task.strict => audits[r].deficit = 0
      BY <2>6, Zenon
    <2> QED
      BY <2>8, <2>9, <2>10
  <1> QED
    BY <1>1, SelectionInvariance, PTL

-----------------------------------------------------------------------------
(* 5. The split (split.py).                                                *)

(* Allocations add up.                                                     *)
Sum(a, b) == [r \in DOMAIN a |-> a[r] + b[r]]
Ones(S, D) == [r \in S |-> IF r \in D THEN 1 ELSE 0]

(* The places of an allocation.                                            *)
LEMMA PlacesAre ==
    ASSUME NEW S, NEW a \in [S -> Nat]
    PROVE  /\ \A r \in S : \A k \in 1 .. a[r] : <<r, k>> \in Places(a)
           /\ \A x \in Places(a) : x[1] \in S /\ x[2] \in 1 .. a[x[1]] /\ x = <<x[1], x[2]>>
  BY DEF Places

(* An allocation has finitely many places.                                 *)
LEMMA PlacesAreFinite ==
    ASSUME NEW S, IsFiniteSet(S), NEW a \in [S -> Nat]
    PROVE  IsFiniteSet(Places(a)) /\ Total(a) \in Nat
  <1> DEFINE T == {{r} \X (1 .. a[r]) : r \in S}
             f == [r \in S |-> {r} \X (1 .. a[r])]
  <1>1. f \in Surjection(S, T)
    BY DEF Surjection
  <1> HIDE DEF f
  <1>2. IsFiniteSet(T)
    BY <1>1, FS_Surjection
  <1>3. ASSUME NEW x \in T PROVE IsFiniteSet(x)
    <2>1. PICK r \in S : x = {r} \X (1 .. a[r])
      OBVIOUS
    <2>2. IsFiniteSet({r}) /\ a[r] \in Int
      BY FS_Singleton
    <2>3. IsFiniteSet(1 .. a[r])
      BY <2>2, FS_Interval
    <2> QED
      BY <2>1, <2>2, <2>3, FS_Product
  <1> HIDE DEF T
  <1>4. IsFiniteSet(UNION T)
    BY <1>2, <1>3, FS_UNION
  <1>5. Places(a) = UNION T
    BY DEF Places, T
  <1> QED
    BY <1>4, <1>5, FS_CardinalityType DEF Total

(* The total of a sum.                                                     *)
LEMMA Adding ==
    ASSUME NEW S, IsFiniteSet(S), NEW a \in [S -> Nat], NEW b \in [S -> Nat]
    PROVE  Sum(a, b) \in [S -> Nat] /\ Total(Sum(a, b)) = Total(a) + Total(b)
  <1> DEFINE c == Sum(a, b)
             P == Places(a)
             R == {x \in Places(c) : x \notin P}
             f == [x \in Places(b) |-> <<x[1], a[x[1]] + x[2]>>]
  <1>1. c \in [S -> Nat] /\ \A r \in S : c[r] = a[r] + b[r]
    BY DEF Sum
  <1> HIDE DEF c
  <1>2. /\ IsFiniteSet(P) /\ IsFiniteSet(Places(b)) /\ IsFiniteSet(Places(c))
        /\ Total(a) \in Nat /\ Total(b) \in Nat
    BY <1>1, PlacesAreFinite
  <1>3. ASSUME NEW x \in P PROVE x \in Places(c)
    <2>1. x[1] \in S /\ x[2] \in 1 .. a[x[1]] /\ x = <<x[1], x[2]>>
      BY PlacesAre
    <2>2. a[x[1]] \in Nat /\ b[x[1]] \in Nat /\ x[2] \in 1 .. c[x[1]]
      BY <1>1, <2>1
    <2>3. <<x[1], x[2]>> \in Places(c)
      BY <1>1, <2>1, <2>2, PlacesAre
    <2> QED
      BY <2>1, <2>3
  <1>4. ASSUME NEW x \in Places(b) PROVE f[x] \in R
    <2>1. x[1] \in S /\ x[2] \in 1 .. b[x[1]]
      BY PlacesAre
    <2>2. a[x[1]] \in Nat /\ b[x[1]] \in Nat /\ a[x[1]] + x[2] \in 1 .. c[x[1]]
      BY <1>1, <2>1
    <2>3. <<x[1], a[x[1]] + x[2]>> \in Places(c)
      BY <1>1, <2>1, <2>2, PlacesAre
    <2>4. <<x[1], a[x[1]] + x[2]>> \notin P
      <3> SUFFICES ASSUME <<x[1], a[x[1]] + x[2]>> \in P PROVE FALSE
        OBVIOUS
      <3> DEFINE y == <<x[1], a[x[1]] + x[2]>>
      <3>1. y[1] = x[1] /\ y[2] = a[x[1]] + x[2]
        OBVIOUS
      <3>2. y \in Places(a)
        OBVIOUS
      <3> HIDE DEF y
      <3>3. y[2] \in 1 .. a[y[1]]
        BY <3>2, PlacesAre
      <3> QED
        BY <2>1, <2>2, <3>1, <3>3
    <2> QED
      BY <2>3, <2>4
  <1>5. ASSUME NEW x \in Places(b), NEW y \in Places(b), f[x] = f[y] PROVE x = y
    <2>1. /\ x[1] \in S /\ x[2] \in 1 .. b[x[1]] /\ x = <<x[1], x[2]>>
          /\ y[1] \in S /\ y[2] \in 1 .. b[y[1]] /\ y = <<y[1], y[2]>>
      BY PlacesAre
    <2>2. x[1] = y[1] /\ a[x[1]] + x[2] = a[y[1]] + y[2]
      BY <1>5
    <2>3. x[2] = y[2]
      BY <2>1, <2>2
    <2> QED
      BY <2>1, <2>2, <2>3
  <1>6. ASSUME NEW x \in R PROVE \E y \in Places(b) : f[y] = x
    <2>1. x[1] \in S /\ x[2] \in 1 .. c[x[1]] /\ x = <<x[1], x[2]>>
      BY <1>1, PlacesAre
    <2>2. a[x[1]] \in Nat /\ b[x[1]] \in Nat /\ c[x[1]] = a[x[1]] + b[x[1]]
      BY <1>1, <2>1
    <2>3. ~(x[2] \in 1 .. a[x[1]])
      BY <2>1, PlacesAre
    <2>4. x[2] - a[x[1]] \in 1 .. b[x[1]]
      BY <2>1, <2>2, <2>3
    <2> DEFINE y == <<x[1], x[2] - a[x[1]]>>
    <2>5. y \in Places(b)
      BY <2>1, <2>4, PlacesAre
    <2>6. a[y[1]] + y[2] = x[2]
      BY <2>1, <2>2
    <2>7. f[y] = x
      BY <2>1, <2>5, <2>6
    <2> QED
      BY <2>5, <2>7
  <1>7. f \in Bijection(Places(b), R)
    BY <1>4, <1>5, <1>6 DEF Bijection, Injection, Surjection, IsInjective
  <1> HIDE DEF f
  <1>8. IsFiniteSet(R) /\ Cardinality(R) = Total(b)
    BY <1>2, <1>7, FS_Bijection DEF ExistsBijection, Total
  <1>9. Places(c) = P \cup R /\ P \cap R = {}
    BY <1>3
  <1>10. Total(c) = Total(a) + Total(b)
    <2>1. Cardinality(P \cap R) = 0
      BY <1>9, FS_EmptySet
    <2>2. Cardinality(P \cup R) = Cardinality(P) + Cardinality(R) - Cardinality(P \cap R)
      BY <1>2, <1>8, FS_Union
    <2>3. Total(c) = Cardinality(P \cup R) /\ Cardinality(P) = Total(a)
      BY <1>9 DEF Total
    <2> QED
      BY <1>2, <1>8, <2>1, <2>2, <2>3
  <1> QED
    BY <1>1, <1>10 DEF c

(* The total of an allocation of ones.                                     *)
LEMMA CountingOnes ==
    ASSUME NEW S, IsFiniteSet(S), NEW D \in SUBSET S
    PROVE  Ones(S, D) \in [S -> Nat] /\ Total(Ones(S, D)) = Cardinality(D)
  <1> DEFINE a == Ones(S, D)
             f == [r \in D |-> <<r, 1>>]
  <1>1. a \in [S -> Nat] /\ \A r \in S : a[r] = IF r \in D THEN 1 ELSE 0
    BY DEF Ones
  <1> HIDE DEF a
  <1>2. \A r \in D : f[r] \in Places(a)
    BY <1>1, PlacesAre
  <1>3. ASSUME NEW x \in Places(a) PROVE x[1] \in D /\ f[x[1]] = x
    <2>1. x[1] \in S /\ x[2] \in 1 .. a[x[1]] /\ x = <<x[1], x[2]>>
      BY <1>1, PlacesAre
    <2>2. x[1] \in D
      BY <1>1, <2>1
    <2>3. a[x[1]] = 1
      BY <1>1, <2>1, <2>2
    <2>4. x[2] = 1
      BY <2>1, <2>3
    <2> QED
      BY <2>1, <2>2, <2>4
  <1>4. f \in Bijection(D, Places(a))
    BY <1>2, <1>3 DEF Bijection, Injection, Surjection, IsInjective
  <1>5. IsFiniteSet(D)
    BY FS_Subset
  <1> HIDE DEF f
  <1>6. Cardinality(Places(a)) = Cardinality(D)
    BY <1>4, <1>5, FS_Bijection DEF ExistsBijection
  <1> QED
    BY <1>1, <1>6 DEF a, Total

(* The elements of a set, numbered.                                        *)
Numbering(g, P) ==
    /\ \A k \in 1 .. Cardinality(P) : g[k] \in P
    /\ \A k, l \in 1 .. Cardinality(P) : g[k] = g[l] => k = l
    /\ \A x \in P : \E k \in 1 .. Cardinality(P) : g[k] = x

(* A finite set has a numbering.                                           *)
LEMMA Numbers ==
    ASSUME NEW P, IsFiniteSet(P) PROVE \E g : Numbering(g, P)
  <1> DEFINE K == 1 .. Cardinality(P)
  <1>1. PICK g : g \in Bijection(K, P)
    BY FS_CardinalityType DEF ExistsBijection
  <1> HIDE DEF K
  <1>2. g \in [K -> P] /\ (\A k, l \in K : g[k] = g[l] => k = l)
        /\ \A x \in P : \E k \in K : g[k] = x
    BY <1>1, Fun_BijectionProperties
  <1>3. Numbering(g, P)
    BY <1>2 DEF Numbering, K
  <1> QED
    BY <1>3

(* Sets that have nothing in common, counted together.                     *)
LEMMA CountedApart ==
    ASSUME NEW S, IsFiniteSet(S), NEW part, \A r \in S : IsFiniteSet(part[r]),
           \A r, s \in S : r # s => part[r] \cap part[s] = {}
    PROVE  /\ IsFiniteSet(UNION {part[r] : r \in S})
           /\ Total([r \in S |-> Cardinality(part[r])]) = Cardinality(UNION {part[r] : r \in S})
  <1> DEFINE U == UNION {part[r] : r \in S}
             a == [r \in S |-> Cardinality(part[r])]
             to == [r \in S |-> CHOOSE g : Numbering(g, part[r])]
             f == [x \in Places(a) |-> to[x[1]][x[2]]]
  <1>1. a \in [S -> Nat] /\ \A r \in S : a[r] = Cardinality(part[r])
    BY FS_CardinalityType
  <1>2. ASSUME NEW r \in S PROVE Numbering(to[r], part[r])
    BY Numbers
  <1>10. a \in [S -> Nat] /\ \A r \in S : a[r] = Cardinality(part[r])
    BY <1>1
  <1> HIDE DEF a, to
  <1>3. ASSUME NEW r \in S
        PROVE  /\ \A k \in 1 .. a[r] : to[r][k] \in part[r]
               /\ \A k, l \in 1 .. a[r] : to[r][k] = to[r][l] => k = l
               /\ \A x \in part[r] : \E k \in 1 .. a[r] : to[r][k] = x
    BY <1>2, <1>10 DEF Numbering
  <1>4. ASSUME NEW x \in Places(a)
        PROVE  x[1] \in S /\ x[2] \in 1 .. a[x[1]] /\ x = <<x[1], x[2]>> /\ f[x] \in part[x[1]]
    BY <1>1, <1>3, PlacesAre
  <1>5. ASSUME NEW x \in Places(a), NEW y \in Places(a), f[x] = f[y] PROVE x = y
    <2>1. x[1] = y[1]
      BY <1>4, <1>5
    <2>2. x[2] = y[2]
      BY <1>3, <1>4, <1>5, <2>1
    <2> QED
      BY <1>4, <2>1, <2>2
  <1>6. ASSUME NEW u \in U PROVE \E x \in Places(a) : f[x] = u
    <2>1. PICK r \in S : u \in part[r]
      OBVIOUS
    <2>2. PICK k \in 1 .. a[r] : to[r][k] = u
      BY <1>3, <2>1
    <2>3. <<r, k>> \in Places(a)
      BY <1>1, PlacesAre
    <2> QED
      BY <2>2, <2>3
  <1>7. \A x \in Places(a) : f[x] \in U
    BY <1>4
  <1> HIDE DEF U
  <1>8. f \in Bijection(Places(a), U)
    BY <1>5, <1>6, <1>7 DEF Bijection, Injection, Surjection, IsInjective
  <1> HIDE DEF f
  <1>9. IsFiniteSet(U) /\ Cardinality(U) = Cardinality(Places(a))
    BY <1>1, <1>8, PlacesAreFinite, FS_Bijection DEF ExistsBijection
  <1> QED
    BY <1>9 DEF U, a, Total

Counts == [r \in Strata |-> Count(r)]

(* A stratum has the scenes its rule chose, and strata have all of them.   *)
LEMMA StrataAre ==
    ASSUME SelectionInv
    PROVE  /\ IsFiniteSet(Strata) /\ Strata \subseteq 1 .. Len(audits)
           /\ \A r : Count(r) \in Nat /\ (Count(r) >= 1 <=> r \in Strata)
           /\ \A r \in Strata : r \in DOMAIN audits /\ Count(r) = Cardinality(audits[r].chosen)
           /\ Assigned = UNION {audits[r].chosen : r \in Strata}
           /\ Counts \in [Strata -> Nat] /\ Total(Counts) = Cardinality(Assigned)
  <1>1. /\ IsFiniteSet(Assigned) /\ IsFiniteSet(DOMAIN audits) /\ IsFiniteSet(Candidates)
        /\ DOMAIN audits = 1 .. Len(audits)
    BY AssignedIsFinite
  <1>2. Strata \in SUBSET DOMAIN audits
    BY DEF Strata, Candidates
  <1>3. IsFiniteSet(Strata)
    BY <1>1, <1>2, FS_Subset
  <1>4. ASSUME NEW r PROVE Count(r) \in Nat /\ (Count(r) >= 1 <=> r \in Strata)
    <2> DEFINE C == {c \in Candidates : c[2] = r}
    <2>1. IsFiniteSet(C)
      BY <1>1, FS_Subset
    <2>2. Cardinality(C) \in Nat /\ (Cardinality(C) = 0 <=> C = {})
      BY <2>1, FS_CardinalityType, FS_EmptySet
    <2>3. C # {} <=> r \in Strata
      BY DEF Strata
    <2> QED
      BY <2>2, <2>3 DEF Count
  <1>5. ASSUME NEW r \in Strata PROVE Count(r) = Cardinality(audits[r].chosen)
    <2> DEFINE C == {c \in Candidates : c[2] = r}
               f == [c \in C |-> c[1]]
    <2>1. r \in DOMAIN audits
      BY <1>2
    <2>2. IsFiniteSet(C)
      BY <1>1, FS_Subset
    <2>3. \A c \in C : f[c] \in audits[r].chosen /\ c = <<c[1], r>>
      BY DEF Candidates
    <2>4. \A s \in audits[r].chosen : <<s, r>> \in C
      BY <2>1 DEF Candidates, Assigned
    <2>5. f \in Bijection(C, audits[r].chosen)
      <3>1. \A s \in audits[r].chosen : f[<<s, r>>] = s
        BY <2>4
      <3>2. \A c, d \in C : f[c] = f[d] => c = d
        <4>1. \A c \in C : f[c] = c[1]
          OBVIOUS
        <4> QED
          BY <2>3, <4>1
      <3>3. f \in [C -> audits[r].chosen]
        BY <2>3
      <3>4. \A s \in audits[r].chosen : \E c \in C : f[c] = s
        BY <2>4, <3>1
      <3> HIDE DEF f, C
      <3> QED
        BY <3>2, <3>3, <3>4, Fun_IsBij
    <2> HIDE DEF f, C
    <2>6. Cardinality(audits[r].chosen) = Cardinality(C)
      BY <2>2, <2>5, FS_Bijection DEF ExistsBijection
    <2> QED
      BY <2>6 DEF Count, C
  <1>6. Assigned = UNION {audits[r].chosen : r \in Strata}
    <2>1. ASSUME NEW s \in Assigned PROVE \E r \in Strata : s \in audits[r].chosen
      <3>1. PICK r \in DOMAIN audits : s \in audits[r].chosen
        BY DEF Assigned
      <3>2. <<s, r>> \in Candidates
        BY <3>1 DEF Candidates
      <3> QED
        BY <3>1, <3>2 DEF Strata
    <2> QED
      BY <1>2, <2>1 DEF Assigned
  <1>7. Counts \in [Strata -> Nat]
    BY <1>4 DEF Counts
  <1>8. Total(Counts) = Cardinality(Assigned)
    <2> DEFINE part == [r \in Strata |-> audits[r].chosen]
    <2>1. \A r \in Strata : IsFiniteSet(part[r])
      BY <1>1, <1>6, FS_Subset
    <2>2. \A r, s \in Strata : r # s => part[r] \cap part[s] = {}
      BY <1>2, ChosenApart
    <2>3. Counts = [r \in Strata |-> Cardinality(part[r])]
      BY <1>5 DEF Counts
    <2>4. Assigned = UNION {part[r] : r \in Strata}
      BY <1>6
    <2> HIDE DEF part
    <2> QED
      BY <1>3, <2>1, <2>2, <2>3, <2>4, CountedApart
  <1> QED
    BY <1>1, <1>2, <1>3, <1>4, <1>5, <1>6, <1>7, <1>8

(* An allocation within another has no more places.                        *)
LEMMA Within ==
    ASSUME NEW S, IsFiniteSet(S), NEW a \in [S -> Nat], NEW b \in [S -> Nat],
           \A r \in S : a[r] <= b[r]
    PROVE  Total(a) <= Total(b)
  <1> DEFINE c == [r \in S |-> b[r] - a[r]]
  <1>1. c \in [S -> Nat]
    OBVIOUS
  <1>2. Sum(a, c) = b
    BY DEF Sum
  <1> HIDE DEF c
  <1>3. Total(b) = Total(a) + Total(c)
    BY <1>1, <1>2, Adding
  <1>4. Total(a) \in Nat /\ Total(c) \in Nat
    BY <1>1, PlacesAreFinite
  <1> QED
    BY <1>3, <1>4

(* The fraction is strictly between 0 and 1.                               *)
LEMMA FractionIs ==
    ASSUME SelectionInv
    PROVE  fraction[1] \in Nat \ {0} /\ fraction[2] \in Nat \ {0} /\ fraction[1] < fraction[2]
  BY TasksAssumption DEF SelectionInv, Progressed, fraction

(* Quotient and remainder of naturals.                                     *)
LEMMA Divided ==
    ASSUME NEW x \in Nat, NEW d \in Nat \ {0}
    PROVE  /\ x \div d \in Nat /\ x % d \in Nat /\ x % d < d
           /\ x = d * (x \div d) + (x % d)
  OBVIOUS

(* The target is the share of the scenes, halves up, and no more than all. *)
LEMMA Share ==
    ASSUME SelectionInv, NEW n \in Nat
    PROVE  /\ HalfUpTarget(n) \in Nat /\ HalfUpTarget(n) <= n
           /\ 2 * (HalfUpTarget(n) * fraction[2] - n * fraction[1])
                \in 1 - fraction[2] .. fraction[2]
  <1>1. PICK p, q : p = fraction[1] /\ q = fraction[2]
    OBVIOUS
  <1>2. p \in Nat \ {0} /\ q \in Nat \ {0} /\ p < q
    BY <1>1, FractionIs
  <1> DEFINE d == 2 * q
             x == 2 * n * p + q
             t == x \div d
             m == x % d
  <1>3. d \in Nat \ {0} /\ d = q + q
    BY <1>2
  <1>4. n * p \in Nat /\ n * q \in Nat /\ x = n * p + n * p + q /\ x \in Nat
    BY <1>2
  <1>5. HalfUpTarget(n) = t
    BY <1>1 DEF HalfUpTarget
  <1> HIDE DEF d, x
  <1>6. t \in Nat /\ m \in Nat /\ m < d /\ x = d * t + m
    BY <1>3, <1>4, Divided
  <1> HIDE DEF t, m
  <1>7. d * t = t * q + t * q /\ t * q \in Nat
    BY <1>2, <1>3, <1>6
  <1>8. 2 * (t * q - n * p) \in 1 - q .. q
    BY <1>2, <1>3, <1>4, <1>6, <1>7
  <1>9. t <= n
    <2> SUFFICES ASSUME n < t PROVE FALSE
      BY <1>6
    <2>1. d * n + d <= d * t /\ d * n \in Int
      BY <1>3, <1>6, RoundsApart
    <2>2. d * n = n * q + n * q
      BY <1>2, <1>3
    <2>3. n * p <= n * q
      <3>1. n * (q - p) \in Nat /\ n * (q - p) = n * q - n * p
        BY <1>2
      <3> QED
        BY <1>4, <3>1
    <2> QED
      BY <1>2, <1>3, <1>4, <1>6, <2>1, <2>2, <2>3
  <1> QED
    BY <1>1, <1>5, <1>6, <1>8, <1>9

(* A floor leaves room for one more.                                       *)
LEMMA FloorIs ==
    ASSUME NEW c \in Nat \ {0}, NEW p \in Nat \ {0}, NEW q \in Nat \ {0}, p < q
    PROVE  (c * p) \div q \in Nat /\ (c * p) \div q < c
  <1> DEFINE f == (c * p) \div q
             m == (c * p) % q
  <1>1. c * p \in Nat /\ c * q \in Nat
    OBVIOUS
  <1>2. f \in Nat /\ m \in Nat /\ c * p = q * f + m
    BY <1>1
  <1> HIDE DEF f, m
  <1>3. c * p < c * q
    <2>1. c * q = c * p + c * (q - p)
      OBVIOUS
    <2>2. q - p \in Nat \ {0}
      OBVIOUS
    <2>3. c * (q - p) \in Nat \ {0}
      BY <2>2
    <2> QED
      BY <1>1, <2>1, <2>3
  <1>4. f < c
    <2> SUFFICES ASSUME c <= f PROVE FALSE
      BY <1>2
    <2>1. q * f = q * c + q * (f - c) /\ q * (f - c) \in Nat /\ q * c = c * q
      <3>1. f - c \in Nat
        BY <1>2
      <3>2. f = c + (f - c)
        BY <1>2
      <3> QED
        BY <1>2, <3>1
    <2> QED
      BY <1>1, <1>2, <1>3, <2>1
  <1> QED
    BY <1>2, <1>4 DEF f

(* The test set's size, and the strata that can be on both sides.          *)
GlobalTarget == HalfUpTarget(Cardinality(Assigned))
Several == {r \in Strata : Count(r) >= 2}
Sided(a) == {r \in Strata : 0 < a[r] /\ a[r] < Count(r)}

(* An allocation of the target within the strata.                          *)
Apportioned(a) ==
    /\ a \in [Strata -> Nat] /\ \A r \in Strata : a[r] <= Count(r)
    /\ Total(a) = GlobalTarget

(* After turn k of the first loop, either nobody can give or those of the  *)
(* first k rules have a test scene.                                        *)
Tested(a, k) ==
    Apportioned(a) /\ (Donors(a) = {} \/ \A r \in Several : r <= k => a[r] >= 1)

(* After turn k of the second, either nobody can take or they have a       *)
(* training scene, and what the first loop reached still holds.            *)
Trained(a, k) ==
    Tested(a, Len(audits)) /\ (Recipients(a) = {} \/ \A r \in Several : r <= k => a[r] < Count(r))

(* The target of the split is such a share.                                *)
LEMMA GlobalTargetIs ==
    ASSUME SelectionInv
    PROVE  /\ GlobalTarget \in Nat /\ GlobalTarget <= Cardinality(Assigned)
           /\ Cardinality(Assigned) \in Nat
           /\ 2 * (GlobalTarget * fraction[2] - Cardinality(Assigned) * fraction[1])
                \in 1 - fraction[2] .. fraction[2]
  BY AssignedIsFinite, FS_CardinalityType, Share DEF GlobalTarget

(* A moved scene.                                                          *)
LEMMA Moves ==
    ASSUME SelectionInv, NEW a, Apportioned(a), NEW from \in Strata, NEW to \in Strata,
           from # to, a[from] >= 1, a[to] < Count(to)
    PROVE  /\ Apportioned(Move(a, from, to))
           /\ Move(a, from, to)[from] = a[from] - 1 /\ Move(a, from, to)[to] = a[to] + 1
           /\ \A r \in Strata \ {from, to} : Move(a, from, to)[r] = a[r]
  <1> DEFINE b == Move(a, from, to)
             lost == Ones(Strata, {from})
             won == Ones(Strata, {to})
  <1>1. IsFiniteSet(Strata) /\ \A r \in Strata : Count(r) \in Nat
    BY StrataAre
  <1>2. a \in [Strata -> Nat] /\ \A r \in Strata : a[r] <= Count(r)
    BY DEF Apportioned
  <1>3. /\ b[from] = a[from] - 1 /\ b[to] = a[to] + 1
        /\ \A r \in Strata \ {from, to} : b[r] = a[r]
        /\ b = [r \in Strata |-> b[r]]
    BY <1>2 DEF Move
  <1> HIDE DEF b
  <1>4. b \in [Strata -> Nat] /\ \A r \in Strata : b[r] <= Count(r)
    <2>1. ASSUME NEW r \in Strata PROVE b[r] \in Nat /\ b[r] <= Count(r)
      <3>1. a[r] \in Nat /\ Count(r) \in Nat /\ a[r] <= Count(r)
        BY <1>1, <1>2
      <3>2. r = from \/ r = to \/ r \in Strata \ {from, to}
        OBVIOUS
      <3> QED
        BY <1>3, <3>1, <3>2
    <2> QED
      BY <1>3, <2>1
  <1>5. /\ lost \in [Strata -> Nat] /\ won \in [Strata -> Nat]
        /\ Total(lost) = 1 /\ Total(won) = 1
    <2>1. {from} \in SUBSET Strata /\ {to} \in SUBSET Strata
      OBVIOUS
    <2>2. Cardinality({from}) = 1 /\ Cardinality({to}) = 1
      BY FS_Singleton
    <2> QED
      BY <1>1, <2>1, <2>2, CountingOnes
  <1>6. Sum(b, lost) = Sum(a, won)
    <2>1. ASSUME NEW r \in Strata PROVE b[r] + lost[r] = a[r] + won[r]
      <3>1. a[r] \in Nat
        BY <1>2
      <3>2. lost[r] = (IF r = from THEN 1 ELSE 0) /\ won[r] = (IF r = to THEN 1 ELSE 0)
        BY DEF Ones
      <3> QED
        BY <1>3, <3>1, <3>2
    <2>2. DOMAIN a = Strata /\ DOMAIN b = Strata
      BY <1>2, <1>4
    <2> HIDE DEF lost, won
    <2> QED
      BY <2>1, <2>2 DEF Sum
  <1> HIDE DEF lost, won
  <1>7. Total(b) = Total(a)
    <2>1. Total(b) + 1 = Total(a) + 1
      BY <1>1, <1>2, <1>4, <1>5, <1>6, Adding
    <2>2. Total(a) \in Nat /\ Total(b) \in Nat
      BY <1>1, <1>2, <1>4, PlacesAreFinite
    <2> QED
      BY <2>1, <2>2
  <1>8. Apportioned(b)
    BY <1>4, <1>7 DEF Apportioned
  <1> QED
    BY <1>3, <1>8 DEF b

(* The floors and the largest remainders add up to the target.             *)
LEMMA TopsUp ==
    ASSUME SelectionInv, NEW a \in ToppedUp(GlobalTarget)
    PROVE  Tested(a, 0)
  <1>1. PICK raised \in SUBSET Strata :
          /\ Cardinality(raised) = GlobalTarget - Total(Floors)
          /\ a = [r \in Strata |-> Floors[r] + IF r \in raised THEN 1 ELSE 0]
    BY DEF ToppedUp, kSubset
  <1>2. IsFiniteSet(Strata) /\ Strata \subseteq 1 .. Len(audits)
        /\ \A r \in Strata : Count(r) \in Nat \ {0}
    BY StrataAre
  <1>3. ASSUME NEW r \in Strata PROVE Floors[r] \in Nat /\ Floors[r] < Count(r)
    <2>1. PICK c, p, q : c = Count(r) /\ p = fraction[1] /\ q = fraction[2]
      OBVIOUS
    <2>2. c \in Nat \ {0} /\ p \in Nat \ {0} /\ q \in Nat \ {0} /\ p < q
      BY <1>2, <2>1, FractionIs
    <2>3. (c * p) \div q \in Nat /\ (c * p) \div q < c
      BY <2>2, FloorIs
    <2> QED
      BY <2>1, <2>3 DEF Floors
  <1>4. Floors \in [Strata -> Nat]
    BY <1>3 DEF Floors
  <1>5. ASSUME NEW r \in Strata
        PROVE  a[r] \in Nat /\ a[r] <= Count(r) /\ a[r] = Floors[r] + Ones(Strata, raised)[r]
    <2>1. a[r] = Floors[r] + IF r \in raised THEN 1 ELSE 0
      BY <1>1
    <2>2. Ones(Strata, raised)[r] = IF r \in raised THEN 1 ELSE 0
      BY DEF Ones
    <2>3. Floors[r] \in Nat /\ Floors[r] < Count(r) /\ Count(r) \in Nat
      BY <1>2, <1>3
    <2> QED
      BY <2>1, <2>2, <2>3
  <1>6. a \in [Strata -> Nat]
    BY <1>1, <1>5
  <1>7. a = Sum(Floors, Ones(Strata, raised))
    BY <1>4, <1>5, <1>6 DEF Sum
  <1>8. Total(a) = Total(Floors) + Cardinality(raised)
    <2>1. /\ Ones(Strata, raised) \in [Strata -> Nat]
          /\ Total(Ones(Strata, raised)) = Cardinality(raised)
      BY <1>2, CountingOnes
    <2> QED
      BY <1>2, <1>4, <1>7, <2>1, Adding
  <1>9. Total(a) = GlobalTarget
    <2>1. Total(Floors) \in Nat /\ GlobalTarget \in Nat
      BY <1>2, <1>4, PlacesAreFinite, GlobalTargetIs
    <2> QED
      BY <1>1, <1>8, <2>1
  <1>10. \A r \in Several : ~(r <= 0)
    BY <1>2 DEF Several
  <1> QED
    BY <1>5, <1>6, <1>9, <1>10 DEF Tested, Apportioned

(* A turn of the first loop.                                               *)
LEMMA GivesTest ==
    ASSUME SelectionInv, NEW k \in 1 .. Len(audits), NEW A, \A a \in A : Tested(a, k - 1),
           NEW b \in GiveTest(A, k)
    PROVE  Tested(b, k)
  <1>1. PICK a \in A : b \in IF Count(k) >= 2 /\ a[k] = 0 /\ Donors(a) # {}
                             THEN {Move(a, donor, k) : donor \in Donors(a)} ELSE {a}
    BY DEF GiveTest
  <1>2. Apportioned(a) /\ (Donors(a) = {} \/ \A r \in Several : r <= k - 1 => a[r] >= 1)
    BY DEF Tested
  <1>3. /\ Strata \subseteq Nat /\ \A r \in Strata : Count(r) \in Nat /\ Count(r) >= 1
        /\ \A r : Count(r) \in Nat /\ (Count(r) >= 1 => r \in Strata)
        /\ \A r \in Strata : a[r] \in Nat
    BY <1>2, StrataAre, AssignedIsFinite DEF Apportioned
  <1>4. k \in Nat /\ Several \subseteq Strata /\ \A r \in Several : Count(r) >= 2
    BY <1>3, AssignedIsFinite DEF Several
  <1>5. CASE Count(k) >= 2 /\ a[k] = 0 /\ Donors(a) # {}
    <2>1. PICK donor \in Donors(a) : b = Move(a, donor, k)
      BY <1>1, <1>5
    <2>2. /\ donor \in Strata /\ a[donor] >= 1
          /\ Count(donor) >= 2 => a[donor] >= 2
      BY <1>3 DEF Donors
    <2>3. k \in Strata /\ donor # k /\ a[k] < Count(k)
      BY <1>3, <1>5, <2>2
    <2>4. /\ Apportioned(b) /\ b[donor] = a[donor] - 1 /\ b[k] = a[k] + 1
          /\ \A r \in Strata \ {donor, k} : b[r] = a[r]
      BY <1>2, <2>1, <2>2, <2>3, Moves
    <2>5. ASSUME NEW r \in Several, r <= k PROVE b[r] >= 1
      <3>1. r \in Strata /\ Count(r) >= 2 /\ r \in Nat
        BY <1>3, <1>4
      <3>2. CASE r = k
        BY <1>5, <2>4, <3>2
      <3>3. CASE r = donor
        <4>1. a[donor] \in Nat /\ a[donor] >= 2
          BY <1>3, <2>2, <3>1, <3>3
        <4> QED
          BY <2>4, <3>3, <4>1
      <3>4. CASE r # k /\ r # donor
        <4>1. r <= k - 1
          BY <1>4, <2>5, <3>1, <3>4
        <4> QED
          BY <1>2, <1>5, <2>4, <3>1, <3>4, <4>1
      <3> QED
        BY <3>2, <3>3, <3>4
    <2> QED
      BY <2>4, <2>5 DEF Tested
  <1>6. CASE ~(Count(k) >= 2 /\ a[k] = 0 /\ Donors(a) # {})
    <2>1. b = a
      BY <1>1, <1>6
    <2>2. ASSUME Donors(a) # {}, NEW r \in Several, r <= k PROVE a[r] >= 1
      <3>1. r \in Strata /\ Count(r) >= 2 /\ r \in Nat /\ a[r] \in Nat
        BY <1>3, <1>4
      <3>2. CASE r = k
        BY <1>6, <2>2, <3>1, <3>2
      <3>3. CASE r # k
        <4>1. r <= k - 1
          BY <1>4, <2>2, <3>1, <3>3
        <4> QED
          BY <1>2, <2>2, <4>1
      <3> QED
        BY <3>2, <3>3
    <2> QED
      BY <1>2, <2>1, <2>2 DEF Tested
  <1> QED
    BY <1>5, <1>6

(* A turn of the second.  Who gives a test scene away keeps one.           *)
LEMMA GivesTrain ==
    ASSUME SelectionInv, NEW k \in 1 .. Len(audits), NEW A, \A a \in A : Trained(a, k - 1),
           NEW b \in GiveTrain(A, k)
    PROVE  Trained(b, k)
  <1>1. PICK a \in A : b \in IF Count(k) >= 2 /\ a[k] = Count(k) /\ Recipients(a) # {}
                             THEN {Move(a, k, taker) : taker \in Recipients(a)} ELSE {a}
    BY DEF GiveTrain
  <1>2. /\ Apportioned(a) /\ Tested(a, Len(audits))
        /\ Recipients(a) = {} \/ \A r \in Several : r <= k - 1 => a[r] < Count(r)
        /\ Donors(a) = {} \/ \A r \in Several : r <= Len(audits) => a[r] >= 1
    BY DEF Trained, Tested
  <1>3. /\ Strata \subseteq Nat /\ \A r \in Strata : Count(r) \in Nat /\ Count(r) >= 1
        /\ \A r : Count(r) \in Nat /\ (Count(r) >= 1 => r \in Strata)
        /\ \A r \in Strata : a[r] \in Nat /\ a[r] <= Count(r) /\ r <= Len(audits)
    BY <1>2, StrataAre, AssignedIsFinite DEF Apportioned
  <1>4. k \in Nat /\ Several \subseteq Strata /\ \A r \in Several : Count(r) >= 2
    BY <1>3, AssignedIsFinite DEF Several
  <1>5. CASE Count(k) >= 2 /\ a[k] = Count(k) /\ Recipients(a) # {}
    <2>1. PICK taker \in Recipients(a) : b = Move(a, k, taker)
      BY <1>1, <1>5
    <2>2. /\ taker \in Strata /\ a[taker] < Count(taker)
          /\ Count(taker) >= 2 => a[taker] + 1 < Count(taker)
      <3>1. /\ taker \in Strata
            /\ a[taker] < IF Count(taker) >= 2 THEN Count(taker) - 1 ELSE 1
        BY DEF Recipients
      <3>2. Count(taker) \in Nat /\ Count(taker) >= 1 /\ a[taker] \in Nat
        BY <1>3, <3>1
      <3> QED
        BY <3>1, <3>2
    <2>3. k \in Strata /\ taker # k /\ a[k] >= 1
      BY <1>3, <1>5, <2>2
    <2>4. /\ Apportioned(b) /\ b[k] = a[k] - 1 /\ b[taker] = a[taker] + 1
          /\ \A r \in Strata \ {k, taker} : b[r] = a[r]
      BY <1>2, <2>1, <2>2, <2>3, Moves
    <2>5. k \in Donors(a)
      BY <1>3, <1>5, <2>3 DEF Donors
    <2>6. ASSUME NEW r \in Several PROVE b[r] >= 1 /\ (r <= k => b[r] < Count(r))
      <3>1. /\ r \in Strata /\ Count(r) >= 2 /\ r \in Nat /\ a[r] \in Nat /\ Count(r) \in Nat
            /\ a[r] >= 1
        BY <1>2, <1>3, <1>4, <2>5
      <3>2. CASE r = k
        BY <1>5, <2>4, <3>1, <3>2
      <3>3. CASE r = taker
        BY <2>2, <2>4, <3>1, <3>3
      <3>4. CASE r # k /\ r # taker
        <4>1. b[r] = a[r]
          BY <2>4, <3>1, <3>4
        <4>2. r <= k => r <= k - 1
          BY <1>4, <3>1, <3>4
        <4> QED
          BY <1>2, <1>5, <3>1, <4>1, <4>2
      <3> QED
        BY <3>2, <3>3, <3>4
    <2> QED
      BY <2>4, <2>6 DEF Trained, Tested
  <1>6. CASE ~(Count(k) >= 2 /\ a[k] = Count(k) /\ Recipients(a) # {})
    <2>1. b = a
      BY <1>1, <1>6
    <2>2. ASSUME Recipients(a) # {}, NEW r \in Several, r <= k PROVE a[r] < Count(r)
      <3>1. /\ r \in Strata /\ Count(r) >= 2 /\ r \in Nat /\ a[r] \in Nat /\ a[r] <= Count(r)
            /\ Count(r) \in Nat
        BY <1>3, <1>4
      <3>2. CASE r = k
        BY <1>6, <2>2, <3>1, <3>2
      <3>3. CASE r # k
        <4>1. r <= k - 1
          BY <1>4, <2>2, <3>1, <3>3
        <4> QED
          BY <1>2, <2>2, <4>1
      <3> QED
        BY <3>2, <3>3
    <2> QED
      BY <1>2, <2>1, <2>2 DEF Trained
  <1> QED
    BY <1>5, <1>6

(* One of the turns of both loops.                                         *)
Turn(A, k) ==
    IF k <= Len(audits) THEN GiveTest(A, k) ELSE GiveTrain(A, k - Len(audits))

(* Both loops.                                                             *)
IsGiving(after, target) ==
    /\ after[0] = ToppedUp(target)
    /\ \A k \in 1 .. 2 * Len(audits) : after[k] = Turn(after[k - 1], k)

(* Allocations of integers stay such.                                      *)
LEMMA MovesInts ==
    ASSUME NEW A \in SUBSET [Strata -> Int], NEW k
    PROVE  Turn(A, k) \in SUBSET [Strata -> Int]
  <1>1. ASSUME NEW a \in A, NEW from, NEW to PROVE Move(a, from, to) \in [Strata -> Int]
    <2>1. a \in [Strata -> Int]
      OBVIOUS
    <2>2. ASSUME NEW r \in Strata PROVE Move(a, from, to)[r] \in Int
      <3>1. a[r] \in Int
        BY <2>1
      <3>2. CASE r # to /\ r # from
        BY <2>1, <3>1, <3>2 DEF Move
      <3>3. CASE r = to
        BY <2>1, <3>1, <3>3 DEF Move
      <3>4. CASE r = from /\ r # to
        BY <2>1, <3>1, <3>4 DEF Move
      <3> QED
        BY <3>2, <3>3, <3>4
    <2>3. Move(a, from, to) = [r \in Strata |-> Move(a, from, to)[r]]
      BY <2>1 DEF Move
    <2> QED
      BY <2>2, <2>3
  <1>2. GiveTest(A, k) \in SUBSET [Strata -> Int]
    BY <1>1 DEF GiveTest
  <1>3. GiveTrain(A, k - Len(audits)) \in SUBSET [Strata -> Int]
    BY <1>1 DEF GiveTrain
  <1> QED
    BY <1>2, <1>3 DEF Turn

(* The recursive function of Apportionments is those loops.                *)
LEMMA Gives ==
    ASSUME SelectionInv
    PROVE  \E after : /\ IsGiving(after, GlobalTarget)
                      /\ Apportionments(GlobalTarget) = after[2 * Len(audits)]
  <1> DEFINE n == Len(audits)
             m == 2 * n
             S == SUBSET [Strata -> Int]
             start == ToppedUp(GlobalTarget)
             Def(g) == g = [turn \in 0 .. m |->
                              IF turn = 0 THEN start
                              ELSE IF turn <= n THEN GiveTest(g[turn - 1], turn)
                              ELSE GiveTrain(g[turn - 1], turn - n)]
             after == CHOOSE g : Def(g)
             D == [A \in S |-> [k \in 1 .. m |-> Turn(A, k)]]
  <1>1. n \in Nat /\ m \in Nat
    BY AssignedIsFinite
  <1>2. Apportionments(GlobalTarget) = after[m]
    BY DEF Apportionments
  <1>3. start \in S
    <2>1. \A a \in start : a \in [Strata -> Int]
      BY TopsUp DEF Tested, Apportioned
    <2> QED
      BY <2>1
  <1>4. D \in [S -> [1 .. m -> S]]
    BY MovesInts
  <1>5. \A A \in S, k \in 1 .. m : D[A][k] = Turn(A, k)
    OBVIOUS
  <1>6. \A g, k : (IF k <= n THEN GiveTest(g[k - 1], k) ELSE GiveTrain(g[k - 1], k - n))
                    = Turn(g[k - 1], k)
    BY DEF Turn
  <1> HIDE DEF D, S, start, m
  <1>7. PICK g \in [0 .. m -> S] : Run(g, start, m, D)
    BY <1>1, <1>3, <1>4, Iterates
  <1>8. g[0] = start /\ \A k \in 1 .. m : g[k] = D[g[k - 1]][k]
    BY <1>7 DEF Run
  <1>9. ASSUME NEW k \in 1 .. m PROVE g[k] = Turn(g[k - 1], k)
    <2>1. k - 1 \in 0 .. m
      BY <1>1
    <2> QED
      BY <1>5, <1>8, <2>1
  <1>10. Def(g)
    <2>1. ASSUME NEW k \in 0 .. m
          PROVE  g[k] = IF k = 0 THEN start
                        ELSE IF k <= n THEN GiveTest(g[k - 1], k)
                        ELSE GiveTrain(g[k - 1], k - n)
      <3>1. CASE k = 0
        BY <1>8, <3>1
      <3>2. CASE k # 0
        <4>1. k \in 1 .. m
          BY <1>1, <3>2
        <4> QED
          BY <1>6, <1>9, <3>2, <4>1
      <3> QED
        BY <3>1, <3>2
    <2>2. g = [k \in 0 .. m |-> g[k]]
      BY <1>8
    <2> HIDE DEF n
    <2> QED
      BY <2>1, <2>2
  <1>11. Def(after)
    <2> HIDE DEF Def
    <2> QED
      BY <1>10
  <1> HIDE DEF after
  <1>12. after[0] = start
    BY <1>1, <1>11
  <1>13. ASSUME NEW k \in 1 .. m PROVE after[k] = Turn(after[k - 1], k)
    <2>1. k \in 0 .. m /\ k # 0
      BY <1>1
    <2>2. after[k] = IF k <= n THEN GiveTest(after[k - 1], k) ELSE GiveTrain(after[k - 1], k - n)
      BY <1>11, <2>1
    <2> QED
      BY <1>6, <2>2
  <1>14. IsGiving(after, GlobalTarget)
    BY <1>12, <1>13 DEF IsGiving, start, m
  <1> QED
    BY <1>2, <1>14 DEF m

(* In the end a loop is through: its move is impossible or unneeded.       *)
LEMMA AllTrained ==
    ASSUME SelectionInv, NEW a \in Apportionments(GlobalTarget)
    PROVE  Trained(a, Len(audits))
  <1>1. PICK n : n = Len(audits) /\ n \in Nat
    BY AssignedIsFinite
  <1>2. PICK after : IsGiving(after, GlobalTarget) /\ Apportionments(GlobalTarget) = after[2 * n]
    BY <1>1, Gives
  <1>3. /\ after[0] = ToppedUp(GlobalTarget)
        /\ \A k \in 1 .. 2 * n : after[k] = Turn(after[k - 1], k)
    BY <1>1, <1>2 DEF IsGiving
  <1> DEFINE T == {k \in Nat : k <= n => \A b \in after[k] : Tested(b, k)}
             U == {k \in Nat : k <= n => \A b \in after[n + k] : Trained(b, k)}
  <1>4. 0 \in T
    BY <1>3, TopsUp
  <1>5. ASSUME NEW k \in T PROVE k + 1 \in T
    <2> SUFFICES ASSUME k + 1 <= n, NEW b \in after[k + 1] PROVE Tested(b, k + 1)
      OBVIOUS
    <2>1. PICK j, A : j = k + 1 /\ A = after[k]
      OBVIOUS
    <2>2. j \in 1 .. n /\ j \in 1 .. 2 * n /\ j - 1 = k /\ k <= n
      BY <1>1, <2>1
    <2>3. after[j] = GiveTest(A, j)
      BY <1>1, <1>3, <2>1, <2>2 DEF Turn
    <2>4. \A c \in A : Tested(c, j - 1)
      BY <2>1, <2>2
    <2>5. j \in 1 .. Len(audits) /\ b \in GiveTest(A, j)
      BY <1>1, <2>1, <2>2, <2>3
    <2>6. Tested(b, j)
      BY <2>4, <2>5, GivesTest
    <2> QED
      BY <2>1, <2>6
  <1>6. T \in SUBSET Nat
    OBVIOUS
  <1>7. \A b \in after[n] : Tested(b, n)
    <2>1. T = Nat
      <3> HIDE DEF T
      <3> QED
        BY <1>4, <1>5, <1>6, InductionOn
    <2> QED
      BY <1>1, <2>1
  <1> HIDE DEF T
  <1>8. 0 \in U
    <2>1. ASSUME NEW b \in after[n] PROVE Trained(b, 0)
      <3>1. \A r \in Several : ~(r <= 0)
        BY StrataAre, AssignedIsFinite DEF Several
      <3> QED
        BY <1>1, <1>7, <3>1 DEF Trained
    <2>2. n + 0 = n
      BY <1>1
    <2> QED
      BY <2>1, <2>2
  <1>9. ASSUME NEW k \in U PROVE k + 1 \in U
    <2> SUFFICES ASSUME k + 1 <= n, NEW b \in after[n + (k + 1)] PROVE Trained(b, k + 1)
      OBVIOUS
    <2>1. PICK i, j, A : i = k + 1 /\ j = n + (k + 1) /\ A = after[n + k]
      OBVIOUS
    <2>2. /\ i \in 1 .. n /\ j \in 1 .. 2 * n /\ i - 1 = k /\ k <= n
          /\ j - 1 = n + k /\ j - n = i /\ ~(j <= n)
      BY <1>1, <2>1
    <2>3. after[j] = GiveTrain(A, i)
      BY <1>1, <1>3, <2>1, <2>2 DEF Turn
    <2>4. \A c \in A : Trained(c, i - 1)
      BY <2>1, <2>2
    <2>5. i \in 1 .. Len(audits) /\ b \in GiveTrain(A, i)
      BY <1>1, <2>1, <2>2, <2>3
    <2>6. Trained(b, i)
      BY <2>4, <2>5, GivesTrain
    <2> QED
      BY <2>1, <2>6
  <1>10. U \in SUBSET Nat
    OBVIOUS
  <1>11. U = Nat
    <2> HIDE DEF U
    <2> QED
      BY <1>8, <1>9, <1>10, InductionOn
  <1>12. \A b \in after[n + n] : Trained(b, n)
    BY <1>1, <1>11
  <1>13. n + n = 2 * n
    BY <1>1
  <1> QED
    BY <1>1, <1>2, <1>12, <1>13

(* No allocation of the target has more strata on both sides.              *)
LEMMA Fairest ==
    ASSUME SelectionInv, NEW a, Trained(a, Len(audits)), NEW other, Apportioned(other)
    PROVE  Cardinality(Sided(other)) <= Cardinality(Sided(a))
  <1>1. /\ IsFiniteSet(Strata) /\ Counts \in [Strata -> Nat]
        /\ \A r \in Strata : /\ r <= Len(audits) /\ Counts[r] = Count(r)
                             /\ Count(r) \in Nat /\ Count(r) >= 1
    BY StrataAre, AssignedIsFinite DEF Counts
  <1>2. /\ Apportioned(a)
        /\ Donors(a) = {} \/ \A r \in Several : r <= Len(audits) => a[r] >= 1
        /\ Recipients(a) = {} \/ \A r \in Several : r <= Len(audits) => a[r] < Count(r)
    BY DEF Trained, Tested
  <1>3. /\ a \in [Strata -> Nat] /\ \A r \in Strata : a[r] <= Count(r)
        /\ other \in [Strata -> Nat] /\ \A r \in Strata : other[r] <= Count(r)
        /\ Total(a) = GlobalTarget /\ Total(other) = GlobalTarget
    BY <1>2 DEF Apportioned
  <1> DEFINE A == Sided(a)
             O == Sided(other)
             ofA == Ones(Strata, A)
             ofO == Ones(Strata, O)
  <1>4. A \in SUBSET Strata /\ O \in SUBSET Strata
    BY DEF Sided
  <1>5. /\ ofA \in [Strata -> Nat] /\ Total(ofA) = Cardinality(A)
        /\ ofO \in [Strata -> Nat] /\ Total(ofO) = Cardinality(O)
    BY <1>1, <1>4, CountingOnes
  <1>6. \A r \in Strata : /\ ofA[r] = (IF 0 < a[r] /\ a[r] < Count(r) THEN 1 ELSE 0)
                          /\ ofO[r] = (IF 0 < other[r] /\ other[r] < Count(r) THEN 1 ELSE 0)
    BY DEF Ones, Sided
  <1>7. /\ IsFiniteSet(A) /\ IsFiniteSet(O) /\ Cardinality(A) \in Nat /\ Cardinality(O) \in Nat
    BY <1>1, <1>4, FS_Subset, FS_CardinalityType
  <1> HIDE DEF ofA, ofO
  <1>8. CASE Donors(a) = {}
    <2>1. ASSUME NEW r \in Strata PROVE a[r] = ofA[r]
      <3>1. a[r] \in Nat /\ Count(r) \in Nat /\ Count(r) >= 1
        BY <1>1, <1>3
      <3>2. ~(a[r] > IF Count(r) >= 2 THEN 1 ELSE 0)
        BY <1>8 DEF Donors
      <3> QED
        BY <1>6, <3>1, <3>2
    <2>2. ofA = a
      BY <1>3, <1>5, <2>1
    <2>3. ASSUME NEW r \in Strata PROVE ofO[r] <= other[r]
      <3>1. other[r] \in Nat
        BY <1>3
      <3> QED
        BY <1>6, <3>1
    <2>4. Total(ofO) <= Total(other)
      BY <1>1, <1>3, <1>5, <2>3, Within
    <2> QED
      BY <1>3, <1>5, <2>2, <2>4
  <1>9. CASE Recipients(a) = {}
    <2>1. ASSUME NEW r \in Strata PROVE a[r] + ofA[r] = Counts[r]
      <3>1. a[r] \in Nat /\ Count(r) \in Nat /\ Count(r) >= 1 /\ a[r] <= Count(r)
            /\ Counts[r] = Count(r)
        BY <1>1, <1>3
      <3>2. ~(a[r] < IF Count(r) >= 2 THEN Count(r) - 1 ELSE 1)
        BY <1>9 DEF Recipients
      <3> QED
        BY <1>6, <3>1, <3>2
    <2>2. Sum(a, ofA) = Counts
      BY <1>1, <1>3, <2>1 DEF Sum
    <2>3. Total(Counts) = Total(a) + Total(ofA)
      BY <1>1, <1>3, <1>5, <2>2, Adding
    <2>4. /\ Sum(other, ofO) \in [Strata -> Nat]
          /\ Total(Sum(other, ofO)) = Total(other) + Total(ofO)
      <3>1. /\ IsFiniteSet(Strata) /\ other \in [Strata -> Nat]
            /\ ofO \in [Strata -> Nat]
        BY <1>1, <1>3, <1>5
      <3> QED
        BY <3>1, Adding
    <2>5. ASSUME NEW r \in Strata PROVE Sum(other, ofO)[r] <= Counts[r]
      <3>1. other[r] \in Nat /\ Count(r) \in Nat /\ other[r] <= Count(r) /\ Counts[r] = Count(r)
        BY <1>1, <1>3
      <3>2. Sum(other, ofO)[r] = other[r] + ofO[r]
        BY <1>3 DEF Sum
      <3> QED
        BY <1>6, <3>1, <3>2
    <2>6. Total(Sum(other, ofO)) <= Total(Counts)
      BY <1>1, <2>4, <2>5, Within
    <2>7. Total(a) \in Nat
      BY <1>1, <1>3, PlacesAreFinite
    <2> QED
      BY <1>3, <1>5, <1>7, <2>3, <2>4, <2>6, <2>7
  <1>10. CASE Donors(a) # {} /\ Recipients(a) # {}
    <2>1. ASSUME NEW r \in O PROVE r \in A
      <3>1. /\ r \in Strata /\ other[r] \in Nat /\ Count(r) \in Nat
            /\ 0 < other[r] /\ other[r] < Count(r) /\ a[r] \in Nat /\ r <= Len(audits)
        BY <1>1, <1>3 DEF Sided
      <3>2. r \in Several
        BY <3>1 DEF Several
      <3> QED
        BY <1>2, <1>10, <3>1, <3>2 DEF Sided
    <2> QED
      BY <1>7, <2>1, FS_Subset
  <1> QED
    BY <1>8, <1>9, <1>10

(* The largest stratum bounds what any has.                                *)
LEMMA LargestIs ==
    ASSUME SelectionInv, NEW r \in Strata
    PROVE  LET Largest == CHOOSE n \in 0 .. Cardinality(Assigned) :
                            /\ \E s \in Strata : Count(s) = n
                            /\ \A s \in Strata : Count(s) <= n
           IN  Largest \in Nat
  <1> DEFINE total == Cardinality(Assigned)
             T == {total - Count(s) : s \in Strata}
  <1>1. total \in Nat
    BY GlobalTargetIs
  <1>2. ASSUME NEW s \in Strata PROVE Count(s) \in Nat /\ Count(s) <= total
    <2>1. s \in DOMAIN audits /\ Count(s) = Cardinality(audits[s].chosen) /\ Count(s) \in Nat
      BY StrataAre
    <2>2. audits[s].chosen \in SUBSET Assigned
      BY <2>1 DEF Assigned
    <2>3. IsFiniteSet(Assigned)
      BY AssignedIsFinite
    <2> QED
      BY <2>1, <2>2, <2>3, FS_Subset
  <1>3. T \in SUBSET Nat /\ T # {}
    BY <1>1, <1>2
  <1> HIDE DEF total
  <1>4. PICK m \in T : \A k \in T : m <= k
    <2> HIDE DEF T
    <2> QED
      BY <1>3, Least
  <1>5. PICK s \in Strata : m = total - Count(s)
    OBVIOUS
  <1>6. ASSUME NEW o \in Strata PROVE Count(o) <= Count(s)
    <2>1. total - Count(o) \in T
      OBVIOUS
    <2>2. total - Count(s) <= total - Count(o)
      BY <1>4, <1>5, <2>1
    <2> QED
      BY <1>1, <1>2, <2>2
  <1>7. Count(s) \in 0 .. total
    BY <1>1, <1>2
  <1>8. \E n \in 0 .. total : /\ \E o \in Strata : Count(o) = n
                              /\ \A o \in Strata : Count(o) <= n
    BY <1>6, <1>7
  <1>9. \A n \in 0 .. total : n \in Nat
    BY <1>1
  <1> HIDE DEF T
  <1> QED
    BY <1>8, <1>9 DEF total

(* The drawn test set.                                                     *)
Drawn ==
    IF task.split.stratify
    THEN /\ Trained(quotas, Len(audits))
         /\ test \in SUBSET Assigned
         /\ \A r \in Strata : Cardinality(test \cap audits[r].chosen) = quotas[r]
    ELSE test \in SUBSET Assigned /\ Cardinality(test) = GlobalTarget

(* The inductive invariant of the split: the quotas that wait for the draw *)
(* are those of both loops, and what is drawn has them.                    *)
SplitInv ==
    /\ SelectionInv
    /\ phase = "draw" /\ task.split.stratify => Trained(quotas, Len(audits))
    /\ phase = "done" => Drawn

(* Strata and target rest on the task and the audits only.                 *)
LEMMA SameStrata ==
    ASSUME UNCHANGED <<task, audits>>
    PROVE  /\ Assigned' = Assigned /\ Strata' = Strata /\ GlobalTarget' = GlobalTarget
           /\ Several' = Several /\ \A r : Count(r)' = Count(r)
  <1>1. Assigned' = Assigned /\ Candidates' = Candidates
    BY DEF Assigned, Candidates
  <1>2. Strata' = Strata /\ \A r : Count(r)' = Count(r)
    BY <1>1 DEF Strata, Count
  <1> QED
    BY <1>1, <1>2 DEF GlobalTarget, HalfUpTarget, fraction, Several

(* So quotas stay what they are as long as these do.                       *)
LEMMA SameTrained ==
    ASSUME UNCHANGED <<task, audits>>, Trained(quotas', Len(audits))
    PROVE  Trained(quotas, Len(audits))'
  BY SameStrata DEF Trained, Tested, Apportioned, Donors, Recipients

(* Every step keeps the invariant of the split.                            *)
LEMMA SplitStep == SplitInv /\ [AssignNext]_assignVars => SplitInv'
  <1> SUFFICES ASSUME SplitInv, [AssignNext]_assignVars PROVE SplitInv'
    OBVIOUS
  <1>1. SelectionInv /\ SelectionInv'
    BY FilterKeeps, RuleKeeps, RestKeeps DEF SplitInv, AssignNext, AssignDone
  <1>2. CASE FilterScenes \/ SelectRule \/ FinishSelection
    BY <1>1, <1>2 DEF SplitInv, FilterScenes, SelectRule, FinishSelection
  <1>3. CASE Apportion
    <2>1. UNCHANGED <<task, audits>> /\ phase' # "done"
      BY <1>3 DEF Apportion
    <2>2. ASSUME phase' = "draw", task'.split.stratify PROVE Trained(quotas, Len(audits))'
      <3>1. quotas' \in Apportionments(GlobalTarget)
        BY <1>3, <2>1, <2>2 DEF Apportion, GlobalTarget
      <3>2. Trained(quotas', Len(audits))
        BY <1>1, <3>1, AllTrained
      <3> QED
        BY <2>1, <3>2, SameTrained
    <2> QED
      BY <1>1, <2>1, <2>2 DEF SplitInv
  <1>4. CASE Draw
    <2>1. UNCHANGED <<task, audits, quotas>> /\ phase = "draw" /\ phase' = "done"
      BY <1>4 DEF Draw
    <2>2. Drawn'
      <3>1. CASE task.split.stratify
        <4>1. Trained(quotas, Len(audits))
          BY <2>1, <3>1 DEF SplitInv
        <4>2. Trained(quotas, Len(audits))'
          BY <2>1, <4>1, SameTrained
        <4>3. /\ test' \in SUBSET Assigned
              /\ \A r \in Strata : Cardinality(test' \cap audits[r].chosen) = quotas[r]
          BY <1>4, <3>1 DEF Draw
        <4> QED
          BY <2>1, <3>1, <4>2, <4>3, SameStrata DEF Drawn
      <3>2. CASE ~task.split.stratify
        <4>1. test' \in kSubset(GlobalTarget, Assigned)
          BY <1>4, <3>2 DEF Draw, GlobalTarget
        <4>2. test' \in SUBSET Assigned /\ Cardinality(test') = GlobalTarget
          BY <4>1 DEF kSubset
        <4> QED
          BY <2>1, <3>2, <4>2, SameStrata DEF Drawn
      <3> QED
        BY <3>1, <3>2
    <2> QED
      BY <1>1, <2>1, <2>2 DEF SplitInv
  <1>5. CASE UNCHANGED assignVars
    <2>1. UNCHANGED <<task, phase, audits, quotas, test>>
      BY <1>5 DEF assignVars
    <2>2. Trained(quotas, Len(audits)) => Trained(quotas, Len(audits))'
      BY <2>1, SameTrained
    <2>3. Drawn => Drawn'
      BY <2>1, <2>2, SameStrata DEF Drawn
    <2> QED
      BY <1>1, <2>1, <2>2, <2>3 DEF SplitInv
  <1> QED
    BY <1>2, <1>3, <1>4, <1>5 DEF AssignNext, AssignDone

(* The inductive invariant of the split.                                   *)
THEOREM SplitInvariance == AssignSpec => []SplitInv
  <1>1. AssignInit => SplitInv
    BY Starts DEF AssignInit, SplitInv
  <1> QED
    BY <1>1, SplitStep, PTL DEF AssignSpec

(* What is drawn has the target's size, and its strata the quotas.         *)
LEMMA DrawnIs ==
    ASSUME SelectionInv, Drawn
    PROVE  /\ Cardinality(test) = GlobalTarget
           /\ task.split.stratify =>
                Trained([r \in Strata |-> Cardinality(test \cap audits[r].chosen)], Len(audits))
  <1>1. CASE ~task.split.stratify
    BY <1>1 DEF Drawn
  <1>2. CASE task.split.stratify
    <2> DEFINE part == [r \in Strata |-> test \cap audits[r].chosen]
               a == [r \in Strata |-> Cardinality(part[r])]
    <2>1. /\ Trained(quotas, Len(audits)) /\ test \in SUBSET Assigned
          /\ \A r \in Strata : Cardinality(test \cap audits[r].chosen) = quotas[r]
      BY <1>2 DEF Drawn
    <2>2. quotas \in [Strata -> Nat] /\ Total(quotas) = GlobalTarget
      BY <2>1 DEF Trained, Tested, Apportioned
    <2>3. a = quotas
      BY <2>1, <2>2
    <2>4. /\ IsFiniteSet(Strata) /\ Assigned = UNION {audits[r].chosen : r \in Strata}
          /\ \A r \in Strata : r \in DOMAIN audits
      BY StrataAre
    <2>5. IsFiniteSet(test)
      BY <2>1, AssignedIsFinite, FS_Subset
    <2>6. \A r \in Strata : IsFiniteSet(part[r])
      BY <2>5, FS_Subset
    <2>7. \A r, s \in Strata : r # s => part[r] \cap part[s] = {}
      BY <2>4, ChosenApart
    <2>8. test = UNION {part[r] : r \in Strata}
      BY <2>1, <2>4
    <2>9. a = [r \in Strata |-> Cardinality(test \cap audits[r].chosen)]
      OBVIOUS
    <2> HIDE DEF part
    <2>10. Total(a) = Cardinality(test)
      BY <2>4, <2>6, <2>7, <2>8, CountedApart
    <2> HIDE DEF a
    <2> QED
      BY <2>1, <2>2, <2>3, <2>9, <2>10
  <1> QED
    BY <1>1, <1>2

(* Every finished split is exact.                                          *)
THEOREM SplitStaysExact == AssignSpec => []SplitIsExact
  <1>1. SplitInv => SplitIsExact
    <2> SUFFICES ASSUME SplitInv, phase = "done" PROVE SplitIsExact
      BY DEF SplitIsExact
    <2>1. SelectionInv /\ Drawn
      BY DEF SplitInv
    <2> DEFINE Actual == [r \in Strata |-> Cardinality(test \cap audits[r].chosen)]
               total == Cardinality(Assigned)
               Largest == CHOOSE n \in 0 .. total :
                            /\ \E r \in Strata : Count(r) = n
                            /\ \A r \in Strata : Count(r) <= n
               Both(a) == {r \in Strata : a[r] > 0 /\ a[r] < Count(r)}
    <2>2. Cardinality(test) = GlobalTarget
      BY <2>1, DrawnIs
    <2>3. 2 * (Cardinality(test) * fraction[2] - total * fraction[1])
            \in 1 - fraction[2] .. fraction[2]
      BY <2>1, <2>2, GlobalTargetIs
    <2>4. ASSUME task.split.stratify, NEW other \in [Strata -> 0 .. Largest],
                 \A r \in Strata : other[r] <= Count(r), Total(other) = Cardinality(test)
          PROVE  Cardinality(Both(other)) <= Cardinality(Both(Actual))
      <3>1. ASSUME NEW r \in Strata PROVE other[r] \in Nat
        <4>1. Largest \in Nat
          BY <2>1, LargestIs
        <4> HIDE DEF Largest
        <4> QED
          BY <2>4, <4>1
      <3>2. other \in [Strata -> Nat]
        BY <2>4, <3>1
      <3>3. Apportioned(other)
        BY <2>2, <2>4, <3>2 DEF Apportioned
      <3>4. Trained(Actual, Len(audits))
        BY <2>1, <2>4, DrawnIs
      <3> HIDE DEF Actual
      <3>5. Cardinality(Sided(other)) <= Cardinality(Sided(Actual))
        BY <2>1, <3>3, <3>4, Fairest
      <3>6. \A a \in [Strata -> Nat] : Sided(a) = Both(a)
        <4>1. ASSUME NEW a \in [Strata -> Nat], NEW r \in Strata PROVE 0 < a[r] <=> a[r] > 0
          BY <4>1
        <4> QED
          BY <4>1 DEF Sided
      <3>7. Actual \in [Strata -> Nat]
        BY <3>4 DEF Trained, Tested, Apportioned
      <3> QED
        BY <3>2, <3>5, <3>6, <3>7
    <2> HIDE DEF Actual, Largest, Both
    <2> QED
      BY <2>3, <2>4 DEF SplitIsExact, Actual, Largest, Both, total
  <1> QED
    BY <1>1, SplitInvariance, PTL

-----------------------------------------------------------------------------
(* 6. Selection and split always have something to choose.                 *)

(* A multiple of an allocation.                                            *)
Multiple(n, a) == [r \in DOMAIN a |-> n * a[r]]

LEMMA Scaled ==
    ASSUME NEW S, IsFiniteSet(S), NEW a \in [S -> Nat], NEW n \in Nat
    PROVE  Multiple(n, a) \in [S -> Nat] /\ Total(Multiple(n, a)) = n * Total(a)
  <1> DEFINE T == {m \in Nat : Total(Multiple(m, a)) = m * Total(a)}
  <1>1. \A m \in Nat : Multiple(m, a) \in [S -> Nat]
    BY DEF Multiple
  <1>2. Total(a) \in Nat
    BY PlacesAreFinite
  <1>3. 0 \in T
    <2>1. {} \in SUBSET S
      OBVIOUS
    <2>2. Total(Ones(S, {})) = 0
      BY <2>1, CountingOnes, FS_EmptySet
    <2>3. Multiple(0, a) = Ones(S, {})
      BY DEF Multiple, Ones
    <2> QED
      BY <1>2, <2>2, <2>3
  <1>4. ASSUME NEW m \in T PROVE m + 1 \in T
    <2>1. m \in Nat /\ Total(Multiple(m, a)) = m * Total(a)
      OBVIOUS
    <2>2. Multiple(m + 1, a) = Sum(Multiple(m, a), a)
      <3>1. ASSUME NEW r \in S PROVE (m + 1) * a[r] = m * a[r] + a[r]
        <4>1. a[r] \in Nat
          OBVIOUS
        <4> QED
          BY <2>1, <4>1
      <3>2. DOMAIN a = S /\ DOMAIN Multiple(m, a) = S
        BY DEF Multiple
      <3>3. \A r \in S : Multiple(m, a)[r] = m * a[r]
        BY DEF Multiple
      <3> QED
        BY <3>1, <3>2, <3>3 DEF Multiple, Sum
    <2>3. Multiple(m, a) \in [S -> Nat]
      BY <1>1, <2>1
    <2>4. Total(Multiple(m + 1, a)) = Total(Multiple(m, a)) + Total(a)
      BY <2>2, <2>3, Adding
    <2>5. (m + 1) * Total(a) = m * Total(a) + Total(a)
      BY <1>2, <2>1
    <2> QED
      BY <2>1, <2>4, <2>5
  <1>5. T \in SUBSET Nat
    OBVIOUS
  <1> HIDE DEF T
  <1>6. n \in T
    BY <1>3, <1>4, <1>5, InductionOn
  <1> QED
    BY <1>1, <1>6 DEF T

(* Of a finite set, the ones that measure most: as many as wanted.         *)
LEMMA Foremost ==
    ASSUME NEW S, IsFiniteSet(S), NEW f \in [S -> Nat], NEW k \in Nat, k <= Cardinality(S)
    PROVE  \E R \in SUBSET S : /\ Cardinality(R) = k
                               /\ \A r \in R, s \in S \ R : f[r] >= f[s]
  <1> DEFINE n == Cardinality(S)
             Least1(L, j) == /\ L \in SUBSET S /\ Cardinality(L) = j
                             /\ \A l \in L, s \in S \ L : f[l] <= f[s]
             T == {j \in Nat : j <= n => \E L : Least1(L, j)}
  <1>1. n \in Nat
    BY FS_CardinalityType
  <1>2. 0 \in T
    <2>1. Least1({}, 0)
      BY FS_EmptySet
    <2> QED
      BY <2>1
  <1>3. ASSUME NEW j \in T PROVE j + 1 \in T
    <2> SUFFICES ASSUME j + 1 <= n PROVE \E L : Least1(L, j + 1)
      OBVIOUS
    <2>1. j \in Nat /\ j <= n /\ j # n
      BY <1>1
    <2>2. PICK L : Least1(L, j)
      BY <2>1
    <2>3. IsFiniteSet(L)
      BY <2>2, FS_Subset
    <2>4. S \ L # {}
      <3> SUFFICES ASSUME S \ L = {} PROVE FALSE
        OBVIOUS
      <3>1. L = S
        BY <2>2
      <3> QED
        BY <2>1, <2>2, <3>1
    <2> DEFINE V == {f[s] : s \in S \ L}
    <2>5. V \in SUBSET Nat /\ V # {}
      BY <2>4
    <2>6. PICK v \in V : \A w \in V : v <= w
      <3> HIDE DEF V
      <3> QED
        BY <2>5, Least
    <2>7. PICK m \in S \ L : v = f[m]
      OBVIOUS
    <2>8. \A s \in S \ L : f[m] <= f[s]
      BY <2>6, <2>7
    <2> DEFINE M == L \cup {m}
    <2>9. Cardinality(M) = j + 1
      BY <2>2, <2>3, <2>7, FS_AddElement
    <2>10. \A l \in M, s \in S \ M : f[l] <= f[s]
      BY <2>2, <2>8
    <2>11. M \in SUBSET S
      BY <2>2
    <2>12. Least1(M, j + 1)
      BY <2>9, <2>10, <2>11
    <2> HIDE DEF Least1
    <2> QED
      BY <2>12
  <1>4. T \in SUBSET Nat
    OBVIOUS
  <1>5. n - k \in T
    <2>1. T = Nat
      <3> HIDE DEF T
      <3> QED
        BY <1>2, <1>3, <1>4, InductionOn
    <2> QED
      BY <1>1, <2>1
  <1>6. PICK L : Least1(L, n - k)
    BY <1>1, <1>5
  <1> DEFINE R == S \ L
  <1>7. R \in SUBSET S /\ S \ R = L
    BY <1>6
  <1>8. Cardinality(R) = k
    <2>1. Cardinality(R) = Cardinality(S) - Cardinality(S \cap L)
      BY FS_Difference
    <2>2. S \cap L = L
      BY <1>6
    <2> QED
      BY <1>1, <1>6, <2>1, <2>2
  <1>9. \A r \in R, s \in S \ R : f[r] >= f[s]
    <2>1. ASSUME NEW r \in R, NEW s \in L PROVE f[r] >= f[s]
      <3>1. f[s] <= f[r] /\ f[s] \in Nat /\ f[r] \in Nat
        BY <1>6
      <3> QED
        BY <3>1
    <2> QED
      BY <1>7, <2>1
  <1> QED
    BY <1>7, <1>8, <1>9

(* A finite set has a subset of every size.                                *)
LEMMA Subsets ==
    ASSUME NEW S, IsFiniteSet(S), NEW k \in Nat, k <= Cardinality(S)
    PROVE  \E R \in SUBSET S : Cardinality(R) = k
  <1>1. [s \in S |-> 0] \in [S -> Nat]
    OBVIOUS
  <1> QED
    BY <1>1, Foremost

(* The floors are short of the target by at most one scene a stratum, so   *)
(* the slice of the remainders (split.py:275) has as many as it asks for.  *)
LEMMA ShortBy ==
    ASSUME SelectionInv
    PROVE  /\ Total(Floors) \in Nat /\ GlobalTarget \in Nat
           /\ Total(Floors) <= GlobalTarget /\ GlobalTarget <= Total(Floors) + Cardinality(Strata)
  <1>1. PICK p, q : p = fraction[1] /\ q = fraction[2]
    OBVIOUS
  <1>2. p \in Nat \ {0} /\ q \in Nat \ {0} /\ p < q /\ q - 1 \in Nat
    BY <1>1, FractionIs
  <1>3. /\ IsFiniteSet(Strata) /\ \A r \in Strata : Count(r) \in Nat \ {0} /\ Counts[r] = Count(r)
        /\ Counts \in [Strata -> Nat] /\ Total(Counts) = Cardinality(Assigned)
    BY StrataAre DEF Counts
  <1>4. ASSUME NEW r \in Strata
        PROVE  /\ Floors[r] \in Nat
               /\ q * Floors[r] <= p * Counts[r]
               /\ p * Counts[r] <= q * Floors[r] + (q - 1)
    <2>1. PICK c : c = Count(r)
      OBVIOUS
    <2>2. c \in Nat \ {0} /\ Counts[r] = c
      BY <1>3, <2>1
    <2>3. c * p \in Nat /\ c * p = p * c
      BY <1>2, <2>2
    <2>4. /\ (c * p) \div q \in Nat /\ (c * p) % q \in Nat /\ (c * p) % q < q
          /\ c * p = q * ((c * p) \div q) + ((c * p) % q)
      BY <1>2, <2>3, Divided
    <2>5. Floors[r] = (c * p) \div q
      BY <1>1, <2>1 DEF Floors
    <2> DEFINE f == (c * p) \div q
               m == (c * p) % q
    <2>6. f \in Nat /\ m \in Nat /\ m < q /\ p * c = q * f + m /\ Floors[r] = f
      BY <2>3, <2>4, <2>5
    <2> HIDE DEF f, m
    <2>7. q * f \in Nat
      BY <1>2, <2>6
    <2> QED
      BY <1>2, <2>2, <2>6, <2>7
  <1>5. Floors \in [Strata -> Nat]
    BY <1>4 DEF Floors
  <1> DEFINE few == Multiple(q, Floors)
             all == Multiple(p, Counts)
             every == Ones(Strata, Strata)
             rest == Multiple(q - 1, every)
             most == Sum(few, rest)
             F == Total(Floors)
             C == Total(Counts)
             n == Cardinality(Strata)
  <1>6. every \in [Strata -> Nat] /\ Total(every) = n
    BY <1>3, CountingOnes
  <1>7. /\ few \in [Strata -> Nat] /\ Total(few) = q * F
        /\ all \in [Strata -> Nat] /\ Total(all) = p * C
    BY <1>2, <1>3, <1>5, Scaled
  <1>8. rest \in [Strata -> Nat] /\ Total(rest) = (q - 1) * n
    <2> HIDE DEF every
    <2> QED
      BY <1>2, <1>3, <1>6, Scaled
  <1>9. most \in [Strata -> Nat] /\ Total(most) = q * F + (q - 1) * n
    <2> HIDE DEF few, rest
    <2> QED
      BY <1>3, <1>7, <1>8, Adding
  <1>10. ASSUME NEW r \in Strata
         PROVE  few[r] <= all[r] /\ all[r] <= most[r]
    <2>1. few[r] = q * Floors[r] /\ all[r] = p * Counts[r]
      BY <1>3, <1>5 DEF Multiple
    <2>2. rest[r] = q - 1
      <3>1. every[r] = 1 /\ DOMAIN every = Strata
        BY DEF Ones
      <3> HIDE DEF every
      <3> QED
        BY <1>2, <3>1 DEF Multiple
    <2>3. most[r] = few[r] + rest[r]
      <3> HIDE DEF few, rest
      <3> QED
        BY <1>7 DEF Sum
    <2> HIDE DEF few, all, rest, most
    <2> QED
      BY <1>4, <2>1, <2>2, <2>3
  <1>11. F \in Nat /\ C \in Nat /\ n \in Nat
    BY <1>3, <1>5, PlacesAreFinite, FS_CardinalityType
  <1>12. q * F <= p * C /\ p * C <= q * F + (q - 1) * n
    <2> HIDE DEF few, all, most, F, C, n
    <2>1. Total(few) <= Total(all)
      BY <1>3, <1>7, <1>10, Within
    <2>2. Total(all) <= Total(most)
      BY <1>3, <1>7, <1>9, <1>10, Within
    <2> QED
      BY <1>7, <1>9, <2>1, <2>2
  <1>13. /\ GlobalTarget \in Nat
         /\ 2 * (GlobalTarget * q - C * p) \in 1 - q .. q
    BY <1>1, <1>3, GlobalTargetIs
  <1> HIDE DEF F, C, n
  <1>14. /\ q * F \in Nat /\ p * C \in Nat /\ C * p = p * C /\ (q - 1) * n \in Nat
         /\ GlobalTarget * q = q * GlobalTarget /\ q * GlobalTarget \in Nat
    BY <1>2, <1>11, <1>13
  <1>15. F <= GlobalTarget
    <2> SUFFICES ASSUME GlobalTarget < F PROVE FALSE
      BY <1>11, <1>13
    <2>1. q * GlobalTarget + q <= q * F
      BY <1>2, <1>11, <1>13, RoundsApart
    <2> QED
      BY <1>2, <1>12, <1>13, <1>14, <2>1
  <1>16. GlobalTarget <= F + n
    <2> SUFFICES ASSUME F + n < GlobalTarget PROVE FALSE
      BY <1>11, <1>13
    <2>1. q * (F + n) + q <= q * GlobalTarget
      BY <1>2, <1>11, <1>13, RoundsApart
    <2>2. q * (F + n) = q * F + q * n /\ (q - 1) * n = q * n - n /\ q * n \in Nat
      BY <1>2, <1>11
    <2> QED
      BY <1>2, <1>11, <1>12, <1>13, <1>14, <2>1, <2>2
  <1> QED
    BY <1>11, <1>13, <1>15, <1>16 DEF F, n

(* So there are largest remainders to choose.                              *)
LEMMA ToppedUpExists ==
    ASSUME SelectionInv PROVE ToppedUp(GlobalTarget) # {}
  <1>1. PICK k : k = GlobalTarget - Total(Floors)
    OBVIOUS
  <1>2. k \in Nat /\ k <= Cardinality(Strata)
    <2>1. Cardinality(Strata) \in Nat
      BY StrataAre, FS_CardinalityType
    <2> QED
      BY <1>1, <2>1, ShortBy
  <1>3. IsFiniteSet(Strata)
    BY StrataAre
  <1> DEFINE f == [r \in Strata |-> Remainder(r)]
  <1>4. f \in [Strata -> Nat]
    <2>1. ASSUME NEW r \in Strata PROVE Remainder(r) \in Nat
      <3>1. PICK x, q : x = Count(r) * fraction[1] /\ q = fraction[2]
        OBVIOUS
      <3>2. x \in Nat /\ q \in Nat \ {0}
        <4>1. Count(r) \in Nat /\ fraction[1] \in Nat
          BY StrataAre, FractionIs
        <4> QED
          BY <3>1, <4>1, FractionIs
      <3>3. x % q \in Nat
        BY <3>2
      <3> QED
        BY <3>1, <3>3 DEF Remainder
    <2> QED
      BY <2>1
  <1>5. PICK R \in SUBSET Strata : /\ Cardinality(R) = k
                                   /\ \A r \in R, s \in Strata \ R : f[r] >= f[s]
    <2> HIDE DEF f
    <2> QED
      BY <1>2, <1>3, <1>4, Foremost
  <1>6. \A r \in R, s \in Strata \ R : Remainder(r) >= Remainder(s)
    BY <1>5
  <1>7. R \in kSubset(GlobalTarget - Total(Floors), Strata)
    BY <1>1, <1>5 DEF kSubset
  <1> QED
    BY <1>6, <1>7 DEF ToppedUp

(* And a turn of a loop leaves none without an outcome.                    *)
LEMMA TurnGoesOn ==
    ASSUME NEW A, A # {}, NEW k PROVE Turn(A, k) # {}
  <1>1. PICK a \in A : TRUE
    OBVIOUS
  <1>2. GiveTest(A, k) # {}
    <2>1. CASE Count(k) >= 2 /\ a[k] = 0 /\ Donors(a) # {}
      <3>1. PICK donor \in Donors(a) : TRUE
        BY <2>1
      <3>2. Move(a, donor, k) \in GiveTest(A, k)
        BY <2>1, <3>1 DEF GiveTest
      <3> QED
        BY <3>2
    <2>2. CASE ~(Count(k) >= 2 /\ a[k] = 0 /\ Donors(a) # {})
      <3>1. a \in GiveTest(A, k)
        BY <2>2 DEF GiveTest
      <3> QED
        BY <3>1
    <2> QED
      BY <2>1, <2>2
  <1>3. ASSUME NEW j PROVE GiveTrain(A, j) # {}
    <2>1. CASE Count(j) >= 2 /\ a[j] = Count(j) /\ Recipients(a) # {}
      <3>1. PICK taker \in Recipients(a) : TRUE
        BY <2>1
      <3>2. Move(a, j, taker) \in GiveTrain(A, j)
        BY <2>1, <3>1 DEF GiveTrain
      <3> QED
        BY <3>2
    <2>2. CASE ~(Count(j) >= 2 /\ a[j] = Count(j) /\ Recipients(a) # {})
      <3>1. a \in GiveTrain(A, j)
        BY <2>2 DEF GiveTrain
      <3> QED
        BY <3>1
    <2> QED
      BY <2>1, <2>2
  <1> QED
    BY <1>2, <1>3 DEF Turn

(* So an apportionment exists.                                             *)
LEMMA ApportionmentExists ==
    ASSUME SelectionInv PROVE Apportionments(GlobalTarget) # {}
  <1>1. PICK m : m = 2 * Len(audits) /\ m \in Nat
    BY AssignedIsFinite
  <1>2. PICK after : IsGiving(after, GlobalTarget) /\ Apportionments(GlobalTarget) = after[m]
    BY <1>1, Gives
  <1>3. after[0] = ToppedUp(GlobalTarget) /\ \A k \in 1 .. m : after[k] = Turn(after[k - 1], k)
    BY <1>1, <1>2 DEF IsGiving
  <1> DEFINE T == {k \in Nat : k <= m => after[k] # {}}
  <1>4. 0 \in T
    BY <1>3, ToppedUpExists
  <1>5. ASSUME NEW k \in T PROVE k + 1 \in T
    <2> SUFFICES ASSUME k + 1 <= m PROVE after[k + 1] # {}
      OBVIOUS
    <2>1. PICK j, A : j = k + 1 /\ A = after[k]
      OBVIOUS
    <2>2. j \in 1 .. m /\ j - 1 = k /\ k <= m
      BY <1>1, <2>1
    <2>3. A # {}
      BY <2>1, <2>2
    <2>4. after[j] = Turn(A, j)
      BY <1>3, <2>1, <2>2
    <2>5. Turn(A, j) # {}
      BY <2>3, TurnGoesOn
    <2> QED
      BY <2>1, <2>4, <2>5
  <1>6. T \in SUBSET Nat
    OBVIOUS
  <1>7. m \in T
    <2> HIDE DEF T
    <2> QED
      BY <1>1, <1>4, <1>5, <1>6, InductionOn
  <1> QED
    BY <1>2, <1>7

(* What the selection, the apportionment and the draw choose from: as many *)
(* unclaimed scenes as the rule is to get, an allocation, a test set that  *)
(* has the quotas or the target.                                           *)
ChoicesExist ==
    /\ phase = "select" /\ Len(audits) < Len(rules) =>
         LET r == Len(audits) + 1
         IN  kSubset(Smaller(rules[r].quota, Cardinality(Available(r))), Available(r)) # {}
    /\ phase = "apportion" /\ task.split.stratify => Apportionments(GlobalTarget) # {}
    /\ phase = "draw" =>
         IF task.split.stratify
         THEN \E set \in SUBSET Assigned :
                \A r \in Strata : Cardinality(set \cap audits[r].chosen) = quotas[r]
         ELSE kSubset(GlobalTarget, Assigned) # {}

(* The first scenes of each stratum make a test set.                       *)
LEMMA DrawExists ==
    ASSUME SelectionInv, NEW a, Apportioned(a)
    PROVE  \E set \in SUBSET Assigned :
             \A r \in Strata : Cardinality(set \cap audits[r].chosen) = a[r]
  <1>1. /\ \A r \in Strata : r \in DOMAIN audits /\ Count(r) = Cardinality(audits[r].chosen)
        /\ Assigned = UNION {audits[r].chosen : r \in Strata}
    BY StrataAre
  <1> DEFINE ShareOf(r, R) == R \in SUBSET audits[r].chosen /\ Cardinality(R) = a[r]
             share == [r \in Strata |-> CHOOSE R : ShareOf(r, R)]
             set == UNION {share[r] : r \in Strata}
  <1>2. ASSUME NEW r \in Strata PROVE ShareOf(r, share[r])
    <2>1. PICK S : S = audits[r].chosen
      OBVIOUS
    <2>2. IsFiniteSet(S)
      <3>1. S \in SUBSET Assigned
        BY <1>1, <2>1
      <3> QED
        BY <3>1, AssignedIsFinite, FS_Subset
    <2>3. a[r] \in Nat /\ a[r] <= Cardinality(S)
      BY <1>1, <2>1 DEF Apportioned
    <2>4. \E R \in SUBSET S : Cardinality(R) = a[r]
      BY <2>2, <2>3, Subsets
    <2>5. \E R : ShareOf(r, R)
      BY <2>1, <2>4
    <2>6. share[r] = CHOOSE R : ShareOf(r, R)
      OBVIOUS
    <2> HIDE DEF ShareOf, share
    <2> QED
      BY <2>5, <2>6
  <1> HIDE DEF share
  <1>3. set \in SUBSET Assigned
    BY <1>1, <1>2
  <1>4. ASSUME NEW r \in Strata PROVE set \cap audits[r].chosen = share[r]
    <2>1. share[r] \subseteq audits[r].chosen /\ share[r] \subseteq set
      BY <1>2
    <2>2. ASSUME NEW s \in Strata, s # r PROVE share[s] \cap audits[r].chosen = {}
      <3>1. share[s] \subseteq audits[s].chosen
        BY <1>2
      <3>2. audits[s].chosen \cap audits[r].chosen = {}
        BY <1>1, <2>2, ChosenApart
      <3> QED
        BY <3>1, <3>2
    <2> QED
      BY <2>1, <2>2
  <1> HIDE DEF set
  <1>5. \A r \in Strata : Cardinality(set \cap audits[r].chosen) = a[r]
    BY <1>2, <1>4
  <1> QED
    BY <1>3, <1>5

(* No rule, no apportionment and no draw is ever without a choice: the     *)
(* slice of the remainders (split.py:275) is never negative or short.      *)
THEOREM ChoicesAlwaysExist == AssignSpec => []ChoicesExist
  <1>1. SplitInv => ChoicesExist
    <2> SUFFICES ASSUME SplitInv PROVE ChoicesExist
      OBVIOUS
    <2>1. SelectionInv
      BY DEF SplitInv
    <2>2. ASSUME phase = "select", Len(audits) < Len(rules), NEW r, r = Len(audits) + 1
          PROVE  kSubset(Smaller(rules[r].quota, Cardinality(Available(r))), Available(r)) # {}
      <3>1. PICK S, k : S = Available(r) /\ k = Smaller(rules[r].quota, Cardinality(S))
        OBVIOUS
      <3>2. rules[r].quota \in Nat
        BY <2>1, <2>2, Sizes DEF SelectionInv
      <3>3. IsFiniteSet(S) /\ Cardinality(S) \in Nat
        BY <2>1, <3>1, Finite DEF SelectionInv
      <3>4. k \in Nat /\ k <= Cardinality(S)
        BY <3>1, <3>2, <3>3 DEF Smaller
      <3>5. PICK R \in SUBSET S : Cardinality(R) = k
        BY <3>3, <3>4, Subsets
      <3>6. R \in kSubset(k, S)
        BY <3>5 DEF kSubset
      <3> QED
        BY <3>1, <3>6
    <2>3. Apportionments(GlobalTarget) # {}
      BY <2>1, ApportionmentExists
    <2>4. ASSUME phase = "draw", task.split.stratify
          PROVE  \E set \in SUBSET Assigned :
                   \A r \in Strata : Cardinality(set \cap audits[r].chosen) = quotas[r]
      <3>1. Apportioned(quotas)
        BY <2>4 DEF SplitInv, Trained, Tested
      <3> QED
        BY <2>1, <3>1, DrawExists
    <2>5. kSubset(GlobalTarget, Assigned) # {}
      <3>1. PICK R \in SUBSET Assigned : Cardinality(R) = GlobalTarget
        BY <2>1, AssignedIsFinite, GlobalTargetIs, Subsets
      <3>2. R \in kSubset(GlobalTarget, Assigned)
        BY <3>1 DEF kSubset
      <3> QED
        BY <3>2
    <2> QED
      BY <2>2, <2>3, <2>4, <2>5 DEF ChoicesExist
  <1> QED
    BY <1>1, SplitInvariance, PTL

-----------------------------------------------------------------------------
(* 7. Validity (validity.py, coordinator.py).                              *)

(* Of a sequence, every element once.                                      *)
LEMMA Distincts ==
    ASSUME NEW S, NEW seq, Len(seq) \in Nat, \A i \in 1 .. Len(seq) : seq[i] \in S
    PROVE  Distinct(seq) \in Seq(S)
  <1> DEFINE n == Len(seq)
             Def(g) == g = [k \in 0 .. n |->
                             IF k = 0 THEN <<>>
                             ELSE IF seq[k] \in {seq[m] : m \in 1 .. k - 1} THEN g[k - 1]
                             ELSE Append(g[k - 1], seq[k])]
             seen == CHOOSE g : Def(g)
             D == [s \in Seq(S) |-> [k \in 1 .. n |->
                     IF seq[k] \in {seq[m] : m \in 1 .. k - 1} THEN s ELSE Append(s, seq[k])]]
  <1>1. Distinct(seq) = seen[n]
    BY DEF Distinct
  <1>2. D \in [Seq(S) -> [1 .. n -> Seq(S)]]
    <2>1. ASSUME NEW s \in Seq(S), NEW k \in 1 .. n PROVE Append(s, seq[k]) \in Seq(S)
      BY Appending
    <2> QED
      BY <2>1
  <1>3. <<>> \in Seq(S)
    OBVIOUS
  <1> HIDE DEF D
  <1>4. PICK g \in [0 .. n -> Seq(S)] : Run(g, <<>>, n, D)
    BY <1>2, <1>3, Iterates
  <1>5. Def(g)
    <2>1. g[0] = <<>> /\ \A k \in 1 .. n : g[k] = D[g[k - 1]][k]
      BY <1>4 DEF Run
    <2>2. ASSUME NEW k \in 0 .. n
          PROVE  g[k] = IF k = 0 THEN <<>>
                        ELSE IF seq[k] \in {seq[m] : m \in 1 .. k - 1} THEN g[k - 1]
                        ELSE Append(g[k - 1], seq[k])
      <3>1. CASE k = 0
        BY <2>1, <3>1
      <3>2. CASE k # 0
        <4>1. k \in 1 .. n /\ k - 1 \in 0 .. n
          BY <3>2
        <4>2. g[k - 1] \in Seq(S)
          BY <1>4, <4>1
        <4> QED
          BY <2>1, <3>2, <4>1, <4>2 DEF D
      <3> QED
        BY <3>1, <3>2
    <2> QED
      BY <1>4, <2>2
  <1>6. Def(seen)
    <2> HIDE DEF Def
    <2> QED
      BY <1>5
  <1> DEFINE T == {k \in Nat : k <= n => seen[k] \in Seq(S)}
  <1>7. \A k \in 0 .. n : seen[k] = IF k = 0 THEN <<>>
                        ELSE IF seq[k] \in {seq[m] : m \in 1 .. k - 1} THEN seen[k - 1]
                        ELSE Append(seen[k - 1], seq[k])
    BY <1>6
  <1> HIDE DEF seen
  <1>8. 0 \in T
    <2>1. seen[0] = <<>>
      BY <1>7
    <2> QED
      BY <1>3, <2>1
  <1>9. ASSUME NEW k \in T PROVE k + 1 \in T
    <2> SUFFICES ASSUME k + 1 <= n PROVE seen[k + 1] \in Seq(S)
      OBVIOUS
    <2>1. PICK l : l = k + 1
      OBVIOUS
    <2>2. l \in 1 .. n /\ l \in 0 .. n /\ l # 0 /\ l - 1 = k /\ seen[k] \in Seq(S)
      BY <2>1
    <2>3. seen[l] = seen[k] \/ seen[l] = Append(seen[k], seq[l])
      BY <1>7, <2>2
    <2>4. Append(seen[k], seq[l]) \in Seq(S)
      BY <2>2, Appending
    <2> QED
      BY <2>1, <2>2, <2>3, <2>4
  <1>10. T \in SUBSET Nat
    OBVIOUS
  <1>11. n \in T
    <2> HIDE DEF T
    <2> QED
      BY <1>8, <1>9, <1>10, InductionOn
  <1> QED
    BY <1>1, <1>11

(* What is kept are the list that were judged so.                        *)
LEMMA Keeps ==
    ASSUME NEW list, Len(list) \in Nat, DOMAIN list = 1 .. Len(list), NEW valid
    PROVE  ToSet(Judged(list, valid)) = {a \in ToSet(list) : a.valid = valid}
  <1> DEFINE n == Len(list)
             S == ToSet(list)
             Def(g) == g = [k \in 0 .. n |->
                             IF k = 0 THEN <<>>
                             ELSE IF list[k].valid = valid THEN Append(g[k - 1], list[k])
                             ELSE g[k - 1]]
             kept == CHOOSE g : Def(g)
             D == [s \in Seq(S) |-> [k \in 1 .. n |->
                     IF list[k].valid = valid THEN Append(s, list[k]) ELSE s]]
  <1>0. \A k \in 1 .. n : list[k] \in S
    BY DEF ToSet
  <1>1. Judged(list, valid) = kept[n]
    BY DEF Judged
  <1>2. D \in [Seq(S) -> [1 .. n -> Seq(S)]]
    <2>1. ASSUME NEW s \in Seq(S), NEW k \in 1 .. n PROVE Append(s, list[k]) \in Seq(S)
      BY <1>0, Appending
    <2> HIDE DEF S
    <2> QED
      BY <2>1
  <1>3. <<>> \in Seq(S)
    OBVIOUS
  <1> HIDE DEF D
  <1>4. PICK g \in [0 .. n -> Seq(S)] : Run(g, <<>>, n, D)
    <2> HIDE DEF S, n
    <2> QED
      BY <1>2, <1>3, Iterates DEF n
  <1>5. g[0] = <<>> /\ \A k \in 1 .. n : g[k] = D[g[k - 1]][k]
    BY <1>4 DEF Run
  <1>6. ASSUME NEW k \in 1 .. n
        PROVE  /\ g[k - 1] \in Seq(S)
               /\ g[k] = IF list[k].valid = valid THEN Append(g[k - 1], list[k]) ELSE g[k - 1]
    <2>1. k - 1 \in 0 .. n
      OBVIOUS
    <2>2. g[k - 1] \in Seq(S)
      BY <1>4, <2>1
    <2> HIDE DEF S
    <2> QED
      BY <1>5, <2>2 DEF D
  <1>7. Def(g)
    <2>1. ASSUME NEW k \in 0 .. n
          PROVE  g[k] = IF k = 0 THEN <<>>
                        ELSE IF list[k].valid = valid THEN Append(g[k - 1], list[k])
                        ELSE g[k - 1]
      <3>1. CASE k = 0
        BY <1>5, <3>1
      <3>2. CASE k # 0
        <4>1. k \in 1 .. n
          BY <3>2
        <4> QED
          BY <1>6, <3>2, <4>1
      <3> QED
        BY <3>1, <3>2
    <2> QED
      BY <1>4, <2>1
  <1>8. Def(kept)
    <2> HIDE DEF Def
    <2> QED
      BY <1>7
  <1>9. \A k \in 0 .. n : kept[k] = IF k = 0 THEN <<>>
                        ELSE IF list[k].valid = valid THEN Append(kept[k - 1], list[k])
                        ELSE kept[k - 1]
    BY <1>8
  <1> DEFINE Told(k) == {list[j] : j \in {i \in 1 .. k : list[i].valid = valid}}
             T == {k \in Nat : k <= n => kept[k] \in Seq(S) /\ ToSet(kept[k]) = Told(k)}
  <1> HIDE DEF kept, S
  <1>10. 0 \in T
    <2>1. Told(0) = {} /\ ToSet(<<>>) = {}
      BY DEF ToSet
    <2>2. kept[0] = <<>>
      BY <1>9
    <2> QED
      BY <1>3, <2>1, <2>2
  <1>11. ASSUME NEW k \in T PROVE k + 1 \in T
    <2>0. ASSUME k + 1 <= n PROVE kept[k + 1] \in Seq(S) /\ ToSet(kept[k + 1]) = Told(k + 1)
      <3>1. PICK l : l = k + 1
        OBVIOUS
      <3>2. /\ l \in 1 .. n /\ l \in 0 .. n /\ l # 0 /\ l - 1 = k
            /\ kept[k] \in Seq(S) /\ ToSet(kept[k]) = Told(k)
        BY <2>0, <3>1
      <3>3. 1 .. l = (1 .. k) \cup {l}
        BY <3>1
      <3>4. CASE list[l].valid = valid
        <4>1. kept[l] = Append(kept[k], list[l])
          BY <1>9, <3>2, <3>4
        <4>2. kept[l] \in Seq(S) /\ ToSet(kept[l]) = ToSet(kept[k]) \cup {list[l]}
          <5>1. PICK x, s : x = list[l] /\ s = kept[k]
            OBVIOUS
          <5>2. x \in S /\ s \in Seq(S)
            BY <1>0, <3>2, <5>1
          <5>3. Append(s, x) \in Seq(S) /\ ToSet(Append(s, x)) = ToSet(s) \cup {x}
            BY <5>2, Appending
          <5> QED
            BY <4>1, <5>1, <5>3
        <4>3. Told(l) = Told(k) \cup {list[l]}
          BY <3>3, <3>4
        <4> QED
          BY <3>1, <3>2, <4>2, <4>3
      <3>5. CASE list[l].valid # valid
        <4>1. kept[l] = kept[k]
          BY <1>9, <3>2, <3>5
        <4>2. Told(l) = Told(k)
          BY <3>3, <3>5
        <4> QED
          BY <3>1, <3>2, <4>1, <4>2
      <3> QED
        BY <3>4, <3>5
    <2> QED
      BY <2>0
  <1>12. T \in SUBSET Nat
    OBVIOUS
  <1>13. n \in T
    <2> HIDE DEF T
    <2> QED
      BY <1>10, <1>11, <1>12, InductionOn
  <1>14. ToSet(Judged(list, valid)) = Told(n)
    BY <1>1, <1>13
  <1>15. Told(n) = {a \in S : a.valid = valid}
    BY DEF S, ToSet
  <1> QED
    BY <1>14, <1>15 DEF S

(* The same observations, were other codes enabled.                        *)
Turned(X, codes) == {[o EXCEPT !.enabled = o.code \in codes] : o \in X}

(* An observation has these fields; one of a batch is about that batch.    *)
IsObserved(o) ==
    o = [code |-> o.code, scope |-> o.scope, target |-> o.target, batch |-> o.batch,
         enabled |-> o.enabled]

IsAt(o, batch) == o.batch = {batch}

(* Configurations that differ in what is enabled at most.                  *)
Alike(c, d) == c.required = d.required /\ c.gap = d.gap /\ c.policy = d.policy

(* Whether one of the codes was observed, and what an audit observes.      *)
Blamed(X, codes) == \E o \in X : o.code \in codes
OwnFacts(X, c, batch) ==
    \A o \in X : /\ IsObserved(o) /\ o.scope # "grid" /\ IsAt(o, batch)
                 /\ o.enabled = (o.code \in c.enabled)

(* An observation under another configuration is the same one, turned.     *)
LEMMA TurnsOne ==
    ASSUME NEW c, NEW d, NEW code, NEW scope, NEW target, NEW batch
    PROVE  LET o == Observation(c, code, scope, target, batch)
           IN  /\ IsObserved(o) /\ o.code = code /\ o.batch = batch /\ o.scope = scope
               /\ o.target = target /\ o.enabled = (code \in c.enabled)
               /\ [o EXCEPT !.enabled = o.code \in d.enabled]
                    = Observation(d, code, scope, target, batch)
  BY DEF Observation, IsObserved

(* What is turned tells the same, and is enabled for its code.             *)
LEMMA TurnedTells ==
    ASSUME NEW X, \A o \in X : IsObserved(o), NEW codes
    PROVE  /\ Facts(Turned(X, codes)) = Facts(X)
           /\ Enabled(Turned(X, codes)) <=> \E o \in X : o.code \in codes
  <1>1. ASSUME NEW o \in X
        PROVE  /\ [[o EXCEPT !.enabled = o.code \in codes] EXCEPT !.enabled = FALSE]
                    = [o EXCEPT !.enabled = FALSE]
               /\ [o EXCEPT !.enabled = o.code \in codes].enabled = (o.code \in codes)
    <2>1. PICK a, b, c, d, e : o = [code |-> a, scope |-> b, target |-> c, batch |-> d, enabled |-> e]
      BY DEF IsObserved
    <2> QED
      BY <2>1
  <1>2. Facts(Turned(X, codes)) = Facts(X)
    <2> DEFINE Re(o) == [o EXCEPT !.enabled = o.code \in codes]
               Bare(o) == [o EXCEPT !.enabled = FALSE]
    <2>1. Facts(X) = {Bare(o) : o \in X} /\ Facts(Turned(X, codes)) = {Bare(p) : p \in Turned(X, codes)}
      BY DEF Facts
    <2>2. Turned(X, codes) = {Re(o) : o \in X}
      BY DEF Turned
    <2>3. \A o \in X : Bare(Re(o)) = Bare(o)
      BY <1>1
    <2> HIDE DEF Re, Bare
    <2> QED
      BY <2>1, <2>2, <2>3
  <1>3. Enabled(Turned(X, codes)) <=> \E o \in X : o.code \in codes
    BY <1>1 DEF Enabled, Turned
  <1> QED
    BY <1>2, <1>3

(* Observations are turned one by one.                                     *)
LEMMA TurnedUnion ==
    ASSUME NEW X, NEW Y, NEW codes
    PROVE  Turned(X \cup Y, codes) = Turned(X, codes) \cup Turned(Y, codes)
  BY DEF Turned

(* What is observed of one batch.                                          *)
Here(X, batch) == {o \in X : IsAt(o, batch)}

(* Turning does not change what batch an observation is of.                *)
LEMMA TurnedHere ==
    ASSUME NEW X, \A o \in X : IsObserved(o), NEW codes, NEW batch
    PROVE  Here(Turned(X, codes), batch) = Turned(Here(X, batch), codes)
  <1>1. ASSUME NEW o \in X PROVE [o EXCEPT !.enabled = o.code \in codes].batch = o.batch
    <2>1. PICK a, b, c, d, e : o = [code |-> a, scope |-> b, target |-> c, batch |-> d, enabled |-> e]
      BY DEF IsObserved
    <2> QED
      BY <2>1
  <1> QED
    BY <1>1 DEF Turned, Here, IsAt

(* The codes of one clock step of a camera.                                *)
StepCodes(step, gap) ==
    (IF step <= 0 THEN {"camera_timestamp_non_monotonic"} ELSE {})
      \cup (IF step > gap THEN {"camera_timestamp_gap_exceeded"} ELSE {})

(* What is in the timeline.                                                *)
LEMMA InTimeline ==
    ASSUME NEW log, NEW c, NEW o
    PROVE  o \in TimelineObservations(log, c) <=>
             \E f \in DOMAIN Timeline(log.batches) :
               \E step \in Step(Timeline(log.batches), f) :
                 \E code \in StepCodes(step, c.gap) :
                   o = Observation(c, code, "camera",
                                   TargetsOf(log.selection, Timeline(log.batches)[f].batch),
                                   {Timeline(log.batches)[f].batch})
  <1> DEFINE frames == Timeline(log.batches)
             O(f, code) == Observation(c, code, "camera",
                                       TargetsOf(log.selection, frames[f].batch),
                                       {frames[f].batch})
             G(f, step) == {O(f, code) : code \in StepCodes(step, c.gap)}
             H(f) == UNION {G(f, step) : step \in Step(frames, f)}
  <1>1. TimelineObservations(log, c) = UNION {H(f) : f \in DOMAIN frames}
    BY DEF TimelineObservations, StepCodes
  <1>2. o \in TimelineObservations(log, c) <=> \E f \in DOMAIN frames : o \in H(f)
    <2> HIDE DEF H, frames
    <2> QED
      BY <1>1
  <1>3. \A f : o \in H(f) <=> \E step \in Step(frames, f) : o \in G(f, step)
    <2> HIDE DEF G, frames
    <2> QED
      OBVIOUS
  <1>4. \A f, step : o \in G(f, step) <=> \E code \in StepCodes(step, c.gap) : o = O(f, code)
    <2> HIDE DEF O
    <2> QED
      OBVIOUS
  <1>5. o \in TimelineObservations(log, c) <=>
             \E f \in DOMAIN frames : \E step \in Step(frames, f) :
               \E code \in StepCodes(step, c.gap) : o = O(f, code)
    <2> HIDE DEF H, G, O, frames
    <2> QED
      BY <1>2, <1>3, <1>4
  <1> QED
    BY <1>5

(* The timeline under another configuration is the same one, turned.       *)
LEMMA TimelineTurns ==
    ASSUME NEW log, NEW c, NEW d, Alike(c, d)
    PROVE  /\ \A o \in TimelineObservations(log, c) : IsObserved(o) /\ o.scope = "camera"
                                                      /\ o.enabled = (o.code \in c.enabled)
           /\ TimelineObservations(log, d) = Turned(TimelineObservations(log, c), d.enabled)
  <1> DEFINE X == TimelineObservations(log, c)
             Y == TimelineObservations(log, d)
             frames == Timeline(log.batches)
             T(f) == TargetsOf(log.selection, frames[f].batch)
             Is(e, o, f, step, code) == o = Observation(e, code, "camera", T(f), {frames[f].batch})
  <1>1. c.gap = d.gap
    BY DEF Alike
  <1>2. \A o : o \in X <=> \E f \in DOMAIN frames : \E step \in Step(frames, f) :
                             \E code \in StepCodes(step, c.gap) : Is(c, o, f, step, code)
    BY InTimeline
  <1>3. \A o : o \in Y <=> \E f \in DOMAIN frames : \E step \in Step(frames, f) :
                             \E code \in StepCodes(step, c.gap) : Is(d, o, f, step, code)
    <2>1. \A o : o \in Y <=> \E f \in DOMAIN frames : \E step \in Step(frames, f) :
                             \E code \in StepCodes(step, d.gap) : Is(d, o, f, step, code)
      BY InTimeline
    <2> QED
      BY <1>1, <2>1
  <1> HIDE DEF X, Y, frames, T
  <1>4. ASSUME NEW o \in X
        PROVE  /\ IsObserved(o) /\ o.scope = "camera" /\ o.enabled = (o.code \in c.enabled)
               /\ [o EXCEPT !.enabled = o.code \in d.enabled] \in Y
    <2>1. PICK f \in DOMAIN frames : \E step \in Step(frames, f) :
                             \E code \in StepCodes(step, c.gap) : Is(c, o, f, step, code)
      BY <1>2
    <2>2. PICK step \in Step(frames, f) : \E code \in StepCodes(step, c.gap) : Is(c, o, f, step, code)
      BY <2>1
    <2>3. PICK code \in StepCodes(step, c.gap) : Is(c, o, f, step, code)
      BY <2>2
    <2>4. PICK t, b : t = T(f) /\ b = {frames[f].batch}
      OBVIOUS
    <2>5. o = Observation(c, code, "camera", t, b)
      BY <2>3, <2>4
    <2>6. /\ IsObserved(o) /\ o.code = code /\ o.scope = "camera"
          /\ o.enabled = (code \in c.enabled)
          /\ [o EXCEPT !.enabled = o.code \in d.enabled] = Observation(d, code, "camera", t, b)
      BY <2>5, TurnsOne
    <2> QED
      BY <1>3, <2>4, <2>6
  <1>5. ASSUME NEW p \in Y PROVE \E o \in X : p = [o EXCEPT !.enabled = o.code \in d.enabled]
    <2>1. PICK f \in DOMAIN frames : \E step \in Step(frames, f) :
                             \E code \in StepCodes(step, c.gap) : Is(d, p, f, step, code)
      BY <1>3
    <2>2. PICK step \in Step(frames, f) : \E code \in StepCodes(step, c.gap) : Is(d, p, f, step, code)
      BY <2>1
    <2>3. PICK code \in StepCodes(step, c.gap) : Is(d, p, f, step, code)
      BY <2>2
    <2>4. PICK t, b : t = T(f) /\ b = {frames[f].batch}
      OBVIOUS
    <2>5. PICK o : o = Observation(c, code, "camera", t, b)
      OBVIOUS
    <2>6. o \in X
      BY <1>2, <2>4, <2>5
    <2>7. [o EXCEPT !.enabled = o.code \in d.enabled] = Observation(d, code, "camera", t, b)
      BY <2>5, TurnsOne
    <2> QED
      BY <2>3, <2>4, <2>6, <2>7
  <1>6. Y = Turned(X, d.enabled)
    BY <1>4, <1>5 DEF Turned
  <1> QED
    BY <1>4, <1>6 DEF X, Y

(* Observations of one kind about one batch or target.                     *)
OfCodes(c, codes, scope, target, batch) ==
    {Observation(c, code, scope, target, batch) : code \in codes}

(* And so are the observations of a set of codes.                          *)
LEMMA TurnsAll ==
    ASSUME NEW c, NEW d, NEW codes, NEW scope, NEW target, NEW batch
    PROVE  LET X == OfCodes(c, codes, scope, target, batch)
           IN  /\ \A o \in X : /\ IsObserved(o) /\ o.scope = scope /\ o.batch = batch
                               /\ o.target = target /\ o.enabled = (o.code \in c.enabled)
               /\ OfCodes(d, codes, scope, target, batch) = Turned(X, d.enabled)
  <1> DEFINE X == OfCodes(c, codes, scope, target, batch)
             Re(o) == [o EXCEPT !.enabled = o.code \in d.enabled]
  <1>1. ASSUME NEW code \in codes
        PROVE  LET o == Observation(c, code, scope, target, batch)
               IN  /\ IsObserved(o) /\ o.scope = scope /\ o.batch = batch
                   /\ o.target = target /\ o.enabled = (o.code \in c.enabled)
                   /\ Re(o) = Observation(d, code, scope, target, batch)
    BY TurnsOne
  <1>2. \A o \in X : /\ IsObserved(o) /\ o.scope = scope /\ o.batch = batch
                     /\ o.target = target /\ o.enabled = (o.code \in c.enabled)
    BY <1>1 DEF OfCodes
  <1>3. OfCodes(d, codes, scope, target, batch) = {Re(o) : o \in X}
    <2> HIDE DEF Re
    <2> QED
      BY <1>1 DEF OfCodes
  <1> QED
    BY <1>2, <1>3 DEF Turned

(* What is observed of a selected batch besides the timeline.              *)
CamerasOf(log, entry) ==
    {FramesOf(log, entry.batch)[f].camera : f \in DOMAIN FramesOf(log, entry.batch)}
MissingCodes(log, c, entry) ==
    IF c.required \subseteq CamerasOf(log, entry) THEN {} ELSE {"missing_required_camera"}
PosesCodes(log, entry) ==
    UNION {PoseCodes(FramesOf(log, entry.batch)[f].pose) : f \in DOMAIN FramesOf(log, entry.batch)}
OwnObservations(log, c, entry) ==
    OfCodes(c, MissingCodes(log, c, entry), "sample", {entry.target}, {entry.batch})
      \cup OfCodes(c, PosesCodes(log, entry), "pose", {entry.target}, {entry.batch})

(* The audit of a batch.                                                   *)
LEMMA AuditIs ==
    ASSUME NEW log, NEW c, NEW timeline, NEW entry, NEW a, a = Audit(log, c, timeline, entry)
    PROVE  /\ a.target = entry.target /\ a.batch = entry.batch
           /\ a.observations = Here(timeline, entry.batch) \cup OwnObservations(log, c, entry)
           /\ a.valid = ~Enabled(a.observations)
  <1> DEFINE missing == IF c.required \subseteq CamerasOf(log, entry) THEN {}
                        ELSE {Observation(c, "missing_required_camera", "sample",
                                          {entry.target}, {entry.batch})}
             poses == {Observation(c, code, "pose", {entry.target}, {entry.batch}) :
                         code \in PosesCodes(log, entry)}
             observations == {o \in timeline : o.batch = {entry.batch}} \cup missing \cup poses
  <1>1. missing = OfCodes(c, MissingCodes(log, c, entry), "sample", {entry.target}, {entry.batch})
    BY DEF OfCodes, MissingCodes
  <1>2. poses = OfCodes(c, PosesCodes(log, entry), "pose", {entry.target}, {entry.batch})
    BY DEF OfCodes
  <1>3. observations = {o \in timeline : o.batch = {entry.batch}} \cup OwnObservations(log, c, entry)
    BY <1>1, <1>2 DEF OwnObservations
  <1>4. Audit(log, c, timeline, entry)
          = [target |-> entry.target, batch |-> entry.batch, frames |-> FramesOf(log, entry.batch),
             pictures |-> Len(FramesOf(log, entry.batch)), observations |-> observations,
             valid |-> ~Enabled(observations)]
    BY DEF Audit, CamerasOf, PosesCodes
  <1> HIDE DEF observations
  <1> QED
    BY <1>3, <1>4 DEF Here, IsAt

(* Two audits of an entry: the same facts, judged by what is enabled.      *)
AuditsTurn(a, b, entry, c, d) ==
    /\ OwnFacts(a.observations, c, entry.batch)
    /\ b.observations = Turned(a.observations, d.enabled)
    /\ b.valid = ~Blamed(a.observations, d.enabled)

(* And under another configuration.                                        *)
LEMMA AuditTurns ==
    ASSUME NEW log, NEW c, NEW d, Alike(c, d), NEW entry, NEW a, NEW b,
           a = Audit(log, c, TimelineObservations(log, c), entry),
           b = Audit(log, d, TimelineObservations(log, d), entry)
    PROVE  AuditsTurn(a, b, entry, c, d)
  <1> DEFINE tc == TimelineObservations(log, c)
             td == TimelineObservations(log, d)
             M(e) == OfCodes(e, MissingCodes(log, c, entry), "sample", {entry.target}, {entry.batch})
             P(e) == OfCodes(e, PosesCodes(log, entry), "pose", {entry.target}, {entry.batch})
  <1>1. /\ \A o \in tc : IsObserved(o) /\ o.scope = "camera" /\ o.enabled = (o.code \in c.enabled)
        /\ td = Turned(tc, d.enabled)
    BY TimelineTurns
  <1>2. MissingCodes(log, c, entry) = MissingCodes(log, d, entry)
    BY DEF MissingCodes, Alike
  <1>3. a.observations = Here(tc, entry.batch) \cup M(c) \cup P(c)
    <2>1. a.observations = Here(tc, entry.batch) \cup OwnObservations(log, c, entry)
      BY AuditIs
    <2> QED
      BY <2>1 DEF OwnObservations
  <1>4. b.observations = Here(td, entry.batch) \cup M(d) \cup P(d) /\ b.valid = ~Enabled(b.observations)
    <2>1. /\ b.observations = Here(td, entry.batch) \cup OwnObservations(log, d, entry)
          /\ b.valid = ~Enabled(b.observations)
      BY AuditIs
    <2>2. OwnObservations(log, d, entry) = M(d) \cup P(d)
      BY <1>2 DEF OwnObservations
    <2> HIDE DEF M, P
    <2> QED
      BY <2>1, <2>2
  <1>5. M(d) = Turned(M(c), d.enabled) /\ P(d) = Turned(P(c), d.enabled)
        /\ \A o \in M(c) \cup P(c) : /\ IsObserved(o) /\ o.scope # "grid"
                                     /\ o.batch = {entry.batch} /\ o.enabled = (o.code \in c.enabled)
    <2>1. /\ \A o \in M(c) : /\ IsObserved(o) /\ o.scope = "sample"
                             /\ o.batch = {entry.batch} /\ o.enabled = (o.code \in c.enabled)
          /\ M(d) = Turned(M(c), d.enabled)
      BY TurnsAll
    <2>2. /\ \A o \in P(c) : /\ IsObserved(o) /\ o.scope = "pose"
                             /\ o.batch = {entry.batch} /\ o.enabled = (o.code \in c.enabled)
          /\ P(d) = Turned(P(c), d.enabled)
      BY TurnsAll
    <2> HIDE DEF M, P
    <2> QED
      BY <2>1, <2>2
  <1> HIDE DEF tc, td, M, P
  <1>6. Here(td, entry.batch) = Turned(Here(tc, entry.batch), d.enabled)
    <2>1. PICK X, codes, batch : X = tc /\ codes = d.enabled /\ batch = entry.batch
      OBVIOUS
    <2>2. \A o \in X : IsObserved(o)
      BY <1>1, <2>1
    <2>3. Here(Turned(X, codes), batch) = Turned(Here(X, batch), codes)
      BY <2>2, TurnedHere
    <2> QED
      BY <1>1, <2>1, <2>3
  <1>7. b.observations = Turned(a.observations, d.enabled)
    <2>1. PICK X, Y, Z, codes : X = Here(tc, entry.batch) /\ Y = M(c) /\ Z = P(c) /\ codes = d.enabled
      OBVIOUS
    <2>2. /\ Turned(X \cup Y, codes) = Turned(X, codes) \cup Turned(Y, codes)
          /\ Turned((X \cup Y) \cup Z, codes) = Turned(X \cup Y, codes) \cup Turned(Z, codes)
      BY TurnedUnion
    <2> QED
      BY <1>3, <1>4, <1>5, <1>6, <2>1, <2>2
  <1>8. \A o \in a.observations :
                    /\ IsObserved(o) /\ o.scope # "grid" /\ IsAt(o, entry.batch)
                    /\ o.enabled = (o.code \in c.enabled)
    BY <1>1, <1>3, <1>5 DEF Here, IsAt
  <1>9. b.valid = ~\E o \in a.observations : o.code \in d.enabled
    <2>1. PICK X, codes : X = a.observations /\ codes = d.enabled
      OBVIOUS
    <2>2. Enabled(Turned(X, codes)) <=> \E o \in X : o.code \in codes
      BY <1>8, <2>1, TurnedTells
    <2> QED
      BY <1>4, <1>7, <2>1, <2>2
  <1> QED
    BY <1>7, <1>8, <1>9 DEF OwnFacts, Blamed, AuditsTurn

(* The audits of a recording, what they tell, and those that are valid.    *)
Audits(log, c) ==
    [e \in DOMAIN log.selection.entries |->
        Audit(log, c, TimelineObservations(log, c), log.selection.entries[e])]
MissOf(c, target) == Observation(c, "grid_miss", "grid", {target}, {})
MissesOf(c, targets) == {MissOf(c, target) : target \in targets}
Judgements(log, c) == {Audits(log, c)[e] : e \in DOMAIN log.selection.entries}
Told(log, c) == UNION {a.observations : a \in Judgements(log, c)}
ValidOnes(log, c) == {a \in Judgements(log, c) : a.valid = TRUE}

(* A recording with a grid.                                                *)
HasGrid(log) == log.selection.entries \in Seq([target : Int, batch : Int])

(* The audits are a sequence, one for each entry.                          *)
LEMMA AuditsAre ==
    ASSUME NEW log, HasGrid(log), NEW c
    PROVE  /\ Len(Audits(log, c)) \in Nat /\ DOMAIN Audits(log, c) = 1 .. Len(Audits(log, c))
           /\ DOMAIN Audits(log, c) = DOMAIN log.selection.entries
           /\ ToSet(Audits(log, c)) = Judgements(log, c)
  <1>1. PICK entries, n : entries = log.selection.entries /\ n = Len(entries)
    OBVIOUS
  <1>2. n \in Nat /\ DOMAIN entries = 1 .. n
    BY <1>1 DEF HasGrid
  <1>3. DOMAIN Audits(log, c) = 1 .. n /\ Audits(log, c) \in Seq(Judgements(log, c))
    BY <1>1, <1>2 DEF Audits, Judgements
  <1>4. Len(Audits(log, c)) = n
    BY <1>2, <1>3
  <1> QED
    BY <1>1, <1>2, <1>3, <1>4 DEF ToSet, Judgements

(* The report, part by part.                                               *)
LEMMA ReportIs ==
    ASSUME NEW log, HasGrid(log), NEW c, NEW r, r = EvaluateValidity(log, c),
           NEW misses, misses = ToSet(log.selection.misses)
    PROVE  /\ r.observations = TimelineObservations(log, c)
                                 \cup Told(log, c) \cup MissesOf(c, misses)
           /\ r.valid = ~Enabled(r.observations)
           /\ ToSet(r.final) = ValidOnes(log, c)
  <1> DEFINE A == Audits(log, c)
             timeline == TimelineObservations(log, c)
             observations == timeline \cup (UNION {a.observations : a \in ToSet(A)})
                               \cup {MissOf(c, target) : target \in misses}
  <1>1. r = ReportOf(log, c, timeline, A)
    BY DEF EvaluateValidity, Audits
  <1>2. /\ Len(A) \in Nat /\ DOMAIN A = 1 .. Len(A) /\ ToSet(A) = Judgements(log, c)
    BY AuditsAre
  <1> HIDE DEF A, timeline
  <1>3. /\ r.observations = observations
        /\ r.valid = ~Enabled(observations)
        /\ r.final = Judged(A, TRUE)
    BY <1>1 DEF ReportOf, MissOf
  <1> HIDE DEF observations
  <1>4. ToSet(r.final) = {a \in Judgements(log, c) : a.valid = TRUE}
    BY <1>2, <1>3, Keeps
  <1>5. observations = timeline \cup Told(log, c) \cup MissesOf(c, misses)
    BY <1>2 DEF observations, Told, MissesOf
  <1> QED
    BY <1>3, <1>4, <1>5 DEF timeline, ValidOnes

(* What each entry's audit says under two configurations.                  *)
AuditsTurned(log, c, d) ==
    \A e \in DOMAIN log.selection.entries :
        LET a == Audits(log, c)[e]
            b == Audits(log, d)[e]
            entry == log.selection.entries[e]
        IN  /\ a.target = entry.target /\ b.target = entry.target
            /\ b.batch = entry.batch
            /\ \A o \in a.observations :
                 /\ IsObserved(o) /\ o.scope # "grid" /\ IsAt(o, entry.batch)
                 /\ o.enabled = (o.code \in c.enabled)
            /\ b.observations = Turned(a.observations, d.enabled)
            /\ b.valid = ~\E o \in a.observations : o.code \in d.enabled

(* The audits of two such configurations are of the same facts.            *)
LEMMA EachTurns ==
    ASSUME NEW log, HasGrid(log), NEW c, NEW d, Alike(c, d)
    PROVE  AuditsTurned(log, c, d)
  <1> SUFFICES ASSUME NEW e \in DOMAIN log.selection.entries
               PROVE  LET a == Audits(log, c)[e]
                          b == Audits(log, d)[e]
                          entry == log.selection.entries[e]
                      IN  /\ a.target = entry.target /\ b.target = entry.target
                          /\ b.batch = entry.batch
                          /\ \A o \in a.observations :
                               /\ IsObserved(o) /\ o.scope # "grid" /\ IsAt(o, entry.batch)
                               /\ o.enabled = (o.code \in c.enabled)
                          /\ b.observations = Turned(a.observations, d.enabled)
                          /\ b.valid = ~\E o \in a.observations : o.code \in d.enabled
    BY DEF AuditsTurned
  <1>1. PICK entry : entry = log.selection.entries[e]
    OBVIOUS
  <1>2. /\ Audits(log, c)[e] = Audit(log, c, TimelineObservations(log, c), entry)
        /\ Audits(log, d)[e] = Audit(log, d, TimelineObservations(log, d), entry)
    BY <1>1 DEF Audits
  <1>3. PICK a, b : a = Audits(log, c)[e] /\ b = Audits(log, d)[e]
    OBVIOUS
  <1>4. PICK tc, td : tc = TimelineObservations(log, c) /\ td = TimelineObservations(log, d)
    OBVIOUS
  <1>5. a = Audit(log, c, tc, entry) /\ b = Audit(log, d, td, entry)
    BY <1>2, <1>3, <1>4
  <1>6. a.target = entry.target /\ b.target = entry.target /\ b.batch = entry.batch
    BY <1>5, AuditIs
  <1>7. /\ OwnFacts(a.observations, c, entry.batch)
        /\ b.observations = Turned(a.observations, d.enabled)
        /\ b.valid = ~Blamed(a.observations, d.enabled)
    <2>1. AuditsTurn(a, b, entry, c, d)
      BY <1>2, <1>3, AuditTurns
    <2> QED
      BY <2>1 DEF AuditsTurn
  <1> QED
    BY <1>1, <1>3, <1>6, <1>7 DEF OwnFacts, Blamed

(* The observations of the report are the same facts, enabled otherwise.   *)
LEMMA ReportTurns ==
    ASSUME NEW log, HasGrid(log), NEW c, NEW d, Alike(c, d)
    PROVE  LET X == EvaluateValidity(log, c).observations
           IN  /\ \A o \in X : IsObserved(o)
               /\ EvaluateValidity(log, d).observations = Turned(X, d.enabled)
  <1> DEFINE X(e) == EvaluateValidity(log, e).observations
             E == DOMAIN log.selection.entries
             misses == ToSet(log.selection.misses)
             L(e) == TimelineObservations(log, e)
             J(e) == Told(log, e)
             M(e) == MissesOf(e, misses)
             A == Audits(log, c)
             B == Audits(log, d)
             Re(o) == [o EXCEPT !.enabled = o.code \in d.enabled]
  <1>1. X(c) = L(c) \cup J(c) \cup M(c) /\ X(d) = L(d) \cup J(d) \cup M(d)
    <2>0. PICK r, s, w : r = EvaluateValidity(log, c) /\ s = EvaluateValidity(log, d) /\ w = misses
      OBVIOUS
    <2>1. r.observations = L(c) \cup J(c) \cup MissesOf(c, w)
      BY <2>0, ReportIs
    <2>2. s.observations = L(d) \cup J(d) \cup MissesOf(d, w)
      BY <2>0, ReportIs
    <2>3. X(c) = L(c) \cup J(c) \cup M(c)
      BY <2>0, <2>1
    <2>4. X(d) = L(d) \cup J(d) \cup M(d)
      BY <2>0, <2>2
    <2> QED
      BY <2>3, <2>4, Zenon
  <1>2. (\A o \in L(c) : IsObserved(o)) /\ L(d) = Turned(L(c), d.enabled)
    BY TimelineTurns
  <1>3. J(c) = UNION {A[e].observations : e \in E} /\ J(d) = UNION {B[e].observations : e \in E}
    BY DEF Judgements, Told
  <1>4. \A e \in E : /\ \A o \in A[e].observations : IsObserved(o)
                     /\ B[e].observations = Turned(A[e].observations, d.enabled)
    <2>1. AuditsTurned(log, c, d)
      BY EachTurns
    <2> HIDE DEF A, B
    <2> QED
      BY <2>1 DEF AuditsTurned, A, B
  <1> HIDE DEF X, E, L, J, A, B
  <1>5. J(d) = Turned(J(c), d.enabled) /\ \A o \in J(c) : IsObserved(o)
    <2>1. \A e \in E : B[e].observations = {Re(o) : o \in A[e].observations}
      BY <1>4 DEF Turned
    <2>2. Turned(J(c), d.enabled) = {Re(o) : o \in J(c)}
      BY DEF Turned
    <2> HIDE DEF Re
    <2>3. J(d) = {Re(o) : o \in J(c)}
      BY <1>3, <2>1
    <2>4. \A o \in J(c) : IsObserved(o)
      BY <1>3, <1>4
    <2> QED
      BY <2>2, <2>3, <2>4
  <1>6. M(d) = Turned(M(c), d.enabled) /\ \A o \in M(c) : IsObserved(o)
    <2>1. ASSUME NEW target
          PROVE  IsObserved(MissOf(c, target)) /\ Re(MissOf(c, target)) = MissOf(d, target)
      <3>1. PICK t, b : t = {target} /\ b = {}
        OBVIOUS
      <3>2. PICK o : o = Observation(c, "grid_miss", "grid", t, b)
        OBVIOUS
      <3>3. /\ IsObserved(o)
            /\ [o EXCEPT !.enabled = o.code \in d.enabled]
                 = Observation(d, "grid_miss", "grid", t, b)
        BY <3>2, TurnsOne
      <3> QED
        BY <3>1, <3>2, <3>3 DEF MissOf
    <2>2. Turned(M(c), d.enabled) = {Re(o) : o \in M(c)}
      BY DEF Turned
    <2> HIDE DEF Re
    <2> QED
      BY <2>1, <2>2 DEF MissesOf
  <1> HIDE DEF M
  <1>7. X(d) = Turned(X(c), d.enabled)
    <2>1. PICK P, Q, R, codes : P = L(c) /\ Q = J(c) /\ R = M(c) /\ codes = d.enabled
      OBVIOUS
    <2>2. /\ Turned(P \cup Q, codes) = Turned(P, codes) \cup Turned(Q, codes)
          /\ Turned((P \cup Q) \cup R, codes) = Turned(P \cup Q, codes) \cup Turned(R, codes)
      BY TurnedUnion
    <2> QED
      BY <1>1, <1>2, <1>5, <1>6, <2>1, <2>2
  <1>8. \A o \in X(c) : IsObserved(o)
    BY <1>1, <1>2, <1>5, <1>6
  <1> QED
    BY <1>7, <1>8 DEF X

(* Which targets are left.                                                 *)
LEMMA TargetsLeft ==
    ASSUME NEW log, HasGrid(log), NEW c, NEW d, Alike(c, d)
    PROVE  FinalTargets(EvaluateValidity(log, d))
             = {log.selection.entries[e].target : e \in {i \in DOMAIN log.selection.entries :
                  ~\E o \in Audits(log, c)[i].observations : o.code \in d.enabled}}
  <1> DEFINE E == DOMAIN log.selection.entries
             A == Audits(log, c)
             B == Audits(log, d)
             Target1(e) == log.selection.entries[e].target
             Left(e) == ~\E o \in A[e].observations : o.code \in d.enabled
  <1>1. ToSet(EvaluateValidity(log, d).final) = {a \in Judgements(log, d) : a.valid = TRUE}
    <2>1. PICK r, w : r = EvaluateValidity(log, d) /\ w = ToSet(log.selection.misses)
      OBVIOUS
    <2>2. ToSet(r.final) = ValidOnes(log, d)
      BY <2>1, ReportIs
    <2> QED
      BY <2>1, <2>2 DEF ValidOnes
  <1>2. Judgements(log, d) = {B[e] : e \in E}
    BY DEF Judgements
  <1>3. \A e \in E : B[e].target = Target1(e) /\ B[e].valid = Left(e)
    <2>1. AuditsTurned(log, c, d)
      BY EachTurns
    <2> QED
      BY <2>1 DEF AuditsTurned
  <1>4. FinalTargets(EvaluateValidity(log, d)) = {a.target : a \in {x \in Judgements(log, d) : x.valid = TRUE}}
    BY <1>1 DEF FinalTargets
  <1> HIDE DEF E, A, B, Target1, Left
  <1>5. \A e \in E : B[e].valid = TRUE <=> Left(e)
    BY <1>3 DEF Left
  <1>6. {a.target : a \in {x \in Judgements(log, d) : x.valid = TRUE}}
          = {Target1(e) : e \in {i \in E : Left(i)}}
    BY <1>2, <1>3, <1>5
  <1> QED
    BY <1>4, <1>6 DEF E, A, Target1, Left

(* A finite set of numbers as a sequence of stamps.                        *)
LEMMA StampsOf ==
    ASSUME NEW S \in SUBSET Int, IsFiniteSet(S)
    PROVE  Stamps(SetToSeq(S))
  <1> DEFINE K == 1 .. Cardinality(S)
             seq == SetToSeq(S)
  <1>1. Cardinality(S) \in Nat
    BY FS_CardinalityType
  <1>2. PICK g : Numbering(g, S)
    BY Numbers
  <1>3. \E f \in [K -> S] : IsInjective(f)
    <2> DEFINE h == [k \in K |-> g[k]]
    <2>1. h \in [K -> S] /\ \A k, l \in K : h[k] = h[l] => k = l
      BY <1>2 DEF Numbering
    <2>2. IsInjective(h)
      BY <2>1 DEF IsInjective
    <2> QED
      BY <2>1, <2>2
  <1>4. seq \in [K -> S] /\ IsInjective(seq)
    BY <1>3 DEF SetToSeq
  <1> HIDE DEF seq
  <1>5. seq \in [K -> Int] /\ Len(seq) = Cardinality(S)
    <2>1. PICK n : n = Cardinality(S)
      OBVIOUS
    <2>2. n \in Nat /\ seq \in [1 .. n -> S] /\ seq \in [1 .. n -> Int]
      BY <1>1, <1>4, <2>1
    <2>3. Len(seq) = n
      BY <2>2
    <2> QED
      BY <2>1, <2>2, <2>3
  <1>6. Cardinality(ToSet(seq)) = Cardinality(S)
    <2>1. ToSet(seq) = {seq[k] : k \in K}
      BY <1>4 DEF ToSet
    <2>2. seq \in Surjection(K, ToSet(seq)) /\ seq \in Injection(K, ToSet(seq))
      <3>1. seq \in [K -> ToSet(seq)] /\ (\A t \in ToSet(seq) : \E k \in K : seq[k] = t)
        BY <1>4, <2>1
      <3>2. \A k, l \in K : seq[k] = seq[l] => k = l
        BY <1>4 DEF IsInjective
      <3> QED
        BY <3>1, <3>2 DEF Surjection, Injection, IsInjective
    <2>3. IsFiniteSet(K) /\ Cardinality(K) = Cardinality(S)
      BY <1>1, FS_Interval
    <2> HIDE DEF K
    <2>4. Cardinality(ToSet(seq)) = Cardinality(K)
      BY <2>2, <2>3, FS_Surjection
    <2> QED
      BY <2>3, <2>4
  <1> QED
    BY <1>1, <1>5, <1>6 DEF Stamps, seq

(* What both extractors hand over has a grid.                              *)
LEMMA ExtractedHasGrid ==
    ASSUME NEW i \in Inputs, NEW order \in Seq(Int), NEW found,
           DOMAIN found = DOMAIN order,
           \A b \in DOMAIN order : found[b].time = order[b],
           order # <<>>, ~Refused(order, i.config.period, i.config.tolerance)
    PROVE  SelectGrid([b \in DOMAIN found |-> found[b].time],
                      i.config.period, i.config.tolerance).entries
             \in Seq([target : Int, batch : Int])
  <1> DEFINE period == i.config.period
             tolerance == i.config.tolerance
  <1>1. Period(period) /\ tolerance \in Nat
    BY InputsAssumption DEF Period
  <1>2. MaxTargets \in Nat
    BY ExtractionAssumption
  <1>3. [b \in DOMAIN found |-> found[b].time] = order
    OBVIOUS
  <1> HIDE DEF period, tolerance
  <1>4. ~Refused(order, period, tolerance)
    BY DEF period, tolerance
  <1>5. SelectGrid(order, period, tolerance).entries \in Seq([target : Int, batch : Int])
    BY <1>1, <1>2, <1>4, SelectsGrid
  <1> QED
    BY <1>3, <1>5 DEF period, tolerance

(* The stages before the scenes: what was extracted has a grid, and the    *)
(* report is that of what was extracted.                                   *)
DataInv ==
    /\ input \in Inputs
    /\ stage = "extracted" => HasGrid(recording)
    /\ stage = "evaluated" => /\ HasGrid(recording) /\ ResultAccepted(recording)
                              /\ report = EvaluateValidity(recording, config)

(* Extraction from a log has a grid.                                       *)
LEMMA LogExtracts == ASSUME DataInv, ExtractLog PROVE DataInv'
  <1> DEFINE order == Distinct([r \in DOMAIN input.rows |-> input.rows[r].batch])
             found == BatchesAt(order, input.rows, input.videos)
  <1>1. input \in Inputs /\ input' = input /\ (stage' = "extracted" \/ stage' = "rejected")
    BY DEF DataInv, ExtractLog, Stage
  <1>2. ASSUME stage' = "extracted" PROVE HasGrid(recording')
    <2>1. order \in Seq(Int)
      <3> DEFINE seq == [r \in DOMAIN input.rows |-> input.rows[r].batch]
      <3>1. Len(input.rows) \in Nat /\ DOMAIN input.rows = 1 .. Len(input.rows)
            /\ \A r \in DOMAIN input.rows : input.rows[r].batch \in Int
        BY <1>1, InputsAssumption DEF ToSet
      <3>2. seq \in Seq(Int)
        BY <3>1
      <3>3. Len(seq) \in Nat /\ \A r \in 1 .. Len(seq) : seq[r] \in Int
        BY <3>2
      <3> HIDE DEF seq
      <3>4. Distinct(seq) \in Seq(Int)
        BY <3>3, Distincts
      <3> QED
        BY <3>4 DEF seq
    <2>2. GridAccepted(order) /\ recording' = Extracted(found)
      BY <1>2 DEF ExtractLog, Stage
    <2>3. order # <<>> /\ ~Refused(order, input.config.period, input.config.tolerance)
      BY <2>2 DEF GridAccepted, config
    <2>4. DOMAIN found = DOMAIN order /\ \A b \in DOMAIN order : found[b].time = order[b]
      <3> HIDE DEF order
      <3> QED
        BY DEF BatchesAt
    <2> HIDE DEF order, found
    <2>5. PICK i, o, s : i = input /\ o = order /\ s = found
      OBVIOUS
    <2>6. SelectGrid([b \in DOMAIN s |-> s[b].time], i.config.period, i.config.tolerance).entries
            \in Seq([target : Int, batch : Int])
      BY <1>1, <2>1, <2>3, <2>4, <2>5, ExtractedHasGrid
    <2> QED
      BY <2>2, <2>5, <2>6 DEF Extracted, config, HasGrid
  <1> QED
    BY <1>1, <1>2 DEF DataInv

(* Extraction from frame tables has a grid.                                *)
LEMMA TablesExtract == ASSUME DataInv, ExtractTables PROVE DataInv'
  <1> DEFINE rows == {row \in ToSet(input.rows) : row.camera \in ToSet(input.videos)}
             times == {row.batch : row \in rows}
             order == Ordered(SetToSeq(times))
             found == BatchesAt(order, input.rows, input.videos)
  <1>1. input \in Inputs /\ input' = input /\ (stage' = "extracted" \/ stage' = "rejected")
    BY DEF DataInv, ExtractTables, Stage
  <1>2. ASSUME stage' = "extracted" PROVE HasGrid(recording')
    <2>1. times \in SUBSET Int /\ IsFiniteSet(times)
      <3>1. Len(input.rows) \in Nat /\ DOMAIN input.rows = 1 .. Len(input.rows)
            /\ \A row \in ToSet(input.rows) : row.batch \in Int
        BY <1>1, InputsAssumption
      <3> DEFINE K == {r \in 1 .. Len(input.rows) : input.rows[r] \in rows}
                 time == [r \in K |-> input.rows[r].batch]
      <3>2. time \in Surjection(K, times)
        <4>1. \A row \in rows : \E r \in K : input.rows[r] = row
          BY <3>1 DEF ToSet
        <4>2. time \in [K -> times] /\ \A t \in times : \E r \in K : time[r] = t
          <5> HIDE DEF rows
          <5> QED
            BY <4>1
        <4> HIDE DEF time, K, times
        <4> QED
          BY <4>2 DEF Surjection
      <3>3. IsFiniteSet(K)
        <4>1. K \in SUBSET (1 .. Len(input.rows))
          OBVIOUS
        <4>2. IsFiniteSet(1 .. Len(input.rows))
          BY <3>1, FS_Interval
        <4> HIDE DEF K
        <4> QED
          BY <4>1, <4>2, FS_Subset
      <3>4. IsFiniteSet(times)
        <4> HIDE DEF K, time, times
        <4> QED
          BY <3>2, <3>3, FS_Surjection
      <3> QED
        BY <3>1, <3>4
    <2>2. order \in Seq(Int)
      <3> HIDE DEF times
      <3>1. PICK seq : seq = SetToSeq(times)
        OBVIOUS
      <3>2. Stamps(seq)
        BY <2>1, <3>1, StampsOf
      <3>3. Sorted(Ordered(seq), Len(seq))
        BY <3>2, Sorting
      <3> QED
        BY <3>1, <3>3 DEF Sorted
    <2>3. GridAccepted(order) /\ recording' = Extracted(found)
      <3> HIDE DEF order, rows
      <3>1. recording' # Nothing
        BY <1>2 DEF ExtractTables, Stage, order, rows
      <3>2. recording' = IF RowsAccepted(input.rows) /\ GridAccepted(order)
                         THEN Extracted(found) ELSE Nothing
        BY DEF ExtractTables, order, rows
      <3> QED
        BY <3>1, <3>2
    <2>4. order # <<>> /\ ~Refused(order, input.config.period, input.config.tolerance)
      BY <2>3 DEF GridAccepted, config
    <2>5. DOMAIN found = DOMAIN order /\ \A b \in DOMAIN order : found[b].time = order[b]
      <3> HIDE DEF order
      <3> QED
        BY DEF BatchesAt
    <2> HIDE DEF order, found
    <2>6. PICK i, o, s : i = input /\ o = order /\ s = found
      OBVIOUS
    <2>7. SelectGrid([b \in DOMAIN s |-> s[b].time], i.config.period, i.config.tolerance).entries
            \in Seq([target : Int, batch : Int])
      BY <1>1, <2>2, <2>4, <2>5, <2>6, ExtractedHasGrid
    <2> QED
      BY <2>3, <2>6, <2>7 DEF Extracted, config, HasGrid
  <1> QED
    BY <1>1, <1>2 DEF DataInv

(* No stage before the scenes disturbs it.                                 *)
LEMMA DataStep == DataInv /\ [DataNext]_dataVars => DataInv'
  <1> SUFFICES ASSUME DataInv, [DataNext]_dataVars PROVE DataInv'
    OBVIOUS
  <1> USE DEF DataInv, Stage
  <1>1. CASE ExtractLog
    BY <1>1, LogExtracts
  <1>2. CASE ExtractTables
    BY <1>2, TablesExtract
  <1>3. CASE Evaluate
    <2>1. input' = input /\ recording' = recording /\ config' = config
      BY <1>3 DEF Evaluate, config
    <2>2. HasGrid(recording)
      BY <1>3 DEF Evaluate
    <2>3. CASE stage' = "evaluated"
      <3>1. ResultAccepted(recording) /\ report' = EvaluateValidity(recording, config)
        BY <1>3, <2>3 DEF Evaluate
      <3> QED
        BY <2>1, <2>2, <2>3, <3>1
    <2>4. CASE stage' = "rejected"
      BY <2>1, <2>4
    <2> QED
      BY <1>3, <2>3, <2>4 DEF Evaluate
  <1>4. CASE Enforce
    BY <1>4 DEF Enforce
  <1>5. CASE CheckSanity
    BY <1>5 DEF CheckSanity
  <1>6. CASE Build
    BY <1>6 DEF Build
  <1>7. CASE ComputeFeatures
    BY <1>7 DEF ComputeFeatures
  <1>8. CASE UNCHANGED dataVars
    BY <1>8 DEF dataVars, config
  <1> QED
    BY <1>1, <1>2, <1>3, <1>4, <1>5, <1>6, <1>7, <1>8 DEF DataNext, DataDone

(* Up to the enforcement, what the stages hand over is what they computed. *)
THEOREM DataInvariance == DataSpec => []DataInv
  <1>1. DataInit => DataInv
    BY InputsAssumption DEF DataInit, DataInv
  <1> QED
    BY <1>1, DataStep, PTL DEF DataSpec

(* What survives all the codes survives each of them.                      *)
SurvivorsAre(E, f, bad, codes) ==
    {f[e] : e \in {a \in E : bad[a] \cap codes = {}}}
      = {t \in {f[e] : e \in E} :
           \A set \in {{f[e] : e \in {a \in E : bad[a] \cap {code} = {}}} : code \in codes} :
             t \in set}

(* Of entries with different targets, those no enabled code blames are     *)
(* those that each of the enabled codes leaves.                            *)
LEMMA Survivors ==
    ASSUME NEW E, NEW f, \A a, b \in E : f[a] = f[b] => a = b, NEW bad, NEW codes
    PROVE  SurvivorsAre(E, f, bad, codes)
  <1> DEFINE T == {f[e] : e \in E}
             All == {f[e] : e \in {a \in E : bad[a] \cap codes = {}}}
             Only(code) == {f[e] : e \in {a \in E : bad[a] \cap {code} = {}}}
             Sets == {Only(code) : code \in codes}
             Each == {t \in T : \A set \in Sets : t \in set}
  <1>1. \A e \in E : f[e] \in All <=> \A code \in codes : code \notin bad[e]
    OBVIOUS
  <1>2. \A code : \A e \in E : f[e] \in Only(code) <=> code \notin bad[e]
    OBVIOUS
  <1>3. All \subseteq T /\ \A t \in T : \E e \in E : t = f[e]
    OBVIOUS
  <1> HIDE DEF T, All, Only
  <1>4. \A t : t \in Each <=> t \in T /\ \A code \in codes : t \in Only(code)
    OBVIOUS
  <1> HIDE DEF Each
  <1>5. \A t \in T : t \in Each <=> t \in All
    BY <1>1, <1>2, <1>3, <1>4
  <1>6. Each = All
    BY <1>3, <1>4, <1>5
  <1> QED
    BY <1>6 DEF T, All, Only, Each, SurvivorsAre

(* The report tells the same facts whatever is enabled, and its samples    *)
(* are those that survive each enabled code alone.                         *)
LEMMA ReasonsHold ==
    ASSUME DataInv, stage = "evaluated"
    PROVE  /\ \A codes \in {{}, Codes} : Facts(Under(codes).observations) = Facts(report.observations)
           /\ LET survivors == {FinalTargets(Under({code})) : code \in config.enabled}
                  targets == {e.target : e \in ToSet(recording.selection.entries)}
              IN  FinalTargets(report) = {t \in targets : \A set \in survivors : t \in set}
  <1> DEFINE log == recording
             Other(codes) == [config EXCEPT !.enabled = codes]
  <1>1. /\ input \in Inputs /\ HasGrid(log) /\ ResultAccepted(log)
        /\ report = EvaluateValidity(log, config)
    BY DEF DataInv
  <1>2. {"enabled", "required", "gap", "policy"} \subseteq DOMAIN config
    BY <1>1, InputsAssumption DEF config
  <1>3. \A codes : Alike(config, Other(codes)) /\ Other(codes).enabled = codes
    BY <1>2 DEF Alike
  <1>4. \A codes : Under(codes) = EvaluateValidity(log, Other(codes))
    BY DEF Under
  <1>5. Alike(config, config)
    BY DEF Alike
  <1> HIDE DEF log, Other
  <1>6. ASSUME NEW codes
        PROVE  Facts(Under(codes).observations) = Facts(report.observations)
    <2>1. PICK r, c, d : r = log /\ c = config /\ d = Other(codes)
      OBVIOUS
    <2>2. HasGrid(r) /\ Alike(c, d)
      BY <1>1, <1>3, <2>1
    <2>3. PICK X : X = EvaluateValidity(r, c).observations
      OBVIOUS
    <2>4. /\ \A o \in X : IsObserved(o)
          /\ EvaluateValidity(r, d).observations = Turned(X, d.enabled)
      BY <2>2, <2>3, ReportTurns
    <2>5. Facts(Turned(X, d.enabled)) = Facts(X)
      BY <2>4, TurnedTells
    <2> QED
      BY <1>1, <1>4, <2>1, <2>3, <2>4, <2>5
  <1> DEFINE entries == log.selection.entries
             E == DOMAIN entries
             A == Audits(log, config)
             bad == [e \in E |-> {o.code : o \in A[e].observations}]
             f == [e \in E |-> entries[e].target]
             Rest(codes) == {f[e] : e \in {a \in E : bad[a] \cap codes = {}}}
  <1>7. \A codes : {entries[e].target : e \in {i \in E : ~\E o \in A[i].observations : o.code \in codes}}
                     = Rest(codes)
    <2>1. \A e \in E : f[e] = entries[e].target /\ bad[e] = {o.code : o \in A[e].observations}
      OBVIOUS
    <2>2. \A codes : \A e \in E : bad[e] \cap codes = {} <=> ~\E o \in A[e].observations : o.code \in codes
      BY <2>1
    <2> HIDE DEF A, bad, f, E, entries
    <2> QED
      BY <2>1, <2>2
  <1>8. ASSUME NEW c, NEW d, Alike(c, d), c = config
        PROVE  FinalTargets(EvaluateValidity(log, d)) = Rest(d.enabled)
    <2>1. FinalTargets(EvaluateValidity(log, d))
             = {log.selection.entries[e].target : e \in {i \in DOMAIN log.selection.entries :
                  ~\E o \in Audits(log, c)[i].observations : o.code \in d.enabled}}
      BY <1>1, <1>8, TargetsLeft
    <2> HIDE DEF Rest
    <2> QED
      BY <1>7, <1>8, <2>1
  <1>9. FinalTargets(report) = Rest(config.enabled)
    <2> HIDE DEF Rest
    <2>1. PICK c : c = config
      OBVIOUS
    <2> QED
      BY <1>1, <1>5, <1>8, <2>1
  <1>10. \A code : FinalTargets(Under({code})) = Rest({code})
    <2> HIDE DEF Rest
    <2> SUFFICES ASSUME NEW code PROVE FinalTargets(Under({code})) = Rest({code})
      OBVIOUS
    <2>1. PICK c, d : c = config /\ d = Other({code})
      OBVIOUS
    <2>2. Alike(c, d) /\ d.enabled = {code} /\ Under({code}) = EvaluateValidity(log, d)
      BY <1>3, <1>4, <2>1
    <2> QED
      BY <1>8, <2>1, <2>2
  <1>11. \A a, b \in E : f[a] = f[b] => a = b
    BY <1>1 DEF ResultAccepted, IsInjective
  <1>12. {e.target : e \in ToSet(entries)} = {f[e] : e \in E}
    BY <1>1 DEF HasGrid, ToSet
  <1>13. Rest(config.enabled)
           = {t \in {f[e] : e \in E} :
                \A set \in {Rest({code}) : code \in config.enabled} : t \in set}
    <2> HIDE DEF f, bad, E
    <2>1. SurvivorsAre(E, f, bad, config.enabled)
      BY <1>11, Survivors
    <2> QED
      BY <2>1 DEF SurvivorsAre
  <1> HIDE DEF Rest, f, E, A, bad
  <1>14. {FinalTargets(Under({code})) : code \in config.enabled}
           = {Rest({code}) : code \in config.enabled}
    BY <1>10
  <1> QED
    BY <1>6, <1>9, <1>12, <1>13, <1>14 DEF log

(* Conditions are observed independently of what is enabled and of one     *)
(* another: no reason hides another one (validity.py,                      *)
(* docs/validity.md:18-22).                                                *)
THEOREM ReasonsStayIndependent == DataSpec => []ReasonsAreIndependent
  <1>1. DataInv => ReasonsAreIndependent
    BY ReasonsHold DEF ReasonsAreIndependent
  <1> QED
    BY <1>1, DataInvariance, PTL

(* An audit, and what the sample that is made of it keeps.                 *)
IsAudit(a) ==
    a = [target |-> a.target, batch |-> a.batch, frames |-> a.frames,
         pictures |-> a.pictures, observations |-> a.observations, valid |-> a.valid]

Stripped(a) == [a EXCEPT !.pictures = 0]

(* An audit is one.                                                        *)
LEMMA AuditIsOne ==
    ASSUME NEW log, NEW c, NEW timeline, NEW entry, NEW a, a = Audit(log, c, timeline, entry)
    PROVE  IsAudit(a)
  BY DEF Audit, IsAudit

(* Dropping the pictures changes nothing else.                             *)
LEMMA StrippedKeeps ==
    ASSUME NEW a, IsAudit(a)
    PROVE  /\ Stripped(a).pictures = 0 /\ Stripped(a).valid = a.valid
           /\ Stripped(a).observations = a.observations /\ Stripped(a).batch = a.batch
           /\ Stripped(a).target = a.target
  <1>1. PICK t, b, f, p, o, v : a = [target |-> t, batch |-> b, frames |-> f, pictures |-> p,
                                     observations |-> o, valid |-> v]
    BY DEF IsAudit
  <1> QED
    BY <1>1 DEF Stripped

(* What is told of the audits of a report.                                 *)
AuditFacts(log, c, a, entry) ==
    /\ IsAudit(a) /\ a.target = entry.target /\ a.batch = entry.batch
    /\ a.valid = ~Enabled(a.observations)
    /\ OwnFacts(a.observations, c, a.batch)
    /\ Here(TimelineObservations(log, c), a.batch) \subseteq a.observations

(* And all of them are told.                                               *)
LEMMA AuditsTell ==
    ASSUME NEW log, HasGrid(log), NEW c
    PROVE  \A e \in DOMAIN log.selection.entries :
             AuditFacts(log, c, Audits(log, c)[e], log.selection.entries[e])
  <1> SUFFICES ASSUME NEW e \in DOMAIN log.selection.entries
               PROVE  AuditFacts(log, c, Audits(log, c)[e], log.selection.entries[e])
    OBVIOUS
  <1>1. PICK a, entry, tc : /\ a = Audits(log, c)[e] /\ entry = log.selection.entries[e]
                            /\ tc = TimelineObservations(log, c)
    OBVIOUS
  <1>2. a = Audit(log, c, tc, entry)
    BY <1>1 DEF Audits
  <1>3. /\ a.target = entry.target /\ a.batch = entry.batch
        /\ a.observations = Here(tc, entry.batch) \cup OwnObservations(log, c, entry)
        /\ a.valid = ~Enabled(a.observations)
    BY <1>2, AuditIs
  <1>4. IsAudit(a)
    BY <1>2, AuditIsOne
  <1>5. Alike(c, c)
    BY DEF Alike
  <1>6. AuditsTurn(a, a, entry, c, c)
    BY <1>1, <1>2, <1>5, AuditTurns
  <1> QED
    BY <1>1, <1>3, <1>4, <1>6 DEF AuditFacts, AuditsTurn

(* The parts of the report the enforcement looks at.                       *)
KeptOf(a, c) == IF c.policy = "drop" /\ ~a.valid THEN Stripped(a) ELSE a
EntryOf(a) == [target |-> a.target, observations |-> a.observations, valid |-> a.valid]
MissedEntry(c, target) ==
    [target |-> target, observations |-> {MissOf(c, target)}, valid |-> ~MissOf(c, target).enabled]

ReportFacts(log, c, r) ==
    /\ ToSet(r.samples) = {KeptOf(a, c) : a \in Judgements(log, c)}
    /\ r.grid = {EntryOf(a) : a \in Judgements(log, c)}
                  \cup {MissedEntry(c, target) : target \in ToSet(log.selection.misses)}
    /\ c.policy = "drop" => r.auditOnly = <<>>
    /\ c.policy # "drop" => ToSet(r.auditOnly) = {a \in Judgements(log, c) : a.valid = FALSE}

(* And what it finds there.                                                *)
LEMMA ReportTells ==
    ASSUME NEW log, HasGrid(log), NEW c, NEW r, r = EvaluateValidity(log, c)
    PROVE  ReportFacts(log, c, r)
  <1> DEFINE A == Audits(log, c)
             timeline == TimelineObservations(log, c)
  <1>1. r = ReportOf(log, c, timeline, A)
    BY DEF EvaluateValidity, Audits
  <1>2. /\ Len(A) \in Nat /\ DOMAIN A = 1 .. Len(A) /\ ToSet(A) = Judgements(log, c)
    BY AuditsAre
  <1> HIDE DEF A, timeline
  <1>3. r.samples = [a \in DOMAIN A |-> KeptOf(A[a], c)]
    BY <1>1 DEF ReportOf, KeptOf, Stripped
  <1>4. r.grid = {EntryOf(a) : a \in ToSet(A)}
                   \cup {MissedEntry(c, target) : target \in ToSet(log.selection.misses)}
    BY <1>1 DEF ReportOf, EntryOf, MissedEntry, MissOf
  <1>5. r.auditOnly = IF c.policy = "drop" THEN <<>> ELSE Judged(A, FALSE)
    BY <1>1 DEF ReportOf
  <1>6. ToSet(r.samples) = {KeptOf(a, c) : a \in ToSet(A)}
    BY <1>2, <1>3 DEF ToSet
  <1>7. ToSet(Judged(A, FALSE)) = {a \in ToSet(A) : a.valid = FALSE}
    BY <1>2, Keeps
  <1> QED
    BY <1>2, <1>4, <1>5, <1>6, <1>7 DEF ReportFacts

(* Entries of an accepted result differ in target and in batch.            *)
LEMMA EntriesApart ==
    ASSUME NEW log, HasGrid(log), ResultAccepted(log)
    PROVE  /\ \A e, f \in DOMAIN log.selection.entries :
                \/ e = f
                \/ /\ log.selection.entries[e].target # log.selection.entries[f].target
                   /\ log.selection.entries[e].batch # log.selection.entries[f].batch
           /\ \A e \in DOMAIN log.selection.entries :
                log.selection.entries[e].target \notin ToSet(log.selection.misses)
  <1>1. PICK entries, n : entries = log.selection.entries /\ n = Len(entries)
    OBVIOUS
  <1>2. n \in Nat /\ DOMAIN entries = 1 .. n
    BY <1>1 DEF HasGrid
  <1> DEFINE K == 1 .. n
             chosen == {entries[e].batch : e \in K}
             batch == [e \in K |-> entries[e].batch]
             targets == [e \in K |-> entries[e].target]
  <1>3. /\ Cardinality(chosen) = n /\ IsInjective(targets)
        /\ ToSet(targets) \cap ToSet(log.selection.misses) = {}
    BY <1>1, <1>2 DEF ResultAccepted
  <1>4. batch \in Surjection(K, chosen)
    <2>1. batch \in [K -> chosen] /\ \A b \in chosen : \E e \in K : batch[e] = b
      OBVIOUS
    <2> HIDE DEF batch, K, chosen
    <2> QED
      BY <2>1 DEF Surjection
  <1>5. IsFiniteSet(K) /\ Cardinality(K) = n
    BY <1>2, FS_Interval
  <1>6. batch \in Injection(K, chosen)
    <2> HIDE DEF batch, K, chosen
    <2> QED
      BY <1>3, <1>4, <1>5, FS_Surjection
  <1>7. \A e, f \in K : batch[e] = batch[f] => e = f
    <2> HIDE DEF batch, K, chosen
    <2>1. batch \in [K -> chosen] /\ IsInjective(batch)
      BY <1>6 DEF Injection
    <2> QED
      BY <2>1 DEF IsInjective
  <1>8. \A e, f \in K : targets[e] = targets[f] => e = f
    BY <1>3 DEF IsInjective
  <1>9. \A e \in K : entries[e].target \notin ToSet(log.selection.misses)
    BY <1>3 DEF ToSet
  <1> QED
    BY <1>1, <1>2, <1>7, <1>8, <1>9

(* What the timeline observes is of one batch.                             *)
LEMMA TimelineIsOfBatches ==
    ASSUME NEW log, NEW c
    PROVE  \A o \in TimelineObservations(log, c) : \E b : IsAt(o, b)
  <1> SUFFICES ASSUME NEW o \in TimelineObservations(log, c) PROVE \E b : IsAt(o, b)
    OBVIOUS
  <1> DEFINE Batch(f) == Timeline(log.batches)[f].batch
             T(f) == TargetsOf(log.selection, Batch(f))
  <1>1. \E f \in DOMAIN Timeline(log.batches) :
          \E step \in Step(Timeline(log.batches), f) : \E code \in StepCodes(step, c.gap) :
            o = Observation(c, code, "camera", T(f), {Batch(f)})
    BY InTimeline
  <1>2. PICK f, code : o = Observation(c, code, "camera", T(f), {Batch(f)})
    <2> HIDE DEF T, Batch
    <2> QED
      BY <1>1
  <1>3. o.batch = {Batch(f)}
    BY <1>2 DEF Observation
  <1> QED
    BY <1>3 DEF IsAt

(* The report of an accepted result passes every check of the enforcement. *)
LEMMA Enforces ==
    ASSUME NEW log, HasGrid(log), ResultAccepted(log), NEW c, NEW r, r = EvaluateValidity(log, c)
    PROVE  Enforced(r, c)
  <1> DEFINE J == Judgements(log, c)
             A == Audits(log, c)
             E == DOMAIN log.selection.entries
             misses == ToSet(log.selection.misses)
             timeline == TimelineObservations(log, c)
             final == ToSet(r.final)
             kept == ToSet(r.samples)
             valid == {a \in kept : a.valid}
             invalid == kept \ valid
  <1>1. /\ r.observations = timeline \cup Told(log, c) \cup MissesOf(c, misses)
        /\ r.valid = ~Enabled(r.observations)
        /\ final = ValidOnes(log, c)
    BY ReportIs
  <1>2. ReportFacts(log, c, r)
    BY ReportTells
  <1>3. J = {A[e] : e \in E}
    BY DEF Judgements
  <1>4. \A e \in E : AuditFacts(log, c, A[e], log.selection.entries[e])
    BY AuditsTell
  <1>5. \A a \in J : /\ IsAudit(a) /\ a.valid = ~Enabled(a.observations)
                     /\ OwnFacts(a.observations, c, a.batch)
                     /\ Here(timeline, a.batch) \subseteq a.observations
                     /\ a.target \notin misses
    <2>1. \A e \in E : A[e].target \notin misses
      <3>1. \A e \in E : A[e].target = log.selection.entries[e].target
        BY <1>4 DEF AuditFacts
      <3>2. \A e \in E : log.selection.entries[e].target \notin misses
        BY EntriesApart
      <3> HIDE DEF A, E, misses
      <3> QED
        BY <3>1, <3>2
    <2> HIDE DEF A, E, J, misses
    <2> QED
      BY <1>3, <1>4, <2>1 DEF AuditFacts
  <1>6. \A a, b \in J : a = b \/ (a.target # b.target /\ a.batch # b.batch)
    <2>1. \A e, f \in E : \/ e = f
                          \/ A[e].target # A[f].target /\ A[e].batch # A[f].batch
      <3>1. \A e \in E : /\ A[e].target = log.selection.entries[e].target
                         /\ A[e].batch = log.selection.entries[e].batch
        BY <1>4 DEF AuditFacts
      <3>2. \A e, f \in E :
              \/ e = f
              \/ /\ log.selection.entries[e].target # log.selection.entries[f].target
                 /\ log.selection.entries[e].batch # log.selection.entries[f].batch
        BY EntriesApart
      <3> HIDE DEF A, E
      <3> QED
        BY <3>1, <3>2
    <2> HIDE DEF A, E, J
    <2> QED
      BY <1>3, <2>1
  <1>7. \A a \in J : a.valid \in BOOLEAN
    <2> HIDE DEF J
    <2> QED
      BY <1>5 DEF Enabled
  <1>8. kept = {KeptOf(a, c) : a \in J} /\ final = {a \in J : a.valid = TRUE}
    BY <1>1, <1>2 DEF ReportFacts, ValidOnes
  <1>9. r.grid = {EntryOf(a) : a \in J} \cup {MissedEntry(c, target) : target \in misses}
    BY <1>2 DEF ReportFacts
  <1>10. \A o \in timeline : IsObserved(o) /\ o.scope = "camera" /\ o.enabled = (o.code \in c.enabled)
    <2>1. Alike(c, c)
      BY DEF Alike
    <2> QED
      BY <2>1, TimelineTurns
  <1>11. \A o \in timeline : \E b : IsAt(o, b)
    BY TimelineIsOfBatches
  <1> HIDE DEF J, A, E, misses, timeline, final, kept
  <1>12. \A a \in J : /\ KeptOf(a, c).valid = a.valid
                      /\ KeptOf(a, c).observations = a.observations
                      /\ a.valid => KeptOf(a, c) = a
    BY <1>5, StrippedKeeps DEF KeptOf
  <1>13. final = valid
    BY <1>7, <1>8, <1>12
  <1>14. \A a \in kept \cup r.grid : a.valid = ~Enabled(a.observations)
    <2>1. \A a \in kept : a.valid = ~Enabled(a.observations)
      BY <1>5, <1>8, <1>12
    <2>2. \A a \in J : EntryOf(a).valid = ~Enabled(EntryOf(a).observations)
      BY <1>5 DEF EntryOf
    <2>3. \A target : MissedEntry(c, target).valid = ~Enabled(MissedEntry(c, target).observations)
      BY DEF MissedEntry, Enabled
    <2> QED
      BY <1>9, <2>1, <2>2, <2>3
  <1>15. ASSUME NEW g \in r.grid, ~g.valid PROVE g.target \notin {a.target : a \in final}
    <2> SUFFICES ASSUME NEW a \in final, a.target = g.target PROVE FALSE
      OBVIOUS
    <2>1. a \in J /\ a.valid = TRUE
      BY <1>8
    <2>2. ASSUME NEW b \in J, g = EntryOf(b) PROVE FALSE
      <3>1. b.target = a.target /\ ~b.valid
        BY <1>15, <2>2 DEF EntryOf
      <3> QED
        BY <1>6, <2>1, <3>1
    <2>3. ASSUME NEW target \in misses, g = MissedEntry(c, target) PROVE FALSE
      <3>1. a.target = target
        BY <2>3 DEF MissedEntry
      <3> QED
        BY <1>5, <2>1, <3>1
    <2> QED
      BY <1>9, <2>2, <2>3
  <1>16. ASSUME NEW o \in r.observations
         PROVE  /\ o.enabled = (o.code \in c.enabled)
                /\ o.enabled =>
                     IF o.scope = "grid"
                     THEN \A target \in o.target :
                            \E g \in r.grid : g.target = target /\ ~g.valid
                     ELSE o.batch \cap {a.batch : a \in final} = {}
    <2>1. CASE o \in timeline
      <3>1. PICK b : IsAt(o, b)
        BY <1>11, <2>1
      <3>2. ASSUME NEW a \in final, a.batch \in o.batch, o.enabled PROVE FALSE
        <4>1. a \in J /\ a.valid = TRUE /\ a.batch = b
          BY <1>8, <3>1, <3>2 DEF IsAt
        <4>2. o \in Here(timeline, a.batch)
          BY <2>1, <3>1, <4>1 DEF Here
        <4>3. o \in a.observations
          BY <1>5, <4>1, <4>2
        <4> QED
          BY <1>5, <3>2, <4>1, <4>3 DEF Enabled
      <3> QED
        BY <1>10, <2>1, <3>2
    <2>2. CASE o \in Told(log, c)
      <3>1. PICK b \in J : o \in b.observations
        BY <2>2 DEF Told, J
      <3>2. /\ o.scope # "grid" /\ o.batch = {b.batch} /\ o.enabled = (o.code \in c.enabled)
        BY <1>5, <3>1 DEF OwnFacts, IsAt
      <3>3. ASSUME NEW a \in final, a.batch \in o.batch, o.enabled PROVE FALSE
        <4>1. a \in J /\ a.valid = TRUE /\ a.batch = b.batch
          BY <1>8, <3>2, <3>3
        <4>2. a = b
          BY <1>6, <4>1
        <4> QED
          BY <1>5, <3>1, <3>3, <4>1, <4>2 DEF Enabled
      <3> QED
        BY <3>2, <3>3
    <2>3. CASE o \in MissesOf(c, misses)
      <3>1. PICK target \in misses : o = MissOf(c, target)
        BY <2>3 DEF MissesOf
      <3>2. /\ o.scope = "grid" /\ o.target = {target} /\ o.enabled = (o.code \in c.enabled)
        BY <3>1 DEF MissOf, Observation
      <3>3. MissedEntry(c, target) \in r.grid /\ MissedEntry(c, target).target = target
            /\ MissedEntry(c, target).valid = ~o.enabled
        BY <1>9, <3>1 DEF MissedEntry
      <3> QED
        BY <3>2, <3>3
    <2> QED
      BY <1>1, <2>1, <2>2, <2>3
  <1>17. IF c.policy = "drop"
         THEN r.auditOnly = <<>> /\ \A a \in invalid : a.pictures = 0
         ELSE ToSet(r.auditOnly) = invalid
    <2>1. CASE c.policy = "drop"
      <3>1. \A a \in J : ~a.valid => KeptOf(a, c).pictures = 0
        BY <1>5, <2>1, StrippedKeeps DEF KeptOf
      <3>2. r.auditOnly = <<>>
        BY <1>2, <2>1 DEF ReportFacts
      <3> QED
        BY <1>8, <1>12, <2>1, <3>1, <3>2
    <2>2. CASE c.policy # "drop"
      <3>1. \A a \in J : KeptOf(a, c) = a
        BY <2>2 DEF KeptOf
      <3>2. ToSet(r.auditOnly) = {a \in J : a.valid = FALSE}
        BY <1>2, <2>2 DEF ReportFacts, J
      <3>3. invalid = {a \in J : a.valid = FALSE}
        BY <1>7, <1>8, <3>1
      <3> QED
        BY <2>2, <3>2, <3>3
    <2> QED
      BY <2>1, <2>2
  <1> QED
    BY <1>1, <1>13, <1>14, <1>15, <1>16, <1>17 DEF Enforced, kept, final

(* validate_validity_enforcement refuses no report of evaluate_validity:   *)
(* the second check of the coordinator cannot quarantine a recording the   *)
(* first one let through, whatever is invalid, missing or enabled.         *)
THEOREM EnforcementNeverRefuses ==
    DataSpec => [](stage = "evaluated" => Enforced(report, config))
  <1>1. DataInv => (stage = "evaluated" => Enforced(report, config))
    BY Enforces DEF DataInv
  <1> QED
    BY <1>1, DataInvariance, PTL

================================================================================
