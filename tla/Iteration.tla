------------------------------ MODULE Iteration -----------------------------
(***************************************************************************)
(* Definitions by recursion as TLC evaluates them: what is found by going on*)
(* step by step, and sums over a finite set.  That the functions exist, and*)
(* what they are, by the least number or a smallest set for which a claim fails.*)
(***************************************************************************)
EXTENDS Naturals, FiniteSets, FiniteSetTheorems, NaturalsInduction,
        WellFoundedInduction, TLAPS

-----------------------------------------------------------------------------
(* Levels: what is found by going on step by step, as often as there are   *)
(* elements.                                                               *)

\* Induction up to N, over the numbers for which something holds.
LEMMA CountUp ==
  ASSUME NEW N \in Nat, NEW G, 0 \in G, \A n \in 0..N : n \in G /\ n < N => n + 1 \in G
  PROVE  0..N \subseteq G
<1> DEFINE Bad == {n \in 0..N : n \notin G}
           Lower == {ss \in Nat \X Nat : ss[1] < ss[2]}
<1>1. IsWellFoundedOn(Lower, Nat)
  BY NatLessThanWellFounded DEF OpToRel
<1>2. ASSUME Bad # {} PROVE FALSE
  <2>1. Bad \in SUBSET Nat
    OBVIOUS
  <2>2. PICK m \in Bad : \A x \in Bad : ~(<<x, m>> \in Lower)
    BY <1>1, <1>2, <2>1, WFMin
  <2>3. m \in 1..N
    BY <2>2
  <2>4. m - 1 \in 0..N /\ m - 1 < N /\ (m - 1) + 1 = m /\ m - 1 \in Nat /\ m - 1 < m
    BY <2>3
  <2>5. <<m - 1, m>> \in Lower
    BY <2>3, <2>4
  <2> QED BY <2>2, <2>4, <2>5
<1> QED BY <1>2

\* f goes from t by F, N times.
Iterates(f, F, t, N) == f = [n \in 0..N |-> IF n = 0 THEN t ELSE F[f[n - 1]]]

LEMMA IteratesExist ==
  ASSUME NEW T, NEW F \in [T -> T], NEW t \in T, NEW N \in Nat
  PROVE  \E f \in [0..N -> T] : Iterates(f, F, t, N)
<1> DEFINE G == {n \in 0..N : \E f \in [0..n -> T] : Iterates(f, F, t, n)}
<1>1. 0 \in G
  <2> DEFINE f == [n \in 0..0 |-> t]
  <2>1. f \in [0..0 -> T] /\ Iterates(f, F, t, 0)
    BY DEF Iterates
  <2> HIDE DEF f
  <2> QED BY <2>1
<1>2. ASSUME NEW m \in 0..N, m \in G, m < N PROVE m + 1 \in G
  <2>1. PICK f \in [0..m -> T] : Iterates(f, F, t, m)
    BY <1>2
  <2> DEFINE g == [n \in 0..m + 1 |-> IF n = m + 1 THEN F[f[m]] ELSE f[n]]
  <2>2. g \in [0..m + 1 -> T]
    BY <2>1
  <2>3. ASSUME NEW n \in 0..m + 1 PROVE g[n] = IF n = 0 THEN t ELSE F[g[n - 1]]
    <3>1. CASE n = 0
      <4>1. 0 \in 0..m /\ 0 # m + 1
        OBVIOUS
      <4> QED BY <2>1, <3>1, <4>1 DEF Iterates
    <3>2. CASE n # 0 /\ n # m + 1
      <4>1. n \in 0..m /\ n - 1 \in 0..m + 1 /\ n - 1 # m + 1
        BY <3>2
      <4>2. f[n] = F[f[n - 1]]
        BY <2>1, <3>2, <4>1 DEF Iterates
      <4>3. g[n] = f[n] /\ g[n - 1] = f[n - 1]
        BY <3>2, <4>1
      <4> QED BY <3>2, <4>2, <4>3
    <3>3. CASE n = m + 1
      <4>1. n - 1 = m /\ m \in 0..m + 1 /\ m # m + 1 /\ n # 0
        BY <3>3
      <4> QED BY <3>3, <4>1
    <3> QED BY <3>1, <3>2, <3>3
  <2> HIDE DEF g
  <2>4. g = [n \in 0..m + 1 |-> IF n = 0 THEN t ELSE F[g[n - 1]]]
    BY <2>2, <2>3
  <2>5. m + 1 \in 0..N
    BY <1>2
  <2> QED BY <2>2, <2>4, <2>5 DEF Iterates
<1> HIDE DEF G
<1>3. N \in G
  BY <1>1, <1>2, CountUp
<1> QED BY <1>3 DEF G

\* What grows in a finite set has stopped after as many steps as that set has
\* elements.
LEMMA LevelsStop ==
  ASSUME NEW S, IsFiniteSet(S), NEW F \in [SUBSET S -> SUBSET S], NEW t \in SUBSET S,
         NEW f \in [0..Cardinality(S) -> SUBSET S], Iterates(f, F, t, Cardinality(S)),
         t \subseteq F[t], \A A, B \in SUBSET S : A \subseteq B => F[A] \subseteq F[B]
  PROVE  F[f[Cardinality(S)]] = f[Cardinality(S)]
<1> DEFINE N == Cardinality(S)
           G == {n \in 0..N : /\ f[n] \subseteq F[f[n]]
                              /\ F[f[n]] = f[n] \/ Cardinality(F[f[n]]) > n}
<1>1. N \in Nat
  BY FS_CardinalityType
<1>2. \A A \in SUBSET S : IsFiniteSet(A) /\ Cardinality(A) \in Nat /\ Cardinality(A) <= N
  BY FS_Subset, FS_CardinalityType
<1>3. /\ f[0] = t /\ f \in [0..N -> SUBSET S]
      /\ \A n \in 0..N : n < N => n + 1 \in 0..N /\ f[n + 1] = F[f[n]]
  <2>1. f = [n \in 0..N |-> IF n = 0 THEN t ELSE F[f[n - 1]]]
    BY DEF Iterates
  <2>2. 0 \in 0..N
    BY <1>1
  <2>3. ASSUME NEW n \in 0..N, n < N PROVE n + 1 \in 0..N /\ f[n + 1] = F[f[n]]
    <3>1. n + 1 \in 0..N /\ n + 1 # 0 /\ (n + 1) - 1 = n
      BY <1>1, <2>3
    <3> QED BY <2>1, <3>1
  <2> QED BY <2>1, <2>2, <2>3
<1> HIDE DEF N
\* a set with more than all of another has more elements
<1>4. ASSUME NEW A \in SUBSET S, NEW B \in SUBSET S, A \subseteq B, A # B
      PROVE  Cardinality(A) < Cardinality(B)
  BY <1>2, <1>4, FS_Subset
<1>5. 0 \in G
  <2>1. 0 \in 0..N /\ F[t] \in SUBSET S /\ Cardinality(t) \in Nat /\ Cardinality(F[t]) \in Nat
    BY <1>1, <1>2
  <2>2. F[t] = t \/ Cardinality(F[t]) > 0
    BY <1>4, <2>1
  <2> QED BY <1>3, <2>1, <2>2
<1>6. ASSUME NEW n \in 0..N, n \in G, n < N PROVE n + 1 \in G
  <2>1. n + 1 \in 0..N /\ f[n + 1] = F[f[n]] /\ f[n] \in SUBSET S /\ f[n + 1] \in SUBSET S
    BY <1>3, <1>6
  <2>2. F[f[n + 1]] \in SUBSET S /\ f[n + 1] \subseteq F[f[n + 1]]
    BY <1>6, <2>1
  <2>3. CASE F[f[n]] = f[n]
    BY <2>1, <2>2, <2>3
  <2>4. CASE Cardinality(F[f[n]]) > n
    <3>1. Cardinality(f[n + 1]) \in Nat /\ Cardinality(F[f[n + 1]]) \in Nat /\ n \in Nat
      BY <1>1, <1>2, <2>1, <2>2
    <3>2. F[f[n + 1]] = f[n + 1] \/ Cardinality(f[n + 1]) < Cardinality(F[f[n + 1]])
      BY <1>4, <2>1, <2>2
    <3>3. Cardinality(f[n + 1]) > n
      BY <2>1, <2>4
    <3>4. F[f[n + 1]] = f[n + 1] \/ Cardinality(F[f[n + 1]]) > n + 1
      BY <3>1, <3>2, <3>3
    <3> QED BY <2>1, <2>2, <3>4
  <2> QED BY <1>6, <2>3, <2>4
<1> HIDE DEF G
<1>7. N \in G
  <2>1. 0..N \subseteq G
    BY <1>1, <1>5, <1>6, CountUp
  <2> QED BY <1>1, <2>1
<1>8. f[N] \in SUBSET S /\ F[f[N]] \in SUBSET S
  <2>1. N \in 0..N
    BY <1>1
  <2> QED BY <1>3, <2>1
<1>9. Cardinality(F[f[N]]) \in Nat /\ Cardinality(F[f[N]]) <= N
  BY <1>2, <1>8
<1>10. ~(Cardinality(F[f[N]]) > N)
  BY <1>1, <1>9
<1> QED BY <1>7, <1>10 DEF G, N

-----------------------------------------------------------------------------
(* Sums over a finite set, one chosen element after the other, as FoldSet  *)
(* and MapThenSumSet take them.                                            *)

Pick(s) == CHOOSE x \in s : TRUE

\* What is folded over the subsets of S, with a function of the element and of
\* the sum of the rest.
Folding(H, S, r) == [s \in SUBSET S |-> IF s = {} THEN 0 ELSE H[Pick(s)][r[s \ {Pick(s)}]]]

\* The sum of w.
IsSum(m, w, S) ==
  m = [s \in SUBSET S |-> IF s = {} THEN 0 ELSE w[Pick(s)] + m[s \ {Pick(s)}]]

\* What holds of a set if it holds of it without any one element, holds of all.
LEMMA SubsetsUp ==
  ASSUME NEW S, IsFiniteSet(S), NEW G, \A s \in SUBSET S : (\A x \in s : s \ {x} \in G) => s \in G
  PROVE  SUBSET S \subseteq G
<1> DEFINE N == Cardinality(S)
           L == {n \in 0..N : \A s \in SUBSET S : Cardinality(s) <= n => s \in G}
<1>1. N \in Nat
  BY FS_CardinalityType
<1>2. \A s \in SUBSET S : IsFiniteSet(s) /\ Cardinality(s) \in Nat /\ Cardinality(s) <= N
  BY FS_Subset, FS_CardinalityType
<1>3. \A s \in SUBSET S : \A x \in s :
        s \ {x} \in SUBSET S /\ Cardinality(s \ {x}) + 1 = Cardinality(s)
  <2> TAKE s \in SUBSET S
  <2> TAKE x \in s
  <2>1. Cardinality(s \ {x}) = Cardinality(s) - 1
    BY <1>2, FS_RemoveElement
  <2>2. Cardinality(s \ {x}) \in Nat /\ Cardinality(s) \in Nat
    BY <1>2
  <2> QED BY <2>1, <2>2
<1> HIDE DEF N
<1>4. 0 \in L
  <2>1. ASSUME NEW s \in SUBSET S, Cardinality(s) <= 0 PROVE s \in G
    <3>1. \A x \in s : FALSE
      <4> TAKE x \in s
      <4>1. Cardinality(s \ {x}) \in Nat /\ Cardinality(s \ {x}) + 1 = Cardinality(s)
        BY <1>2, <1>3
      <4> QED BY <2>1, <4>1
    <3> QED BY <3>1
  <2> QED BY <1>1, <2>1
<1>5. ASSUME NEW n \in 0..N, n \in L, n < N PROVE n + 1 \in L
  <2>1. ASSUME NEW s \in SUBSET S, Cardinality(s) <= n + 1 PROVE s \in G
    <3>1. ASSUME NEW x \in s PROVE s \ {x} \in G
      <4>1. /\ s \ {x} \in SUBSET S /\ Cardinality(s \ {x}) + 1 = Cardinality(s)
            /\ Cardinality(s \ {x}) \in Nat /\ Cardinality(s) \in Nat /\ n \in Nat
        BY <1>1, <1>2, <1>3
      <4>2. Cardinality(s \ {x}) <= n
        BY <2>1, <4>1
      <4> QED BY <1>5, <4>1, <4>2
    <3> QED BY <3>1
  <2>2. n + 1 \in 0..N
    BY <1>1, <1>5
  <2> QED BY <2>1, <2>2
<1>6. N \in L
  <2> HIDE DEF L
  <2>1. 0..N \subseteq L
    BY ONLY <1>1, <1>4, <1>5, CountUp
  <2> QED BY <1>1, <2>1
<1> QED BY <1>2, <1>6

LEMMA PickIn == ASSUME NEW s, s # {} PROVE Pick(s) \in s
BY DEF Pick

\* A fold exists.
LEMMA FoldExists ==
  ASSUME NEW S, IsFiniteSet(S), NEW H \in [S -> [Nat -> Nat]]
  PROVE  \E m \in [SUBSET S -> Nat] : m = Folding(H, S, m)
<1> DEFINE N == Cardinality(S)
           T == [SUBSET S -> Nat]
           F == [r \in T |-> Folding(H, S, r)]
           t == [s \in SUBSET S |-> 0]
<1>1. N \in Nat
  BY FS_CardinalityType
<1>2. \A s \in SUBSET S : s # {} => Pick(s) \in s /\ Pick(s) \in S /\ s \ {Pick(s)} \in SUBSET S
  BY PickIn
<1>3. \A r \in T : Folding(H, S, r) \in T
  <2> TAKE r \in T
  <2>1. \A s \in SUBSET S : s # {} => H[Pick(s)][r[s \ {Pick(s)}]] \in Nat
    BY <1>2
  <2> QED BY <2>1 DEF Folding
<1>4. F \in [T -> T] /\ t \in T
  BY <1>3
<1>5. PICK f \in [0..N -> T] : Iterates(f, F, t, N)
  <2> HIDE DEF N, T, F, t
  <2> QED BY <1>1, <1>4, IteratesExist
<1>6. f[0] = t /\ \A n \in 0..N : n < N => n + 1 \in 0..N /\ f[n + 1] = Folding(H, S, f[n])
  <2>1. f = [n \in 0..N |-> IF n = 0 THEN t ELSE F[f[n - 1]]]
    BY <1>5 DEF Iterates
  <2>2. 0 \in 0..N
    BY <1>1
  <2>3. \A n \in 0..N : f[n] \in T
    BY <1>5
  <2> HIDE DEF N, T, t
  <2>4. ASSUME NEW n \in 0..N, n < N PROVE n + 1 \in 0..N /\ f[n + 1] = Folding(H, S, f[n])
    <3>1. n + 1 \in 0..N /\ n + 1 # 0 /\ (n + 1) - 1 = n
      BY <1>1, <2>4
    <3>2. f[n + 1] = F[f[n]]
      BY <2>1, <3>1
    <3> QED BY <2>3, <3>1, <3>2
  <2> QED BY <2>1, <2>2, <2>4
<1> DEFINE L == {n \in 0..N : \A s \in SUBSET S : Cardinality(s) <= n => f[n][s] = Folding(H, S, f[n])[s]}
<1>7. \A s \in SUBSET S : IsFiniteSet(s) /\ Cardinality(s) \in Nat /\ Cardinality(s) <= N
  BY FS_Subset, FS_CardinalityType
<1>8. \A s \in SUBSET S : s # {} =>
        Cardinality(s \ {Pick(s)}) + 1 = Cardinality(s) /\ Cardinality(s) # 0
  <2> TAKE s \in SUBSET S
  <2> HAVE s # {}
  <2>1. Pick(s) \in s /\ IsFiniteSet(s) /\ s \ {Pick(s)} \in SUBSET S
    BY <1>2, <1>7
  <2>2. Cardinality(s \ {Pick(s)}) = Cardinality(s) - 1
    BY <2>1, FS_RemoveElement
  <2>3. Cardinality(s \ {Pick(s)}) \in Nat /\ Cardinality(s) \in Nat
    BY <1>7, <2>1
  <2> QED BY <2>2, <2>3
<1> HIDE DEF N
<1>9. \A r : \A s \in SUBSET S :
        Folding(H, S, r)[s] = IF s = {} THEN 0 ELSE H[Pick(s)][r[s \ {Pick(s)}]]
  BY DEF Folding
<1>10. 0 \in L
  <2>1. ASSUME NEW s \in SUBSET S, Cardinality(s) <= 0 PROVE s = {}
    <3>1. IsFiniteSet(s) /\ Cardinality(s) \in Nat
      BY <1>7
    <3>2. Cardinality(s) = 0
      BY <2>1, <3>1
    <3> QED BY <3>1, <3>2, FS_EmptySet
  <2>2. \A s \in SUBSET S : Cardinality(s) <= 0 => f[0][s] = Folding(H, S, f[0])[s]
    <3> TAKE s \in SUBSET S
    <3> HAVE Cardinality(s) <= 0
    <3>1. s = {}
      BY <2>1
    <3>2. f[0][s] = 0
      BY <1>6
    <3> QED BY <1>9, <3>1, <3>2
  <2> QED BY <1>1, <2>2
<1>11. ASSUME NEW n \in 0..N, n \in L, n < N PROVE n + 1 \in L
  <2>1. n + 1 \in 0..N /\ f[n + 1] = Folding(H, S, f[n])
    BY <1>6, <1>11
  <2>2. ASSUME NEW s \in SUBSET S, Cardinality(s) <= n + 1
        PROVE  f[n + 1][s] = Folding(H, S, f[n + 1])[s]
    <3>1. CASE s = {}
      BY <1>9, <2>1, <3>1
    <3>2. CASE s # {}
      <4> DEFINE q == s \ {Pick(s)}
      <4>1. q \in SUBSET S /\ Cardinality(q) + 1 = Cardinality(s)
        BY <1>2, <1>8, <3>2
      <4>2. Cardinality(q) \in Nat /\ Cardinality(s) \in Nat /\ n \in Nat
        BY <1>1, <1>7, <4>1
      <4>3. Cardinality(q) <= n
        BY <2>2, <4>1, <4>2
      <4>4. f[n][q] = Folding(H, S, f[n])[q]
        BY <1>11, <4>1, <4>3
      <4>5. f[n + 1][q] = f[n][q]
        BY <2>1, <4>4
      <4>6. f[n + 1][s] = H[Pick(s)][f[n][q]]
        BY <1>9, <2>1, <3>2
      <4>7. Folding(H, S, f[n + 1])[s] = H[Pick(s)][f[n + 1][q]]
        BY <1>9, <3>2
      <4> QED BY <4>5, <4>6, <4>7
    <3> QED BY <3>1, <3>2
  <2> QED BY <2>1, <2>2
<1>12. N \in L
  <2> HIDE DEF L
  <2>1. 0..N \subseteq L
    BY ONLY <1>1, <1>10, <1>11, CountUp
  <2> QED BY <1>1, <2>1
<1>13. f[N] \in T
  <2>1. N \in 0..N
    BY <1>1
  <2> HIDE DEF T
  <2> QED BY <1>5, <2>1
<1>14. \A s \in SUBSET S : f[N][s] = Folding(H, S, f[N])[s]
  BY <1>7, <1>12
<1>15. f[N] = Folding(H, S, f[N])
  BY <1>13, <1>14 DEF Folding
<1> QED BY <1>13, <1>15

\* A sum of natural numbers exists, and does not depend on the order.
LEMMA SumExists ==
  ASSUME NEW S, IsFiniteSet(S), NEW w \in [S -> Nat]
  PROVE  \E m : IsSum(m, w, S)
<1> DEFINE H == [x \in S |-> [n \in Nat |-> w[x] + n]]
<1>1. H \in [S -> [Nat -> Nat]]
  OBVIOUS
<1>2. PICK m \in [SUBSET S -> Nat] : m = Folding(H, S, m)
  <2> HIDE DEF H
  <2> QED BY <1>1, FoldExists
<1>3. \A s \in SUBSET S : s # {} =>
        H[Pick(s)][m[s \ {Pick(s)}]] = w[Pick(s)] + m[s \ {Pick(s)}]
  BY PickIn
<1>4. m = [s \in SUBSET S |-> IF s = {} THEN 0 ELSE w[Pick(s)] + m[s \ {Pick(s)}]]
  BY <1>2, <1>3 DEF Folding
<1> QED BY <1>4 DEF IsSum

LEMMA SumTyped ==
  ASSUME NEW S, IsFiniteSet(S), NEW w \in [S -> Nat], NEW m, IsSum(m, w, S)
  PROVE  m \in [SUBSET S -> Nat] /\ m[{}] = 0
<1>1. /\ m[{}] = 0
      /\ \A s \in SUBSET S : s # {} => m[s] = w[Pick(s)] + m[s \ {Pick(s)}]
  BY DEF IsSum
<1>2. m = [s \in SUBSET S |-> m[s]]
  BY DEF IsSum
<1>3. \A s \in SUBSET S : m[s] \in Nat
  <2> DEFINE G == {s \in SUBSET S : m[s] \in Nat}
  <2>1. ASSUME NEW s \in SUBSET S, \A x \in s : s \ {x} \in G PROVE s \in G
    <3>1. CASE s = {}
      BY <1>1, <3>1
    <3>2. CASE s # {}
      <4>1. Pick(s) \in s /\ Pick(s) \in S
        BY <3>2, PickIn
      <4>2. m[s \ {Pick(s)}] \in Nat /\ w[Pick(s)] \in Nat
        BY <2>1, <4>1
      <4>3. m[s] = w[Pick(s)] + m[s \ {Pick(s)}]
        BY <1>1, <3>2
      <4>4. m[s] \in Nat
        BY <4>2, <4>3
      <4> QED BY <4>4
    <3> QED BY <3>1, <3>2
  <2> HIDE DEF G
  <2>2. IsFiniteSet(S)
    OBVIOUS
  <2>3. SUBSET S \subseteq G
    BY ONLY <2>1, <2>2, SubsetsUp
  <2> QED BY <2>3 DEF G
<1> QED BY <1>1, <1>2, <1>3

LEMMA SumStep ==
  ASSUME NEW S, IsFiniteSet(S), NEW w \in [S -> Nat], NEW m, IsSum(m, w, S),
         NEW a \in SUBSET S, NEW b \in a
  PROVE  m[a] = w[b] + m[a \ {b}]
<1>1. \A s \in SUBSET S : s # {} => m[s] = w[Pick(s)] + m[s \ {Pick(s)}]
  BY DEF IsSum
<1>2. IsFiniteSet(S) /\ w \in [S -> Nat] /\ IsSum(m, w, S)
  OBVIOUS
<1>3. m \in [SUBSET S -> Nat]
  BY ONLY <1>2, SumTyped
<1> DEFINE G == {s \in SUBSET S : \A x \in s : m[s] = w[x] + m[s \ {x}]}
<1>4. ASSUME NEW s \in SUBSET S, \A x \in s : s \ {x} \in G PROVE s \in G
  <2> DEFINE p == Pick(s)
  <2>1. s # {} => p \in s /\ p \in S /\ m[s] = w[p] + m[s \ {p}]
    BY <1>1, PickIn
  <2> HIDE DEF p
  <2>2. ASSUME NEW x \in s, x # p PROVE m[s] = w[x] + m[s \ {x}]
    <3>1. s \ {x} \in G /\ s \ {p} \in G /\ p \in s \ {x} /\ x \in s \ {p}
      BY <1>4, <2>1, <2>2
    <3> DEFINE q == (s \ {p}) \ {x}
    <3>2. q = (s \ {x}) \ {p} /\ q \in SUBSET S
      OBVIOUS
    <3>3. m[s \ {x}] = w[p] + m[q] /\ m[s \ {p}] = w[x] + m[q]
      BY <3>1, <3>2
    <3> HIDE DEF q
    <3>4. m[q] \in Nat /\ w[x] \in Nat /\ w[p] \in Nat
      BY <1>3, <2>1, <2>2, <3>2
    <3> QED BY <2>1, <2>2, <3>3, <3>4
  <2>3. \A x \in s : m[s] = w[x] + m[s \ {x}]
    BY <2>1, <2>2
  <2> QED BY <2>3
<1> HIDE DEF G
<1>5. IsFiniteSet(S)
  OBVIOUS
<1>6. SUBSET S \subseteq G
  BY ONLY <1>4, <1>5, SubsetsUp
<1>7. a \in G
  BY <1>6
<1> QED BY <1>7 DEF G
=============================================================================
