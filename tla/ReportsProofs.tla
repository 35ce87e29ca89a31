---------------------------- MODULE ReportsProofs ---------------------------
(***************************************************************************)
(* What is said of the reports, of the dependencies, and of the three      *)
(* comparisons.                                                            *)
(***************************************************************************)
EXTENDS Report, Compare, Iteration, SequenceTheorems

-----------------------------------------------------------------------------
(* The sums of module Report.                                              *)

\* A sum kept in an unsigned.
IsModSum(m, w, S) ==
  m = [s \in SUBSET S |-> IF s = {} THEN 0 ELSE (m[s \ {Pick(s)}] + w[Pick(s)]) % Word]

LEMMA ModSumNat ==
  ASSUME NEW S, IsFiniteSet(S), NEW w \in [S -> Nat], NEW r, IsModSum(r, w, S)
  PROVE  r[S] \in Nat
<1>0. Word \in Nat \ {0}
  BY ReportAssumption
<1> DEFINE G == {s \in SUBSET S : r[s] \in Nat}
<1>1. ASSUME NEW s \in SUBSET S, \A x \in s : s \ {x} \in G PROVE s \in G
  <2>1. CASE s = {}
    BY <2>1 DEF IsModSum
  <2>2. CASE s # {}
    <3>1. Pick(s) \in s /\ Pick(s) \in S
      BY <2>2, PickIn
    <3>2. r[s \ {Pick(s)}] \in Nat /\ w[Pick(s)] \in Nat
      BY <1>1, <3>1
    <3>3. r[s] = (r[s \ {Pick(s)}] + w[Pick(s)]) % Word
      BY <2>2 DEF IsModSum
    <3>4. r[s] \in Nat
      BY <1>0, <3>2, <3>3
    <3> QED BY <3>4
  <2> QED BY <2>1, <2>2
<1> HIDE DEF G
<1>2. IsFiniteSet(S)
  OBVIOUS
<1>3. SUBSET S \subseteq G
  BY ONLY <1>1, <1>2, SubsetsUp
<1> QED BY <1>3 DEF G

LEMMA ModSum ==
  ASSUME NEW S, IsFiniteSet(S), NEW w \in [S -> Nat]
  PROVE  /\ \E m : IsModSum(m, w, S)
         /\ \A m : IsModSum(m, w, S) => m[S] \in Nat
<1> DEFINE H == [x \in S |-> [n \in Nat |-> (n + w[x]) % Word]]
<1>0. Word \in Nat \ {0}
  BY ReportAssumption
<1>1. H \in [S -> [Nat -> Nat]]
  BY <1>0
<1>2. PICK m \in [SUBSET S -> Nat] : m = Folding(H, S, m)
  <2> HIDE DEF H
  <2> QED BY <1>1, FoldExists
<1>3. \A s \in SUBSET S : s # {} =>
        H[Pick(s)][m[s \ {Pick(s)}]] = (m[s \ {Pick(s)}] + w[Pick(s)]) % Word
  BY PickIn
<1>4. m = [s \in SUBSET S |-> IF s = {} THEN 0 ELSE (m[s \ {Pick(s)}] + w[Pick(s)]) % Word]
  BY <1>2, <1>3 DEF Folding
<1> QED BY <1>4, ModSumNat DEF IsModSum

\* The size of what a game is made of.
LEMMA SizeGetNat ==
  ASSUME rs \in ReportStart, NEW g \in rs.games
  PROVE  size_get(g) \in Nat
<1> DEFINE S == rs.need[g]
           w == [r \in S |-> r.size]
           Body(m) == [s \in SUBSET S |->
             IF s = {} THEN 0 ELSE (m[s \ {Pick(s)}] + Pick(s).size) % Word]
           M == CHOOSE m : m = Body(m)
<1>1. IsFiniteSet(S) /\ w \in [S -> Nat]
  BY ReportAssumption
<1>2. \A m : IsModSum(m, w, S) <=> m = Body(m)
  <2> TAKE m
  <2>1. \A s \in SUBSET S : s # {} => w[Pick(s)] = Pick(s).size
    BY PickIn
  <2> QED BY <2>1 DEF IsModSum
<1>3. size_get(g) = M[S]
  BY DEF size_get, Sum32, FoldSet, MapThenFoldSet, Pick
<1> HIDE DEF S, w
<1>4. M = Body(M)
  <2>1. \E m : m = Body(m)
    BY <1>1, <1>2, ModSum
  <2> HIDE DEF Body
  <2> QED BY <2>1
<1>5. IsModSum(M, w, S)
  BY <1>2, <1>4
<1> HIDE DEF M
<1> QED BY <1>1, <1>3, <1>5, ModSum

LEMMA LeastOf ==
  ASSUME NEW S \in SUBSET Nat, S # {}
  PROVE  Min(S) \in S /\ \A y \in S : Min(S) <= y
<1> DEFINE Lower == {ss \in Nat \X Nat : ss[1] < ss[2]}
<1>1. IsWellFoundedOn(Lower, Nat)
  BY NatLessThanWellFounded DEF OpToRel
<1>2. PICK m \in S : \A x \in S : ~(<<x, m>> \in Lower)
  BY <1>1, WFMin
<1>3. \A x \in S : m <= x
  <2> TAKE x \in S
  <2>1. x \in Nat /\ m \in Nat /\ ~(x < m)
    BY <1>2
  <2> QED BY <2>1
<1> QED BY <1>3 DEF Min

\* What is found of a game is a sequence of infopaths.
LEMMA FoundTypes ==
  ASSUME rs \in ReportStart, NEW g \in rs.games
  PROVE  /\ \A i \in DOMAIN rs.found[g] : rs.found[g][i] \in ReportPath
         /\ \A i \in Zips(g) : i \in ReportPath /\ (rs.kind # "disk" => i.size # 0)
         /\ IsFiniteSet(DOMAIN rs.found[g])
         /\ rs.found[g] = <<>> <=> Zips(g) = {}
<1>1. /\ rs.found[g] \in Seq(ReportPath)
      /\ rs.kind # "disk" => \A i \in ToSet(rs.found[g]) : i.size # 0
  BY ReportAssumption
<1>2. /\ DOMAIN rs.found[g] = 1..Len(rs.found[g]) /\ Len(rs.found[g]) \in Nat
      /\ \A i \in DOMAIN rs.found[g] : rs.found[g][i] \in ReportPath
  BY <1>1
<1>3. IsFiniteSet(DOMAIN rs.found[g])
  <2>1. IsFiniteSet(1..Len(rs.found[g]))
    BY <1>2, FS_Interval
  <2> QED BY <1>2, <2>1
<1>4. Zips(g) = {rs.found[g][i] : i \in DOMAIN rs.found[g]}
  BY DEF Zips, ToSet
<1>5. \A i \in Zips(g) : i \in ReportPath /\ (rs.kind # "disk" => i.size # 0)
  BY <1>1, <1>2, <1>4 DEF Zips
<1>6. rs.found[g] = <<>> => Zips(g) = {}
  BY <1>4
<1>7. Zips(g) = {} => rs.found[g] = <<>>
  <2>1. ASSUME Zips(g) = {} PROVE Len(rs.found[g]) = 0
    <3>1. 1 \notin DOMAIN rs.found[g]
      BY <1>4, <2>1
    <3> QED BY <1>2, <3>1
  <2> QED BY <1>1, <2>1
<1> QED BY <1>2, <1>3, <1>5, <1>6, <1>7

\* The sizes of what is found; the least size of good archives is of one of them.
LEMMA GoodSizeFacts ==
  ASSUME rs \in ReportStart, NEW g \in rs.games
  PROVE  /\ good_size(g) \in Nat
         /\ rs.kind # "disk" /\ has_good(g) =>
              good_size(g) # 0 /\ \A i \in Zips(g) : i.good => i.size >= good_size(g)
<1>1. CASE rs.kind = "disk"
  <2> DEFINE S == GoodDisks(g)
             w == [i \in S |-> rs.found[g][i].size]
             Body(m) == [s \in SUBSET S |->
               IF s = {} THEN 0 ELSE (m[s \ {Pick(s)}] + rs.found[g][Pick(s)].size) % Word]
             M == CHOOSE m : m = Body(m)
  <2>1. IsFiniteSet(S) /\ w \in [S -> Nat]
    <3>1. S \subseteq DOMAIN rs.found[g]
      BY DEF GoodDisks
    <3>2. \A i \in S : rs.found[g][i].size \in Nat
      BY <3>1, FoundTypes DEF ReportPath
    <3>3. IsFiniteSet(S)
      BY <3>1, FoundTypes, FS_Subset
    <3> QED BY <3>2, <3>3
  <2>2. \A m : IsModSum(m, w, S) <=> m = Body(m)
    <3> TAKE m
    <3>1. \A s \in SUBSET S : s # {} => w[Pick(s)] = rs.found[g][Pick(s)].size
      BY PickIn
    <3> QED BY <3>1 DEF IsModSum
  <2>3. good_size(g) = M[S]
    BY <1>1 DEF good_size, Sum32, FoldSet, MapThenFoldSet, Pick
  <2> HIDE DEF S, w
  <2>4. M = Body(M)
    <3>1. \E m : m = Body(m)
      BY <2>1, <2>2, ModSum
    <3> HIDE DEF Body
    <3> QED BY <3>1
  <2>5. IsModSum(M, w, S)
    BY <2>2, <2>4
  <2> HIDE DEF M
  <2>6. good_size(g) \in Nat
    BY <2>1, <2>3, <2>5, ModSum
  <2> QED BY <1>1, <2>6
<1>2. CASE rs.kind # "disk"
  <2> DEFINE S == {i.size : i \in {i \in Zips(g) : i.good}}
  <2>1. good_size(g) = IF S = {} THEN 0 ELSE Min(S)
    BY <1>2 DEF good_size, GoodSize
  <2>2. S \in SUBSET Nat /\ 0 \notin S
    BY <1>2, FoundTypes DEF ReportPath
  <2>3. has_good(g) => S # {}
    BY <1>2 DEF has_good
  <2>4. \A i \in Zips(g) : i.good => i.size \in S
    OBVIOUS
  <2> HIDE DEF S
  <2>5. S # {} => good_size(g) \in S /\ \A y \in S : good_size(g) <= y
    <3> SUFFICES ASSUME S # {} PROVE good_size(g) \in S /\ \A y \in S : good_size(g) <= y
      OBVIOUS
    <3>1. Min(S) \in S /\ \A y \in S : Min(S) <= y
      BY ONLY <2>2, S # {}, LeastOf
    <3>2. good_size(g) = Min(S)
      BY ONLY <2>1, S # {}
    <3> QED BY ONLY <3>1, <3>2
  <2>6. good_size(g) \in Nat
    <3>1. S = {} => good_size(g) = 0
      BY <2>1
    <3>2. S # {} => good_size(g) \in Nat
      BY <2>2, <2>5
    <3> QED BY <3>1, <3>2
  <2>7. has_good(g) => good_size(g) # 0
    BY <2>2, <2>3, <2>5
  <2>8. \A i \in Zips(g) : i.good => i.size >= good_size(g)
    BY <2>2, <2>4, <2>5
  <2> QED BY <2>6, <2>7, <2>8
<1> QED BY <1>1, <1>2

\* The sums that SizesAddUp compares.
AllRequired == {g \in rs.games : required(g)}

LEMMA RequiredSum ==
  ASSUME rs \in ReportStart
  PROVE  \E m : /\ IsSum(m, [g \in AllRequired |-> size_get(g)], AllRequired)
                /\ MapThenSumSet(size_get, AllRequired) = m[AllRequired]
<1> DEFINE S == AllRequired
           w == [g \in S |-> size_get(g)]
           Body(m) == [s \in SUBSET S |->
             IF s = {} THEN 0 ELSE size_get(Pick(s)) + m[s \ {Pick(s)}]]
           M == CHOOSE m : m = Body(m)
<1>1. IsFiniteSet(S) /\ w \in [S -> Nat]
  <2>1. IsFiniteSet(rs.games) /\ S \subseteq rs.games
    BY ReportAssumption DEF AllRequired
  <2>2. IsFiniteSet(S)
    BY <2>1, FS_Subset
  <2> QED BY <2>1, <2>2, SizeGetNat
<1>2. \A m : IsSum(m, w, S) <=> m = Body(m)
  <2> TAKE m
  <2>1. \A s \in SUBSET S : s # {} => w[Pick(s)] = size_get(Pick(s))
    BY PickIn
  <2> QED BY <2>1 DEF IsSum
<1>3. MapThenSumSet(size_get, S) = M[S]
  BY DEF MapThenSumSet, MapThenFoldSet, Pick
<1>4. M = Body(M)
  <2>1. \E m : IsSum(m, w, S)
    <3> HIDE DEF S, w
    <3> QED BY <1>1, SumExists
  <2>2. \E m : m = Body(m)
    BY <1>2, <2>1
  <2> HIDE DEF Body
  <2> QED BY <2>2
<1>5. IsSum(M, w, S)
  BY <1>2, <1>4
<1> HIDE DEF M
<1> QED BY <1>3, <1>5

ListParts == Classes \X {"parent", "clone"}
AddedUp(t) == t["good"]["parent"].size + t["good"]["clone"].size + t["bad"]["parent"].size
              + t["bad"]["clone"].size + t["miss"]["parent"].size + t["miss"]["clone"].size

\* What SizesAddUp adds up.
SumOfLists == MapThenSumSet(LAMBDA x : total[x[1]][x[2]].size, ListParts)

LEMMA TotalSum ==
  ASSUME \A l \in Classes, p \in {"parent", "clone"} : total[l][p].size \in Nat
  PROVE  SumOfLists = AddedUp(total)
<1> DEFINE S == ListParts
           w == [x \in S |-> total[x[1]][x[2]].size]
           Body(m) == [s \in SUBSET S |->
             IF s = {} THEN 0 ELSE total[Pick(s)[1]][Pick(s)[2]].size + m[s \ {Pick(s)}]]
           M == CHOOSE m : m = Body(m)
<1>1. IsFiniteSet(S) /\ w \in [S -> Nat]
  <2>1. /\ IsFiniteSet({"good", "bad", "miss"}) /\ IsFiniteSet({"parent", "clone"})
    <3>1. /\ IsFiniteSet({"miss"}) /\ IsFiniteSet({"clone"})
      BY FS_Singleton
    <3>2. IsFiniteSet({"miss"} \cup {"bad"}) /\ IsFiniteSet({"clone"} \cup {"parent"})
      BY <3>1, FS_AddElement
    <3>3. IsFiniteSet(({"miss"} \cup {"bad"}) \cup {"good"})
      BY <3>2, FS_AddElement
    <3>4. /\ ({"miss"} \cup {"bad"}) \cup {"good"} = {"good", "bad", "miss"}
          /\ {"clone"} \cup {"parent"} = {"parent", "clone"}
      OBVIOUS
    <3> QED BY <3>2, <3>3, <3>4
  <2>2. IsFiniteSet(S)
    BY <2>1, FS_Product DEF ListParts, Classes
  <2>3. w \in [S -> Nat]
    BY DEF ListParts
  <2> QED BY <2>2, <2>3
<1>2. \A m : IsSum(m, w, S) <=> m = Body(m)
  <2> TAKE m
  <2>1. \A s \in SUBSET S : s # {} => w[Pick(s)] = total[Pick(s)[1]][Pick(s)[2]].size
    BY PickIn
  <2> QED BY <2>1 DEF IsSum
<1>3. SumOfLists = M[S]
  BY DEF SumOfLists, MapThenSumSet, MapThenFoldSet, Pick
<1>4. M = Body(M)
  <2>1. \E m : IsSum(m, w, S)
    <3> HIDE DEF S, w
    <3> QED BY <1>1, SumExists
  <2>2. \E m : m = Body(m)
    BY <1>2, <2>1
  <2> HIDE DEF Body
  <2> QED BY <2>2
<1>5. IsSum(M, w, S)
  BY <1>2, <1>4
<1> HIDE DEF M
<1>6. /\ M \in [SUBSET S -> Nat] /\ M[{}] = 0
      /\ \A s \in SUBSET S : \A x \in s : M[s] = w[x] + M[s \ {x}]
  <2> HIDE DEF S, w, Body
  <2>1. IsFiniteSet(S) /\ w \in [S -> Nat] /\ IsSum(M, w, S)
    BY <1>1, <1>5
  <2>2. M \in [SUBSET S -> Nat] /\ M[{}] = 0
    BY ONLY <2>1, SumTyped
  <2>3. ASSUME NEW s \in SUBSET S, NEW x \in s PROVE M[s] = w[x] + M[s \ {x}]
    BY ONLY <2>1, <2>3, SumStep
  <2> QED BY <2>2, <2>3
<1> DEFINE a == <<"good", "parent">>
           b == <<"good", "clone">>
           c == <<"bad", "parent">>
           d == <<"bad", "clone">>
           e == <<"miss", "parent">>
           f == <<"miss", "clone">>
<1>7. S = {a, b, c, d, e, f}
  BY DEF ListParts, Classes
<1>8. /\ w[a] = total["good"]["parent"].size /\ w[b] = total["good"]["clone"].size
      /\ w[c] = total["bad"]["parent"].size /\ w[d] = total["bad"]["clone"].size
      /\ w[e] = total["miss"]["parent"].size /\ w[f] = total["miss"]["clone"].size
  BY DEF ListParts, Classes
<1>9. /\ a \notin {b, c, d, e, f} /\ b \notin {c, d, e, f} /\ c \notin {d, e, f}
      /\ d \notin {e, f} /\ e \notin {f}
  OBVIOUS
<1> HIDE DEF a, b, c, d, e, f, S, w
<1>10. /\ M[{a, b, c, d, e, f}] = w[a] + M[{b, c, d, e, f}]
       /\ M[{b, c, d, e, f}] = w[b] + M[{c, d, e, f}]
       /\ M[{c, d, e, f}] = w[c] + M[{d, e, f}]
  <2>1. /\ {a, b, c, d, e, f} \ {a} = {b, c, d, e, f} /\ {b, c, d, e, f} \ {b} = {c, d, e, f}
        /\ {c, d, e, f} \ {c} = {d, e, f}
    BY ONLY <1>9
  <2>2. {a, b, c, d, e, f} \in SUBSET S /\ {b, c, d, e, f} \in SUBSET S /\ {c, d, e, f} \in SUBSET S
    BY ONLY <1>7
  <2> QED BY ONLY <1>6, <2>1, <2>2
<1>11. /\ M[{d, e, f}] = w[d] + M[{e, f}] /\ M[{e, f}] = w[e] + M[{f}] /\ M[{f}] = w[f] + M[{}]
  <2>1. /\ {d, e, f} \ {d} = {e, f} /\ {e, f} \ {e} = {f} /\ {f} \ {f} = {}
    BY <1>9
  <2> QED BY <1>6, <1>7, <2>1
<1>12. /\ w[a] \in Nat /\ w[b] \in Nat /\ w[c] \in Nat
       /\ w[d] \in Nat /\ w[e] \in Nat /\ w[f] \in Nat
  BY <1>1, <1>7
<1>13. M[S] = w[a] + w[b] + w[c] + w[d] + w[e] + w[f]
  BY <1>6, <1>7, <1>10, <1>11, <1>12
<1> QED BY <1>3, <1>8, <1>13 DEF AddedUp

-----------------------------------------------------------------------------
(* What is above a game, and how the reports on working clones find it.    *)

\* What the games are: ranks, other than RNone.
LEMMA StartFacts ==
  ASSUME rs \in ReportStart
  PROVE  /\ rs.games \subseteq RGame /\ RGame \subseteq Nat /\ RNone \notin RGame
         /\ IsFiniteSet(rs.games) /\ rs.kind \in RKind
         /\ \A g \in RGame : rs.romof[g] \in RGame \cup {RNone}
         /\ \A h \in RGame : Sons(h) = {s \in rs.games : rs.romof[s] = h}
         /\ RDepth \in Nat
<1> USE ReportAssumption
<1>1. /\ rs.games \subseteq RGame /\ RGame \subseteq Nat /\ RNone \notin RGame
      /\ rs.games \subseteq rs.all /\ rs.kind \in RKind
  OBVIOUS
<1>2. IsFiniteSet(rs.games) /\ rs.romof \in [RGame -> RGame \cup {RNone}]
  OBVIOUS
<1>3. RDepth \in Nat
  BY <1>2, FS_CardinalityType DEF RDepth
<1>4. \A h \in RGame : Sons(h) = {s \in rs.games : rs.romof[s] = h}
  BY <1>1 DEF Sons
<1> QED BY <1>1, <1>2, <1>3, <1>4

LEMMA UpSelf ==
  ASSUME NEW g \in RGame
  PROVE  g \in UpFrom(g)
BY DEF UpFrom

LEMMA UpGo ==
  ASSUME rs \in ReportStart, NEW g \in RGame, NEW h \in UpFrom(g), h \in rs.games, rs.romof[h] # RNone
  PROVE  rs.romof[h] \in UpFrom(g)
<1>1. h \in RGame /\ rs.romof[h] \in RGame
  BY StartFacts
<1>2. ASSUME NEW S \in SUBSET RGame, g \in S /\ RClosed(S) PROVE rs.romof[h] \in S
  <2>1. h \in S
    BY <1>2 DEF UpFrom
  <2> QED BY <1>2, <2>1 DEF RClosed
<1> QED BY <1>1, <1>2 DEF UpFrom

LEMMA UpWithin ==
  ASSUME NEW S \in SUBSET RGame, RClosed(S), NEW g \in S
  PROVE  UpFrom(g) \subseteq S
BY DEF UpFrom

\* Going up from the games t.
UpStep(t) == [A \in SUBSET rs.games |-> t \cup {h \in rs.games : Sons(h) \cap A # {}}]
AboveAll(t) == {g \in rs.games : \E h \in t : g \in UpFrom(h)}

LEMMA LevelsAbove ==
  ASSUME rs \in ReportStart, NEW t \in SUBSET rs.games, NEW L \in [0..RDepth -> SUBSET rs.games],
         Iterates(L, UpStep(t), t, RDepth)
  PROVE  L[RDepth] = AboveAll(t)
<1> DEFINE S == rs.games
           F == UpStep(t)
           N == RDepth
<1>1. F \in [SUBSET S -> SUBSET S] /\ t \subseteq F[t]
      /\ \A A, B \in SUBSET S : A \subseteq B => F[A] \subseteq F[B]
  BY DEF UpStep
<1>2. IsFiniteSet(S) /\ N = Cardinality(S) /\ N \in Nat
  BY StartFacts DEF RDepth
<1>3. F[L[N]] = L[N]
  <2> HIDE DEF F, N, S
  <2>1. /\ IsFiniteSet(S) /\ F \in [SUBSET S -> SUBSET S] /\ t \in SUBSET S
        /\ t \subseteq F[t] /\ L \in [0..Cardinality(S) -> SUBSET S]
        /\ Iterates(L, F, t, Cardinality(S))
    BY <1>1, <1>2 DEF S, F, N
  <2>2. \A A, B \in SUBSET S : A \subseteq B => F[A] \subseteq F[B]
    BY <1>1
  <2>3. F[L[Cardinality(S)]] = L[Cardinality(S)]
    BY ONLY <2>1, <2>2, LevelsStop
  <2> QED BY <1>2, <2>3
<1>4. L[N] \in SUBSET S
  BY <1>2
<1>5. L[N] = t \cup {h \in S : Sons(h) \cap L[N] # {}}
  BY <1>3, <1>4 DEF UpStep
<1>6. ASSUME NEW w \in t, NEW g \in rs.games, g \in UpFrom(w) PROVE g \in L[N]
  <2> DEFINE C == L[N] \cup (RGame \ S)
  <2>1. C \in SUBSET RGame /\ w \in C
    BY <1>4, <1>5, StartFacts
  <2>2. ASSUME NEW x \in C, x \in S, rs.romof[x] # RNone PROVE rs.romof[x] \in C
    <3>1. x \in L[N] /\ rs.romof[x] \in RGame
      BY <2>2, StartFacts
    <3>2. x \in Sons(rs.romof[x])
      BY <2>2, <3>1, StartFacts
    <3> QED BY <1>5, <3>1, <3>2
  <2>3. RClosed(C)
    BY <2>2 DEF RClosed
  <2> HIDE DEF C
  <2>4. g \in C
    BY <1>6, <2>1, <2>3, UpWithin
  <2> QED BY <2>4 DEF C
<1> DEFINE G == {n \in 0..N : L[n] \subseteq AboveAll(t)}
<1>7. L = [n \in 0..N |-> IF n = 0 THEN t ELSE F[L[n - 1]]]
  BY DEF Iterates
<1>8. 0 \in G
  <2>1. 0 \in 0..N
    BY <1>2
  <2>2. L[0] = t
    BY <1>7, <2>1
  <2>3. t \subseteq AboveAll(t)
    BY UpSelf, StartFacts DEF AboveAll
  <2> QED BY <2>1, <2>2, <2>3
<1>9. ASSUME NEW n \in 0..N, n \in G, n < N PROVE n + 1 \in G
  <2>1. n + 1 \in 0..N /\ n + 1 # 0 /\ (n + 1) - 1 = n
    BY <1>2, <1>9
  <2>2. L[n + 1] = F[L[n]] /\ L[n] \in SUBSET S
    BY <1>7, <2>1
  <2>3. L[n + 1] = t \cup {h \in S : Sons(h) \cap L[n] # {}}
    BY <2>2 DEF UpStep
  <2>4. ASSUME NEW h \in S, NEW s \in Sons(h), s \in L[n] PROVE h \in AboveAll(t)
    <3>1. PICK w \in t : s \in UpFrom(w)
      BY <1>9, <2>4 DEF AboveAll
    <3>2. h \in RGame /\ s \in S /\ rs.romof[s] = h /\ h # RNone /\ w \in RGame
      BY <2>4, StartFacts
    <3>3. h \in UpFrom(w)
      BY <3>1, <3>2, UpGo
    <3> QED BY <3>3 DEF AboveAll
  <2>5. t \subseteq AboveAll(t)
    BY UpSelf, StartFacts DEF AboveAll
  <2> QED BY <2>1, <2>3, <2>4, <2>5
<1> HIDE DEF G
<1>10. N \in G
  <2> HIDE DEF N
  <2>1. 0..N \subseteq G
    BY ONLY <1>2, <1>8, <1>9, CountUp
  <2> QED BY <1>2, <2>1
<1>11. L[N] \subseteq AboveAll(t)
  BY <1>10 DEF G
<1> QED BY <1>6, <1>11 DEF AboveAll

\* find_working_clones finds the working games that a game is above.
LEMMA ClonesComputed ==
  ASSUME rs \in ReportStart, NEW g \in rs.games
  PROVE  find_working_clones(g) = {w \in rs.games \cap rs.working : g \in UpFrom(w)}
<1> DEFINE N == RDepth
           T == [RGame -> SUBSET rs.working]
           t0 == [h \in RGame |-> {h} \cap rs.working]
           F == [r \in T |-> [h \in RGame |-> ({h} \cap rs.working) \cup UNION {r[s] : s \in Sons(h)}]]
           Body(m) == [n \in 0..N |-> [h \in RGame |->
             ({h} \cap rs.working) \cup IF n = 0 THEN {} ELSE UNION {m[n - 1][s] : s \in Sons(h)}]]
           M == CHOOSE m : m = Body(m)
<1>1. N \in Nat /\ \A h \in RGame : Sons(h) \subseteq RGame
  BY StartFacts
<1>2. t0 \in T /\ F \in [T -> T]
  BY <1>1
<1>3. PICK f \in [0..N -> T] : Iterates(f, F, t0, N)
  <2> HIDE DEF N, T, F, t0
  <2> QED BY <1>1, <1>2, IteratesExist
<1>4. f = Body(f)
  <2>1. ASSUME NEW n \in 0..N PROVE f[n] = Body(f)[n]
    <3>1. CASE n = 0
      BY <1>3, <3>1 DEF Iterates
    <3>2. CASE n # 0
      <4>1. n - 1 \in 0..N /\ f[n - 1] \in T
        BY <1>1, <1>3, <3>2
      <4>2. f[n] = F[f[n - 1]]
        BY <1>3, <3>2 DEF Iterates
      <4> QED BY <3>2, <4>1, <4>2
    <3> QED BY <3>1, <3>2
  <2> QED BY <1>3, <2>1
<1>5. M = Body(M)
  <2> HIDE DEF Body
  <2> QED BY <1>4
<1>6. find_working_clones(g) = M[N][g]
  BY DEF find_working_clones
<1> HIDE DEF M
<1>7. ASSUME NEW n \in 0..N, NEW h \in RGame
      PROVE  M[n][h] = ({h} \cap rs.working)
                       \cup IF n = 0 THEN {} ELSE UNION {M[n - 1][s] : s \in Sons(h)}
  <2>1. M[n] = Body(M)[n]
    <3> HIDE DEF Body
    <3> QED BY <1>5
  <2> QED BY <2>1
<1>8. N \in 0..N /\ g \in RGame
  BY <1>1, StartFacts
\* only games that work
<1>9. M[N][g] \subseteq rs.working
  <2> DEFINE G == {n \in 0..N : \A h \in RGame : M[n][h] \subseteq rs.working}
  <2>1. 0 \in G
    <3>1. 0 \in 0..N
      BY <1>1
    <3> QED BY <1>7, <3>1
  <2>2. ASSUME NEW n \in 0..N, n \in G, n < N PROVE n + 1 \in G
    <3>1. n + 1 \in 0..N /\ (n + 1) - 1 = n /\ n + 1 # 0
      BY <1>1, <2>2
    <3>2. \A h \in RGame : M[n + 1][h] = ({h} \cap rs.working) \cup UNION {M[n][s] : s \in Sons(h)}
      BY <1>7, <3>1
    <3>3. \A h \in RGame : \A s \in Sons(h) : M[n][s] \subseteq rs.working
      BY <1>1, <2>2
    <3> QED BY <3>1, <3>2, <3>3
  <2>3. N \in G
    <3> HIDE DEF G, N, Body
    <3>1. 0..N \subseteq G
      BY ONLY <1>1, <2>1, <2>2, CountUp
    <3> QED BY <1>8, <3>1
  <2> QED BY <1>8, <2>3
<1>10. ASSUME NEW w \in rs.working PROVE w \in M[N][g] <=> w \in rs.games /\ g \in UpFrom(w)
  <2> DEFINE t == {w} \cap rs.games
             L == [n \in 0..N |-> {h \in rs.games : w \in M[n][h]}]
  <2>1. t \in SUBSET rs.games /\ L \in [0..N -> SUBSET rs.games]
    OBVIOUS
  <2>2. ASSUME NEW n \in 0..N PROVE L[n] = IF n = 0 THEN t ELSE UpStep(t)[L[n - 1]]
    <3>1. CASE n = 0
      <4>1. \A h \in rs.games : w \in M[n][h] <=> w = h
        BY <1>7, <1>10, <3>1, StartFacts
      <4> QED BY <3>1, <4>1
    <3>2. CASE n # 0
      <4>1. n - 1 \in 0..N
        BY <1>1, <3>2
      <4>2. \A h \in RGame : M[n][h] = ({h} \cap rs.working) \cup UNION {M[n - 1][s] : s \in Sons(h)}
        BY <1>7, <3>2
      <4>3. \A h \in rs.games : w \in M[n][h] <=> w = h \/ \E s \in Sons(h) : w \in M[n - 1][s]
        BY <1>10, <4>2, StartFacts
      <4>4. \A h \in rs.games : \A s \in Sons(h) : w \in M[n - 1][s] <=> s \in L[n - 1]
        BY <4>1, StartFacts
      <4>5. L[n] = {h \in rs.games : w \in M[n][h]} /\ L[n - 1] \in SUBSET rs.games
        BY <4>1
      <4> HIDE DEF L
      <4>6. L[n] = t \cup {h \in rs.games : Sons(h) \cap L[n - 1] # {}}
        BY <4>3, <4>4, <4>5
      <4> QED BY <3>2, <4>5, <4>6 DEF UpStep
    <3> QED BY <3>1, <3>2
  <2>3. Iterates(L, UpStep(t), t, N)
    <3>1. L = [n \in 0..N |-> L[n]]
      OBVIOUS
    <3> HIDE DEF L, t
    <3> QED BY <2>2, <3>1 DEF Iterates
  <2>4. w \in M[N][g] <=> g \in L[N]
    BY <1>8
  <2> HIDE DEF L
  <2>5. L[N] = AboveAll(t)
    <3> HIDE DEF t
    <3> QED BY <2>1, <2>3, LevelsAbove
  <2>6. g \in AboveAll(t) <=> w \in rs.games /\ g \in UpFrom(w)
    BY DEF AboveAll
  <2> QED BY <2>4, <2>5, <2>6
<1> QED BY <1>6, <1>9, <1>10

\* has_working_clone_with_rom finds whether a game, that does not work itself, is
\* above one that works and has its roms.
LEMMA WorkingCloneComputed ==
  ASSUME rs \in ReportStart, NEW g \in rs.games, g \notin rs.working
  PROVE  has_working_clone_with_rom(g)
           <=> \E w \in rs.games \cap rs.working : has_good(w) /\ g \in UpFrom(w)
<1> DEFINE N == RDepth
           T == [RGame -> BOOLEAN]
           t0 == [h \in RGame |-> FALSE]
           F == [r \in T |-> [h \in RGame |-> \E s \in Sons(h) : (s \in rs.working /\ has_good(s)) \/ r[s]]]
           Body(m) == [n \in 0..N |-> [h \in RGame |->
             n > 0 /\ \E s \in Sons(h) : (s \in rs.working /\ has_good(s)) \/ m[n - 1][s]]]
           M == CHOOSE m : m = Body(m)
<1>1. N \in Nat /\ \A h \in RGame : Sons(h) \subseteq RGame
  BY StartFacts
<1>2. t0 \in T /\ F \in [T -> T]
  BY <1>1
<1>3. PICK f \in [0..N -> T] : Iterates(f, F, t0, N)
  <2> HIDE DEF N, T, F, t0
  <2> QED BY <1>1, <1>2, IteratesExist
<1>4. f = Body(f)
  <2>1. ASSUME NEW n \in 0..N PROVE f[n] = Body(f)[n]
    <3>1. CASE n = 0
      <4>1. f[n] = t0
        BY <1>3, <3>1 DEF Iterates
      <4>2. ~(n > 0)
        BY <3>1
      <4>3. Body(f)[n] = [h \in RGame |-> FALSE]
        BY <4>2
      <4> QED BY <4>1, <4>3
    <3>2. CASE n # 0
      <4>1. n - 1 \in 0..N /\ f[n - 1] \in T /\ n > 0
        BY <1>1, <1>3, <3>2
      <4>2. f[n] = F[f[n - 1]]
        BY <1>3, <3>2 DEF Iterates
      <4> QED BY <3>2, <4>1, <4>2
    <3> QED BY <3>1, <3>2
  <2> QED BY <1>3, <2>1
<1>5. M = Body(M)
  <2> HIDE DEF Body
  <2> QED BY <1>4
<1>6. has_working_clone_with_rom(g) <=> M[N][g]
  BY DEF has_working_clone_with_rom
<1> HIDE DEF M
<1>7. ASSUME NEW n \in 0..N, NEW h \in RGame
      PROVE  M[n][h] <=> n > 0 /\ \E s \in Sons(h) : (s \in rs.working /\ has_good(s)) \/ M[n - 1][s]
  BY <1>5
<1>8. N \in 0..N /\ g \in RGame
  BY <1>1, StartFacts
<1> DEFINE t == {s \in rs.games : s \in rs.working /\ has_good(s)}
           L == [n \in 0..N |-> t \cup {h \in rs.games : M[n][h]}]
<1>9. t \in SUBSET rs.games /\ L \in [0..N -> SUBSET rs.games]
  OBVIOUS
<1>10. ASSUME NEW n \in 0..N PROVE L[n] = IF n = 0 THEN t ELSE UpStep(t)[L[n - 1]]
  <2>1. CASE n = 0
    <3>1. \A h \in rs.games : ~M[n][h]
      BY <1>7, <2>1, StartFacts
    <3> QED BY <2>1, <3>1
  <2>2. CASE n # 0
    <3>1. n - 1 \in 0..N /\ n > 0
      BY <1>1, <2>2
    <3>2. \A h \in rs.games :
            M[n][h] <=> \E s \in Sons(h) : (s \in rs.working /\ has_good(s)) \/ M[n - 1][s]
      BY <1>7, <3>1, StartFacts
    <3>3. \A h \in rs.games : \A s \in Sons(h) :
            ((s \in rs.working /\ has_good(s)) \/ M[n - 1][s]) <=> s \in L[n - 1]
      BY <3>1, StartFacts
    <3>4. L[n] = t \cup {h \in rs.games : M[n][h]} /\ L[n - 1] \in SUBSET rs.games
      BY <3>1
    <3> HIDE DEF L, t
    <3>5. L[n] = t \cup {h \in rs.games : Sons(h) \cap L[n - 1] # {}}
      BY <3>2, <3>3, <3>4
    <3> QED BY <2>2, <3>4, <3>5 DEF UpStep
  <2> QED BY <2>1, <2>2
<1>11. Iterates(L, UpStep(t), t, N)
  <2>1. L = [n \in 0..N |-> L[n]]
    OBVIOUS
  <2> HIDE DEF L, t
  <2> QED BY <1>10, <2>1 DEF Iterates
<1>12. M[N][g] <=> g \in L[N]
  BY <1>8
<1> HIDE DEF L
<1>13. L[N] = AboveAll(t)
  <2> HIDE DEF t
  <2> QED BY <1>9, <1>11, LevelsAbove
<1>14. g \in AboveAll(t) <=> \E w \in rs.games \cap rs.working : has_good(w) /\ g \in UpFrom(w)
  BY DEF AboveAll
<1> QED BY <1>6, <1>12, <1>13, <1>14

-----------------------------------------------------------------------------
(* The lists of --report.                                                  *)

Loops == {"dup", "good", "bad", "miss", "zip"}
Parts == {"parent", "clone"}
Tags == {"duplicate", "preliminary", "but", "incomplete", "missing"}

\* What of the loops there are has been through.
Passed(c) == CASE c = "good" -> {"bad", "miss", "zip", "done"} [] c = "bad" -> {"miss", "zip", "done"}
               [] c = "miss" -> {"zip", "done"}
Seen(c) == IF rpc = c THEN rs.games \ left ELSE IF rpc \in Passed(c) THEN rs.games ELSE {}

ReportTypes ==
  /\ rs \in ReportStart /\ rpc \in Loops \cup {"done"} /\ left \subseteq rs.games
  /\ listed \in [{"dup", "good", "bad", "miss"} -> SUBSET rs.games]
  /\ total \in [Classes -> [Parts -> [count : Nat, size : Nat, zip : Nat]]]
  /\ rs.kind # "rom" => \A l \in Classes, p \in Parts : total[l][p].size = 0
  /\ up \in RGame \cup {RNone} /\ (up # RNone => rpc = "zip")
  /\ lines \subseteq Tags \X RGame \X RGame

\* A list has the games of its kind that its loop has come to.
ListedRight == \A c \in Classes : listed[c] = {g \in Seen(c) : InList(c, g)}

\* The sizes are those of the games in the lists.
Counted == {g \in AllRequired : \E c \in Classes : g \in listed[c]}
SizeOf == [g \in AllRequired |-> size_get(g)]
SizesRight ==
  rs.kind = "rom" => \A m : IsSum(m, SizeOf, AllRequired) => AddedUp(total) = m[Counted]

\* There is no size of archives only if there is none to count.
GoodOnes(p) == {g \in listed["good"] : Tested(g) /\ Part(g) = p}
ZipsRight == rs.kind # "disk" => \A p \in Parts : total["good"][p].zip = 0 <=> GoodOnes(p) = {}

ReportInv == ReportTypes /\ ListedRight /\ SizesRight /\ ZipsRight

\* What is asked of a game does not change while the report is made.
LEMMA AskedSame ==
  ASSUME rs' = rs
  PROVE  /\ \A g : required(g)' = required(g) /\ Tested(g)' = Tested(g) /\ Part(g)' = Part(g)
         /\ \A g, c : InList(c, g)' = InList(c, g)
         /\ AllRequired' = AllRequired /\ SizeOf' = SizeOf
<1>1. \A g : required(g)' = required(g) /\ Tested(g)' = Tested(g) /\ Part(g)' = Part(g)
  BY DEF required, Tested, Part
<1>2. \A g, c : InList(c, g)' = InList(c, g)
  <2>1. \A g : has_good(g)' = has_good(g) /\ has_bad(g)' = has_bad(g)
    BY DEF has_good, has_bad, Zips
  <2> QED BY <1>1, <2>1 DEF InList, IsGood, IsBad, IsMissing
<1>3. AllRequired' = AllRequired
  BY <1>1 DEF AllRequired
<1>4. \A g : size_get(g)' = size_get(g)
  BY DEF size_get, Sum32, FoldSet, MapThenFoldSet
<1>5. SizeOf' = SizeOf
  BY <1>3, <1>4 DEF SizeOf
<1> QED BY <1>1, <1>2, <1>3, <1>5

\* A game is in one list, if it is in the report.
LEMMA OneClass ==
  ASSUME rs \in ReportStart, NEW g \in rs.games, required(g) \/ rs.kind = "rom"
  PROVE  \E c \in Classes : InList(c, g) /\ \A d \in Classes : InList(d, g) => d = c
<1>1. rs.kind \in RKind
  BY ReportAssumption
<1>2. /\ has_good(g) \in BOOLEAN /\ has_bad(g) \in BOOLEAN /\ required(g) \in BOOLEAN
      /\ rs.kind # "disk" => (rs.found[g] = <<>> => ~has_good(g) /\ ~has_bad(g))
      /\ rs.kind # "disk" => (rs.found[g] # <<>> => has_good(g) \/ has_bad(g))
  <2>1. rs.found[g] = <<>> <=> Zips(g) = {}
    BY FoundTypes
  <2>2. rs.kind # "disk" => has_good(g) = \E i \in Zips(g) : i.good
    BY DEF has_good
  <2>3. has_bad(g) = \E i \in Zips(g) : ~i.good
    BY DEF has_bad
  <2>4. has_good(g) \in BOOLEAN /\ required(g) \in BOOLEAN
    BY DEF has_good, required
  <2> QED BY <2>1, <2>2, <2>3, <2>4
<1>3. CASE required(g) /\ has_good(g)
  <2>1. InList("good", g) /\ ~InList("bad", g) /\ ~InList("miss", g)
    BY <1>1, <1>2, <1>3 DEF InList, IsGood, IsBad, IsMissing, Tested, RKind
  <2> QED BY <2>1 DEF Classes
<1>4. CASE required(g) /\ ~has_good(g) /\ has_bad(g)
  <2>1. ~InList("good", g) /\ InList("bad", g) /\ ~InList("miss", g)
    BY <1>1, <1>2, <1>4 DEF InList, IsGood, IsBad, IsMissing, Tested, RKind
  <2> QED BY <2>1 DEF Classes
<1>5. CASE required(g) /\ ~has_good(g) /\ ~has_bad(g)
  <2>1. ~InList("good", g) /\ ~InList("bad", g) /\ InList("miss", g)
    BY <1>1, <1>2, <1>5 DEF InList, IsGood, IsBad, IsMissing, Tested, RKind
  <2> QED BY <2>1 DEF Classes
<1>6. CASE ~required(g)
  <2>1. InList("good", g) /\ ~InList("bad", g) /\ ~InList("miss", g)
    BY <1>1, <1>2, <1>6 DEF InList, IsGood, IsBad, IsMissing, Tested, RKind
  <2> QED BY <2>1 DEF Classes
<1> QED BY <1>2, <1>3, <1>4, <1>5, <1>6

LEMMA ReportInitInv ==
  ASSUME ReportInit
  PROVE  ReportInv
<1>1. rs \in ReportStart /\ rs.kind \in RKind
  BY StartFacts DEF ReportInit
<1>2. ReportTypes
  BY <1>1 DEF ReportInit, ReportTypes, Loops, Parts, NoTotal, RNone
<1>3. ListedRight
  BY DEF ReportInit, ListedRight, Seen, Passed, Classes
<1>4. SizesRight
  <2>1. Counted = {}
    BY DEF ReportInit, Counted, Classes
  <2>2. AddedUp(total) = 0
    BY DEF ReportInit, AddedUp, Classes, NoTotal
  <2>3. \A m : IsSum(m, SizeOf, AllRequired) => m[{}] = 0
    BY DEF IsSum
  <2> QED BY <2>1, <2>2, <2>3 DEF SizesRight
<1>5. ZipsRight
  BY DEF ReportInit, ZipsRight, GoodOnes, Parts, NoTotal, Classes
<1> QED BY <1>2, <1>3, <1>4, <1>5 DEF ReportInv

\* A step that leaves the three lists and their sums.
LEMMA SameSums ==
  ASSUME ReportInv, rs' = rs, total' = total, \A c \in Classes : listed'[c] = listed[c]
  PROVE  SizesRight' /\ ZipsRight'
<1>1. Counted' = Counted
  BY AskedSame DEF Counted
<1>2. SizesRight'
  <2>1. AddedUp(total)' = AddedUp(total)
    BY DEF AddedUp
  <2>2. SizeOf' = SizeOf /\ AllRequired' = AllRequired
    BY AskedSame
  <2>3. ASSUME rs.kind = "rom", NEW m, IsSum(m, SizeOf, AllRequired)
        PROVE  AddedUp(total) = m[Counted]
    BY <2>3 DEF ReportInv, SizesRight
  <2> QED BY <1>1, <2>1, <2>2, <2>3 DEF SizesRight
<1>3. ZipsRight'
  <2>1. \A p : GoodOnes(p)' = GoodOnes(p)
    BY AskedSame DEF GoodOnes, Classes
  <2> QED BY <2>1 DEF ReportInv, ZipsRight
<1> QED BY <1>2, <1>3

LEMMA ReportDupInv ==
  ASSUME ReportInv, NEW g \in left, ReportDup(g)
  PROVE  ReportInv'
<1>1. ReportTypes'
  BY DEF ReportInv, ReportTypes, ReportDup, Loops
<1>2. \A c \in Classes : listed'[c] = listed[c]
  BY DEF ReportInv, ReportTypes, ReportDup, Classes
<1>3. ListedRight'
  <2>1. \A c \in Classes : Seen(c) = {} /\ Seen(c)' = {}
    BY DEF ReportDup, Seen, Passed, Classes
  <2> QED BY <1>2, <2>1 DEF ReportInv, ListedRight
<1>4. SizesRight' /\ ZipsRight'
  BY <1>2, SameSums DEF ReportDup
<1> QED BY <1>1, <1>3, <1>4 DEF ReportInv

LEMMA ReportLoopEndsInv ==
  ASSUME ReportInv, ReportLoopEnds
  PROVE  ReportInv'
<1>1. ReportTypes'
  BY DEF ReportInv, ReportTypes, ReportLoopEnds, Loops, NextLoop
<1>2. ListedRight'
  <2>1. \A c \in Classes : Seen(c)' = Seen(c)
    BY DEF ReportLoopEnds, NextLoop, Seen, Passed, Classes
  <2>2. \A c \in Classes : \A g : InList(c, g)' = InList(c, g)
    BY AskedSame DEF ReportLoopEnds
  <2>3. listed' = listed
    BY DEF ReportLoopEnds
  <2> QED BY <2>1, <2>2, <2>3 DEF ReportInv, ListedRight
<1>3. SizesRight' /\ ZipsRight'
  BY SameSums DEF ReportLoopEnds
<1> QED BY <1>1, <1>2, <1>3 DEF ReportInv

\* The games that report_rom_set_zip names are games of the report.
LEMMA ReportZipLines ==
  ASSUME ReportTypes, NEW g \in left, ReportZip(g)
  PROVE  lines' \subseteq Tags \X RGame \X RGame
<1>1. g \in RGame /\ g \in rs.games /\ rs \in ReportStart
  BY StartFacts DEF ReportTypes
<1>2. find_working_clones(g) \subseteq RGame
  BY <1>1, ClonesComputed, StartFacts
<1> QED BY <1>1, <1>2 DEF ReportTypes, ReportZip, Tags

LEMMA ReportWalkInv ==
  ASSUME ReportInv, NEW g \in left, ReportZip(g) \/ ReportAbove(g)
  PROVE  ReportInv'
<1>1. /\ rs' = rs /\ rpc' = rpc /\ rpc = "zip" /\ listed' = listed /\ total' = total
      /\ left' \subseteq left
  BY DEF ReportZip, ReportAbove
<1>2. ReportTypes'
  <2>1. g \in RGame /\ g \in rs.games /\ rs \in ReportStart /\ ReportTypes
    BY StartFacts DEF ReportInv, ReportTypes
  <2>2. up' \in RGame \cup {RNone}
    <3>1. up \in RGame \cup {RNone} /\ \A h \in RGame : rs.romof[h] \in RGame \cup {RNone}
      BY <2>1, StartFacts DEF ReportTypes
    <3>2. rs.games \subseteq RGame
      BY <2>1, StartFacts
    <3> QED BY <2>1, <3>1, <3>2 DEF ReportZip, ReportAbove, UpNext
  <2>3. lines' \subseteq Tags \X RGame \X RGame
    <3>1. CASE ReportZip(g)
      BY <2>1, <3>1, ReportZipLines
    <3>2. CASE ReportAbove(g)
      BY <2>1, <3>2 DEF ReportTypes, ReportAbove, Tags
    <3> QED BY <3>1, <3>2
  <2> QED BY <1>1, <2>1, <2>2, <2>3 DEF ReportTypes
<1>3. ListedRight'
  <2>1. \A c \in Classes : Seen(c)' = Seen(c)
    BY <1>1 DEF Seen, Passed, Classes
  <2>2. \A c \in Classes : \A h : InList(c, h)' = InList(c, h)
    BY <1>1, AskedSame
  <2> QED BY <1>1, <2>1, <2>2 DEF ReportInv, ListedRight
<1>4. SizesRight' /\ ZipsRight'
  BY <1>1, SameSums
<1> QED BY <1>2, <1>3, <1>4 DEF ReportInv

\* A game that the loop comes to is in no list of those that are done, unless
\* it is in none that counts.
LEMMA NotListed ==
  ASSUME ReportInv, rpc \in Classes, NEW g \in left, InList(rpc, g),
         required(g) \/ rs.kind = "rom"
  PROVE  \A c \in Classes : g \notin listed[c]
<1>1. g \in rs.games /\ rs \in ReportStart
  BY DEF ReportInv, ReportTypes
<1>2. PICK d \in Classes : \A c \in Classes : InList(c, g) => c = d
  BY <1>1, OneClass
<1>3. ASSUME NEW c \in Classes, g \in listed[c] PROVE FALSE
  <2>1. g \in Seen(c) /\ InList(c, g)
    BY <1>3 DEF ReportInv, ListedRight
  <2>2. c = rpc
    BY <1>2, <2>1
  <2> QED BY <2>1, <2>2 DEF Seen
<1> QED BY <1>3

LEMMA ReportGameInv ==
  ASSUME ReportInv, NEW g \in left, ReportGame(g)
  PROVE  ReportInv'
<1> DEFINE c == rpc
           p == Part(g)
<1>1. /\ rs' = rs /\ rpc' = rpc /\ c \in Classes /\ left' = left \ {g} /\ left \subseteq rs.games
      /\ rs \in ReportStart /\ g \in rs.games /\ up' = up /\ lines' = lines /\ p \in Parts
  BY DEF ReportInv, ReportTypes, ReportGame, Part, Parts
<1>2. CASE ~InList(rpc, g)
  <2>1. listed' = listed /\ total' = total
    BY <1>2 DEF ReportGame
  <2>2. ReportTypes'
    BY <1>1, <2>1 DEF ReportInv, ReportTypes
  <2>3. ListedRight'
    <3>1. ASSUME NEW d \in Classes PROVE listed'[d] = {h \in Seen(d)' : InList(d, h)'}
      <4>1. \A h : InList(d, h)' = InList(d, h)
        BY <1>1, AskedSame
      <4>2. listed[d] = {h \in Seen(d) : InList(d, h)}
        BY DEF ReportInv, ListedRight
      <4>3. CASE d # c
        <5>1. Seen(d)' = Seen(d)
          BY <1>1, <4>3 DEF Seen, Passed, Classes
        <5> QED BY <2>1, <4>1, <4>2, <5>1
      <4>4. CASE d = c
        <5>1. Seen(d)' = Seen(d) \cup {g}
          BY <1>1, <4>4 DEF Seen
        <5> QED BY <1>2, <2>1, <4>1, <4>2, <4>4, <5>1
      <4> QED BY <4>3, <4>4
    <3> QED BY <3>1 DEF ListedRight
  <2>4. SizesRight' /\ ZipsRight'
    BY <1>1, <2>1, SameSums
  <2> QED BY <2>2, <2>3, <2>4 DEF ReportInv
<1>3. CASE InList(rpc, g)
  <2> DEFINE a == AddedTo(c, g, total[c][p])
             dsize == IF rs.kind = "rom" /\ required(g) THEN size_get(g) ELSE 0
             dzip == IF c = "good" /\ Tested(g) THEN good_size(g) ELSE 0
  <2>1. listed' = [listed EXCEPT ![c] = @ \cup {g}] /\ total' = [total EXCEPT ![c][p] = a]
    BY <1>3 DEF ReportGame
  <2>2. /\ listed \in [{"dup", "good", "bad", "miss"} -> SUBSET rs.games]
        /\ total \in [Classes -> [Parts -> [count : Nat, size : Nat, zip : Nat]]]
    BY DEF ReportInv, ReportTypes
  <2>3. \A d \in Classes : listed'[d] = IF d = c THEN listed[d] \cup {g} ELSE listed[d]
    BY <2>1, <2>2 DEF Classes
  <2>4. dsize \in Nat /\ dzip \in Nat
    BY <1>1, SizeGetNat, GoodSizeFacts
  <2>5. \A d \in Classes, q \in Parts :
          /\ total'[d][q].size = IF d = c /\ q = p THEN total[d][q].size + dsize ELSE total[d][q].size
          /\ total'[d][q].zip = IF d = c /\ q = p THEN total[d][q].zip + dzip ELSE total[d][q].zip
          /\ total[d][q].size \in Nat /\ total[d][q].zip \in Nat
    BY <1>1, <2>1, <2>2 DEF AddedTo
  <2>6. ReportTypes'
    <3>1. listed' \in [{"dup", "good", "bad", "miss"} -> SUBSET rs.games]
      BY <1>1, <2>1, <2>2
    <3>2. total' \in [Classes -> [Parts -> [count : Nat, size : Nat, zip : Nat]]]
      <4>1. a \in [count : Nat, size : Nat, zip : Nat]
        BY <1>1, <2>2, <2>4 DEF AddedTo
      <4> HIDE DEF a
      <4> QED BY <1>1, <2>1, <2>2, <4>1
    <3>3. ASSUME rs.kind # "rom", NEW d \in Classes, NEW q \in Parts PROVE total'[d][q].size = 0
      <4>1. total[d][q].size = 0 /\ dsize = 0
        BY <3>3 DEF ReportInv, ReportTypes
      <4> QED BY <2>5, <4>1
    <3> HIDE DEF a, dsize, dzip
    <3> QED BY <1>1, <3>1, <3>2, <3>3 DEF ReportInv, ReportTypes
  <2>7. ListedRight'
    <3>1. ASSUME NEW d \in Classes PROVE listed'[d] = {h \in Seen(d)' : InList(d, h)'}
      <4>1. \A h : InList(d, h)' = InList(d, h)
        BY <1>1, AskedSame
      <4>2. listed[d] = {h \in Seen(d) : InList(d, h)}
        BY DEF ReportInv, ListedRight
      <4>3. CASE d # c
        <5>1. Seen(d)' = Seen(d)
          BY <1>1, <4>3 DEF Seen, Passed, Classes
        <5> QED BY <2>3, <4>1, <4>2, <4>3, <5>1
      <4>4. CASE d = c
        <5>1. Seen(d)' = Seen(d) \cup {g}
          BY <1>1, <4>4 DEF Seen
        <5> QED BY <1>3, <2>3, <4>1, <4>2, <4>4, <5>1
      <4> QED BY <4>3, <4>4
    <3> QED BY <3>1 DEF ListedRight
  <2> HIDE DEF a, dzip
  <2>8. SizesRight'
    <3>1. ASSUME rs.kind = "rom", NEW m, IsSum(m, SizeOf, AllRequired)
          PROVE  AddedUp(total)' = m[Counted']
      <4>1. AddedUp(total) = m[Counted]
        BY <3>1 DEF ReportInv, SizesRight
      <4>2. AddedUp(total)' = AddedUp(total) + dsize
        <5>1. /\ \A d \in Classes, q \in Parts : total[d][q].size \in Nat
              /\ \A d \in Classes, q \in Parts :
                   total'[d][q].size = IF d = c /\ q = p THEN total[d][q].size + dsize
                                       ELSE total[d][q].size
          BY <2>5
        <5> HIDE DEF dsize, p, c
        <5>2. c \in Classes /\ p \in Parts /\ dsize \in Nat
          BY <1>1, <2>4
        <5> QED BY <5>1, <5>2 DEF AddedUp, Classes, Parts
      <4>3. \A d \in Classes : g \notin listed[d]
        BY <1>1, <1>3, <3>1, NotListed
      <4>4. AllRequired' = AllRequired
        BY <1>1, AskedSame
      <4>5. CASE required(g)
        <5>1. g \in AllRequired /\ g \notin Counted /\ Counted' = Counted \cup {g}
          BY <1>1, <2>3, <4>3, <4>4, <4>5 DEF AllRequired, Counted
        <5>2. Counted' \in SUBSET AllRequired /\ Counted' \ {g} = Counted /\ g \in Counted'
          BY <5>1 DEF Counted
        <5>3. IsFiniteSet(AllRequired) /\ SizeOf \in [AllRequired -> Nat]
          <6>1. IsFiniteSet(rs.games) /\ AllRequired \subseteq rs.games
            BY <1>1, StartFacts DEF AllRequired
          <6>2. IsFiniteSet(AllRequired)
            BY <6>1, FS_Subset
          <6> QED BY <1>1, <6>1, <6>2, SizeGetNat DEF SizeOf
        <5>4. m[Counted'] = SizeOf[g] + m[Counted' \ {g}]
          BY ONLY <3>1, <5>2, <5>3, SumStep
        <5>5. SizeOf[g] = size_get(g) /\ dsize = size_get(g)
          BY <3>1, <4>5, <5>1 DEF SizeOf
        <5>6. m[Counted] \in Nat
          <6>1. m \in [SUBSET AllRequired -> Nat]
            BY ONLY <3>1, <5>3, SumTyped
          <6> QED BY <6>1 DEF Counted
        <5>7. m[Counted'] = size_get(g) + m[Counted]
          BY <5>2, <5>4, <5>5
        <5>8. size_get(g) \in Nat
          BY <1>1, SizeGetNat
        <5>9. AddedUp(total)' = m[Counted] + size_get(g)
          BY <4>1, <4>2, <5>5
        <5> QED BY ONLY <5>6, <5>7, <5>8, <5>9
      <4>6. CASE ~required(g)
        <5>1. Counted' = Counted
          BY <2>3, <4>4, <4>6 DEF AllRequired, Counted
        <5>2. dsize = 0 /\ AddedUp(total) \in Nat
          BY <2>5, <4>6 DEF AddedUp, Classes, Parts
        <5> QED BY <4>1, <4>2, <5>1, <5>2
      <4> QED BY <4>5, <4>6
    <3>2. SizeOf' = SizeOf /\ AllRequired' = AllRequired
      BY <1>1, AskedSame
    <3> QED BY <1>1, <3>1, <3>2 DEF SizesRight
  <2>9. ZipsRight'
    <3>1. ASSUME rs.kind # "disk", NEW q \in Parts
          PROVE  total'["good"][q].zip = 0 <=> GoodOnes(q)' = {}
      <4>1. total["good"][q].zip = 0 <=> GoodOnes(q) = {}
        BY <3>1 DEF ReportInv, ZipsRight
      <4>2. \A h : Tested(h)' = Tested(h) /\ Part(h)' = Part(h)
        BY <1>1, AskedSame
      <4>3. GoodOnes(q) = {h \in listed["good"] : Tested(h) /\ Part(h) = q}
            /\ GoodOnes(q)' = {h \in listed'["good"] : Tested(h) /\ Part(h) = q}
        BY <4>2 DEF GoodOnes
      <4>4. CASE c = "good" /\ Tested(g) /\ q = p
        <5>1. has_good(g)
          BY <1>3, <3>1, <4>4, <1>1, StartFacts DEF InList, IsGood, Tested, RKind
        <5>2. dzip \in Nat /\ dzip # 0
          BY <1>1, <3>1, <4>4, <5>1, GoodSizeFacts DEF dzip
        <5>3. g \in GoodOnes(q)'
          BY <2>3, <4>3, <4>4 DEF Classes
        <5>4. total'["good"][q].zip = total["good"][q].zip + dzip /\ total["good"][q].zip \in Nat
          BY <2>5, <4>4 DEF Classes
        <5> QED BY <5>2, <5>3, <5>4
      <4>5. CASE ~(c = "good" /\ Tested(g) /\ q = p)
        <5>1. GoodOnes(q)' = GoodOnes(q)
          BY <2>3, <4>3, <4>5 DEF Classes
        <5>2. total'["good"][q].zip = total["good"][q].zip
          BY <2>5, <4>5 DEF Classes, dzip
        <5> QED BY <4>1, <5>1, <5>2
      <4> QED BY <4>4, <4>5
    <3> QED BY <1>1, <3>1 DEF ZipsRight
  <2> QED BY <2>6, <2>7, <2>8, <2>9 DEF ReportInv
<1> QED BY <1>2, <1>3

LEMMA ReportStep ==
  ASSUME ReportInv, [ReportNext]_reportVars
  PROVE  ReportInv'
<1>1. ASSUME NEW g \in left, ReportDup(g) \/ ReportGame(g) \/ ReportZip(g) \/ ReportAbove(g)
      PROVE  ReportInv'
  BY <1>1, ReportDupInv, ReportGameInv, ReportWalkInv
<1>2. CASE ReportLoopEnds
  BY <1>2, ReportLoopEndsInv
<1>3. CASE UNCHANGED reportVars
  <2>1. ReportTypes'
    BY <1>3 DEF ReportInv, ReportTypes, reportVars
  <2>2. ListedRight'
    <3>1. \A c \in Classes : Seen(c)' = Seen(c)
      BY <1>3 DEF Seen, Passed, Classes, reportVars
    <3>2. \A c \in Classes : \A h : InList(c, h)' = InList(c, h)
      BY <1>3, AskedSame DEF reportVars
    <3> QED BY <1>3, <3>1, <3>2 DEF ReportInv, ListedRight, reportVars
  <2>3. SizesRight' /\ ZipsRight'
    BY <1>3, SameSums DEF reportVars
  <2> QED BY <2>1, <2>2, <2>3 DEF ReportInv
<1> QED BY <1>1, <1>2, <1>3 DEF ReportNext

LEMMA ReportInvariant == ReportSpec => []ReportInv
<1> QED BY ReportInitInv, ReportStep, PTL DEF ReportSpec

LEMMA TypesFromInv ==
  ASSUME ReportInv
  PROVE  ReportTypeOK
BY DEF ReportInv, ReportTypes, ReportTypeOK, Loops, Parts, Tags, Classes

LEMMA OneListFromInv ==
  ASSUME ReportInv
  PROVE  OneList
<1> SUFFICES ASSUME rpc = "done", NEW g \in rs.games, required(g) \/ rs.kind = "rom"
             PROVE  Cardinality({l \in Classes : g \in listed[l]}) = 1
  BY DEF OneList
<1>1. PICK c \in Classes : InList(c, g) /\ \A d \in Classes : InList(d, g) => d = c
  BY OneClass DEF ReportInv, ReportTypes
<1>2. \A d \in Classes : g \in listed[d] <=> InList(d, g)
  BY DEF ReportInv, ListedRight, Seen, Passed, Classes
<1>3. {l \in Classes : g \in listed[l]} = {c}
  BY <1>1, <1>2
<1> QED BY <1>3, FS_Singleton

LEMMA SizesFromInv ==
  ASSUME ReportInv
  PROVE  SizesAddUp
<1> SUFFICES ASSUME rpc = "done", rs.kind = "rom"
             PROVE  SumOfLists = MapThenSumSet(size_get, AllRequired)
  BY DEF SizesAddUp, SumOfLists, AllRequired, ListParts, MapThenSumSet, MapThenFoldSet
<1>1. rs \in ReportStart
  BY DEF ReportInv, ReportTypes
<1>2. SumOfLists = AddedUp(total)
  BY TotalSum DEF ReportInv, ReportTypes, Parts
<1>3. PICK m : /\ IsSum(m, SizeOf, AllRequired)
               /\ MapThenSumSet(size_get, AllRequired) = m[AllRequired]
  BY <1>1, RequiredSum DEF SizeOf
<1>4. AllRequired = Counted
  <2>1. ASSUME NEW g \in AllRequired PROVE \E c \in Classes : g \in listed[c]
    <3>1. g \in rs.games
      BY DEF AllRequired
    <3>2. PICK c \in Classes : InList(c, g)
      BY <1>1, <3>1, OneClass
    <3>3. g \in listed[c]
      BY <3>1, <3>2 DEF ReportInv, ListedRight, Seen, Passed, Classes
    <3> QED BY <3>3
  <2> QED BY <2>1 DEF Counted
<1>5. AddedUp(total) = m[Counted]
  BY <1>3 DEF ReportInv, SizesRight
<1> QED BY <1>2, <1>3, <1>4, <1>5

LEMMA ZipsFromInv ==
  ASSUME ReportInv
  PROVE  ZipSizeReal
<1> SUFFICES ASSUME rpc = "done", rs.kind # "disk", NEW p \in Parts
             PROVE  /\ \A g \in GoodOnes(p) : \A i \in Zips(g) : i.good => i.size >= good_size(g)
                    /\ total["good"][p].zip = 0 <=>
                         \A g \in GoodOnes(p) : \A i \in Zips(g) : i.good => i.size = 0
  BY DEF ZipSizeReal, GoodOnes, Parts
<1>1. rs \in ReportStart /\ rs.kind \in RKind
  BY StartFacts DEF ReportInv, ReportTypes
<1>2. ASSUME NEW g \in GoodOnes(p) PROVE g \in rs.games /\ has_good(g)
  <2>1. g \in rs.games /\ InList("good", g) /\ Tested(g)
    BY <1>2 DEF ReportInv, ReportTypes, ListedRight, GoodOnes, Classes
  <2>2. has_good(g)
    BY <1>1, <2>1 DEF InList, IsGood, Tested, RKind
  <2> QED BY <2>1, <2>2
<1>3. \A g \in GoodOnes(p) : \A i \in Zips(g) : i.good => i.size >= good_size(g)
  BY <1>1, <1>2, GoodSizeFacts
<1>4. \A g \in GoodOnes(p) : \E i \in Zips(g) : i.good /\ i.size # 0
  <2> TAKE g \in GoodOnes(p)
  <2>1. g \in rs.games /\ has_good(g)
    BY <1>2
  <2>2. PICK i \in Zips(g) : i.good
    BY <2>1 DEF has_good
  <2>3. i.size # 0
    BY <1>1, <2>1, FoundTypes
  <2> QED BY <2>2, <2>3
<1>5. total["good"][p].zip = 0 <=> GoodOnes(p) = {}
  BY DEF ReportInv, ZipsRight
<1> QED BY <1>3, <1>4, <1>5

\* The lists of a report are a partition of the games it is about, and its sums
\* are those of what is in the lists, for every collection (report_*_set).
THEOREM ListsCorrect == ReportSpec => []ListsTrue
<1>1. ReportInv => ListsTrue
  BY TypesFromInv, OneListFromInv, SizesFromInv, ZipsFromInv DEF ListsTrue
<1> QED BY <1>1, ReportInvariant, PTL

-----------------------------------------------------------------------------
(* The lines of --report-file.                                             *)

\* A game whose archive is asked about, and one that has none.
Asked(g) == g \in rs.games /\ required(g) /\ rs.found[g] # <<>>
NoArchive(h) == h \notin rs.games \/ rs.found[h] = <<>>

\* report_rom_set_zip has been at a game; it is on the walk up from it.
Walking(g) == rpc = "zip" /\ up # RNone /\ At(g)
Begun(g) == rs.kind = "rom" /\ (rpc = "done" \/ (rpc = "zip" /\ g \notin left) \/ Walking(g))

\* What is said is true.
LinesSound ==
  /\ \A g \in RGame : <<"preliminary", g, g>> \in lines => Preliminary(g)
  /\ \A g \in RGame, h \in RGame : <<"but", g, h>> \in lines => h \in find_working_clones(g)
  /\ \A g \in RGame, h \in RGame : <<"missing", g, h>> \in lines => NoArchive(h)

\* What is true is said, but for what is still above on the walk.
LinesOf(g) ==
  /\ Preliminary(g) => <<"preliminary", g, g>> \in lines
  /\ Preliminary(g) => \A h \in find_working_clones(g) : <<"but", g, h>> \in lines
  /\ has_bad(g) => <<"incomplete", g, g>> \in lines
  /\ \A h \in UpFrom(g) \ {g} :
       NoArchive(h) => <<"missing", g, h>> \in lines \/ (Walking(g) /\ h \in UpFrom(up))
LinesComplete == \A g \in RGame : Asked(g) /\ Begun(g) => LinesOf(g)

LineInv == ReportInv /\ LinesSound /\ LinesComplete

LEMMA SaidSame ==
  ASSUME rs' = rs
  PROVE  /\ \A g : Asked(g)' = Asked(g) /\ NoArchive(g)' = NoArchive(g)
         /\ \A g : Preliminary(g)' = Preliminary(g) /\ find_working_clones(g)' = find_working_clones(g)
         /\ \A g : has_bad(g)' = has_bad(g) /\ UpFrom(g)' = UpFrom(g)
<1>1. \A g : Asked(g)' = Asked(g) /\ NoArchive(g)' = NoArchive(g)
  BY AskedSame DEF Asked, NoArchive
<1>2. \A g : has_good(g)' = has_good(g) /\ has_bad(g)' = has_bad(g)
  BY DEF has_good, has_bad, Zips
<1>3. \A g : find_working_clones(g)' = find_working_clones(g)
  BY DEF find_working_clones, Sons, RDepth
<1>4. \A g : has_working_clone_with_rom(g)' = has_working_clone_with_rom(g)
  BY DEF has_working_clone_with_rom, Sons, RDepth, has_good, Zips
<1>5. \A g : Preliminary(g)' = Preliminary(g)
  BY <1>4 DEF Preliminary
<1>6. \A g : UpFrom(g)' = UpFrom(g)
  BY DEF UpFrom, RClosed
<1> QED BY <1>1, <1>2, <1>3, <1>5, <1>6

\* What is above a game is the game, and what is above the next one.
LEMMA UpUnfold ==
  ASSUME rs \in ReportStart, NEW u \in RGame,
         NEW n, n = IF u \in rs.games THEN rs.romof[u] ELSE RNone
  PROVE  UpFrom(u) \subseteq {u} \cup IF n = RNone THEN {} ELSE UpFrom(n)
<1>1. n \in RGame \cup {RNone} /\ RNone \notin RGame
  BY StartFacts
<1>2. CASE n = RNone
  <2>1. RClosed({u})
    BY <1>2 DEF RClosed
  <2>2. UpFrom(u) \subseteq {u}
    BY <2>1, UpWithin
  <2> QED BY <1>2, <2>2
<1>3. CASE n # RNone
  <2> DEFINE C == {u} \cup UpFrom(n)
  <2>1. n \in RGame /\ n = rs.romof[u] /\ u \in rs.games
    BY <1>1, <1>3
  <2>2. C \in SUBSET RGame /\ u \in C
    BY DEF UpFrom
  <2>3. ASSUME NEW x \in C \cap rs.games, rs.romof[x] # RNone PROVE rs.romof[x] \in C
    <3>1. CASE x = u
      BY <2>1, <3>1, UpSelf
    <3>2. CASE x \in UpFrom(n)
      BY <2>1, <2>3, <3>2, UpGo
    <3> QED BY <2>3, <3>1, <3>2
  <2>4. RClosed(C)
    BY <2>3 DEF RClosed
  <2> HIDE DEF C
  <2>5. UpFrom(u) \subseteq C
    BY <2>2, <2>4, UpWithin
  <2> QED BY <1>3, <2>5 DEF C
<1> QED BY <1>2, <1>3

LEMMA LineInitInv ==
  ASSUME ReportInit
  PROVE  LinesSound /\ LinesComplete
BY DEF ReportInit, LinesSound, LinesComplete, Begun, Walking

\* A step that prints nothing and begins with no game.
LEMMA NoLines ==
  ASSUME LinesSound, LinesComplete, rs' = rs, lines' = lines, up' = up,
         \A g \in RGame : Asked(g) /\ Begun(g)' => Begun(g) /\ (Walking(g) <=> Walking(g)')
  PROVE  LinesSound' /\ LinesComplete'
<1>1. LinesSound'
  <2>1. \A g \in RGame : <<"preliminary", g, g>> \in lines' => Preliminary(g)'
    BY SaidSame DEF LinesSound
  <2>2. \A g \in RGame, h \in RGame : <<"but", g, h>> \in lines' => h \in find_working_clones(g)'
    BY SaidSame DEF LinesSound
  <2>3. \A g \in RGame, h \in RGame : <<"missing", g, h>> \in lines' => NoArchive(h)'
    BY SaidSame DEF LinesSound
  <2> QED BY <2>1, <2>2, <2>3 DEF LinesSound
<1>2. ASSUME NEW g \in RGame, Asked(g)', Begun(g)' PROVE LinesOf(g)'
  <2>1. Asked(g)
    BY <1>2, SaidSame
  <2>2. Begun(g) /\ (Walking(g) <=> Walking(g)') /\ LinesOf(g)
    BY <1>2, <2>1 DEF LinesComplete
  <2>3. /\ Preliminary(g)' => <<"preliminary", g, g>> \in lines'
        /\ Preliminary(g)' => \A h \in find_working_clones(g)' : <<"but", g, h>> \in lines'
        /\ has_bad(g)' => <<"incomplete", g, g>> \in lines'
    BY <2>2, SaidSame DEF LinesOf
  <2>4. \A h \in UpFrom(g)' \ {g} :
          NoArchive(h)' => <<"missing", g, h>> \in lines' \/ (Walking(g)' /\ h \in UpFrom(up)')
    <3>1. UpFrom(up)' = UpFrom(up)
      BY DEF UpFrom, RClosed
    <3>2. UpFrom(g)' = UpFrom(g) /\ \A h : NoArchive(h)' = NoArchive(h)
      BY SaidSame
    <3> QED BY <2>2, <3>1, <3>2 DEF LinesOf
  <2> QED BY <2>3, <2>4 DEF LinesOf
<1> QED BY <1>1, <1>2 DEF LinesComplete

LEMMA LineLoopsInv ==
  ASSUME LineInv, \/ \E g \in left : ReportDup(g) \/ ReportGame(g)
                  \/ ReportLoopEnds
                  \/ UNCHANGED reportVars
  PROVE  LinesSound' /\ LinesComplete'
<1>1. LinesSound /\ LinesComplete /\ ReportTypes
  BY DEF LineInv, ReportInv
<1>2. CASE \E g \in left : ReportDup(g) \/ ReportGame(g)
  <2>1. rs' = rs /\ lines' = lines /\ up' = up /\ rpc' = rpc /\ rpc \notin {"zip", "done"}
    BY <1>2 DEF ReportDup, ReportGame, Classes
  <2>2. \A g \in RGame : ~Begun(g)'
    BY <2>1 DEF Begun, Walking
  <2> QED BY <1>1, <2>1, <2>2, NoLines
<1>3. CASE ReportLoopEnds
  <2>1. /\ rs' = rs /\ lines' = lines /\ up' = up /\ left = {} /\ up = RNone /\ left' = rs.games
        /\ rpc' = NextLoop /\ rpc \in Loops
    BY <1>3 DEF ReportLoopEnds, Loops
  <2>2. ASSUME NEW g \in RGame, Asked(g), Begun(g)' PROVE Begun(g)
    <3>1. g \in left'
      BY <2>1, <2>2 DEF Asked
    <3>2. rs.kind = "rom" /\ rpc' = "done"
      BY <2>1, <2>2, <3>1 DEF Begun, Walking
    <3>3. rpc = "zip"
      BY <2>1, <3>2 DEF NextLoop, Loops
    <3> QED BY <2>1, <3>2, <3>3 DEF Begun
  <2>3. \A g \in RGame : ~Walking(g) /\ ~Walking(g)'
    BY <2>1 DEF Walking
  <2> QED BY <1>1, <2>1, <2>2, <2>3, NoLines
<1>4. CASE UNCHANGED reportVars
  <2>1. rs' = rs /\ lines' = lines /\ up' = up /\ rpc' = rpc /\ left' = left
    BY <1>4 DEF reportVars
  <2>2. \A g \in RGame : (Begun(g)' <=> Begun(g)) /\ (Walking(g) <=> Walking(g)')
    BY <2>1 DEF Begun, Walking, At
  <2> QED BY <1>1, <2>1, <2>2, NoLines
<1> QED BY <1>2, <1>3, <1>4

\* There is one game the loop is at.
LEMMA OneAt ==
  ASSUME ReportTypes, NEW g \in left, At(g), NEW h, At(h)
  PROVE  h = g
<1>1. g \in Nat /\ h \in Nat /\ g <= h /\ h <= g
  BY StartFacts DEF At, ReportTypes
<1> QED BY <1>1

LEMMA LineZipInv ==
  ASSUME LineInv, NEW g \in left, ReportZip(g)
  PROVE  LinesSound' /\ LinesComplete'
<1>1. /\ LinesSound /\ LinesComplete /\ ReportTypes /\ rs \in ReportStart /\ g \in rs.games
      /\ g \in RGame /\ RGame \subseteq Nat /\ RNone \notin RGame
  BY StartFacts DEF LineInv, ReportInv, ReportTypes
<1>2. rpc = "zip" /\ rpc' = "zip" /\ up = RNone /\ At(g) /\ rs' = rs
  BY DEF ReportZip
<1> DEFINE F == find_working_clones(g)
           new == (IF Len(rs.found[g]) > 1 THEN {<<"duplicate", g, g>>} ELSE {})
                  \cup (IF Preliminary(g) THEN {<<"preliminary", g, g>>} \cup {<<"but", g, h>> : h \in F}
                        ELSE {})
                  \cup (IF has_bad(g) THEN {<<"incomplete", g, g>>} ELSE {})
<1>3. IF Asked(g) THEN lines' = lines \cup new /\ up' = rs.romof[g] ELSE lines' = lines /\ up' = up
  BY <1>1 DEF ReportZip, Asked
<1>4. \A h : /\ <<"preliminary", h, h>> \in new <=> h = g /\ Preliminary(g)
             /\ <<"incomplete", h, h>> \in new <=> h = g /\ has_bad(g)
             /\ \A k : <<"but", h, k>> \in new <=> h = g /\ Preliminary(g) /\ k \in F
             /\ \A k : <<"missing", h, k>> \notin new
  <2> HIDE DEF F
  <2> QED OBVIOUS
<1> HIDE DEF new, F
<1>5. LinesSound'
  <2>1. \A h \in RGame : <<"preliminary", h, h>> \in lines' => Preliminary(h)'
    <3> TAKE h \in RGame
    <3>1. Preliminary(h)' = Preliminary(h)
      BY <1>2, SaidSame
    <3>2. <<"preliminary", h, h>> \in new => Preliminary(h)
      BY <1>4
    <3>3. <<"preliminary", h, h>> \in lines => Preliminary(h)
      BY <1>1 DEF LinesSound
    <3> QED BY <1>3, <3>1, <3>2, <3>3
  <2>2. \A h \in RGame, k \in RGame : <<"but", h, k>> \in lines' => k \in find_working_clones(h)'
    <3> TAKE h \in RGame, k \in RGame
    <3>1. find_working_clones(h)' = find_working_clones(h)
      BY <1>2, SaidSame
    <3>2. <<"but", h, k>> \in new => k \in find_working_clones(h)
      BY <1>4 DEF F
    <3>3. <<"but", h, k>> \in lines => k \in find_working_clones(h)
      BY <1>1 DEF LinesSound
    <3> QED BY <1>3, <3>1, <3>2, <3>3
  <2>3. \A h \in RGame, k \in RGame : <<"missing", h, k>> \in lines' => NoArchive(k)'
    BY <1>1, <1>2, <1>3, <1>4, SaidSame DEF LinesSound
  <2> QED BY <2>1, <2>2, <2>3 DEF LinesSound
<1>6. ASSUME NEW x \in RGame, Asked(x)', Begun(x)' PROVE LinesOf(x)'
  <2>1. Asked(x)
    BY <1>2, <1>6, SaidSame
  <2>2. left' = IF up' = RNone THEN left \ {g} ELSE left
    BY DEF ReportZip
  <2>3. lines \subseteq lines'
    BY <1>3
  <2>4. UpFrom(x)' = UpFrom(x) /\ \A h : NoArchive(h)' = NoArchive(h)
    BY <1>2, SaidSame
  <2>5. CASE x = g
    <3>1. lines' = lines \cup new /\ up' = rs.romof[g]
      BY <1>3, <2>1, <2>5
    <3>2. /\ Preliminary(x)' => <<"preliminary", x, x>> \in lines'
          /\ Preliminary(x)' => \A h \in find_working_clones(x)' : <<"but", x, h>> \in lines'
          /\ has_bad(x)' => <<"incomplete", x, x>> \in lines'
      BY <1>2, <1>4, <2>5, <3>1, SaidSame DEF F
    <3>3. ASSUME NEW h \in UpFrom(x) \ {x} PROVE Walking(x)' /\ h \in UpFrom(up)'
      <4>1. UpFrom(g) \subseteq {g} \cup IF rs.romof[g] = RNone THEN {} ELSE UpFrom(rs.romof[g])
        BY <1>1, UpUnfold
      <4>2. up' # RNone /\ h \in UpFrom(up')
        BY <2>5, <3>1, <3>3, <4>1
      <4>3. left' = left
        BY <2>2, <4>2
      <4>4. At(g)'
        BY <1>2, <4>3 DEF At
      <4>5. UpFrom(up)' = UpFrom(up')
        BY <1>2 DEF UpFrom, RClosed
      <4> QED BY <1>2, <2>5, <4>2, <4>4, <4>5 DEF Walking
    <3> QED BY <2>4, <3>2, <3>3 DEF LinesOf
  <2>6. CASE x # g
    <3>1. x \notin left
      <4>1. CASE x \notin left'
        BY <2>2, <2>6, <4>1
      <4>2. CASE Walking(x)'
        <5>1. up' # RNone /\ At(x)'
          BY <4>2 DEF Walking
        <5>2. left' = left
          BY <2>2, <5>1
        <5>3. At(x)
          BY <5>1, <5>2 DEF At
        <5> QED BY <1>1, <1>2, <2>6, <5>3, OneAt
      <4> QED BY <1>2, <1>6, <4>1, <4>2 DEF Begun
    <3>2. Begun(x) /\ ~Walking(x)
      BY <1>2, <1>6, <3>1 DEF Begun, Walking
    <3>3. LinesOf(x)
      BY <1>1, <2>1, <3>2 DEF LinesComplete
    <3>4. /\ Preliminary(x)' => <<"preliminary", x, x>> \in lines'
          /\ Preliminary(x)' => \A h \in find_working_clones(x)' : <<"but", x, h>> \in lines'
          /\ has_bad(x)' => <<"incomplete", x, x>> \in lines'
      BY <1>2, <2>3, <3>3, SaidSame DEF LinesOf
    <3>5. \A h \in UpFrom(x) \ {x} : NoArchive(h) => <<"missing", x, h>> \in lines'
      BY <2>3, <3>2, <3>3 DEF LinesOf
    <3> QED BY <2>4, <3>4, <3>5 DEF LinesOf
  <2> QED BY <2>5, <2>6
<1> QED BY <1>5, <1>6 DEF LinesComplete

LEMMA LineAboveInv ==
  ASSUME LineInv, NEW g \in left, ReportAbove(g)
  PROVE  LinesSound' /\ LinesComplete'
<1>1. /\ LinesSound /\ LinesComplete /\ ReportTypes /\ rs \in ReportStart /\ g \in rs.games
      /\ g \in RGame /\ RGame \subseteq Nat /\ RNone \notin RGame
  BY StartFacts DEF LineInv, ReportInv, ReportTypes
<1>2. rpc = "zip" /\ rpc' = "zip" /\ up # RNone /\ up \in RGame /\ At(g) /\ rs' = rs
  BY <1>1 DEF ReportAbove, ReportTypes
<1>3. /\ lines' = IF NoArchive(up) THEN lines \cup {<<"missing", g, up>>} ELSE lines
      /\ up' = IF up \in rs.games THEN rs.romof[up] ELSE RNone
      /\ left' = IF up' = RNone THEN left \ {g} ELSE left
  BY DEF ReportAbove, NoArchive, UpNext
<1>4. lines \subseteq lines'
  BY <1>3
<1>5. LinesSound'
  <2>1. \A h \in RGame : <<"preliminary", h, h>> \in lines' => Preliminary(h)'
    BY <1>1, <1>2, <1>3, SaidSame DEF LinesSound
  <2>2. \A h \in RGame, k \in RGame : <<"but", h, k>> \in lines' => k \in find_working_clones(h)'
    <3> TAKE h \in RGame, k \in RGame
    <3>1. find_working_clones(h)' = find_working_clones(h)
      BY <1>2, SaidSame
    <3>2. <<"but", h, k>> \in lines' => <<"but", h, k>> \in lines
      BY <1>3
    <3> QED BY <1>1, <3>1, <3>2 DEF LinesSound
  <2>3. \A h \in RGame, k \in RGame : <<"missing", h, k>> \in lines' => NoArchive(k)'
    BY <1>1, <1>2, <1>3, SaidSame DEF LinesSound
  <2> QED BY <2>1, <2>2, <2>3 DEF LinesSound
<1>6. ASSUME NEW x \in RGame, Asked(x)', Begun(x)' PROVE LinesOf(x)'
  <2>1. Asked(x)
    BY <1>2, <1>6, SaidSame
  <2>2. UpFrom(x)' = UpFrom(x) /\ \A h : NoArchive(h)' = NoArchive(h)
    BY <1>2, SaidSame
  <2>3. Begun(x)
    <3>1. CASE x = g
      BY <1>2, <1>6, <3>1 DEF Begun, Walking
    <3>2. CASE x # g /\ x \notin left'
      BY <1>2, <1>3, <1>6, <3>2 DEF Begun, Walking
    <3>3. CASE x # g /\ Walking(x)'
      <4>1. up' # RNone /\ At(x)'
        BY <3>3 DEF Walking
      <4>2. At(x)
        BY <1>3, <4>1 DEF At
      <4> QED BY <1>2, <1>6, <4>2 DEF Begun, Walking
    <3> QED BY <1>2, <1>6, <3>1, <3>2, <3>3 DEF Begun
  <2>4. LinesOf(x)
    BY <1>1, <2>1, <2>3 DEF LinesComplete
  <2>5. /\ Preliminary(x)' => <<"preliminary", x, x>> \in lines'
        /\ Preliminary(x)' => \A h \in find_working_clones(x)' : <<"but", x, h>> \in lines'
        /\ has_bad(x)' => <<"incomplete", x, x>> \in lines'
    BY <1>2, <1>4, <2>4, SaidSame DEF LinesOf
  <2>6. ASSUME NEW h \in UpFrom(x) \ {x}, NoArchive(h), <<"missing", x, h>> \notin lines'
        PROVE  Walking(x)' /\ h \in UpFrom(up)'
    <3>1. Walking(x) /\ h \in UpFrom(up)
      BY <1>4, <2>4, <2>6 DEF LinesOf
    <3>2. x = g
      BY <1>1, <1>2, <3>1, OneAt DEF Walking
    <3>3. h # up
      BY <1>3, <2>6, <3>2
    <3>4. UpFrom(up) \subseteq {up} \cup IF up' = RNone THEN {} ELSE UpFrom(up')
      BY <1>1, <1>2, <1>3, UpUnfold
    <3>5. up' # RNone /\ h \in UpFrom(up')
      BY <3>1, <3>3, <3>4
    <3>6. left' = left
      BY <1>3, <3>5
    <3>7. At(g)'
      BY <1>2, <3>6 DEF At
    <3>8. UpFrom(up)' = UpFrom(up')
      BY <1>2 DEF UpFrom, RClosed
    <3> QED BY <1>2, <3>2, <3>5, <3>7, <3>8 DEF Walking
  <2> QED BY <2>2, <2>5, <2>6 DEF LinesOf
<1> QED BY <1>5, <1>6 DEF LinesComplete

LEMMA LineInvariant == ReportSpec => []LineInv
<1>1. ReportInit => LineInv
  BY ReportInitInv, LineInitInv DEF LineInv
<1>2. LineInv /\ [ReportNext]_reportVars => LineInv'
  <2> SUFFICES ASSUME LineInv, [ReportNext]_reportVars PROVE LineInv'
    OBVIOUS
  <2>1. ReportInv'
    BY ReportStep DEF LineInv
  <2>2. LinesSound' /\ LinesComplete'
    <3>1. CASE \E g \in left : ReportZip(g)
      BY <3>1, LineZipInv
    <3>2. CASE \E g \in left : ReportAbove(g)
      BY <3>2, LineAboveInv
    <3>3. CASE \/ \E g \in left : ReportDup(g) \/ ReportGame(g)
               \/ ReportLoopEnds
               \/ UNCHANGED reportVars
      BY <3>3, LineLoopsInv
    <3> QED BY <3>1, <3>2, <3>3 DEF ReportNext
  <2> QED BY <2>1, <2>2 DEF LineInv
<1> QED BY <1>1, <1>2, PTL DEF ReportSpec

LEMMA MissingFromInv ==
  ASSUME LineInv
  PROVE  MissingTrue
<1> SUFFICES ASSUME rpc = "done", rs.kind = "rom", NEW g \in rs.games,
                    required(g), rs.found[g] # <<>>, NEW h \in UpFrom(g) \ {g}
             PROVE  <<"missing", g, h>> \in lines <=> NoArchive(h)
  BY DEF MissingTrue, NoArchive
<1>1. g \in RGame /\ h \in RGame /\ Asked(g) /\ Begun(g) /\ ~Walking(g)
  BY StartFacts DEF LineInv, ReportInv, ReportTypes, UpFrom, Asked, Begun, Walking
<1>2. LinesOf(g)
  BY <1>1 DEF LineInv, LinesComplete
<1>3. <<"missing", g, h>> \in lines => NoArchive(h)
  BY <1>1 DEF LineInv, LinesSound
<1>4. NoArchive(h) => <<"missing", g, h>> \in lines
  BY <1>1, <1>2 DEF LinesOf
<1> QED BY <1>3, <1>4

LEMMA PreliminaryFromInv ==
  ASSUME LineInv
  PROVE  PreliminaryTrue
<1> SUFFICES ASSUME rpc = "done", rs.kind = "rom", NEW g \in rs.games,
                    required(g), rs.found[g] # <<>>, g \notin rs.resource
             PROVE  LET below == {h \in rs.games : g \in UpFrom(h)} IN
                    /\ <<"preliminary", g, g>> \in lines
                         <=> ~\E h \in below \cap rs.working : has_good(h) \/ h = g
                    /\ <<"preliminary", g, g>> \in lines =>
                         {h \in RGame : <<"but", g, h>> \in lines} = below \cap rs.working
  BY DEF PreliminaryTrue
<1> DEFINE below == {h \in rs.games : g \in UpFrom(h)}
<1>1. g \in RGame /\ rs \in ReportStart /\ rs.games \subseteq RGame /\ Asked(g) /\ Begun(g)
  BY StartFacts DEF LineInv, ReportInv, ReportTypes, Asked, Begun
<1>2. LinesOf(g) /\ LinesSound
  BY <1>1 DEF LineInv, LinesComplete
<1>3. <<"preliminary", g, g>> \in lines <=> Preliminary(g)
  BY <1>1, <1>2 DEF LinesOf, LinesSound
<1>4. g \in below
  BY <1>1, UpSelf
<1>5. Preliminary(g) <=> ~\E h \in below \cap rs.working : has_good(h) \/ h = g
  <2>1. CASE g \in rs.working
    BY <1>4, <2>1 DEF Preliminary
  <2>2. CASE g \notin rs.working
    <3>1. has_working_clone_with_rom(g)
            <=> \E w \in rs.games \cap rs.working : has_good(w) /\ g \in UpFrom(w)
      BY <1>1, <2>2, WorkingCloneComputed
    <3>2. Preliminary(g) <=> ~has_working_clone_with_rom(g)
      BY <2>2 DEF Preliminary
    <3> QED BY <2>2, <3>1, <3>2
  <2> QED BY <2>1, <2>2
<1>6. find_working_clones(g) = below \cap rs.working
  BY <1>1, ClonesComputed
<1>7. ASSUME Preliminary(g) PROVE {h \in RGame : <<"but", g, h>> \in lines} = below \cap rs.working
  <2>1. \A h \in RGame : <<"but", g, h>> \in lines => h \in find_working_clones(g)
    BY <1>1, <1>2 DEF LinesSound
  <2>2. \A h \in find_working_clones(g) : <<"but", g, h>> \in lines
    BY <1>2, <1>7 DEF LinesOf
  <2>3. below \cap rs.working \subseteq RGame
    BY <1>1
  <2> HIDE DEF below
  <2> QED BY <1>6, <2>1, <2>2, <2>3
<1> QED BY <1>3, <1>5, <1>7

LEMMA AgreeFromInv ==
  ASSUME LineInv
  PROVE  ReportsAgree
<1> SUFFICES ASSUME rpc = "done", rs.kind = "rom", NEW g \in listed["bad"]
             PROVE  <<"incomplete", g, g>> \in lines
  BY DEF ReportsAgree
<1>1. g \in rs.games /\ rs \in ReportStart /\ InList("bad", g)
  BY DEF LineInv, ReportInv, ReportTypes, ListedRight, Classes
<1>2. required(g) /\ has_bad(g)
  BY <1>1 DEF InList, IsBad, Tested
<1>3. rs.found[g] # <<>>
  BY <1>1, <1>2, FoundTypes DEF has_bad
<1>4. g \in RGame /\ Asked(g) /\ Begun(g)
  BY <1>1, <1>2, <1>3, StartFacts DEF Asked, Begun
<1> QED BY <1>2, <1>4 DEF LineInv, LinesComplete, LinesOf

\* The report on the archives names what each depends on and whether a game
\* works, and agrees with the lists, for every collection (report_rom_set_zip).
THEOREM DependenciesCorrect == ReportSpec => []Dependencies
<1>1. LineInv => Dependencies
  BY MissingFromInv, PreliminaryFromInv, AgreeFromInv DEF Dependencies
<1> QED BY <1>1, LineInvariant, PTL

-----------------------------------------------------------------------------
(* What a comparison starts from.                                          *)

IsFile(f) ==
  /\ IsFiniteSet(f.games) /\ f.games \subseteq CGame
  /\ f.romof \in [CGame -> CGame \cup {CNone}]
  /\ \A g \in f.games : IsFiniteSet(f.has[g]) /\ f.has[g] \subseteq CRom

LEMMA CompareStartFacts ==
  ASSUME cs \in CompareStart
  PROVE  /\ IsFile(cs.old) /\ IsFile(cs.new) /\ cs.command \in {"equal", "ident", "diff"}
         /\ CGame \subseteq Nat /\ CNone \notin CGame
         /\ RomName \subseteq Nat /\ Crc \subseteq Nat /\ CSize \subseteq Nat
BY CompareAssumption DEF IsFile

LEMMA TreeFacts ==
  ASSUME cs \in CompareStart
  PROVE  /\ "/" \in DOMAIN cs.tree /\ cs.tree["/"].kind = "dir"
         /\ IsFiniteSet(DOMAIN cs.tree) /\ Cardinality(DOMAIN cs.tree) \in Nat
         /\ \A n \in DOMAIN cs.tree :
              /\ cs.tree[n].below \subseteq DOMAIN cs.tree
              /\ cs.tree[n].kind \in {"dir", "zip", "file", "hidden"}
              /\ cs.tree[n].kind \in {"zip", "file"} => cs.tree[n].below = {}
<1>1. /\ "/" \in DOMAIN cs.tree /\ cs.tree["/"].kind = "dir" /\ IsFiniteSet(DOMAIN cs.tree)
      /\ \A n \in DOMAIN cs.tree :
              /\ cs.tree[n].below \subseteq DOMAIN cs.tree
              /\ cs.tree[n].kind \in {"dir", "zip", "file", "hidden"}
              /\ cs.tree[n].kind \in {"zip", "file"} => cs.tree[n].below = {}
  BY CompareAssumption
<1> QED BY <1>1, FS_CardinalityType

-----------------------------------------------------------------------------
(* ident.                                                                  *)

\* What is printed of a node.
LinesAt(n) == {<<n, y[1], y[2]>> : y \in UNION {ident_data(d) : d \in cs.tree[n].data}}

\* V are the nodes that ident_file has been at.
Visited(V) ==
  /\ "/" \in V \cup todo
  /\ \A n \in V : /\ cs.tree[n].kind = "dir" => Below(n) \subseteq V \cup todo
                  /\ cs.tree[n].kind \in {"zip", "file"} => LinesAt(n) \subseteq out

IdentInv ==
  /\ cs \in CompareStart /\ cpc \in {"run", "done", "error"}
  /\ cpc = "done" => todo = {} /\ seq = <<>>
  /\ cs.command # "equal" => seq = <<>>
  /\ cs.command = "ident" =>
       /\ todo \subseteq Visible
       /\ \A x \in out : \E n \in DOMAIN cs.tree : x \in LinesAt(n)
       /\ \E V \in SUBSET Visible : Visited(V)

LEMMA IdentInitInv ==
  ASSUME CompareInit
  PROVE  IdentInv
<1>1. cs \in CompareStart /\ cpc = "run" /\ out = {}
  BY DEF CompareInit
<1>2. ASSUME cs.command = "ident" PROVE todo = {"/"}
  BY <1>2 DEF CompareInit
<1>3. "/" \in Visible
  BY <1>1, TreeFacts DEF Visible
<1>4. cs.command = "ident" => Visited({})
  BY <1>2 DEF Visited
<1>5. cs.command # "equal" => seq = <<>>
  BY DEF CompareInit
<1>6. cs.command = "ident" => \E V \in SUBSET Visible : Visited(V)
  BY <1>4
<1>7. cs.command = "ident" => todo \subseteq Visible
  BY <1>2, <1>3
<1> QED BY <1>1, <1>5, <1>6, <1>7 DEF IdentInv

LEMMA IdentSame ==
  ASSUME cs' = cs
  PROVE  /\ Visible' = Visible
         /\ \A n : LinesAt(n)' = LinesAt(n) /\ Below(n)' = Below(n)
<1>1. \A d : ident_data(d)' = ident_data(d)
  BY DEF ident_data, rs_get, CChain, CClosed
<1> QED BY <1>1 DEF Visible, LinesAt, Below

LEMMA IdentNext ==
  ASSUME IdentInv, cs.command = "ident", cs' = cs, seq' = seq, cpc = "run", cpc' \in {"run", "error"},
         todo' \subseteq Visible, \A x \in out' : \E m \in DOMAIN cs.tree : x \in LinesAt(m),
         NEW W \in SUBSET Visible, Visited(W)'
  PROVE  IdentInv'
<1>1. cs' \in CompareStart /\ seq' = <<>> /\ cpc' # "done" /\ cpc' \in {"run", "done", "error"}
  BY DEF IdentInv
<1>2. todo' \subseteq Visible' /\ W \in SUBSET Visible'
  BY IdentSame
<1>3. \A x \in out' : \E m \in DOMAIN cs'.tree : x \in LinesAt(m)'
  BY IdentSame
<1>4. \E V \in SUBSET Visible' : Visited(V)'
  BY <1>2
<1> QED BY <1>1, <1>2, <1>3, <1>4 DEF IdentInv

LEMMA IdentFileInv ==
  ASSUME IdentInv, NEW n \in DOMAIN cs.tree, IdentFile(n)
  PROVE  IdentInv'
<1>1. /\ cs \in CompareStart /\ cs' = cs /\ cs.command = "ident" /\ cpc = "run" /\ n \in todo
      /\ seq' = seq /\ todo \subseteq Visible /\ \A x \in out : \E m \in DOMAIN cs.tree : x \in LinesAt(m)
  BY DEF IdentInv, IdentFile
<1>2. PICK V \in SUBSET Visible : Visited(V)
  BY <1>1 DEF IdentInv
<1>3. cs.tree[n].kind \in {"dir", "zip", "file"} /\ n \in Visible
  BY <1>1, TreeFacts DEF Visible
<1>4. Below(n) \subseteq Visible /\ V \cup {n} \in SUBSET Visible
  BY <1>1, <1>3, TreeFacts DEF Below, Visible
<1>5. CASE cs.tree[n].kind = "dir"
  <2>1. todo' = (todo \ {n}) \cup Below(n) /\ out' = out /\ cpc' = cpc
    BY <1>5 DEF IdentFile
  <2>2. Visited(V \cup {n})'
    BY <1>1, <1>2, <1>5, <2>1, IdentSame DEF Visited
  <2>3. todo' \subseteq Visible /\ \A x \in out' : \E m \in DOMAIN cs.tree : x \in LinesAt(m)
    BY <1>1, <1>4, <2>1
  <2> QED BY <1>1, <1>4, <2>1, <2>2, <2>3, IdentNext
<1>6. CASE cs.tree[n].kind # "dir" /\ cpc' = "run"
  <2>1. out' = out \cup LinesAt(n) /\ todo' = todo \ {n}
    BY <1>6 DEF IdentFile, LinesAt
  <2>2. Visited(V \cup {n})'
    BY <1>1, <1>2, <1>6, <2>1, IdentSame DEF Visited
  <2>3. todo' \subseteq Visible /\ \A x \in out' : \E m \in DOMAIN cs.tree : x \in LinesAt(m)
    BY <1>1, <2>1
  <2> QED BY <1>1, <1>4, <1>6, <2>2, <2>3, IdentNext
<1>7. CASE cs.tree[n].kind # "dir" /\ cpc' # "run"
  <2>1. cpc' = "error" /\ out' = out /\ todo' = todo
    BY <1>1, <1>7 DEF IdentFile
  <2>2. Visited(V)'
    BY <1>1, <1>2, <2>1, IdentSame DEF Visited
  <2>3. todo' \subseteq Visible /\ \A x \in out' : \E m \in DOMAIN cs.tree : x \in LinesAt(m)
    BY <1>1, <2>1
  <2> QED BY <1>1, <1>2, <2>1, <2>2, <2>3, IdentNext
<1> QED BY <1>5, <1>6, <1>7

LEMMA IdentStep ==
  ASSUME IdentInv, [CompareNext]_compareVars
  PROVE  IdentInv'
<1>1. CASE \E n \in DOMAIN cs.tree : IdentFile(n)
  BY <1>1, IdentFileInv
<1>2. CASE EqualGroup \/ CompareEnds \/ (\E g \in CGame : DiffGame(g)) \/ UNCHANGED compareVars
  <2>1. cs' = cs /\ cs \in CompareStart /\ cpc' \in {"run", "done", "error"}
    BY <1>2 DEF EqualGroup, CompareEnds, DiffGame, compareVars, IdentInv
  <2>2. cpc' = "done" => todo' = {} /\ seq' = <<>>
    BY <1>2 DEF EqualGroup, CompareEnds, DiffGame, compareVars, IdentInv
  <2>3. cs.command # "equal" => seq' = <<>>
    BY <1>2 DEF EqualGroup, CompareEnds, DiffGame, compareVars, IdentInv
  <2>4. ASSUME cs.command = "ident" PROVE todo' = todo /\ out' = out
    BY <1>2, <2>4 DEF EqualGroup, CompareEnds, DiffGame, compareVars, IdentInv
  <2>5. ASSUME cs.command = "ident", NEW V \in SUBSET Visible, Visited(V) PROVE Visited(V)'
    BY <2>1, <2>4, <2>5, IdentSame DEF Visited
  <2>6. ASSUME cs.command = "ident"
        PROVE  /\ todo' \subseteq Visible'
               /\ \A x \in out' : \E n \in DOMAIN cs'.tree : x \in LinesAt(n)'
               /\ \E V \in SUBSET Visible' : Visited(V)'
    BY <2>1, <2>4, <2>5, <2>6, IdentSame DEF IdentInv
  <2> QED BY <2>1, <2>2, <2>3, <2>6 DEF IdentInv
<1> QED BY <1>1, <1>2 DEF CompareNext

LEMMA IdentInvariant == CompareSpec => []IdentInv
<1> QED BY IdentInitInv, IdentStep, PTL DEF CompareSpec

\* What is reached is in every set that has the root and what is below its nodes.
LEMMA ReachWithin ==
  ASSUME cs \in CompareStart, NEW V \in SUBSET DOMAIN cs.tree, "/" \in V,
         \A n \in V : cs.tree[n].below \cap Visible \subseteq V
  PROVE  Reach("/") \subseteq V
<1> DEFINE N == Cardinality(DOMAIN cs.tree)
           T == SUBSET DOMAIN cs.tree
           F == [A \in T |-> A \cup UNION {cs.tree[m].below \cap Visible : m \in A}]
           Body(s) == [k \in 0..N |->
             IF k = 0 THEN {"/"} ELSE s[k - 1] \cup UNION {cs.tree[m].below \cap Visible : m \in s[k - 1]}]
           M == CHOOSE s : s = Body(s)
<1>1. N \in Nat /\ F \in [T -> T] /\ {"/"} \in T
  BY TreeFacts DEF Visible
<1>2. PICK f \in [0..N -> T] : Iterates(f, F, {"/"}, N)
  <2> HIDE DEF N, T, F
  <2> QED BY <1>1, IteratesExist
<1>3. f = Body(f)
  <2>1. ASSUME NEW n \in 0..N PROVE f[n] = Body(f)[n]
    <3>1. CASE n = 0
      BY <1>2, <3>1 DEF Iterates
    <3>2. CASE n # 0
      <4>1. n - 1 \in 0..N /\ f[n - 1] \in T
        BY <1>1, <1>2, <3>2
      <4>2. f[n] = F[f[n - 1]]
        BY <1>2, <3>2 DEF Iterates
      <4> QED BY <3>2, <4>1, <4>2
    <3> QED BY <3>1, <3>2
  <2> QED BY <1>2, <2>1
<1>4. M = Body(M)
  <2> HIDE DEF Body
  <2> QED BY <1>3
<1>5. Reach("/") = M[N]
  BY DEF Reach
<1> HIDE DEF M
<1>6. \A n \in 0..N : M[n] =
        IF n = 0 THEN {"/"} ELSE M[n - 1] \cup UNION {cs.tree[m].below \cap Visible : m \in M[n - 1]}
  <2> TAKE n \in 0..N
  <2>1. M[n] = Body(M)[n]
    <3> HIDE DEF Body
    <3> QED BY <1>4
  <2> QED BY <2>1
<1> DEFINE G == {n \in 0..N : M[n] \subseteq V}
<1>7. 0 \in G
  <2>1. 0 \in 0..N
    BY <1>1
  <2> QED BY <1>6, <2>1
<1>8. ASSUME NEW n \in 0..N, n \in G, n < N PROVE n + 1 \in G
  <2>1. n + 1 \in 0..N /\ n + 1 # 0 /\ (n + 1) - 1 = n
    BY <1>1, <1>8
  <2>2. M[n + 1] = M[n] \cup UNION {cs.tree[m].below \cap Visible : m \in M[n]}
    BY <1>6, <2>1
  <2> QED BY <1>8, <2>1, <2>2
<1>9. N \in G
  <2> HIDE DEF G, N
  <2>1. 0..N \subseteq G
    BY ONLY <1>1, <1>7, <1>8, CountUp
  <2> QED BY <1>1, <2>1
<1> QED BY <1>5, <1>9

LEMMA SameContent ==
  ASSUME NEW r, NEW s
  PROVE  SameRom(r, s) <=> Content(r) = Content(s)
BY DEF SameRom, Content

LEMMA OwnersIdent ==
  ASSUME NEW d \in CData
  PROVE  Owners(d) = ident_data(d)
<1>1. Content(d) = d
  BY DEF CData, Content
<1>2. \A r : SameRom(r, d) <=> Content(r) = d
  BY <1>1, SameContent
<1> QED BY <1>2 DEF Owners, ident_data

LEMMA IdentFromInv ==
  ASSUME IdentInv
  PROVE  IdentComplete
<1> SUFFICES ASSUME cpc = "done", cs.command = "ident", NEW n \in Reach("/"), NEW d \in CData,
                    cs.tree[n].kind \in {"zip", "file"}, d \in cs.tree[n].data
             PROVE  {x \in out : x[1] = n /\ Content(x[3]) = d} = {<<n, x[1], x[2]>> : x \in Owners(d)}
  BY DEF IdentComplete
<1>1. /\ cs \in CompareStart /\ todo = {}
      /\ \A x \in out : \E m \in DOMAIN cs.tree : x \in LinesAt(m)
  BY DEF IdentInv
<1>2. PICK V \in SUBSET Visible : Visited(V)
  BY DEF IdentInv
<1>3. \A m \in V : cs.tree[m].below \cap Visible \subseteq V
  BY <1>1, <1>2, TreeFacts DEF Visited, Visible, Below
<1>4. n \in V
  <2>1. V \in SUBSET DOMAIN cs.tree /\ "/" \in V
    BY <1>1, <1>2 DEF Visited, Visible
  <2> QED BY <1>1, <1>3, <2>1, ReachWithin
<1>5. LinesAt(n) \subseteq out
  BY <1>2, <1>4 DEF Visited
<1>6. Owners(d) = ident_data(d)
  BY OwnersIdent
<1>7. ASSUME NEW x \in Owners(d) PROVE <<n, x[1], x[2]>> \in LinesAt(n) /\ Content(x[2]) = d
  <2>1. x \in ident_data(d) /\ Content(x[2]) = d
    BY <1>6, <1>7 DEF Owners
  <2> QED BY <2>1 DEF LinesAt
<1>8. ASSUME NEW x \in out, x[1] = n, Content(x[3]) = d
      PROVE  \E y \in Owners(d) : x = <<n, y[1], y[2]>>
  <2>1. PICK m \in DOMAIN cs.tree : x \in LinesAt(m)
    BY <1>1
  <2>2. PICK y \in UNION {ident_data(e) : e \in cs.tree[m].data} : x = <<m, y[1], y[2]>>
    BY <2>1 DEF LinesAt
  <2>3. m = n /\ Content(y[2]) = d
    BY <1>8, <2>2
  <2>4. y \in Owners(d)
    BY <2>2, <2>3 DEF Owners, ident_data
  <2> QED BY <2>2, <2>3, <2>4
<1> QED BY <1>5, <1>7, <1>8

\* A walk of ident identifies every file that it can come to, as all the roms it
\* is and no other, for every tree of directories (ident_file).
THEOREM IdentCorrect == CompareSpec => []IdentComplete
<1> QED BY IdentFromInv, IdentInvariant, PTL

-----------------------------------------------------------------------------
(* advdiff.                                                                *)

Differs(g) == g \notin cs.old.games \/ ~include(rs_get(cs.old, g), rs_get(cs.new, g))

DiffInv ==
  cs.command = "diff" =>
    todo \subseteq cs.new.games /\ out = {g \in cs.new.games \ todo : Differs(g)}

LEMMA DiffInitInv ==
  ASSUME CompareInit
  PROVE  DiffInv
BY DEF CompareInit, DiffInv

LEMMA DiffStep ==
  ASSUME IdentInv, DiffInv, [CompareNext]_compareVars
  PROVE  DiffInv'
<1> SUFFICES ASSUME cs'.command = "diff"
             PROVE  /\ todo' \subseteq cs'.new.games
                    /\ out' = {g \in cs'.new.games \ todo' : Differs(g)'}
  BY DEF DiffInv
<1>1. cs' = cs
  BY DEF CompareNext, EqualGroup, CompareEnds, IdentFile, DiffGame, compareVars
<1>2. /\ cs.command = "diff" /\ seq = <<>> /\ todo \subseteq cs.new.games
      /\ out = {g \in cs.new.games \ todo : Differs(g)}
  BY <1>1 DEF IdentInv, DiffInv
<1>3. \A g : Differs(g)' = Differs(g)
  BY <1>1 DEF Differs, include, rs_get, CChain, CClosed
<1>4. CASE \E g \in CGame : DiffGame(g)
  <2>1. PICK g \in todo : /\ todo' = todo \ {g}
                          /\ out' = IF Differs(g) THEN out \cup {g} ELSE out
    BY <1>4 DEF DiffGame, Differs
  <2> QED BY <1>1, <1>2, <1>3, <2>1
<1>5. CASE CompareEnds \/ UNCHANGED compareVars
  <2>1. todo' = todo /\ out' = out
    BY <1>5 DEF CompareEnds, compareVars
  <2> QED BY <1>1, <1>2, <1>3, <2>1
<1>6. ~EqualGroup /\ \A n \in DOMAIN cs.tree : ~IdentFile(n)
  BY <1>2 DEF EqualGroup, IdentFile
<1> QED BY <1>4, <1>5, <1>6 DEF CompareNext

LEMMA DiffInvariant == CompareSpec => [](IdentInv /\ DiffInv)
<1>1. IdentInv /\ DiffInv /\ [CompareNext]_compareVars => (IdentInv /\ DiffInv)'
  BY IdentStep, DiffStep
<1>2. CompareInit => IdentInv /\ DiffInv
  BY IdentInitInv, DiffInitInv
<1> QED BY <1>1, <1>2, PTL DEF CompareSpec

\* Chains of a file: of a game in the file, it and its parents.
LEMMA FileChain ==
  ASSUME NEW f, IsFile(f), CGame \subseteq Nat, CNone \notin CGame, NEW g \in f.games
  PROVE  /\ CChain(f, g) \subseteq f.games /\ g \in CChain(f, g)
         /\ \A h \in CChain(f, g) : CChain(f, h) \subseteq CChain(f, g)
<1>1. g \in CChain(f, g) /\ CChain(f, g) \subseteq f.games
  BY DEF CChain
<1>2. ASSUME NEW h \in CChain(f, g), NEW k \in CChain(f, h) PROVE k \in CChain(f, g)
  BY <1>2 DEF CChain
<1> QED BY <1>1, <1>2

\* Of the games on a chain that have a content, one has it without a game above it.
HasContent(f, h, r) == \E s \in f.has[h] : Content(s) = Content(r)

LEMMA TopOwner ==
  ASSUME NEW f, IsFile(f), CGame \subseteq Nat, CNone \notin CGame, CGrounded(f),
         NEW g \in f.games, NEW r \in f.has[g]
  PROVE  \E h \in CChain(f, g) : \E s \in rs_get(f, h) : Content(s) = Content(r)
<1> DEFINE Own == {h \in CChain(f, g) : HasContent(f, h, r)}
           Chains == {CChain(f, h) : h \in Own}
<1>1. g \in Own /\ Own \subseteq f.games
  BY FileChain DEF HasContent
<1>2. IsFiniteSet(f.games)
  BY DEF IsFile
<1>3. Chains \subseteq FiniteSubsetsOf(f.games) /\ Chains # {}
  <2>1. ASSUME NEW h \in Own PROVE CChain(f, h) \in SUBSET f.games
    BY <1>1, <2>1, FileChain
  <2>2. FiniteSubsetsOf(f.games) = SUBSET f.games
    BY <1>2, FS_FiniteSubsetsOfFinite
  <2> HIDE DEF Own
  <2> QED BY <1>1, <2>1, <2>2
<1>4. PICK C \in Chains : \A D \in Chains : ~(<<D, C>> \in StrictSubsetOrdering(f.games))
  <2>1. IsWellFoundedOn(StrictSubsetOrdering(f.games), FiniteSubsetsOf(f.games))
    BY FS_StrictSubsetOrderingWellFounded
  <2> HIDE DEF Chains
  <2> QED BY <1>3, <2>1, WFMin
<1>5. PICK h \in Own : C = CChain(f, h)
  BY <1>4
<1>6. ASSUME NEW k \in CChain(f, h) \ {h}, HasContent(f, k, r) PROVE FALSE
  <2>1. h \in f.games /\ h \in CChain(f, g) /\ CChain(f, h) \subseteq f.games
    BY <1>1, <1>5, FileChain
  <2>2. k \in f.games /\ k \in CChain(f, g)
    BY <1>6, <2>1, FileChain
  <2>3. CChain(f, k) \in Chains
    BY <1>6, <2>2
  <2>4. CChain(f, k) \subseteq CChain(f, h)
    BY <1>6, <2>1, FileChain
  <2>5. h \in CChain(f, h) /\ h \notin CChain(f, k)
    BY <1>6, <2>1, <2>2, FileChain DEF CGrounded
  <2>6. <<CChain(f, k), C>> \in StrictSubsetOrdering(f.games)
    BY <1>5, <2>1, <2>4, <2>5 DEF StrictSubsetOrdering
  <2> QED BY <1>4, <2>3, <2>6
<1>7. PICK s \in f.has[h] : Content(s) = Content(r)
  BY <1>5 DEF HasContent
<1>8. s \in rs_get(f, h)
  <2>1. ASSUME NEW k \in CChain(f, h) \ {h}, NEW t \in f.has[k], SameRom(s, t) PROVE FALSE
    <3>1. Content(t) = Content(r)
      BY <1>7, <2>1, SameContent
    <3> QED BY <1>6, <3>1 DEF HasContent
  <2> QED BY <1>7, <2>1 DEF rs_get
<1> QED BY <1>5, <1>7, <1>8

LEMMA DiffFromInv ==
  ASSUME IdentInv, DiffInv
  PROVE  DiffCovers
<1> SUFFICES ASSUME cpc = "done", cs.command = "diff", CGrounded(cs.new),
                    NEW g \in cs.new.games, NEW r \in cs.new.has[g]
             PROVE  \E h \in CChain(cs.new, g) :
                      /\ \E s \in cs.new.has[h] : Content(s) = Content(r)
                      /\ \/ h \in out
                         \/ h \in cs.old.games /\ \E s \in cs.old.has[h] : Content(s) = Content(r)
  BY DEF DiffCovers
<1>1. /\ cs \in CompareStart /\ todo = {} /\ out = {h \in cs.new.games : Differs(h)}
  BY DEF IdentInv, DiffInv
<1>2. IsFile(cs.new) /\ CGame \subseteq Nat /\ CNone \notin CGame
  BY <1>1, CompareStartFacts
<1>3. PICK h \in CChain(cs.new, g) : \E s \in rs_get(cs.new, h) : Content(s) = Content(r)
  BY <1>2, TopOwner
<1>4. PICK s \in rs_get(cs.new, h) : Content(s) = Content(r)
  BY <1>3
<1>5. h \in cs.new.games /\ s \in cs.new.has[h]
  BY <1>2, <1>3, <1>4, FileChain DEF rs_get
<1>6. ASSUME h \notin out PROVE h \in cs.old.games /\ \E t \in cs.old.has[h] : Content(t) = Content(r)
  <2>1. h \in cs.old.games /\ include(rs_get(cs.old, h), rs_get(cs.new, h))
    BY <1>1, <1>5, <1>6 DEF Differs
  <2>2. PICK t \in rs_get(cs.old, h) : SameRom(t, s)
    BY <1>4, <2>1 DEF include
  <2>3. t \in cs.old.has[h] /\ Content(t) = Content(r)
    BY <1>4, <2>2, SameContent DEF rs_get
  <2> QED BY <2>1, <2>3
<1> QED BY <1>3, <1>4, <1>5, <1>6

\* Nothing that the new file asks for is lost between the old collection and the
\* games that advdiff prints, for every two files (process, include).
THEOREM DiffCorrect == CompareSpec => []DiffCovers
<1>1. IdentInv /\ DiffInv => DiffCovers
  BY DiffFromInv
<1> QED BY <1>1, DiffInvariant, PTL

-----------------------------------------------------------------------------
(* Ranks: every element of a finite set has its place in an order.         *)

IsOrder(R, S) ==
  /\ \A x \in S : <<x, x>> \notin R
  /\ \A x, y, z \in S : <<x, y>> \in R /\ <<y, z>> \in R => <<x, z>> \in R
  /\ \A x, y \in S : x # y => <<x, y>> \in R \/ <<y, x>> \in R
Under(R, S, x) == {y \in S : <<y, x>> \in R}

LEMMA RankFacts ==
  ASSUME NEW S, IsFiniteSet(S), NEW R, IsOrder(R, S)
  PROVE  /\ \A x \in S : Cardinality(Under(R, S, x)) \in 0..Cardinality(S) - 1
         /\ \A x \in S : \A y \in S :
              <<x, y>> \in R => Cardinality(Under(R, S, x)) < Cardinality(Under(R, S, y))
<1>1. \A A \in SUBSET S : IsFiniteSet(A) /\ Cardinality(A) \in Nat /\ Cardinality(A) <= Cardinality(S)
  BY FS_Subset, FS_CardinalityType
<1>2. ASSUME NEW A \in SUBSET S, NEW B \in SUBSET S, A \subseteq B, A # B
      PROVE  Cardinality(A) < Cardinality(B)
  BY <1>1, <1>2, FS_Subset
<1>3. Cardinality(S) \in Nat
  BY FS_CardinalityType
<1>4. ASSUME NEW x \in S PROVE Cardinality(Under(R, S, x)) \in 0..Cardinality(S) - 1
  <2>1. Under(R, S, x) \in SUBSET S /\ x \notin Under(R, S, x)
    BY DEF Under, IsOrder
  <2>2. Cardinality(Under(R, S, x)) < Cardinality(S) /\ Cardinality(Under(R, S, x)) \in Nat
    BY <1>1, <1>2, <2>1
  <2> QED BY <1>3, <2>2
<1>5. ASSUME NEW x \in S, NEW y \in S, <<x, y>> \in R
      PROVE  Cardinality(Under(R, S, x)) < Cardinality(Under(R, S, y))
  <2>1. Under(R, S, x) \in SUBSET S /\ Under(R, S, y) \in SUBSET S
    BY DEF Under
  <2>2. Under(R, S, x) \subseteq Under(R, S, y) /\ x \in Under(R, S, y) /\ x \notin Under(R, S, x)
    BY <1>5 DEF Under, IsOrder
  <2> QED BY <1>2, <2>1, <2>2
<1> QED BY <1>4, <1>5

LEMMA RankOnto ==
  ASSUME NEW S, IsFiniteSet(S), NEW R, IsOrder(R, S), NEW i \in 1..Cardinality(S)
  PROVE  \E x \in S : Cardinality(Under(R, S, x)) = i - 1
<1> DEFINE rank == [x \in S |-> Cardinality(Under(R, S, x))]
           T == 0..Cardinality(S) - 1
<1>1. Cardinality(S) \in Nat
  BY FS_CardinalityType
<1>2. rank \in [S -> T] /\ \A x, y \in S : x # y => rank[x] # rank[y]
  <2>1. \A x \in S : rank[x] \in T
    BY RankFacts
  <2>2. ASSUME NEW x \in S, NEW y \in S, x # y PROVE rank[x] # rank[y]
    <3>1. rank[x] \in Nat /\ rank[y] \in Nat
      BY <1>1, <2>1
    <3>2. rank[x] < rank[y] \/ rank[y] < rank[x]
      BY <2>2, RankFacts DEF IsOrder
    <3> QED BY <3>1, <3>2
  <2> QED BY <2>1, <2>2
<1>3. rank \in Injection(S, T)
  BY <1>2 DEF Injection, IsInjective
<1>4. IsFiniteSet(T) /\ Cardinality(T) = Cardinality(S)
  <2> DEFINE b == Cardinality(S) - 1
  <2>1. b \in Int /\ 0 \in Int
    BY <1>1
  <2>2. IsFiniteSet(0..b) /\ Cardinality(0..b) = IF 0 > b THEN 0 ELSE b - 0 + 1
    <3> HIDE DEF b
    <3> QED BY <2>1, FS_Interval
  <2>3. (IF 0 > b THEN 0 ELSE b - 0 + 1) = Cardinality(S)
    BY <1>1
  <2> QED BY <2>2, <2>3
<1> HIDE DEF rank, T
<1>5. rank \in Surjection(S, T)
  BY <1>3, <1>4, FS_Injection
<1>6. i - 1 \in T
  BY <1>1 DEF T
<1> QED BY <1>5, <1>6 DEF Surjection, rank

-----------------------------------------------------------------------------
(* equal.                                                                  *)

Pair == CGame \X CRom

\* The order of the multiset rcb.
Less(x, y) ==
  \/ rom_by_crc_less(x[2], y[2])
  \/ /\ ~rom_by_crc_less(y[2], x[2])
     /\ x[1] < y[1] \/ (x[1] = y[1] /\ x[2].name < y[2].name)
Items(f) == {x \in Pair : x[1] \in f.games /\ x[2] \in rs_get(f, x[1])}
LessPairs(f) == {xy \in Items(f) \X Items(f) : Less(xy[1], xy[2])}

LEMMA PairFacts ==
  ASSUME cs \in CompareStart, NEW x \in Pair
  PROVE  /\ x[1] \in Nat /\ x[2].crc \in Nat /\ x[2].size \in Nat /\ x[2].name \in Nat
         /\ x = <<x[1], [name |-> x[2].name, crc |-> x[2].crc, size |-> x[2].size]>>
         /\ Content(x[2]) \in CData
<1>1. CGame \subseteq Nat /\ RomName \subseteq Nat /\ Crc \subseteq Nat /\ CSize \subseteq Nat
  BY CompareStartFacts
<1>2. x[2] \in CRom /\ x[1] \in CGame /\ x = <<x[1], x[2]>>
  BY DEF Pair
<1>3. /\ x[2] = [name |-> x[2].name, crc |-> x[2].crc, size |-> x[2].size]
      /\ x[2].name \in RomName /\ x[2].crc \in Crc /\ x[2].size \in CSize
  BY <1>2 DEF CRom
<1>4. Content(x[2]) \in CData
  BY <1>3 DEF Content, CData
<1> QED BY <1>1, <1>2, <1>3, <1>4

LEMMA LessOrder ==
  ASSUME cs \in CompareStart
  PROVE  /\ \A x \in Pair : ~Less(x, x)
         /\ \A x, y \in Pair : x # y => Less(x, y) \/ Less(y, x)
         /\ \A x, y, z \in Pair : Less(x, y) /\ Less(y, z) => Less(x, z)
<1>1. ASSUME NEW x \in Pair PROVE ~Less(x, x)
  <2>1. x[1] \in Nat /\ x[2].crc \in Nat /\ x[2].size \in Nat /\ x[2].name \in Nat
    BY PairFacts
  <2> QED BY <2>1 DEF Less, rom_by_crc_less
<1>2. ASSUME NEW x \in Pair, NEW y \in Pair, x # y PROVE Less(x, y) \/ Less(y, x)
  <2>1. /\ x[1] \in Nat /\ x[2].crc \in Nat /\ x[2].size \in Nat /\ x[2].name \in Nat
        /\ y[1] \in Nat /\ y[2].crc \in Nat /\ y[2].size \in Nat /\ y[2].name \in Nat
    BY PairFacts
  <2>2. \/ x[1] # y[1] \/ x[2].crc # y[2].crc
        \/ x[2].size # y[2].size \/ x[2].name # y[2].name
    BY <1>2, PairFacts
  <2> QED BY <2>1, <2>2 DEF Less, rom_by_crc_less
<1>3. ASSUME NEW x \in Pair, NEW y \in Pair, NEW z \in Pair, Less(x, y), Less(y, z)
      PROVE  Less(x, z)
  <2>1. /\ x[1] \in Nat /\ x[2].crc \in Nat /\ x[2].size \in Nat /\ x[2].name \in Nat
        /\ y[1] \in Nat /\ y[2].crc \in Nat /\ y[2].size \in Nat /\ y[2].name \in Nat
        /\ z[1] \in Nat /\ z[2].crc \in Nat /\ z[2].size \in Nat /\ z[2].name \in Nat
    BY PairFacts
  <2> QED BY <1>3, <2>1 DEF Less, rom_by_crc_less
<1> QED BY <1>1, <1>2, <1>3

LEMMA ItemsFinite ==
  ASSUME NEW f, IsFile(f)
  PROVE  IsFiniteSet(Items(f))
<1> DEFINE H == [g \in f.games |-> f.has[g]]
           T == {f.has[g] : g \in f.games}
<1>1. IsFiniteSet(f.games) /\ \A t \in T : IsFiniteSet(t)
  BY DEF IsFile
<1>2. H \in Surjection(f.games, T)
  BY DEF Surjection
<1>3. IsFiniteSet(T)
  <2> HIDE DEF H, T
  <2> QED BY <1>1, <1>2, FS_Surjection
<1>4. IsFiniteSet(f.games \X UNION T)
  <2> HIDE DEF T
  <2>1. IsFiniteSet(UNION T)
    BY <1>1, <1>3, FS_UNION
  <2> QED BY <1>1, <2>1, FS_Product
<1>5. Items(f) \subseteq f.games \X UNION T
  BY DEF Items, Pair, rs_get
<1> QED BY <1>4, <1>5, FS_Subset

\* rcb has every rom of every game once, in order.
InOrder(s) == \A i, j \in 1..Len(s) : i < j => Less(s[i], s[j])

LEMMA RcbSorted ==
  ASSUME cs \in CompareStart
  PROVE  /\ rcb(cs.new) \in Seq(Pair) /\ ToSet(rcb(cs.new)) = Items(cs.new)
         /\ InOrder(rcb(cs.new))
<1> DEFINE f == cs.new
           S == Items(f)
           R == LessPairs(f)
           N == Cardinality(S)
           Q == [i \in 1..N |-> CHOOSE x \in S : Cardinality(Under(R, S, x)) = i - 1]
<1>1. IsFiniteSet(S) /\ S \subseteq Pair
  BY CompareStartFacts, ItemsFinite DEF Items
<1>2. \A x, y \in S : <<x, y>> \in R <=> Less(x, y)
  BY DEF LessPairs
<1>3. IsOrder(R, S)
  <2> HIDE DEF S, R
  <2>1. \A x \in S : <<x, x>> \notin R
    BY <1>1, <1>2, LessOrder
  <2>2. \A x, y, z \in S : <<x, y>> \in R /\ <<y, z>> \in R => <<x, z>> \in R
    BY <1>1, <1>2, LessOrder
  <2>3. \A x, y \in S : x # y => <<x, y>> \in R \/ <<y, x>> \in R
    BY <1>1, <1>2, LessOrder
  <2> QED BY <2>1, <2>2, <2>3 DEF IsOrder
<1>4. rcb(f) = Q
  <2> DEFINE Before(x) == {y \in S : \/ rom_by_crc_less(y[2], x[2])
                                     \/ /\ ~rom_by_crc_less(x[2], y[2])
                                        /\ y[1] < x[1] \/ (y[1] = x[1] /\ y[2].name < x[2].name)}
  <2>1. \A x \in S : Before(x) = Under(R, S, x)
    BY <1>2 DEF Under, Less
  <2>2. S = {x \in CGame \X CRom : x[1] \in f.games /\ x[2] \in rs_get(f, x[1])}
    BY DEF Items, Pair
  <2>3. rcb(f) = [i \in 1..N |-> CHOOSE x \in S : Cardinality(Before(x)) = i - 1]
    BY <2>2 DEF rcb
  <2>4. \A i \in 1..N : (CHOOSE x \in S : Cardinality(Before(x)) = i - 1)
                         = CHOOSE x \in S : Cardinality(Under(R, S, x)) = i - 1
    <3> HIDE DEF Before, S, R, N
    <3> QED BY <2>1
  <2> HIDE DEF Before
  <2> QED BY <2>3, <2>4
<1>5. N \in Nat
  BY <1>1, FS_CardinalityType
<1>6. \A i \in 1..N : Q[i] \in S /\ Cardinality(Under(R, S, Q[i])) = i - 1
  <2> HIDE DEF S, R
  <2>1. \A i \in 1..N : \E x \in S : Cardinality(Under(R, S, x)) = i - 1
    BY <1>1, <1>3, RankOnto
  <2> QED BY <2>1
<1> HIDE DEF S, R, N
<1>7. Q \in Seq(S) /\ Len(Q) = N /\ DOMAIN Q = 1..N
  BY <1>5, <1>6
<1> HIDE DEF Q
<1>8. Q \in Seq(Pair)
  BY <1>1, <1>5, <1>6, <1>7
<1> DEFINE rank(x) == Cardinality(Under(R, S, x))
<1>9. /\ \A x \in S : rank(x) \in Nat /\ rank(x) < N
      /\ \A x \in S : \A y \in S : <<x, y>> \in R => rank(x) < rank(y)
  <2>1. \A x \in S : rank(x) \in 0..N - 1
    BY <1>1, <1>3, RankFacts DEF N
  <2>2. \A x \in S : \A y \in S : <<x, y>> \in R => rank(x) < rank(y)
    BY <1>1, <1>3, RankFacts
  <2> HIDE DEF rank
  <2> QED BY <1>5, <2>1, <2>2
<1>10. \A i \in 1..N : Q[i] \in S /\ rank(Q[i]) = i - 1
  BY <1>6
<1> HIDE DEF rank
<1>11. ASSUME NEW x \in S PROVE \E i \in 1..N : Q[i] = x
  <2> DEFINE i == rank(x) + 1
  <2>1. i \in 1..N /\ i - 1 = rank(x) /\ rank(x) \in Nat
    BY <1>5, <1>9
  <2>2. Q[i] \in S /\ rank(Q[i]) = rank(x)
    BY <1>10, <2>1
  <2> HIDE DEF i
  <2>3. Q[i] = x
    <3>1. Q[i] # x => <<Q[i], x>> \in R \/ <<x, Q[i]>> \in R
      BY <1>3, <2>2 DEF IsOrder
    <3>2. ~(rank(Q[i]) < rank(x)) /\ ~(rank(x) < rank(Q[i]))
      BY <2>1, <2>2
    <3> QED BY <1>9, <2>2, <3>1, <3>2
  <2> QED BY <2>1, <2>3
<1>12. ToSet(Q) = S
  BY <1>7, <1>10, <1>11 DEF ToSet
<1>13. ASSUME NEW i \in 1..N, NEW j \in 1..N, i < j PROVE Less(Q[i], Q[j])
  <2>1. /\ Q[i] \in S /\ rank(Q[i]) = i - 1 /\ Q[j] \in S /\ rank(Q[j]) = j - 1
        /\ i \in Nat /\ j \in Nat
    BY <1>5, <1>10
  <2>2. ~(rank(Q[j]) < rank(Q[i])) /\ rank(Q[i]) # rank(Q[j])
    BY <1>13, <2>1
  <2>3. ~(<<Q[j], Q[i]>> \in R) /\ Q[i] # Q[j]
    BY <1>9, <2>1, <2>2
  <2> QED BY <1>2, <1>3, <2>1, <2>3 DEF IsOrder
<1>14. InOrder(Q)
  BY <1>7, <1>13 DEF InOrder
<1> QED BY <1>4, <1>8, <1>12, <1>14 DEF S

Rest == ToSet(seq)
EqualInv ==
  cs.command = "equal" =>
    /\ seq \in Seq(Pair) /\ Rest \subseteq Items(cs.new) /\ InOrder(seq)
    /\ \A r \in CData : Owners(r) \cap Rest = {} \/ Owners(r) \subseteq Rest
    /\ out = {Owners(r) : r \in {r \in CData : Cardinality(Owners(r)) > 1 /\ Owners(r) \cap Rest = {}}}

LEMMA OwnersFacts ==
  ASSUME cs \in CompareStart, NEW r \in CData
  PROVE  /\ Owners(r) = {x \in Items(cs.new) : Content(x[2]) = r}
         /\ IsFiniteSet(Owners(r)) /\ Cardinality(Owners(r)) \in Nat
         /\ Owners(r) = {} => Cardinality(Owners(r)) = 0
<1>1. Owners(r) = {x \in Items(cs.new) : Content(x[2]) = r}
  BY DEF Owners, Items, Pair
<1>2. IsFiniteSet(Items(cs.new)) /\ Owners(r) \subseteq Items(cs.new)
  BY <1>1, CompareStartFacts, ItemsFinite
<1>3. IsFiniteSet(Owners(r))
  BY <1>2, FS_Subset
<1> QED BY <1>1, <1>3, FS_CardinalityType, FS_EmptySet

LEMMA EqualInitInv ==
  ASSUME CompareInit
  PROVE  EqualInv
<1> SUFFICES ASSUME cs.command = "equal" PROVE EqualInv
  BY DEF EqualInv
<1>1. cs \in CompareStart /\ seq = rcb(cs.new) /\ out = {}
  BY DEF CompareInit
<1>2. seq \in Seq(Pair) /\ Rest = Items(cs.new) /\ InOrder(seq)
  BY <1>1, RcbSorted DEF Rest
<1>3. ASSUME NEW r \in CData PROVE Owners(r) \subseteq Rest
  <2>1. Owners(r) = {x \in Items(cs.new) : Content(x[2]) = r}
    BY <1>1, OwnersFacts
  <2> QED BY <1>2, <2>1
<1>4. \A r \in CData : ~(Cardinality(Owners(r)) > 1 /\ Owners(r) \cap Rest = {})
  <2> TAKE r \in CData
  <2>1. Owners(r) \subseteq Rest
    BY <1>3
  <2>2. Owners(r) = {} => Cardinality(Owners(r)) = 0
    BY <1>1, OwnersFacts
  <2> QED BY <2>1, <2>2
<1> QED BY <1>1, <1>2, <1>3, <1>4 DEF EqualInv

\* The group at the front of what is left is all the roms of its content.
LEMMA FrontGroup ==
  ASSUME cs \in CompareStart, seq \in Seq(Pair), seq # <<>>, Rest \subseteq Items(cs.new), InOrder(seq),
         \A r \in CData : Owners(r) \cap Rest = {} \/ Owners(r) \subseteq Rest
  PROVE  LET r == Content(seq[1][2]) n == GroupLength IN
         /\ r \in CData /\ n \in 1..Len(seq)
         /\ ToSet(SubSeq(seq, 1, n)) = Owners(r)
         /\ ToSet(SubSeq(seq, n + 1, Len(seq))) = Rest \ Owners(r)
         /\ n > 1 <=> Cardinality(Owners(r)) > 1
         /\ SubSeq(seq, n + 1, Len(seq)) \in Seq(Pair)
         /\ InOrder(SubSeq(seq, n + 1, Len(seq)))
<1> DEFINE r == Content(seq[1][2])
           n == GroupLength
           L == Len(seq)
           I == {i \in 1..L : ~SameRom(seq[i][2], seq[1][2])}
<1>1. L \in Nat /\ L >= 1 /\ \A i \in 1..L : seq[i] \in Pair /\ seq[i] \in Rest
  <2>1. DOMAIN seq = 1..L /\ L \in Nat /\ L # 0 /\ \A i \in 1..L : seq[i] \in Pair
    OBVIOUS
  <2> QED BY <2>1 DEF Rest, ToSet
<1>2. \A x \in Rest : \E i \in 1..L : x = seq[i]
  <2>1. DOMAIN seq = 1..L
    OBVIOUS
  <2> QED BY <2>1 DEF Rest, ToSet
<1>3. 1 \in 1..L /\ r \in CData /\ 1 \notin I
  <2>1. 1 \in 1..L
    BY <1>1
  <2>2. seq[1] \in Pair
    BY <1>1, <2>1
  <2> QED BY <2>1, <2>2, PairFacts, SameContent
<1>4. n = LET m == IF I # {} THEN Min(I) ELSE 0 IN IF m = 0 THEN L ELSE m - 1
  BY DEF GroupLength, SelectInSeq
<1>5. I # {} => Min(I) \in I /\ \A i \in I : Min(I) <= i
  <2> DEFINE Lower == {ss \in Nat \X Nat : ss[1] < ss[2]}
  <2>1. IsWellFoundedOn(Lower, Nat)
    BY NatLessThanWellFounded DEF OpToRel
  <2>2. I \in SUBSET Nat
    BY <1>1
  <2> HIDE DEF I
  <2>3. ASSUME I # {} PROVE Min(I) \in I /\ \A i \in I : Min(I) <= i
    <3>1. PICK m \in I : \A x \in I : ~(<<x, m>> \in Lower)
      BY <2>1, <2>2, <2>3, WFMin
    <3>2. \A x \in I : m <= x
      <4> TAKE x \in I
      <4>1. x \in Nat /\ m \in Nat /\ ~(x < m)
        BY <2>2, <3>1
      <4> QED BY <4>1
    <3> QED BY <3>2 DEF Min
  <2> QED BY <2>3
<1>6. n \in 1..L /\ (\A i \in 1..n : i \notin I) /\ (n < L => n + 1 \in I)
  <2>1. CASE I = {}
    <3>1. n = L
      BY <1>4, <2>1
    <3> HIDE DEF I
    <3> QED BY <1>1, <2>1, <3>1
  <2>2. CASE I # {}
    <3>1. Min(I) \in I /\ Min(I) \in 1..L /\ Min(I) # 1 /\ \A i \in I : Min(I) <= i
      BY <1>3, <1>5, <2>2
    <3>2. n = Min(I) - 1
      BY <1>1, <1>4, <2>2, <3>1
    <3> HIDE DEF I, n
    <3> DEFINE m == Min(I)
    <3>3. m \in Nat /\ n = m - 1 /\ m > 1 /\ m <= L /\ m \in I /\ \A i \in I : m <= i
      BY <1>1, <3>1, <3>2
    <3> HIDE DEF m
    <3>4. \A i \in 1..n : i \notin I
      BY <3>3
    <3> QED BY <1>1, <3>3, <3>4
  <2> QED BY <2>1, <2>2
<1> HIDE DEF n
<1>7. \A i \in 1..n : i \in 1..L /\ Content(seq[i][2]) = r
  <2> TAKE i \in 1..n
  <2>1. i \in 1..L /\ i \notin I
    BY <1>1, <1>6
  <2>2. SameRom(seq[i][2], seq[1][2])
    BY <2>1
  <2> QED BY <2>1, <2>2, SameContent
<1>8. \A i \in n + 1..L : i \in 1..L /\ Content(seq[i][2]) # r
  <2> TAKE i \in n + 1..L
  <2> DEFINE k == n + 1
  <2>1. i \in 1..L /\ k \in 1..L /\ k \in I /\ 1 < k /\ i \in Nat /\ k <= i
    BY <1>1, <1>6
  <2> HIDE DEF k
  <2>2. seq[1] \in Pair /\ seq[k] \in Pair /\ seq[i] \in Pair
    BY <1>1, <1>3, <2>1
  <2>3. Less(seq[1], seq[k]) /\ (k = i \/ Less(seq[k], seq[i]))
    BY <1>3, <2>1 DEF InOrder
  <2>4. ~SameRom(seq[k][2], seq[1][2])
    BY <2>1
  <2>5. ASSUME Content(seq[i][2]) = r PROVE FALSE
    <3>1. SameRom(seq[i][2], seq[1][2])
      BY <2>5, SameContent
    <3>2. k # i /\ Less(seq[k], seq[i])
      BY <2>3, <2>4, <3>1
    <3> DEFINE a == seq[1]
               b == seq[k]
               c == seq[i]
    <3>3. /\ a[2].crc \in Nat /\ a[2].size \in Nat /\ b[2].crc \in Nat /\ b[2].size \in Nat
      BY <2>2, PairFacts
    <3>4. /\ c[2].crc = a[2].crc /\ c[2].size = a[2].size
          /\ a[2].crc # b[2].crc \/ a[2].size # b[2].size
      BY <2>4, <3>1 DEF SameRom
    <3>5. Less(a, b) /\ Less(b, c)
      BY <2>3, <3>2
    <3> HIDE DEF a, b, c
    <3>6. a[2].crc < b[2].crc \/ (a[2].crc = b[2].crc /\ a[2].size < b[2].size)
      BY <3>3, <3>4, <3>5 DEF Less, rom_by_crc_less
    <3>7. ~rom_by_crc_less(c[2], b[2])
      BY <3>3, <3>4, <3>5 DEF Less, rom_by_crc_less
    <3> QED BY <3>3, <3>4, <3>6, <3>7 DEF rom_by_crc_less
  <2> QED BY <2>1, <2>5
<1> HIDE DEF r, L, I
<1>9. /\ Owners(r) = {x \in Items(cs.new) : Content(x[2]) = r} /\ IsFiniteSet(Owners(r))
      /\ Cardinality(Owners(r)) \in Nat
  BY <1>3, OwnersFacts
<1>10. seq[1] \in Owners(r) /\ Owners(r) \subseteq Rest
  <2>1. seq[1] \in Rest /\ Content(seq[1][2]) = r
    BY <1>1, <1>3 DEF r
  <2>2. seq[1] \in Owners(r)
    BY <1>9, <2>1
  <2> QED BY <1>3, <2>1, <2>2
<1>11. Owners(r) = {seq[i] : i \in 1..n}
  <2>1. ASSUME NEW i \in 1..n PROVE seq[i] \in Owners(r)
    BY <1>1, <1>7, <1>9
  <2>2. ASSUME NEW x \in Owners(r) PROVE \E i \in 1..n : x = seq[i]
    <3>1. PICK i \in 1..L : x = seq[i]
      BY <1>2, <1>10
    <3>2. i \notin n + 1..L
      BY <1>8, <1>9, <3>1
    <3>3. i \in 1..n
      BY <1>1, <1>6, <3>2
    <3> QED BY <3>1, <3>3
  <2> QED BY <2>1, <2>2
<1>12. Rest \ Owners(r) = {seq[i] : i \in n + 1..L}
  <2>1. ASSUME NEW i \in n + 1..L PROVE seq[i] \in Rest \ Owners(r)
    BY <1>1, <1>8, <1>9
  <2>2. ASSUME NEW x \in Rest \ Owners(r) PROVE \E i \in n + 1..L : x = seq[i]
    <3>1. PICK i \in 1..L : x = seq[i]
      BY <1>2
    <3>2. i \notin 1..n
      BY <1>11, <2>2, <3>1
    <3>3. i \in n + 1..L
      BY <1>1, <1>6, <3>2
    <3> QED BY <3>1, <3>3
  <2> QED BY <2>1, <2>2
<1>13. ToSet(SubSeq(seq, 1, n)) = Owners(r)
  <2> DEFINE q == SubSeq(seq, 1, n)
  <2>1. q \in Seq(Pair) /\ Len(q) = n /\ \A i \in 1..n : q[i] = seq[i]
    <3>1. 1 \in Int /\ n \in Int /\ 1 <= n /\ n - 1 + 1 = n /\ \A i \in 1..n : seq[i] \in Pair
      BY <1>1, <1>6, <1>7
    <3>2. /\ q \in Seq(Pair) /\ Len(q) = IF 1 <= n THEN n - 1 + 1 ELSE 0
          /\ \A i \in 1..n - 1 + 1 : q[i] = seq[1 + i - 1]
      BY <3>1, SubSeqProperties
    <3> HIDE DEF q
    <3>3. \A i \in 1..n : 1 + i - 1 = i
      BY <1>1, <1>6
    <3> QED BY <3>1, <3>2, <3>3
  <2> HIDE DEF q
  <2>2. DOMAIN q = 1..n
    BY <2>1
  <2> QED BY <1>11, <2>1, <2>2 DEF ToSet, q
<1> DEFINE t == SubSeq(seq, n + 1, L)
<1>14. t \in Seq(Pair) /\ Len(t) = L - n /\ \A i \in 1..L - n : t[i] = seq[n + i]
  <2>1. /\ n + 1 \in Int /\ L \in Int /\ L - (n + 1) + 1 = L - n
        /\ \A i \in n + 1..L : seq[i] \in Pair
    BY <1>1, <1>6, <1>8
  <2>2. /\ t \in Seq(Pair) /\ Len(t) = IF n + 1 <= L THEN L - (n + 1) + 1 ELSE 0
        /\ \A i \in 1..L - (n + 1) + 1 : t[i] = seq[n + 1 + i - 1]
    BY <2>1, SubSeqProperties
  <2> HIDE DEF t
  <2>3. \A i \in 1..L - n : n + 1 + i - 1 = n + i
    BY <1>1, <1>6
  <2>4. Len(t) = L - n
    BY <1>1, <1>6, <2>2
  <2> QED BY <2>1, <2>2, <2>3, <2>4
<1> HIDE DEF t
<1>15. ToSet(t) = Rest \ Owners(r)
  <2>1. DOMAIN t = 1..L - n
    BY <1>14
  <2>2. ASSUME NEW i \in 1..L - n PROVE n + i \in n + 1..L /\ t[i] = seq[n + i]
    BY <1>1, <1>6, <1>14
  <2>3. ASSUME NEW i \in n + 1..L PROVE i - n \in 1..L - n /\ t[i - n] = seq[i]
    <3>1. i - n \in 1..L - n /\ n + (i - n) = i
      BY <1>1, <1>6
    <3> QED BY <1>14, <3>1
  <2> QED BY <1>12, <2>1, <2>2, <2>3 DEF ToSet
<1>16. InOrder(t)
  <2> SUFFICES ASSUME NEW i \in 1..Len(t), NEW j \in 1..Len(t), i < j PROVE Less(t[i], t[j])
    BY DEF InOrder
  <2>1. /\ t[i] = seq[n + i] /\ t[j] = seq[n + j] /\ n + i \in 1..L /\ n + j \in 1..L
        /\ n + i < n + j
    BY <1>1, <1>6, <1>14
  <2> QED BY <2>1 DEF InOrder, L
<1>17. n > 1 <=> Cardinality(Owners(r)) > 1
  <2>1. CASE n = 1
    <3>1. Owners(r) = {seq[1]}
      BY <1>11, <2>1
    <3>2. Cardinality(Owners(r)) = 1
      BY <3>1, FS_Singleton
    <3> QED BY <2>1, <3>2
  <2>2. CASE n # 1
    <3>1. n > 1 /\ 2 \in 1..n /\ 1 \in 1..n /\ 2 \in 1..L
      BY <1>1, <1>6, <2>2
    <3>2. seq[1] \in Owners(r) /\ seq[2] \in Owners(r)
      BY <1>11, <3>1
    <3>3. seq[1] # seq[2]
      <4>1. Less(seq[1], seq[2]) /\ seq[1] \in Pair
        BY <1>1, <1>3, <3>1 DEF InOrder, L
      <4> QED BY <4>1, LessOrder
    <3>4. Cardinality(Owners(r)) # 0
      BY <1>9, <3>2, FS_EmptySet
    <3>5. ASSUME Cardinality(Owners(r)) = 1 PROVE FALSE
      <4>1. PICK x : Owners(r) = {x}
        BY <1>9, <3>5, FS_Singleton
      <4> QED BY <3>2, <3>3, <4>1
    <3> QED BY <1>9, <3>1, <3>4, <3>5
  <2> QED BY <2>1, <2>2
<1> QED BY <1>3, <1>6, <1>13, <1>14, <1>15, <1>16, <1>17 DEF r, n, L, t

LEMMA EqualGroupInv ==
  ASSUME IdentInv, EqualInv, cs.command = "equal", EqualGroup
  PROVE  EqualInv'
<1> DEFINE r == Content(seq[1][2])
           n == GroupLength
           Kept == SubSeq(seq, n + 1, Len(seq))
           Said == {s \in CData : Cardinality(Owners(s)) > 1 /\ Owners(s) \cap Rest = {}}
<1>1. /\ cs \in CompareStart /\ cs' = cs /\ seq # <<>> /\ seq' = Kept
      /\ out' = IF n > 1 THEN out \cup {ToSet(SubSeq(seq, 1, n))} ELSE out
  BY DEF EqualGroup, IdentInv
<1>2. /\ seq \in Seq(Pair) /\ Rest \subseteq Items(cs.new) /\ InOrder(seq)
      /\ \A s \in CData : Owners(s) \cap Rest = {} \/ Owners(s) \subseteq Rest
      /\ out = {Owners(s) : s \in Said}
  BY DEF EqualInv
<1>3. /\ r \in CData /\ n \in 1..Len(seq)
      /\ ToSet(SubSeq(seq, 1, n)) = Owners(r)
      /\ ToSet(Kept) = Rest \ Owners(r)
      /\ n > 1 <=> Cardinality(Owners(r)) > 1
      /\ Kept \in Seq(Pair)
      /\ InOrder(Kept)
  <2> HIDE DEF r, n
  <2> QED BY <1>1, <1>2, FrontGroup DEF r, n
<1>4. ToSet(SubSeq(seq, 1, n)) \cap Rest # {} /\ Owners(r) \subseteq Rest
  <2>1. seq[1] \in Rest
    BY <1>1, <1>2 DEF Rest, ToSet
  <2>2. seq[1] \in Items(cs.new)
    BY <1>2, <2>1
  <2>3. Owners(r) = {x \in Items(cs.new) : Content(x[2]) = r}
    BY <1>1, <1>3, OwnersFacts
  <2>4. seq[1] \in Owners(r)
    BY <2>2, <2>3
  <2> QED BY <1>2, <1>3, <2>1, <2>4
<1> HIDE DEF Kept, n, r
<1>5. ASSUME NEW s \in CData, s # r PROVE Owners(s) \cap Owners(r) = {}
  <2>1. Owners(r) = {x \in Items(cs.new) : Content(x[2]) = r} /\ Owners(s) = {x \in Items(cs.new) : Content(x[2]) = s}
    BY <1>1, <1>3, OwnersFacts
  <2> QED BY <1>5, <2>1
<1>6. Rest' = Rest \ Owners(r)
  BY <1>1, <1>3 DEF Rest
<1>7. \A s : Owners(s)' = Owners(s)
  BY <1>1 DEF Owners, rs_get, CChain, CClosed
<1>8. ASSUME NEW s \in CData
      PROVE  Owners(s) \cap Rest' = {} \/ Owners(s) \subseteq Rest'
  <2>1. s = r \/ Owners(s) \cap Owners(r) = {}
    BY <1>5
  <2>2. Owners(s) \cap Rest = {} \/ Owners(s) \subseteq Rest
    BY <1>2
  <2> QED BY <1>6, <2>1, <2>2
<1>9. {s \in CData : Cardinality(Owners(s)) > 1 /\ Owners(s) \cap Rest' = {}}
      = Said \cup {s \in {r} : Cardinality(Owners(s)) > 1}
  <2>1. ASSUME NEW s \in CData PROVE Owners(s) \cap Rest' = {} <=> Owners(s) \cap Rest = {} \/ s = r
    <3>1. s = r => Owners(s) \cap Rest' = {}
      BY <1>6
    <3>2. s # r => Owners(s) \cap Owners(r) = {}
      BY <1>5
    <3> QED BY <1>6, <3>1, <3>2
  <2> QED BY <1>3, <2>1
<1>10. out' = {Owners(s) : s \in {s \in CData : Cardinality(Owners(s)) > 1 /\ Owners(s) \cap Rest' = {}}}
  <2>1. CASE n > 1
    <3>1. {s \in {r} : Cardinality(Owners(s)) > 1} = {r}
      BY <1>3, <2>1
    <3> HIDE DEF Said
    <3> QED BY <1>1, <1>2, <1>3, <1>9, <2>1, <3>1
  <2>2. CASE ~(n > 1)
    <3>1. {s \in {r} : Cardinality(Owners(s)) > 1} = {}
      BY <1>3, <2>2
    <3> HIDE DEF Said
    <3> QED BY <1>1, <1>2, <1>9, <2>2, <3>1
  <2> QED BY <2>1, <2>2
<1>11. seq' \in Seq(Pair) /\ Rest' \subseteq Items(cs.new) /\ InOrder(seq')
  BY <1>1, <1>2, <1>3, <1>6
<1>12. Items(cs.new)' = Items(cs.new) /\ InOrder(seq)' = InOrder(seq') /\ Pair' = Pair
  BY <1>1 DEF Items, rs_get, CChain, CClosed, InOrder, Less, rom_by_crc_less, Pair
<1> QED BY <1>7, <1>8, <1>10, <1>11, <1>12 DEF EqualInv

LEMMA EqualStep ==
  ASSUME IdentInv, EqualInv, [CompareNext]_compareVars
  PROVE  EqualInv'
<1>1. cs' = cs
  BY DEF CompareNext, EqualGroup, CompareEnds, IdentFile, DiffGame, compareVars
<1>2. CASE cs.command # "equal"
  BY <1>1, <1>2 DEF EqualInv
<1>3. CASE cs.command = "equal" /\ EqualGroup
  BY <1>3, EqualGroupInv
<1>4. CASE cs.command = "equal" /\ ~EqualGroup
  <2>1. CompareEnds \/ UNCHANGED compareVars
    BY <1>4 DEF CompareNext, IdentFile, DiffGame
  <2>2. seq' = seq /\ out' = out
    BY <2>1 DEF CompareEnds, compareVars
  <2>3. \A s : Owners(s)' = Owners(s)
    BY <1>1 DEF Owners, rs_get, CChain, CClosed
  <2>4. /\ Items(cs.new)' = Items(cs.new) /\ InOrder(seq)' = InOrder(seq) /\ Pair' = Pair
        /\ Rest' = Rest
    BY <1>1, <2>2 DEF Items, rs_get, CChain, CClosed, InOrder, Less, rom_by_crc_less, Pair, Rest
  <2> QED BY <1>1, <2>2, <2>3, <2>4 DEF EqualInv
<1> QED BY <1>2, <1>3, <1>4

LEMMA EqualInvariant == CompareSpec => [](IdentInv /\ EqualInv)
<1>1. IdentInv /\ EqualInv /\ [CompareNext]_compareVars => (IdentInv /\ EqualInv)'
  BY IdentStep, EqualStep
<1>2. CompareInit => IdentInv /\ EqualInv
  BY IdentInitInv, EqualInitInv
<1> QED BY <1>1, <1>2, PTL DEF CompareSpec

LEMMA EqualFromInv ==
  ASSUME IdentInv, EqualInv
  PROVE  GroupsComplete
<1> SUFFICES ASSUME cpc = "done", cs.command = "equal"
             PROVE  out = {Owners(r) : r \in {r \in CData : Cardinality(Owners(r)) > 1}}
  BY DEF GroupsComplete
<1>1. seq = <<>>
  BY DEF IdentInv
<1>2. Rest = {}
  BY <1>1 DEF Rest, ToSet
<1>3. {r \in CData : Cardinality(Owners(r)) > 1 /\ Owners(r) \cap Rest = {}}
      = {r \in CData : Cardinality(Owners(r)) > 1}
  BY <1>2
<1> QED BY <1>3 DEF EqualInv

\* One pass over the sorted roms of all games finds every group of equal ones,
\* those within one game included, whole and once, and the other two comparisons
\* leave nothing out either, for all information files and trees of directories
\* (equal, ident_file, process).
THEOREM ComparisonsCorrect == CompareSpec => []NothingLeftOut
<1>1. IdentInv /\ EqualInv => GroupsComplete
  BY EqualFromInv
<1>2. CompareSpec => []GroupsComplete
  BY <1>1, EqualInvariant, PTL
<1>3. GroupsComplete /\ IdentComplete /\ DiffCovers => NothingLeftOut
  BY DEF NothingLeftOut
<1> QED BY <1>2, <1>3, IdentCorrect, DiffCorrect, PTL
=============================================================================
