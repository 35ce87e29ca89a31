---------------------------- MODULE RomZipProofs ----------------------------
(***************************************************************************)
(* What the operations of ziprom do to the entries of an archive, the order*)
(* of the list apart, as long as no two entries have the same name.        *)
(***************************************************************************)
EXTENDS RomZip, SequenceTheorems, WellFoundedInduction, TLAPS

-----------------------------------------------------------------------------
(* The first index of a list.                                              *)

\* A set of numbers has a least one, and Min is it.
LEMMA MinOfNats ==
  ASSUME NEW I \in SUBSET Nat, I # {}
  PROVE  Min(I) \in I /\ \A i \in I : Min(I) <= i
<1> DEFINE Below == {ss \in Nat \X Nat : ss[1] < ss[2]}
<1>1. IsWellFoundedOn(Below, Nat)
  BY NatLessThanWellFounded DEF OpToRel
<1>2. PICK m \in I : \A i \in I : ~ (<<i, m>> \in Below)
  BY <1>1, WFMin
<1>3. ASSUME NEW i \in I PROVE m <= i
  <2>1. i \in Nat /\ m \in Nat /\ ~(<<i, m>> \in Below) BY <1>2
  <2>2. ~(i < m) BY <2>1
  <2> QED BY <2>1, <2>2
<1> QED BY <1>3 DEF Min

\* FindData finds an entry with the data, if there is one.
LEMMA FindDataFinds ==
  ASSUME NEW s \in Seq(Entry), NEW d
  PROVE  /\ FindData(s, d) = 0 <=> d \notin DataOf(s)
         /\ FindData(s, d) # 0 =>
              FindData(s, d) \in DOMAIN s /\ s[FindData(s, d)].data = d
<1> DEFINE I == {i \in 1 .. Len(s) : s[i].data = d}
<1>1. FindData(s, d) = IF I # {} THEN Min(I) ELSE 0
  BY DEF FindData, SelectInSeq
<1>2. DOMAIN s = 1 .. Len(s) /\ Len(s) \in Nat
  BY LenProperties
<1>3. CASE I # {}
  <2>0. I \in SUBSET Nat BY <1>2
  <2>1. Min(I) \in I BY <2>0, <1>3, MinOfNats, Zenon
  <2>2. FindData(s, d) \in I BY <1>1, <1>3, <2>1
  <2>3. d \in DataOf(s) BY <1>2, <2>2 DEF DataOf, ToSet
  <2> QED BY <1>2, <2>2, <2>3
<1>4. CASE I = {}
  <2>1. d \notin DataOf(s) BY <1>2, <1>4 DEF DataOf, ToSet
  <2> QED BY <1>1, <1>4, <2>1
<1> QED BY <1>3, <1>4

\* FindName finds an entry of the name in any case, if there is one.
LEMMA FindNameFinds ==
  ASSUME NEW s \in Seq(Entry), NEW n
  PROVE  /\ FindName(s, n) = 0 <=> \A e \in ToSet(s) : ~SameName(e.name, n)
         /\ FindName(s, n) # 0 =>
              /\ FindName(s, n) \in DOMAIN s /\ FindName(s, n) \in 1 .. Len(s)
              /\ s[FindName(s, n)] \in ToSet(s)
              /\ SameName(s[FindName(s, n)].name, n)
<1> DEFINE I == {i \in 1 .. Len(s) : SameName(s[i].name, n)}
<1>1. FindName(s, n) = IF I # {} THEN Min(I) ELSE 0
  BY DEF FindName, SelectInSeq
<1>2. DOMAIN s = 1 .. Len(s) /\ Len(s) \in Nat
  BY LenProperties
<1>3. CASE I # {}
  <2>0. I \in SUBSET Nat BY <1>2
  <2>1. Min(I) \in I BY <2>0, <1>3, MinOfNats, Zenon
  <2>2. FindName(s, n) \in I BY <1>1, <1>3, <2>1
  <2>3. s[FindName(s, n)] \in ToSet(s) BY <1>2, <2>2 DEF ToSet
  <2> QED BY <1>2, <2>2, <2>3
<1>4. CASE I = {}
  <2>1. \A e \in ToSet(s) : ~SameName(e.name, n) BY <1>2, <1>4 DEF ToSet
  <2> QED BY <1>1, <1>4, <2>1
<1> QED BY <1>3, <1>4

LEMMA InList ==
  ASSUME NEW s \in Seq(Entry)
  PROVE  /\ \A i \in DOMAIN s : s[i] \in ToSet(s) /\ s[i] \in Entry
         /\ \A e \in ToSet(s) : e \in Entry /\ \E i \in DOMAIN s : s[i] = e
         /\ s = <<>> <=> ToSet(s) = {}
<1>1. DOMAIN s = 1 .. Len(s) /\ Len(s) \in Nat BY LenProperties
<1>2. \A i \in DOMAIN s : s[i] \in Entry BY <1>1, ElementOfSeq
<1>3. s # <<>> <=> Len(s) # 0 BY EmptySeq
<1>4. \A i \in DOMAIN s : s[i] \in ToSet(s) /\ s[i] \in Entry BY <1>2 DEF ToSet
<1>5. \A e \in ToSet(s) : e \in Entry /\ \E i \in DOMAIN s : s[i] = e BY <1>2 DEF ToSet
<1>6. s = <<>> => ToSet(s) = {} BY <1>1, <1>3, <1>5
<1>7. s # <<>> => 1 \in DOMAIN s BY <1>1, <1>3
<1> QED BY <1>4, <1>5, <1>6, <1>7

\* In a list with distinct names an entry is known by its name.
LEMMA ByName ==
  ASSUME NEW s \in Seq(Entry), Distinct(s),
         NEW e \in ToSet(s), NEW f \in ToSet(s), SameName(e.name, f.name)
  PROVE  e = f
BY InList DEF Distinct

LEMMA FindNameDistinct ==
  ASSUME NEW s \in Seq(Entry), Distinct(s), NEW e \in ToSet(s), NEW n, SameName(e.name, n)
  PROVE  FindName(s, n) # 0 /\ s[FindName(s, n)] = e
<1>1. FindName(s, n) # 0 BY FindNameFinds
<1>2. s[FindName(s, n)] \in ToSet(s) /\ SameName(s[FindName(s, n)].name, e.name)
  BY <1>1, FindNameFinds DEF SameName
<1> QED BY <1>1, <1>2, ByName

-----------------------------------------------------------------------------
(* erase, insert.                                                          *)

\* The list without entry i: it has the others, in their order.
LEMMA ErasedSeq ==
  ASSUME NEW s \in Seq(Entry), NEW i \in DOMAIN s
  PROVE  /\ Erased(s, i) \in Seq(Entry)
         /\ Len(Erased(s, i)) = Len(s) - 1
         /\ \A k \in 1 .. Len(s) - 1 : Erased(s, i)[k] = IF k < i THEN s[k] ELSE s[k + 1]
<1> DEFINE a == SubSeq(s, 1, i - 1)
           b == SubSeq(s, i + 1, Len(s))
<1>1. Len(s) \in Nat /\ i \in 1 .. Len(s) BY LenProperties
<1>2. \A k \in 1 .. Len(s) : s[k] \in Entry BY ElementOfSeq
<1>3. a \in Seq(Entry) /\ Len(a) = i - 1 /\ \A k \in 1 .. i - 1 : a[k] = s[k]
  <2>1. 1 \in Int /\ i - 1 \in Int /\ \A k \in 1 .. i - 1 : s[k] \in Entry BY <1>1, <1>2
  <2>2. /\ a \in Seq(Entry)
        /\ Len(a) = IF 1 <= i - 1 THEN i - 1 - 1 + 1 ELSE 0
        /\ \A k \in 1 .. i - 1 - 1 + 1 : a[k] = s[1 + k - 1]
    BY <2>1, SubSeqProperties
  <2> QED BY <1>1, <2>2
<1>4. b \in Seq(Entry) /\ Len(b) = Len(s) - i /\ \A k \in 1 .. Len(s) - i : b[k] = s[i + k]
  <2>1. i + 1 \in Int /\ Len(s) \in Int /\ \A k \in i + 1 .. Len(s) : s[k] \in Entry BY <1>1, <1>2
  <2>2. /\ b \in Seq(Entry)
        /\ Len(b) = IF i + 1 <= Len(s) THEN Len(s) - (i + 1) + 1 ELSE 0
        /\ \A k \in 1 .. Len(s) - (i + 1) + 1 : b[k] = s[i + 1 + k - 1]
    BY <2>1, SubSeqProperties
  <2> QED BY <1>1, <2>2
<1>5. Erased(s, i) = a \o b BY DEF Erased, RemoveAt
<1> HIDE DEF a, b
<1>6. /\ a \o b \in Seq(Entry) /\ Len(a \o b) = Len(a) + Len(b)
      /\ \A k \in 1 .. Len(a) + Len(b) : (a \o b)[k] = IF k <= Len(a) THEN a[k] ELSE b[k - Len(a)]
  BY <1>3, <1>4, ConcatProperties
<1>7. Len(a) + Len(b) = Len(s) - 1 BY <1>1, <1>3, <1>4
<1>8. ASSUME NEW k \in 1 .. Len(s) - 1
      PROVE (a \o b)[k] = IF k < i THEN s[k] ELSE s[k + 1]
  <2>0. k \in 1 .. Len(a) + Len(b) BY <1>7
  <2>1. (a \o b)[k] = IF k <= i - 1 THEN a[k] ELSE b[k - (i - 1)]
    BY <1>3, <1>6, <2>0, Zenon
  <2>2. CASE k < i BY <1>1, <1>3, <2>1, <2>2
  <2>3. CASE ~(k < i)
    <3>1. k - (i - 1) \in 1 .. Len(s) - i /\ i + (k - (i - 1)) = k + 1 BY <1>1, <2>3
    <3> QED BY <1>1, <1>4, <2>1, <2>3, <3>1
  <2> QED BY <2>2, <2>3
<1> QED BY <1>5, <1>6, <1>7, <1>8

LEMMA ErasedEntries ==
  ASSUME NEW s \in Seq(Entry), Distinct(s), NEW i \in DOMAIN s
  PROVE  /\ Erased(s, i) \in Seq(Entry) /\ Distinct(Erased(s, i))
         /\ ToSet(Erased(s, i)) = ToSet(s) \ {s[i]}
<1> DEFINE t == Erased(s, i)
           from(k) == IF k < i THEN k ELSE k + 1
<1>1. Len(s) \in Nat /\ DOMAIN s = 1 .. Len(s) /\ i \in 1 .. Len(s) BY LenProperties
<1>2. /\ t \in Seq(Entry) /\ Len(t) = Len(s) - 1
      /\ \A k \in 1 .. Len(s) - 1 : t[k] = IF k < i THEN s[k] ELSE s[k + 1]
  BY ErasedSeq
<1>3. DOMAIN t = 1 .. Len(s) - 1 BY <1>2, LenProperties
<1> HIDE DEF t
<1>4. \A k \in DOMAIN t : from(k) \in DOMAIN s /\ from(k) # i /\ t[k] = s[from(k)]
  BY <1>1, <1>2, <1>3
<1>5. \A k, l \in DOMAIN t : from(k) = from(l) => k = l
  BY <1>1, <1>3
<1>6. \A j \in DOMAIN s : j # i => \E k \in DOMAIN t : from(k) = j
  <2> SUFFICES ASSUME NEW j \in DOMAIN s, j # i PROVE \E k \in DOMAIN t : from(k) = j
    OBVIOUS
  <2>1. CASE j < i BY <1>1, <1>3, <2>1
  <2>2. CASE ~(j < i)
    <3>1. j - 1 \in DOMAIN t /\ from(j - 1) = j BY <1>1, <1>3, <2>2
    <3> QED BY <3>1
  <2> QED BY <2>1, <2>2
<1>7. \A k \in DOMAIN s : s[k] = s[i] => k = i BY DEF Distinct, SameName
<1> HIDE DEF from
<1>8. Distinct(t)
  <2> SUFFICES ASSUME NEW k \in DOMAIN t, NEW l \in DOMAIN t, SameName(t[k].name, t[l].name)
               PROVE k = l
    BY DEF Distinct
  <2> QED BY <1>4, <1>5 DEF Distinct
<1>9. ToSet(t) = ToSet(s) \ {s[i]}
  BY <1>4, <1>6, <1>7 DEF ToSet
<1> QED BY <1>2, <1>8, <1>9 DEF t

LEMMA AppendedEntries ==
  ASSUME NEW s \in Seq(Entry), Distinct(s), NEW e \in Entry
  PROVE  /\ Append(s, e) \in Seq(Entry)
         /\ ToSet(Append(s, e)) = ToSet(s) \cup {e}
         /\ (\A f \in ToSet(s) : ~SameName(f.name, e.name)) => Distinct(Append(s, e))
<1> DEFINE t == Append(s, e)
<1>1. Len(s) \in Nat /\ DOMAIN s = 1 .. Len(s) BY LenProperties
<1>2. /\ t \in Seq(Entry) /\ Len(t) = Len(s) + 1
      /\ \A i \in 1 .. Len(s) : t[i] = s[i]
      /\ t[Len(s) + 1] = e
  BY AppendProperties
<1>3. DOMAIN t = 1 .. Len(s) + 1 BY <1>2, LenProperties
<1> HIDE DEF t
<1>4. DOMAIN t = DOMAIN s \cup {Len(s) + 1} BY <1>1, <1>3
<1>5. ToSet(t) = ToSet(s) \cup {e} BY <1>1, <1>2, <1>4 DEF ToSet
<1>6. ASSUME \A f \in ToSet(s) : ~SameName(f.name, e.name) PROVE Distinct(t)
  <2>1. \A i \in DOMAIN s : ~SameName(s[i].name, e.name) /\ ~SameName(e.name, s[i].name)
    BY <1>6 DEF ToSet, SameName
  <2>2. \A i, j \in DOMAIN s : SameName(s[i].name, s[j].name) => i = j BY DEF Distinct
  <2> QED BY <1>1, <1>2, <1>4, <2>1, <2>2 DEF Distinct
<1> QED BY <1>2, <1>5, <1>6 DEF t

-----------------------------------------------------------------------------
(* remove, move, add, rename, swap: two archives and the name n that leaves*)
(* the first one.                                                          *)

Pairs == [z : Seq(Entry), r : Seq(Entry)]
Named(s, n) == {e \in ToSet(s) : SameName(e.name, n)}
DistinctPair(p) == Distinct(p.z) /\ Distinct(p.r)

\* What is named n in the archive is in the reject archive afterwards; only
\* what had that name there makes room for it, or is what was asked for.
AsideAt(p, q, n, gone, new) ==
  /\ q \in Pairs /\ DistinctPair(q)
  /\ ToSet(q.z) = (ToSet(p.z) \ gone) \cup new
  /\ \A e \in Named(p.z, n) : \E f \in Named(q.r, n) : f.data = e.data
  /\ \A e \in ToSet(p.r) :
       e \in ToSet(q.r) \/ e \in new \/ (SameName(e.name, n) /\ Named(p.z, n) # {})
  /\ \A f \in ToSet(q.r) :
       f \in ToSet(p.r) \/ (SameName(f.name, n) /\ \E e \in Named(p.z, n) : f.data = e.data)

LEMMA NamedOne ==
  ASSUME NEW s \in Seq(Entry), Distinct(s), NEW n
  PROVE  /\ FindName(s, n) = 0 => Named(s, n) = {}
         /\ FindName(s, n) # 0 =>
              FindName(s, n) \in DOMAIN s /\ Named(s, n) = {s[FindName(s, n)]}
<1>1. FindName(s, n) = 0 => Named(s, n) = {} BY FindNameFinds DEF Named
<1>2. ASSUME FindName(s, n) # 0
      PROVE FindName(s, n) \in DOMAIN s /\ Named(s, n) = {s[FindName(s, n)]}
  BY <1>2, FindNameFinds, FindNameDistinct DEF Named
<1> QED BY <1>1, <1>2

LEMMA RemovedEntries ==
  ASSUME NEW s \in Seq(Entry), Distinct(s), NEW n
  PROVE  /\ Removed(s, n) \in Seq(Entry) /\ Distinct(Removed(s, n))
         /\ ToSet(Removed(s, n)) = ToSet(s) \ Named(s, n)
<1>1. CASE FindName(s, n) = 0
  BY <1>1, NamedOne DEF Removed
<1>2. CASE FindName(s, n) # 0
  BY <1>2, NamedOne, ErasedEntries DEF Removed
<1> QED BY <1>1, <1>2

LEMMA MovedEntries ==
  ASSUME NEW p \in Pairs, DistinctPair(p), NEW src, NEW dst \in Name, FindName(p.z, src) # 0
  PROVE  LET e == p.z[FindName(p.z, src)]
             q == Moved(p, src, dst)
         IN /\ e \in Entry /\ Named(p.z, src) = {e}
            /\ q \in Pairs /\ DistinctPair(q)
            /\ ToSet(q.z) = ToSet(p.z) \ {e}
            /\ ToSet(q.r) = (ToSet(p.r) \ Named(p.r, dst)) \cup {[name |-> dst, data |-> e.data]}
<1> DEFINE i == FindName(p.z, src)
           e == p.z[i]
           f == [name |-> dst, data |-> e.data]
           t == Removed(p.r, dst)
           u == Append(t, f)
<1>1. p.z \in Seq(Entry) /\ p.r \in Seq(Entry) /\ Distinct(p.z) /\ Distinct(p.r)
  BY DEF Pairs, DistinctPair
<1>2. i \in DOMAIN p.z /\ e \in Entry /\ Named(p.z, src) = {e}
  BY <1>1, NamedOne, InList
<1>3. Erased(p.z, i) \in Seq(Entry) /\ Distinct(Erased(p.z, i)) /\ ToSet(Erased(p.z, i)) = ToSet(p.z) \ {e}
  BY <1>1, <1>2, ErasedEntries
<1>4. t \in Seq(Entry) /\ Distinct(t) /\ ToSet(t) = ToSet(p.r) \ Named(p.r, dst)
  BY <1>1, RemovedEntries
<1>5. f \in Entry BY <1>2 DEF Entry
<1>6. \A h \in ToSet(t) : ~SameName(h.name, f.name) BY <1>4 DEF Named
<1> HIDE DEF t, f, e, i
<1>7. u \in Seq(Entry) /\ ToSet(u) = ToSet(t) \cup {f} /\ Distinct(u)
  BY <1>4, <1>5, <1>6, AppendedEntries
<1>8. Moved(p, src, dst) = [z |-> Erased(p.z, i), r |-> u]
  BY DEF Moved, Inserted, i, e, f, t
<1> QED BY <1>2, <1>3, <1>4, <1>7, <1>8 DEF Pairs, DistinctPair, i, e, f

\* The archive loses what has the name; the reject archive takes its data.
LEMMA RejectedEntries ==
  ASSUME NEW p \in Pairs, DistinctPair(p), NEW n \in Name
  PROVE  /\ AsideAt(p, Rejected(p, n), n, Named(p.z, n), {})
         /\ Named(Rejected(p, n).z, n) = {}
<1> DEFINE q == Rejected(p, n)
<1>1. p.z \in Seq(Entry) /\ p.r \in Seq(Entry) /\ Distinct(p.z) /\ Distinct(p.r)
  BY DEF Pairs, DistinctPair
<1>2. CASE FindName(p.z, n) = 0
  <2>1. Named(p.z, n) = {} /\ q = p BY <1>1, <1>2, NamedOne DEF Rejected
  <2> QED BY <2>1 DEF AsideAt
<1>3. CASE FindName(p.z, n) # 0
  <2> DEFINE e == p.z[FindName(p.z, n)]
             f == [name |-> n, data |-> e.data]
  <2>1. q = Moved(p, n, n) BY <1>3 DEF Rejected
  <2>2. /\ e \in Entry /\ Named(p.z, n) = {e}
        /\ q \in Pairs /\ DistinctPair(q)
        /\ ToSet(q.z) = ToSet(p.z) \ {e}
        /\ ToSet(q.r) = (ToSet(p.r) \ Named(p.r, n)) \cup {f}
    BY <1>3, <2>1, MovedEntries
  <2> HIDE DEF q, e
  <2>3. f \in Named(q.r, n) BY <2>2 DEF Named, SameName
  <2>4. \A g \in ToSet(p.r) : g \in ToSet(q.r) \/ SameName(g.name, n) BY <2>2 DEF Named
  <2>5. \A g \in ToSet(q.r) : g \in ToSet(p.r) \/ (SameName(g.name, n) /\ g.data = e.data)
    BY <2>2 DEF SameName
  <2>6. Named(q.z, n) = {} BY <2>2 DEF Named
  <2> QED BY <2>2, <2>3, <2>4, <2>5, <2>6 DEF AsideAt, q
<1> QED BY <1>2, <1>3

\* An entry of the name takes the place of what had it.
LEMMA AddedEntries ==
  ASSUME NEW p \in Pairs, DistinctPair(p), NEW n \in Name, NEW d \in Data
  PROVE  AsideAt(p, Added(p, n, d), n, Named(p.z, n), {[name |-> n, data |-> d]})
<1> DEFINE q == Rejected(p, n)
           e == [name |-> n, data |-> d]
           u == Append(q.z, e)
<1>1. AsideAt(p, q, n, Named(p.z, n), {}) /\ Named(q.z, n) = {} BY RejectedEntries
<1>2. e \in Entry BY DEF Entry
<1> HIDE DEF q
<1>3. q \in [z : Seq(Entry), r : Seq(Entry)] /\ q.z \in Seq(Entry) /\ q.r \in Seq(Entry) /\ Distinct(q.z)
  BY <1>1 DEF AsideAt, Pairs, DistinctPair
<1>4. \A f \in ToSet(q.z) : ~SameName(f.name, e.name) BY <1>1 DEF Named
<1> HIDE DEF e
<1>5. u \in Seq(Entry) /\ Distinct(u) /\ ToSet(u) = ToSet(q.z) \cup {e}
  BY <1>2, <1>3, <1>4, AppendedEntries
<1>6. Added(p, n, d) = [q EXCEPT !.z = u] BY DEF Added, Inserted, q, e
<1> HIDE DEF u
<1>7. [q EXCEPT !.z = u] = [z |-> u, r |-> q.r] BY <1>3
<1> QED BY <1>1, <1>3, <1>5, <1>6, <1>7 DEF AsideAt, Pairs, DistinctPair, u, e

LEMMA RenamedSeq ==
  ASSUME NEW s \in Seq(Entry), NEW i \in DOMAIN s, NEW n \in Name
  PROVE  LET t == [s EXCEPT ![i].name = n] IN
         /\ t \in Seq(Entry) /\ DOMAIN t = DOMAIN s
         /\ t[i] = [name |-> n, data |-> s[i].data]
         /\ \A k \in DOMAIN s \ {i} : t[k] = s[k]
<1> DEFINE t == [s EXCEPT ![i].name = n]
<1>1. DOMAIN s = 1 .. Len(s) /\ Len(s) \in Nat /\ \A k \in 1 .. Len(s) : s[k] \in Entry
  BY LenProperties, ElementOfSeq
<1>2. s[i] \in [name : Name, data : Data] BY <1>1 DEF Entry
<1>3. [s[i] EXCEPT !.name = n] = [name |-> n, data |-> s[i].data] BY <1>2
<1>4. [name |-> n, data |-> s[i].data] \in Entry BY <1>2 DEF Entry
<1>5. t = [k \in 1 .. Len(s) |-> IF k = i THEN [s[i] EXCEPT !.name = n] ELSE s[k]]
  BY <1>1, SeqDef
<1>6. \A k \in 1 .. Len(s) : t[k] = IF k = i THEN [name |-> n, data |-> s[i].data] ELSE s[k]
  BY <1>3, <1>5
<1>7. t \in Seq(Entry)
  <2>1. t = [k \in 1 .. Len(s) |-> IF k = i THEN [name |-> n, data |-> s[i].data] ELSE s[k]]
    BY <1>3, <1>5
  <2>2. \A k \in 1 .. Len(s) : (IF k = i THEN [name |-> n, data |-> s[i].data] ELSE s[k]) \in Entry
    BY <1>1, <1>4
  <2> HIDE DEF t
  <2>3. t \in [1 .. Len(s) -> Entry] BY <2>1, <2>2
  <2> QED BY <2>3, <1>1, SeqDef
<1>8. DOMAIN t = DOMAIN s BY <1>1, <1>5
<1> QED BY <1>1, <1>6, <1>7, <1>8

\* The file src, of another name, becomes the entry dst.
LEMMA RenamedEntries ==
  ASSUME NEW p \in Pairs, DistinctPair(p), NEW e \in ToSet(p.z), NEW dst \in Name,
         ~SameName(e.name, dst)
  PROVE  AsideAt(p, Renamed(p, e.name, dst), dst, Named(p.z, dst) \cup {e},
                 {[name |-> dst, data |-> e.data]})
<1> DEFINE q == Rejected(p, dst)
           i == FindName(q.z, e.name)
           f == [name |-> dst, data |-> e.data]
           t == [q.z EXCEPT ![i].name = dst]
<1>1. AsideAt(p, q, dst, Named(p.z, dst), {}) /\ Named(q.z, dst) = {} BY RejectedEntries
<1> HIDE DEF q
<1>2. q \in [z : Seq(Entry), r : Seq(Entry)] /\ q.z \in Seq(Entry) /\ q.r \in Seq(Entry)
      /\ Distinct(q.z) /\ Distinct(q.r)
  BY <1>1 DEF AsideAt, Pairs, DistinctPair
<1>3. e \in ToSet(q.z) BY <1>1 DEF AsideAt, Named
<1>4. i \in DOMAIN q.z /\ q.z[i] = e
  BY <1>2, <1>3, FindNameDistinct, FindNameFinds DEF SameName
<1> HIDE DEF i
<1>5. /\ t \in Seq(Entry) /\ DOMAIN t = DOMAIN q.z
      /\ t[i] = f
      /\ \A k \in DOMAIN q.z \ {i} : t[k] = q.z[k]
  BY <1>2, <1>4, RenamedSeq
<1>6. Renamed(p, e.name, dst) = [q EXCEPT !.z = t] BY DEF Renamed, q, i
<1> HIDE DEF t, f
<1>7. [q EXCEPT !.z = t] = [z |-> t, r |-> q.r] BY <1>2
<1>8. \A k \in DOMAIN q.z : ~SameName(q.z[k].name, dst) /\ ~SameName(dst, q.z[k].name)
  BY <1>1, <1>2, InList DEF Named, SameName
<1>9. Distinct(t)
  <2> SUFFICES ASSUME NEW k \in DOMAIN t, NEW l \in DOMAIN t, SameName(t[k].name, t[l].name)
               PROVE k = l
    BY DEF Distinct
  <2>1. CASE k # i /\ l # i BY <1>2, <1>5, <2>1 DEF Distinct
  <2>2. CASE k = i /\ l # i BY <1>5, <1>8, <2>2 DEF f
  <2>3. CASE k # i /\ l = i BY <1>5, <1>8, <2>3 DEF f
  <2> QED BY <2>1, <2>2, <2>3
<1>10. \A k \in DOMAIN q.z : q.z[k] = e => k = i BY <1>2, <1>4 DEF Distinct, SameName
<1>11. ToSet(t) = (ToSet(q.z) \ {e}) \cup {f}
  BY <1>4, <1>5, <1>10 DEF ToSet
<1>12. ToSet(t) = (ToSet(p.z) \ (Named(p.z, dst) \cup {e})) \cup {f}
  BY <1>1, <1>11 DEF AsideAt
<1> QED BY <1>1, <1>2, <1>5, <1>6, <1>7, <1>9, <1>12 DEF AsideAt, Pairs, DistinctPair, f

\* It is no matter whether an entry is erased before or after another is added.
LEMMA ErasedAppend ==
  ASSUME NEW s \in Seq(Entry), NEW i \in DOMAIN s, NEW e \in Entry
  PROVE  Erased(Append(s, e), i) = Append(Erased(s, i), e)
<1> DEFINE t == Append(s, e)
           u == Erased(s, i)
<1>1. Len(s) \in Nat /\ i \in 1 .. Len(s) BY LenProperties
<1>2. /\ t \in Seq(Entry) /\ Len(t) = Len(s) + 1
      /\ \A k \in 1 .. Len(s) : t[k] = s[k]
      /\ t[Len(s) + 1] = e
  BY AppendProperties
<1>3. /\ u \in Seq(Entry) /\ Len(u) = Len(s) - 1
      /\ \A k \in 1 .. Len(s) - 1 : u[k] = IF k < i THEN s[k] ELSE s[k + 1]
  BY ErasedSeq
<1> HIDE DEF t, u
<1>4. i \in DOMAIN t BY <1>1, <1>2, LenProperties
<1>5. /\ Erased(t, i) \in Seq(Entry) /\ Len(Erased(t, i)) = Len(s)
      /\ \A k \in 1 .. Len(s) : Erased(t, i)[k] = IF k < i THEN t[k] ELSE t[k + 1]
  <2>1. /\ Erased(t, i) \in Seq(Entry) /\ Len(Erased(t, i)) = Len(t) - 1
        /\ \A k \in 1 .. Len(t) - 1 : Erased(t, i)[k] = IF k < i THEN t[k] ELSE t[k + 1]
    BY <1>2, <1>4, ErasedSeq
  <2>2. Len(t) - 1 = Len(s) BY <1>1, <1>2
  <2> QED BY <2>1, <2>2
<1>6. /\ Append(u, e) \in Seq(Entry) /\ Len(Append(u, e)) = Len(s)
      /\ \A k \in 1 .. Len(s) - 1 : Append(u, e)[k] = u[k]
      /\ Append(u, e)[Len(s)] = e
  BY <1>1, <1>3, AppendProperties
<1>7. ASSUME NEW k \in 1 .. Len(s) PROVE Erased(t, i)[k] = Append(u, e)[k]
  <2>1. CASE k < i
    <3>1. k \in 1 .. Len(s) - 1 BY <1>1, <2>1
    <3> QED BY <1>2, <1>3, <1>5, <1>6, <2>1, <3>1
  <2>2. CASE ~(k < i) /\ k < Len(s)
    <3>1. k \in 1 .. Len(s) - 1 /\ k + 1 \in 1 .. Len(s) BY <1>1, <2>2
    <3> QED BY <1>2, <1>3, <1>5, <1>6, <2>2, <3>1
  <2>3. CASE ~(k < i) /\ k = Len(s) BY <1>1, <1>2, <1>5, <1>6, <2>3
  <2>4. k < Len(s) \/ k = Len(s) BY <1>1
  <2> QED BY <2>1, <2>2, <2>3, <2>4
<1>8. Erased(t, i) = Append(u, e) BY <1>5, <1>6, <1>7, SeqEqual
<1> QED BY <1>8 DEF t, u

\* Entry j of the reject archive and what has its name change places.
LEMMA SwappedEntries ==
  ASSUME NEW p \in Pairs, DistinctPair(p), NEW j \in DOMAIN p.r, NEW n, p.r[j].name = n
  PROVE  AsideAt(p, Swapped(p, n, j), n, Named(p.z, n), {p.r[j]})
<1> DEFINE i == FindName(p.z, n)
           h == p.r[j]
           z == Append(p.z, h)
           e == p.z[i]
           q == Swapped(p, n, j)
<1>1. p.z \in Seq(Entry) /\ p.r \in Seq(Entry) /\ Distinct(p.z) /\ Distinct(p.r)
  BY DEF Pairs, DistinctPair
<1>2. h \in Entry /\ h \in ToSet(p.r) BY <1>1, InList
<1>3. Erased(p.r, j) \in Seq(Entry) /\ Distinct(Erased(p.r, j)) /\ ToSet(Erased(p.r, j)) = ToSet(p.r) \ {h}
  BY <1>1, ErasedEntries
<1>4. CASE i = 0
  <2>1. Named(p.z, n) = {} BY <1>1, <1>4, NamedOne
  <2>2. \A f \in ToSet(p.z) : ~SameName(f.name, h.name) BY <2>1 DEF Named
  <2> HIDE DEF h
  <2>3. z \in Seq(Entry) /\ ToSet(z) = ToSet(p.z) \cup {h} /\ Distinct(z)
    BY <1>1, <1>2, <2>2, AppendedEntries
  <2>4. q = [z |-> z, r |-> Erased(p.r, j)] BY <1>4 DEF Swapped, h
  <2> QED BY <1>2, <1>3, <2>1, <2>3, <2>4 DEF AsideAt, Pairs, DistinctPair, h
<1>5. CASE i # 0
  <2>1. i \in DOMAIN p.z /\ Named(p.z, n) = {e} /\ e \in Entry /\ SameName(e.name, n)
    BY <1>1, <1>5, NamedOne, InList, FindNameFinds
  <2> DEFINE s == Erased(p.z, i)
             t == Erased(p.r, j)
  <2>2. s \in Seq(Entry) /\ Distinct(s) /\ ToSet(s) = ToSet(p.z) \ {e}
    BY <1>1, <2>1, ErasedEntries
  <2>3. q = [z |-> Append(s, h), r |-> Append(t, e)]
    BY <1>1, <1>2, <1>5, <2>1, ErasedAppend DEF Swapped
  <2>4. \A f \in ToSet(s) : ~SameName(f.name, h.name) BY <2>1, <2>2 DEF Named
  <2>5. \A f \in ToSet(t) : ~SameName(f.name, e.name)
    <3> SUFFICES ASSUME NEW f \in ToSet(t), SameName(f.name, e.name) PROVE FALSE
      OBVIOUS
    <3>1. f \in ToSet(p.r) /\ f # h /\ SameName(f.name, h.name)
      BY <1>3, <2>1 DEF SameName
    <3> QED BY <1>1, <1>2, <3>1, ByName
  <2> HIDE DEF s, t, e, h, q
  <2>6. /\ Append(s, h) \in Seq(Entry) /\ Distinct(Append(s, h))
        /\ ToSet(Append(s, h)) = ToSet(s) \cup {h}
    BY <1>2, <2>2, <2>4, AppendedEntries
  <2>7. /\ Append(t, e) \in Seq(Entry) /\ Distinct(Append(t, e))
        /\ ToSet(Append(t, e)) = ToSet(t) \cup {e}
    BY <1>3, <2>1, <2>5, AppendedEntries DEF t, h
  <2>8. q \in Pairs /\ DistinctPair(q) /\ ToSet(q.z) = (ToSet(p.z) \ {e}) \cup {h}
        /\ ToSet(q.r) = (ToSet(p.r) \ {h}) \cup {e}
    BY <1>3, <2>2, <2>3, <2>6, <2>7 DEF Pairs, DistinctPair, t, h
  <2>9. e \in Named(q.r, n) BY <2>1, <2>8 DEF Named
  <2> QED BY <2>1, <2>8, <2>9 DEF AsideAt, q, h
<1> QED BY <1>4, <1>5
=============================================================================
