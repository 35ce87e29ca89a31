----------------------------- MODULE FilesProofs ----------------------------
(***************************************************************************)
(* What is said of files: the scan of samples, the moves of disks, and the *)
(* layout of a zip file.                                                   *)
(***************************************************************************)
EXTENDS Files, RomZipProofs, FiniteSetTheorems

-----------------------------------------------------------------------------
(* The scan of samples.  It loses no file, puts every sample that is there *)
(* into its place, says so and leaves nothing to do, for any samples, any  *)
(* files and any set of operations, wherever the runs stop.                *)

\* The archives that a run finds have no two files of the same name.
DistinctSamples == \A s \in SampleStart : Distinct(s.z) /\ Distinct(s.r)

-----------------------------------------------------------------------------
(* The inductive invariant.                                                *)

ScanPhases == {"miss", "binary", "text", "garbage", "savez", "saver", "done"}
Unsaved == {"stat", "miss", "binary", "text", "garbage", "savez"}

SampleTyped ==
  /\ SampleTypeOK
  /\ sstart \in [z : Seq(Entry), r : Seq(Entry), complete : BOOLEAN]
  /\ known => spc # "delete"
  /\ ~known => spc \in {"stat", "delete"} \cup SampleEnded

SampleClass(k) == CASE k = "binary" -> Data \ (SampleText \cup SampleGarbage)
                    [] k = "text" -> SampleText \ SampleGarbage
                    [] k = "garbage" -> SampleGarbage
StrayKinds == {"binary", "text", "garbage"}
IsNeeded(n) == \E g \in Sample : SameName(g, n)
\* The files of the archive that are no samples.
StraySamples(s, k) == {e \in ToSet(s) : ~IsNeeded(e.name) /\ e.data \in SampleClass(k)}

\* What the disk holds before, between and after the saves.
SavedInv ==
  /\ spc \in Unsaved => sdiskz = sstart.z /\ sdiskr = sstart.r
  /\ spc = "stat" /\ known => sz = sstart.z /\ sr = sstart.r
  /\ spc = "stat" => sstat = NoSampleStat
  /\ spc = "saver" => sdiskz = sz /\ sdiskr = sstart.r
  /\ spc = "delete" => sdiskz = sstart.z /\ sdiskr = sr
  /\ spc = "done" => sdiskz = sz /\ sdiskr = sr
  /\ sdiskz \in {sstart.z, sz} /\ sdiskr \in {sstart.r, sr}
  /\ known => sdiskz = sz \/ sdiskr = sstart.r
  /\ ~known => sdiskr = sr \/ sdiskz = sstart.z

\* The sets are exact while the scan runs, and as long as there is a report.
StatInv ==
  (known /\ spc \in ScanPhases) \/ szs # "none" =>
    /\ sstat.miss = {g \in Sample : Named(sz, g) = {}}
    /\ \A k \in StrayKinds : sstat[k] = {e.name : e \in StraySamples(sz, k)}

\* Nothing comes into the archive but samples, and those that were there stay.
OriginInv ==
  /\ \A e \in ToSet(sz) : e \in ToSet(sstart.z) \/ (known /\ IsNeeded(e.name))
  /\ known => \A e \in ToSet(sstart.z) : IsNeeded(e.name) \/ spc \in {"stat", "miss"} => e \in ToSet(sz)

\* What leaves the archive is in the reject archive, or is garbage.
KeptInv ==
  /\ \A e \in ToSet(sstart.z) :
       \/ e \in ToSet(sz) \/ HasData(sr, e.name, e.data)
       \/ ~KeepSample(e.data)
  /\ \A e \in ToSet(sstart.r) : ~Displaced(e) => e \in ToSet(sr)

Unmet(s, g) == Named(s, g) = {} /\ \E e \in StraySamples(s, "binary") : SameName(g, FileName[e.name])

\* What a phase leaves behind.
PhaseInv ==
  /\ known =>
       /\ spc \in ScanPhases \ {"miss"} /\ SampleActive("fix") =>
            \A g \in sstat.miss, e \in StraySamples(sstart.z, "binary") : ~SameName(g, FileName[e.name])
       /\ spc \in {"text", "garbage", "savez", "saver", "done"} /\ SampleActive("binary") => sstat.binary = {}
       /\ spc \in {"garbage", "savez", "saver", "done"} /\ SampleActive("text") => sstat.text = {}
       /\ spc \in {"savez", "saver", "done"} /\ SampleActive("garbage") => sstat.garbage = {}
  /\ ~known /\ spc \in {"delete", "done"} /\ SampleActive("move") => sz = <<>>

\* An archive that a run has nothing to do about.
Clean(s) ==
  /\ known =>
       /\ \A k \in StrayKinds : SampleActive(k) => StraySamples(s, k) = {}
       /\ SampleActive("fix") => \A g \in Sample : ~Unmet(s, g)
  /\ ~known => ~SampleActive("move")

CompleteInv == sstart.complete => Clean(sstart.z) /\ sz = sstart.z /\ sr = sstart.r

ReportInv ==
  szs # "none" =>
    /\ known /\ spc \in {"saver"} \cup SampleEnded /\ sdiskz = sz
    /\ szs = "good" <=> sstat.miss = {}

SampleInv ==
  /\ SampleTyped /\ SavedInv /\ StatInv /\ OriginInv /\ KeptInv /\ PhaseInv
  /\ CompleteInv /\ ReportInv
-----------------------------------------------------------------------------
(* The operations, and the sets.                                           *)

LEMMA SampleLists ==
  ASSUME SampleInv
  PROVE  /\ sz \in Seq(Entry) /\ Distinct(sz) /\ sr \in Seq(Entry) /\ Distinct(sr)
         /\ sdiskz \in Seq(Entry) /\ Distinct(sdiskz) /\ sdiskr \in Seq(Entry) /\ Distinct(sdiskr)
         /\ sstart.z \in Seq(Entry) /\ Distinct(sstart.z) /\ sstart.r \in Seq(Entry) /\ Distinct(sstart.r)
BY DEF SampleInv, SampleTyped, SampleTypeOK

LEMMA EntryFacts ==
  ASSUME NEW s \in Seq(Entry), NEW e \in ToSet(s)
  PROVE  e.name \in Name /\ e.data \in Data
<1>1. e \in Entry BY InList
<1> QED BY <1>1 DEF Entry

\* A copy of an entry under a name that is not there.
LEMMA AddedAloneEntries ==
  ASSUME NEW s \in Seq(Entry), Distinct(s), NEW e \in ToSet(s), NEW dst \in Name,
         Named(s, dst) = {}
  PROVE  /\ AddedAlone(s, e.name, dst) \in Seq(Entry)
         /\ Distinct(AddedAlone(s, e.name, dst))
         /\ ToSet(AddedAlone(s, e.name, dst)) = ToSet(s) \cup {[name |-> dst, data |-> e.data]}
<1> DEFINE a == [name |-> dst, data |-> e.data]
<1>1. a \in Entry BY EntryFacts DEF Entry
<1>2. FindName(s, dst) = 0 BY FindNameFinds DEF Named
<1>3. Removed(s, dst) = s BY <1>2 DEF Removed
<1>4. s[FindName(s, e.name)] = e BY FindNameDistinct DEF SameName
<1>5. AddedAlone(s, e.name, dst) = Append(s, a) BY <1>3, <1>4 DEF AddedAlone, Inserted
<1>6. \A f \in ToSet(s) : ~SameName(f.name, a.name) BY DEF Named
<1> HIDE DEF a
<1>7. Append(s, a) \in Seq(Entry) /\ ToSet(Append(s, a)) = ToSet(s) \cup {a} /\ Distinct(Append(s, a))
  BY <1>1, <1>6, AppendedEntries
<1> QED BY <1>5, <1>7 DEF a

\* The sets by name have the names of all the files that are no samples.
LEMMA UnknownAll ==
  ASSUME SampleInv, NEW D
  PROVE  UnknownSamples(D) = {e.name : e \in {e \in ToSet(sz) : ~IsNeeded(e.name) /\ e.data \in D}}
<1>1. sz \in Seq(Entry) /\ Distinct(sz) BY SampleLists
<1>2. DOMAIN sz = 1 .. Len(sz) /\ Len(sz) \in Nat BY <1>1, LenProperties
<1>3. \A i \in DOMAIN sz : ~\E j \in 1..(i - 1) : SameName(sz[j].name, sz[i].name)
  <2> SUFFICES ASSUME NEW i \in DOMAIN sz, NEW j \in 1..(i - 1), SameName(sz[j].name, sz[i].name)
               PROVE FALSE
    OBVIOUS
  <2>1. j \in DOMAIN sz /\ j # i BY <1>2
  <2> QED BY <1>1, <2>1 DEF Distinct
<1>4. \A i \in DOMAIN sz : IsSample(i) <=> IsNeeded(sz[i].name) BY <1>3 DEF IsSample, IsNeeded
<1> DEFINE U == {i \in DOMAIN sz : ~IsSample(i) /\ sz[i].data \in D}
           V == {i \in U : ~\E j \in U : j < i /\ SameName(sz[j].name, sz[i].name)}
<1>5. V = U
  <2> SUFFICES ASSUME NEW i \in U, NEW j \in U, j < i, SameName(sz[j].name, sz[i].name)
               PROVE FALSE
    OBVIOUS
  <2>1. i \in DOMAIN sz /\ j \in DOMAIN sz OBVIOUS
  <2>2. i = j BY <1>1, <2>1 DEF Distinct
  <2> QED BY <1>2, <2>1, <2>2
<1>6. UnknownSamples(D) = {sz[i].name : i \in U}
  <2>1. UnknownSamples(D) = {sz[i].name : i \in V} BY DEF UnknownSamples
  <2> QED BY <1>5, <2>1
<1>7. {sz[i].name : i \in U} = {e.name : e \in {e \in ToSet(sz) : ~IsNeeded(e.name) /\ e.data \in D}}
  BY <1>1, <1>4, InList
<1> QED BY <1>6, <1>7

LEMMA StatExact ==
  ASSUME SampleInv
  PROVE  /\ sample_stat.miss = {g \in Sample : Named(sz, g) = {}}
         /\ \A k \in StrayKinds : sample_stat[k] = {e.name : e \in StraySamples(sz, k)}
         /\ sample_stat \in [miss : SUBSET Sample, binary : SUBSET Name, text : SUBSET Name, garbage : SUBSET Name]
<1>1. sz \in Seq(Entry) BY SampleLists
<1>2. \A g \in Sample : FindName(sz, g) = 0 <=> Named(sz, g) = {} BY <1>1, FindNameFinds DEF Named
<1>3. \A k \in StrayKinds :
        UnknownSamples(SampleClass(k)) = {e.name : e \in StraySamples(sz, k)}
  BY UnknownAll DEF StraySamples
<1>4. \A k \in StrayKinds : sample_stat[k] = UnknownSamples(SampleClass(k))
  BY DEF sample_stat, StrayKinds, SampleClass
<1>5. \A k \in StrayKinds : {e.name : e \in StraySamples(sz, k)} \subseteq Name
  BY <1>1, EntryFacts DEF StraySamples
<1>6. sample_stat.miss = {g \in Sample : FindName(sz, g) = 0} BY DEF sample_stat
<1>7. sample_stat.miss = {g \in Sample : Named(sz, g) = {}} BY <1>2, <1>6
<1>8. sample_stat \in [miss : SUBSET Sample, binary : SUBSET Name, text : SUBSET Name, garbage : SUBSET Name]
  <2>1. sample_stat = [miss |-> sample_stat.miss, binary |-> sample_stat["binary"],
                       text |-> sample_stat["text"], garbage |-> sample_stat["garbage"]]
    BY DEF sample_stat
  <2>2. \A k \in StrayKinds : sample_stat[k] \in SUBSET Name BY <1>3, <1>4, <1>5
  <2>3. {"binary", "text", "garbage"} \subseteq StrayKinds BY DEF StrayKinds
  <2>4. sample_stat.miss \in SUBSET Sample BY <1>7
  <2> QED BY <2>1, <2>2, <2>3, <2>4
<1> QED BY <1>3, <1>4, <1>7, <1>8

\* Every file is of one class.
LEMMA Classes ==
  \A k, l \in StrayKinds : SampleClass(k) \cap SampleClass(l) # {} => k = l
BY DEF StrayKinds, SampleClass

-----------------------------------------------------------------------------
(* Steps that change no list in memory.                                    *)

LEMMA SampleKeeps ==
  ASSUME SampleInv, UNCHANGED <<sz, sr, sstat, ssetting, sstart>>,
         spc' \in {"stat", "miss"} => spc \in {"stat", "miss"},
         (known /\ spc' \in ScanPhases) \/ szs' # "none" => (known /\ spc \in ScanPhases) \/ szs # "none"
  PROVE  StatInv' /\ OriginInv' /\ KeptInv' /\ CompleteInv'
<1> USE DEF ssetting
<1>1. StatInv' BY DEF SampleInv, StatInv
<1>2. OriginInv' BY DEF SampleInv, OriginInv
<1>3. \A op : SampleActive(op)' <=> SampleActive(op) BY DEF SampleActive
<1>4. KeptInv' BY <1>3 DEF SampleInv, KeptInv, KeepSample, Displaced
<1>5. CompleteInv' BY <1>3 DEF SampleInv, CompleteInv, Clean, Unmet
<1> QED BY <1>1, <1>2, <1>4, <1>5

LEMMA SampleInitInv == ASSUME DistinctSamples, SampleInit PROVE SampleInv
<1>1. PICK s \in SampleStart :
        /\ sdiskz = s.z /\ sdiskr = s.r
        /\ known = s.known /\ sreadonly = s.readonly /\ soper = s.oper
        /\ sz = sdiskz /\ sr = sdiskr
        /\ spc = "stat" /\ sstat = NoSampleStat /\ szs = "none"
        /\ sstart = [z |-> sdiskz, r |-> sdiskr, complete |-> FALSE] /\ sruns = 0
  BY DEF SampleInit
<1>2. /\ s.z \in Seq(Entry) /\ s.r \in Seq(Entry) /\ Distinct(s.z) /\ Distinct(s.r)
      /\ s.known \in BOOLEAN /\ s.readonly \in BOOLEAN /\ s.oper \subseteq SampleOper
  BY SampleAssumption DEF SampleAssumption, DistinctSamples
<1>3. sruns \in 0..SampleRuns BY <1>1, SampleAssumption DEF SampleAssumption
<1>4. SampleTypeOK BY <1>1, <1>2, <1>3 DEF SampleTypeOK, NoSampleStat
<1>5. SampleTyped BY <1>1, <1>2, <1>4 DEF SampleTyped
<1>6. SavedInv BY <1>1 DEF SavedInv
<1>7. StatInv /\ PhaseInv /\ CompleteInv /\ ReportInv
  BY <1>1 DEF StatInv, PhaseInv, CompleteInv, ReportInv, ScanPhases
<1>8. OriginInv /\ KeptInv BY <1>1 DEF OriginInv, KeptInv
<1> QED BY <1>5, <1>6, <1>7, <1>8 DEF SampleInv

LEMMA SampleStatStep ==
  ASSUME SampleInv, SampleStat
  PROVE  SampleInv'
<1> USE DEF ssetting, sdisks
<1>1. /\ spc = "stat" /\ known /\ spc' = "miss" /\ sstat' = sample_stat
      /\ UNCHANGED <<sz, sr, sdiskz, sdiskr, szs, known, sreadonly, soper, sstart, sruns>>
  BY DEF SampleStat, SampleTo
<1>2. /\ sample_stat.miss = {g \in Sample : Named(sz, g) = {}}
      /\ \A k \in StrayKinds : sample_stat[k] = {e.name : e \in StraySamples(sz, k)}
      /\ sample_stat \in [miss : SUBSET Sample, binary : SUBSET Name, text : SUBSET Name, garbage : SUBSET Name]
  BY StatExact
<1>3. SampleTyped' BY <1>1, <1>2 DEF SampleInv, SampleTyped, SampleTypeOK
<1>4. SavedInv' BY <1>1 DEF SampleInv, SavedInv, Unsaved
<1>5. StatInv' BY <1>1, <1>2 DEF StatInv
<1>6. \A op : SampleActive(op)' <=> SampleActive(op) BY <1>1 DEF SampleActive
<1>7. OriginInv' BY <1>1 DEF SampleInv, OriginInv
<1>8. KeptInv' BY <1>1, <1>6 DEF SampleInv, KeptInv, KeepSample, Displaced
<1>9. CompleteInv' BY <1>1, <1>6 DEF SampleInv, CompleteInv, Clean, Unmet
<1>10. PhaseInv' BY <1>1 DEF PhaseInv
<1>11. ReportInv' BY <1>1 DEF SampleInv, ReportInv, SampleEnded
<1> QED BY <1>3, <1>4, <1>5, <1>7, <1>8, <1>9, <1>10, <1>11 DEF SampleInv

\* A phase ends.
LEMMA PhaseEndsStep ==
  ASSUME SampleInv, SampleAddEnds \/ SampleRemoveEnds
  PROVE  SampleInv'
<1> USE DEF ssetting, sdisks
<1>1. UNCHANGED <<sz, sr, sdiskz, sdiskr, sstat, szs, known, sreadonly, soper, sstart, sruns>>
  BY DEF SampleAddEnds, SampleRemoveEnds, SampleTo
<1>2. \/ spc = "miss" /\ spc' = "binary" /\ \A g \in sstat.miss : ~(SampleActive("fix") /\ Candidates(g) # {})
      \/ spc = "binary" /\ spc' = "text" /\ (SampleActive("binary") => sstat["binary"] = {})
      \/ spc = "text" /\ spc' = "garbage" /\ (SampleActive("text") => sstat["text"] = {})
      \/ spc = "garbage" /\ spc' = "savez" /\ (SampleActive("garbage") => sstat["garbage"] = {})
  BY DEF SampleAddEnds, SampleRemoveEnds, SampleTo
<1>3. known BY <1>2 DEF SampleInv, SampleTyped, SampleEnded
<1>4. \A op : SampleActive(op)' <=> SampleActive(op) BY <1>1 DEF SampleActive
<1>5. SampleTyped' BY <1>1, <1>2, <1>3 DEF SampleInv, SampleTyped, SampleTypeOK
<1>6. SavedInv' BY <1>1, <1>2 DEF SampleInv, SavedInv, Unsaved
<1>7. StatInv' /\ OriginInv' /\ KeptInv' /\ CompleteInv'
  BY <1>1, <1>2, SampleKeeps DEF ScanPhases
<1>8. ReportInv' BY <1>1, <1>2 DEF SampleInv, ReportInv, SampleEnded
<1>9. PhaseInv'
  <2>1. CASE spc = "miss"
    <3>1. ASSUME SampleActive("fix"), NEW g \in sstat.miss, NEW e \in StraySamples(sstart.z, "binary"),
                 SameName(g, FileName[e.name])
          PROVE FALSE
      <4>1. e \in StraySamples(sz, "binary")
        BY <1>3, <2>1 DEF SampleInv, OriginInv, StraySamples
      <4>2. e.name \in sstat.binary
        BY <1>3, <2>1, <4>1 DEF SampleInv, StatInv, ScanPhases, StrayKinds
      <4>3. e.name \in Candidates(g) BY <3>1, <4>2 DEF Candidates
      <4> QED BY <1>2, <2>1, <3>1, <4>3
    <3> QED BY <1>1, <1>2, <1>3, <1>4, <2>1, <3>1 DEF PhaseInv
  <2>2. CASE spc # "miss"
    <3>1. spc \in ScanPhases \ {"miss"} BY <1>2, <2>2 DEF ScanPhases
    <3> QED BY <1>1, <1>2, <1>3, <1>4, <2>2, <3>1 DEF SampleInv, PhaseInv
  <2> QED BY <2>1, <2>2
<1> QED BY <1>5, <1>6, <1>7, <1>8, <1>9 DEF SampleInv
-----------------------------------------------------------------------------
(* Steps that change a list.                                               *)

LEMMA SampleAddStep ==
  ASSUME SampleInv, NEW g \in Sample, SampleAdd(g)
  PROVE  SampleInv'
<1> USE DEF ssetting, sdisks
<1>1. /\ spc = "miss" /\ spc' = "miss" /\ g \in sstat.miss /\ SampleActive("fix")
      /\ sstat' = [sstat EXCEPT !.miss = @ \ {g}]
      /\ UNCHANGED <<sr, sdiskz, sdiskr, szs, known, sreadonly, soper, sstart, sruns>>
  BY DEF SampleAdd, SampleTo
<1>2. PICK n \in Candidates(g) : sz' = AddedAlone(sz, n, g) BY DEF SampleAdd
<1>3. known BY <1>1 DEF SampleInv, SampleTyped, SampleEnded
<1>4. /\ sstat.miss = {h \in Sample : Named(sz, h) = {}}
      /\ \A k \in StrayKinds : sstat[k] = {e.name : e \in StraySamples(sz, k)}
      /\ sstat \in [miss : SUBSET Sample, binary : SUBSET Name, text : SUBSET Name, garbage : SUBSET Name]
  BY <1>1, <1>3 DEF SampleInv, StatInv, ScanPhases, SampleTyped, SampleTypeOK
<1>5. PICK e \in StraySamples(sz, "binary") : e.name = n /\ SameName(g, FileName[e.name])
  BY <1>2, <1>4 DEF Candidates, StrayKinds
<1> DEFINE a == [name |-> g, data |-> e.data]
<1>6. /\ sz' \in Seq(Entry) /\ Distinct(sz') /\ ToSet(sz') = ToSet(sz) \cup {a}
      /\ g \in Name
  <2>1. g \in Name BY SampleAssumption DEF SampleAssumption
  <2>2. Named(sz, g) = {} BY <1>1, <1>4
  <2>3. e \in ToSet(sz) BY <1>5 DEF StraySamples
  <2> QED BY <1>2, <1>5, <2>1, <2>2, <2>3, AddedAloneEntries, SampleLists
<1>7. a.name = g /\ IsNeeded(a.name) BY DEF IsNeeded, SameName
<1>8. ~sstart.complete
  <2> SUFFICES ASSUME sstart.complete PROVE FALSE OBVIOUS
  <2>1. Clean(sz) BY DEF SampleInv, CompleteInv
  <2>2. Unmet(sz, g) BY <1>1, <1>4, <1>5 DEF Unmet
  <2> QED BY <1>1, <1>3, <2>1, <2>2 DEF Clean
<1> HIDE DEF a
<1>9. \A op : SampleActive(op)' <=> SampleActive(op) BY <1>1 DEF SampleActive
<1>10. /\ sstat' \in [miss : SUBSET Sample, binary : SUBSET Name, text : SUBSET Name, garbage : SUBSET Name]
       /\ sstat'.miss = sstat.miss \ {g}
       /\ \A k \in StrayKinds : sstat'[k] = sstat[k]
  BY <1>1, <1>4 DEF StrayKinds
<1>11. SampleTyped' BY <1>1, <1>6, <1>10 DEF SampleInv, SampleTyped, SampleTypeOK
<1>12. SavedInv' BY <1>1 DEF SampleInv, SavedInv, Unsaved
<1>13. StatInv'
  <2>1. ASSUME NEW h \in Sample PROVE Named(sz', h) = {} <=> Named(sz, h) = {} /\ h # g
    <3>1. SameName(g, h) => g = h BY SampleAssumption DEF SampleAssumption
    <3>2. SameName(g, g) BY DEF SameName
    <3> QED BY <1>6, <1>7, <3>1, <3>2 DEF Named
  <2>2. sstat'.miss = {h \in Sample : Named(sz', h) = {}} BY <1>4, <1>10, <2>1
  <2>3. \A k \in StrayKinds : StraySamples(sz', k) = StraySamples(sz, k)
    BY <1>6, <1>7 DEF StraySamples
  <2> QED BY <1>4, <1>10, <2>2, <2>3 DEF StatInv
<1>14. OriginInv' BY <1>1, <1>3, <1>6, <1>7 DEF SampleInv, OriginInv
<1>15. KeptInv' BY <1>1, <1>6, <1>9 DEF SampleInv, KeptInv, KeepSample, Displaced
<1>16. PhaseInv' BY <1>1, <1>3 DEF PhaseInv
<1>17. CompleteInv' BY <1>1, <1>8 DEF CompleteInv
<1>18. ReportInv' BY <1>1 DEF SampleInv, ReportInv, SampleEnded
<1> QED BY <1>11, <1>12, <1>13, <1>14, <1>15, <1>16, <1>17, <1>18 DEF SampleInv

\* A file of the start leaves the archive for the reject archive.
LEMMA Leaves ==
  ASSUME SampleInv, NEW e \in ToSet(sz), e \in ToSet(sstart.z), NEW n, n = e.name,
         NEW q, q = Rejected([z |-> sz, r |-> sr], n), sz' = q.z, sr' = q.r,
         UNCHANGED <<ssetting, sstart>>
  PROVE  /\ sz' \in Seq(Entry) /\ Distinct(sz') /\ sr' \in Seq(Entry) /\ Distinct(sr')
         /\ ToSet(sz') = ToSet(sz) \ {e}
         /\ KeptInv'
<1> DEFINE p == [z |-> sz, r |-> sr]
<1>1. p \in Pairs /\ DistinctPair(p) /\ p.z = sz /\ p.r = sr BY SampleLists DEF Pairs, DistinctPair
<1>2. n \in Name BY SampleLists, EntryFacts
<1>3. Named(sz, n) = {e} BY SampleLists, ByName DEF Named, SameName
<1>4. AsideAt(p, Rejected(p, n), n, Named(p.z, n), {}) BY <1>1, <1>2, RejectedEntries
<1>5. AsideAt(p, q, n, {e}, {}) BY <1>1, <1>3, <1>4
<1>6. /\ q \in Pairs /\ DistinctPair(q) /\ ToSet(q.z) = ToSet(sz) \ {e}
      /\ \E f \in ToSet(q.r) : SameName(f.name, n) /\ f.data = e.data
      /\ \A h \in ToSet(sr) : h \in ToSet(q.r) \/ SameName(h.name, n)
  BY <1>1, <1>3, <1>5 DEF AsideAt, Named
<1>7. sz' \in Seq(Entry) /\ Distinct(sz') /\ sr' \in Seq(Entry) /\ Distinct(sr')
      /\ ToSet(sz') = ToSet(sz) \ {e}
  BY <1>6 DEF Pairs, DistinctPair
<1>8. \A d : KeepSample(d)' <=> KeepSample(d) BY DEF KeepSample, SampleActive, ssetting
<1>9. ASSUME NEW h \in ToSet(sstart.z), KeepSample(h.data)
      PROVE  h \in ToSet(sz') \/ HasData(sr', h.name, h.data)
  <2>1. CASE h = e BY <1>6, <2>1 DEF HasData
  <2>2. CASE h # e
    <3>1. ~SameName(h.name, n) BY <2>2, SampleLists, ByName
    <3>2. h \in ToSet(sz) \/ HasData(sr, h.name, h.data) BY <1>9 DEF SampleInv, KeptInv
    <3>3. CASE h \in ToSet(sz) BY <1>6, <2>2, <3>3
    <3>4. CASE HasData(sr, h.name, h.data)
      <4>1. PICK f \in ToSet(sr) : SameName(f.name, h.name) /\ f.data = h.data BY <3>4 DEF HasData
      <4>2. ~SameName(f.name, n) BY <3>1, <4>1 DEF SameName
      <4> QED BY <1>6, <4>1, <4>2 DEF HasData
    <3> QED BY <3>2, <3>3, <3>4
  <2> QED BY <2>1, <2>2
<1>10. ASSUME NEW h \in ToSet(sstart.r), ~Displaced(h)
       PROVE  h \in ToSet(sr')
  <2>1. h \in ToSet(sr) /\ ~SameName(h.name, n) BY <1>10 DEF SampleInv, KeptInv, Displaced
  <2> QED BY <1>6, <2>1
<1>11. \A h : Displaced(h)' <=> Displaced(h) BY DEF Displaced
<1>12. KeptInv' BY <1>8, <1>9, <1>10, <1>11 DEF KeptInv
<1> QED BY <1>7, <1>12

\* An unknown file e of class k leaves the archive, and its name the set.
LEMMA StrayLeaves ==
  ASSUME SampleInv, known, NEW k \in StrayKinds, spc = k, SampleActive(k),
         NEW e \in StraySamples(sz, k),
         sstat' = [sstat EXCEPT ![k] = @ \ {e.name}],
         sz' \in Seq(Entry), Distinct(sz'), sr' \in Seq(Entry), Distinct(sr'),
         ToSet(sz') = ToSet(sz) \ {e}, KeptInv', spc' = spc,
         UNCHANGED <<sdiskz, sdiskr, szs, known, sreadonly, soper, sstart, sruns>>
  PROVE  SampleInv'
<1>1. /\ sstat.miss = {h \in Sample : Named(sz, h) = {}}
      /\ \A l \in StrayKinds : sstat[l] = {f.name : f \in StraySamples(sz, l)}
      /\ sstat \in [miss : SUBSET Sample, binary : SUBSET Name, text : SUBSET Name, garbage : SUBSET Name]
  BY DEF SampleInv, StatInv, ScanPhases, SampleTyped, SampleTypeOK, StrayKinds
<1>2. /\ sstat' \in [miss : SUBSET Sample, binary : SUBSET Name, text : SUBSET Name, garbage : SUBSET Name]
      /\ sstat'.miss = sstat.miss
      /\ sstat'[k] = sstat[k] \ {e.name}
      /\ \A l \in StrayKinds \ {k} : sstat'[l] = sstat[l]
  BY <1>1 DEF StrayKinds
<1>3. e \in ToSet(sz) /\ ~IsNeeded(e.name) /\ e.data \in SampleClass(k) BY DEF StraySamples
<1>4. \A op : SampleActive(op)' <=> SampleActive(op) BY DEF SampleActive
<1>5. SampleTyped' BY <1>2 DEF SampleInv, SampleTyped, SampleTypeOK
<1>6. spc \in Unsaved /\ spc # "stat" /\ spc \notin {"miss", "saver", "delete", "done"}
  BY DEF Unsaved, StrayKinds
<1>7. SavedInv' BY <1>6 DEF SampleInv, SavedInv
<1>8. StatInv'
  <2>1. \A h \in Sample : Named(sz', h) = Named(sz, h) BY <1>3 DEF Named, IsNeeded, SameName
  <2>2. \A l \in StrayKinds : StraySamples(sz', l) = StraySamples(sz, l) \ {e}
    BY DEF StraySamples
  <2>3. \A l \in StrayKinds \ {k} : e \notin StraySamples(sz, l)
    BY <1>3, Classes DEF StraySamples
  <2>4. \A f \in StraySamples(sz, k) : f.name = e.name => f = e
    BY <1>3, SampleLists, ByName DEF StraySamples, SameName
  <2>5. \A l \in StrayKinds : sstat'[l] = {f.name : f \in StraySamples(sz', l)}
    <3> SUFFICES ASSUME NEW l \in StrayKinds PROVE sstat'[l] = {f.name : f \in StraySamples(sz', l)}
      OBVIOUS
    <3>1. CASE l = k
      <4>1. sstat'[k] = {f.name : f \in StraySamples(sz, k)} \ {e.name} BY <1>1, <1>2
      <4>2. {f.name : f \in StraySamples(sz, k)} \ {e.name} = {f.name : f \in StraySamples(sz, k) \ {e}}
        BY <2>4
      <4> QED BY <2>2, <3>1, <4>1, <4>2
    <3>2. CASE l # k
      <4>1. StraySamples(sz', l) = StraySamples(sz, l) BY <2>2, <2>3, <3>2
      <4> QED BY <1>1, <1>2, <3>2, <4>1
    <3> QED BY <3>1, <3>2
  <2> QED BY <1>1, <1>2, <2>1, <2>5 DEF StatInv
<1>9. OriginInv' BY <1>3, <1>6 DEF SampleInv, OriginInv
<1>10. PhaseInv'
  <2>1. /\ sstat'["binary"] \subseteq sstat["binary"]
        /\ sstat'["text"] \subseteq sstat["text"]
        /\ sstat'["garbage"] \subseteq sstat["garbage"]
    BY <1>2 DEF StrayKinds
  <2> QED BY <1>2, <1>4, <2>1 DEF SampleInv, PhaseInv
<1>11. CompleteInv'
  <2>1. ~sstart.complete BY DEF SampleInv, CompleteInv, Clean
  <2> QED BY <2>1 DEF CompleteInv
<1>12. ReportInv' BY DEF SampleInv, ReportInv, SampleEnded, StrayKinds
<1> QED BY <1>5, <1>7, <1>8, <1>9, <1>10, <1>11, <1>12 DEF SampleInv

LEMMA SampleRemoveStep ==
  ASSUME SampleInv, SampleRemove
  PROVE  SampleInv'
<1> USE DEF ssetting, sdisks
<1>1. /\ spc \in {"binary", "text"} /\ SampleActive(spc) /\ spc' = spc
      /\ UNCHANGED <<sdiskz, sdiskr, szs, known, sreadonly, soper, sstart, sruns>>
  BY DEF SampleRemove, SampleTo
<1>2. PICK n \in sstat[spc] :
        /\ sz' = Rejected([z |-> sz, r |-> sr], n).z /\ sr' = Rejected([z |-> sz, r |-> sr], n).r
        /\ sstat' = [sstat EXCEPT ![spc] = @ \ {n}]
  BY DEF SampleRemove
<1>3. known /\ spc \in StrayKinds BY <1>1 DEF SampleInv, SampleTyped, SampleEnded, StrayKinds
<1>4. PICK e \in StraySamples(sz, spc) : n = e.name
  BY <1>1, <1>2, <1>3 DEF SampleInv, StatInv, ScanPhases
<1>5. e \in ToSet(sz) /\ e \in ToSet(sstart.z) BY DEF StraySamples, SampleInv, OriginInv
<1> DEFINE q == Rejected([z |-> sz, r |-> sr], n)
<1>6. sz' = q.z /\ sr' = q.r BY <1>2
<1> HIDE DEF q
<1>7. /\ sz' \in Seq(Entry) /\ Distinct(sz') /\ sr' \in Seq(Entry) /\ Distinct(sr')
      /\ ToSet(sz') = ToSet(sz) \ {e} /\ KeptInv'
  BY <1>1, <1>4, <1>5, <1>6, Leaves DEF q
<1> QED BY <1>1, <1>2, <1>3, <1>4, <1>7, StrayLeaves

LEMMA SampleGarbageRemoveStep ==
  ASSUME SampleInv, SampleGarbageRemove
  PROVE  SampleInv'
<1> USE DEF ssetting, sdisks
<1>1. /\ spc = "garbage" /\ SampleActive("garbage") /\ spc' = spc
      /\ UNCHANGED <<sr, sdiskz, sdiskr, szs, known, sreadonly, soper, sstart, sruns>>
  BY DEF SampleGarbageRemove, SampleTo
<1>2. PICK n \in sstat.garbage :
        sz' = Removed(sz, n) /\ sstat' = [sstat EXCEPT !.garbage = @ \ {n}]
  BY DEF SampleGarbageRemove
<1>3. known /\ "garbage" \in StrayKinds BY <1>1 DEF SampleInv, SampleTyped, SampleEnded, StrayKinds
<1>4. PICK e \in StraySamples(sz, "garbage") : n = e.name
  BY <1>1, <1>2, <1>3 DEF SampleInv, StatInv, ScanPhases
<1>5. e \in ToSet(sz) /\ e.data \in SampleGarbage BY DEF StraySamples, SampleClass
<1>6. Named(sz, n) = {e} BY <1>4, <1>5, SampleLists, ByName DEF Named, SameName
<1>7. sz' \in Seq(Entry) /\ Distinct(sz') /\ ToSet(sz') = ToSet(sz) \ {e}
  BY <1>2, <1>6, SampleLists, RemovedEntries
<1>8. KeptInv'
  <2>1. ~KeepSample(e.data) BY <1>1, <1>3, <1>5 DEF KeepSample
  <2>2. \A d : KeepSample(d)' <=> KeepSample(d) BY <1>1 DEF KeepSample, SampleActive
  <2> QED BY <1>1, <1>7, <2>1, <2>2 DEF SampleInv, KeptInv, Displaced
<1>9. sr' \in Seq(Entry) /\ Distinct(sr') BY <1>1, SampleLists
<1>10. sstat' = [sstat EXCEPT !["garbage"] = @ \ {e.name}] BY <1>2, <1>4
<1> QED BY <1>1, <1>3, <1>7, <1>8, <1>9, <1>10, StrayLeaves

LEMMA SampleMoveStep ==
  ASSUME SampleInv, SampleMove
  PROVE  SampleInv'
<1> USE DEF ssetting, sdisks
<1>1. /\ spc = "stat" /\ ~known /\ SampleActive("move") /\ spc' = "stat"
      /\ UNCHANGED <<sdiskz, sdiskr, sstat, szs, known, sreadonly, soper, sstart, sruns>>
  BY DEF SampleMove, SampleTo
<1>2. PICK e \in ToSet(sz) :
        sz' = Rejected([z |-> sz, r |-> sr], e.name).z /\ sr' = Rejected([z |-> sz, r |-> sr], e.name).r
  BY DEF SampleMove
<1>3. e \in ToSet(sstart.z) BY <1>1 DEF SampleInv, OriginInv
<1> DEFINE q == Rejected([z |-> sz, r |-> sr], e.name)
<1>4. sz' = q.z /\ sr' = q.r BY <1>2
<1> HIDE DEF q
<1>5. /\ sz' \in Seq(Entry) /\ Distinct(sz') /\ sr' \in Seq(Entry) /\ Distinct(sr')
      /\ ToSet(sz') = ToSet(sz) \ {e} /\ KeptInv'
  BY <1>1, <1>3, <1>4, Leaves DEF q
<1>6. SampleTyped' BY <1>1, <1>5 DEF SampleInv, SampleTyped, SampleTypeOK
<1>7. SavedInv' BY <1>1 DEF SampleInv, SavedInv, Unsaved
<1>8. szs = "none" BY <1>1 DEF SampleInv, ReportInv
<1>9. StatInv' /\ PhaseInv' /\ ReportInv' BY <1>1, <1>8 DEF StatInv, PhaseInv, ReportInv
<1>10. OriginInv' BY <1>1, <1>5 DEF SampleInv, OriginInv
<1>11. ~sstart.complete BY <1>1 DEF SampleInv, CompleteInv, Clean
<1>12. CompleteInv' BY <1>1, <1>11 DEF CompleteInv
<1> QED BY <1>5, <1>6, <1>7, <1>9, <1>10, <1>12 DEF SampleInv
-----------------------------------------------------------------------------
(* The saves, and the end of a run.                                        *)

LEMMA SampleSaveStep ==
  ASSUME SampleInv, SampleSaveZ \/ SampleSaveR
  PROVE  SampleInv'
<1> USE DEF ssetting, sdisks
<1>1. /\ UNCHANGED <<sz, sr, sstat, known, sreadonly, soper, sstart, sruns>>
      /\ \/ spc = "savez" /\ spc' = "saver" /\ sdiskz' = sz /\ sdiskr' = sdiskr
            /\ szs' = IF sz = <<>> THEN "none" ELSE IF sstat.miss = {} THEN "good" ELSE "bad"
         \/ spc = "saver" /\ spc' = "done" /\ sdiskz' = sdiskz /\ sdiskr' = sr /\ szs' = szs
  BY DEF SampleSaveZ, SampleSaveR, SampleTo
<1>2. known BY <1>1 DEF SampleInv, SampleTyped, SampleEnded
<1>3. \A op : SampleActive(op)' <=> SampleActive(op) BY <1>1 DEF SampleActive
<1>4. SampleTyped'
  <2>1. SampleTypeOK' BY <1>1, SampleLists DEF SampleInv, SampleTyped, SampleTypeOK, SampleEnded
  <2> QED BY <1>1, <1>2, <2>1 DEF SampleInv, SampleTyped
<1>5. SavedInv' BY <1>1, <1>2 DEF SampleInv, SavedInv, Unsaved
<1>6. StatInv' /\ OriginInv' /\ KeptInv' /\ CompleteInv'
  BY <1>1, <1>2, SampleKeeps DEF ScanPhases
<1>7. PhaseInv' BY <1>1, <1>2, <1>3 DEF SampleInv, PhaseInv, ScanPhases
<1>8. ReportInv' BY <1>1, <1>2 DEF SampleInv, ReportInv, SavedInv, SampleEnded
<1> QED BY <1>4, <1>5, <1>6, <1>7, <1>8 DEF SampleInv

LEMMA SampleMoveSaveStep ==
  ASSUME SampleInv, SampleMoveEnds \/ SampleDelete
  PROVE  SampleInv'
<1> USE DEF ssetting, sdisks
<1>1. /\ UNCHANGED <<sz, sr, sstat, szs, known, sreadonly, soper, sstart, sruns>>
      /\ \/ spc = "stat" /\ ~known /\ spc' = "delete" /\ sdiskr' = sr /\ sdiskz' = sdiskz
            /\ (SampleActive("move") => sz = <<>>)
         \/ spc = "delete" /\ spc' = "done" /\ sdiskz' = sz /\ sdiskr' = sdiskr
  BY DEF SampleMoveEnds, SampleDelete, SampleTo
<1>2. ~known BY <1>1 DEF SampleInv, SampleTyped, SampleEnded
<1>3. \A op : SampleActive(op)' <=> SampleActive(op) BY <1>1 DEF SampleActive
<1>4. SampleTyped'
  <2>1. SampleTypeOK' BY <1>1, SampleLists DEF SampleInv, SampleTyped, SampleTypeOK, SampleEnded
  <2> QED BY <1>1, <1>2, <2>1 DEF SampleInv, SampleTyped, SampleEnded
<1>5. SavedInv' BY <1>1, <1>2 DEF SampleInv, SavedInv, Unsaved
<1>6. szs = "none" BY <1>2 DEF SampleInv, ReportInv
<1>7. StatInv' /\ OriginInv' /\ KeptInv' /\ CompleteInv'
  BY <1>1, <1>2, <1>6, SampleKeeps
<1>8. PhaseInv' BY <1>1, <1>2, <1>3 DEF SampleInv, PhaseInv
<1>9. ReportInv' BY <1>1, <1>6 DEF ReportInv
<1> QED BY <1>4, <1>5, <1>7, <1>8, <1>9 DEF SampleInv

LEMMA SampleStopsStep ==
  ASSUME SampleInv, SampleStops
  PROVE  SampleInv'
<1> USE DEF ssetting, sdisks
<1>1. /\ UNCHANGED <<sz, sr, sdiskz, sdiskr, sstat, szs, known, sreadonly, soper, sstart, sruns>>
      /\ spc' \in {"error", "crash"}
  BY DEF SampleStops, SampleTo
<1>2. SampleTyped' BY <1>1 DEF SampleInv, SampleTyped, SampleTypeOK, SampleEnded
<1>3. SavedInv' BY <1>1 DEF SampleInv, SavedInv, Unsaved
<1>4. StatInv' /\ OriginInv' /\ KeptInv' /\ CompleteInv' BY <1>1, SampleKeeps DEF ScanPhases
<1>5. PhaseInv' BY <1>1 DEF PhaseInv, ScanPhases
<1>6. ReportInv' BY <1>1 DEF SampleInv, ReportInv, SampleEnded
<1> QED BY <1>2, <1>3, <1>4, <1>5, <1>6 DEF SampleInv

LEMMA SampleRerunStep ==
  ASSUME SampleInv, SampleRerun
  PROVE  SampleInv'
<1> USE DEF ssetting, sdisks
<1>1. /\ spc \in SampleEnded /\ sruns < SampleRuns /\ sdiskz # <<>> /\ sruns' = sruns + 1
      /\ sz' = sdiskz /\ sr' = sdiskr /\ spc' = "stat" /\ sstat' = NoSampleStat /\ szs' = "none"
      /\ sstart' = [z |-> sdiskz, r |-> sdiskr, complete |-> spc = "done"]
      /\ UNCHANGED <<sdiskz, sdiskr, known, sreadonly, soper>>
  BY DEF SampleRerun
<1>2. /\ sstart'.z = sdiskz /\ sstart'.r = sdiskr /\ (sstart'.complete <=> spc = "done")
      /\ sstart' \in [z : Seq(Entry), r : Seq(Entry), complete : BOOLEAN]
  BY <1>1, SampleLists
<1>3. sruns' \in 0..SampleRuns
  BY <1>1, SampleAssumption DEF SampleAssumption, SampleInv, SampleTyped, SampleTypeOK
<1>4. sstat' \in [miss : SUBSET Sample, binary : SUBSET Name, text : SUBSET Name, garbage : SUBSET Name]
  BY <1>1 DEF NoSampleStat
<1>5. SampleTypeOK'
  BY <1>1, <1>2, <1>3, <1>4, SampleLists DEF SampleInv, SampleTyped, SampleTypeOK
<1>6. SampleTyped' BY <1>1, <1>2, <1>5 DEF SampleTyped
<1>7. SavedInv' BY <1>1, <1>2 DEF SavedInv
<1>8. StatInv' /\ PhaseInv' /\ ReportInv'
  BY <1>1 DEF StatInv, PhaseInv, ReportInv, ScanPhases
<1>9. OriginInv' /\ KeptInv' BY <1>1, <1>2 DEF OriginInv, KeptInv
<1>10. \A op : SampleActive(op)' <=> SampleActive(op) BY <1>1 DEF SampleActive
<1>11. ASSUME spc = "done" PROVE Clean(sdiskz)
  <2>1. sdiskz = sz BY <1>11 DEF SampleInv, SavedInv
  <2>2. ~known => ~SampleActive("move") BY <1>1, <1>11, <2>1 DEF SampleInv, PhaseInv
  <2>3. ASSUME known, NEW k \in StrayKinds, SampleActive(k) PROVE StraySamples(sz, k) = {}
    <3>1. sstat[k] = {} BY <1>11, <2>3 DEF SampleInv, PhaseInv, StrayKinds
    <3>2. sstat[k] = {e.name : e \in StraySamples(sz, k)}
      BY <1>11, <2>3 DEF SampleInv, StatInv, ScanPhases
    <3> QED BY <3>1, <3>2
  <2>4. ASSUME known, SampleActive("fix"), NEW g \in Sample, Unmet(sz, g) PROVE FALSE
    <3>1. g \in sstat.miss BY <1>11, <2>4 DEF SampleInv, StatInv, ScanPhases, Unmet
    <3>2. PICK e \in StraySamples(sz, "binary") : SameName(g, FileName[e.name]) BY <2>4 DEF Unmet
    <3>3. e \in StraySamples(sstart.z, "binary") BY DEF StraySamples, SampleInv, OriginInv
    <3> QED BY <1>11, <2>4, <3>1, <3>2, <3>3 DEF SampleInv, PhaseInv, ScanPhases
  <2> QED BY <2>1, <2>2, <2>3, <2>4 DEF Clean
<1>12. CompleteInv'
  <2>1. \A s : Clean(s)' <=> Clean(s) BY <1>1, <1>10 DEF Clean, Unmet
  <2> QED BY <1>1, <1>2, <1>11, <2>1 DEF CompleteInv
<1> QED BY <1>6, <1>7, <1>8, <1>9, <1>12 DEF SampleInv

LEMMA SampleNextInv == SampleInv /\ [SampleNext]_sampleVars => SampleInv'
<1> SUFFICES ASSUME SampleInv, [SampleNext]_sampleVars PROVE SampleInv'
  OBVIOUS
<1>1. CASE SampleStat BY <1>1, SampleStatStep
<1>2. CASE SampleAddEnds \/ SampleRemoveEnds BY <1>2, PhaseEndsStep
<1>3. CASE SampleRemove BY <1>3, SampleRemoveStep
<1>4. CASE SampleGarbageRemove BY <1>4, SampleGarbageRemoveStep
<1>5. ASSUME NEW g \in Sample, SampleAdd(g) PROVE SampleInv' BY <1>5, SampleAddStep
<1>6. CASE SampleSaveZ \/ SampleSaveR BY <1>6, SampleSaveStep
<1>7. CASE SampleMove BY <1>7, SampleMoveStep
<1>8. CASE SampleMoveEnds \/ SampleDelete BY <1>8, SampleMoveSaveStep
<1>9. CASE SampleStops BY <1>9, SampleStopsStep
<1>10. CASE SampleRerun BY <1>10, SampleRerunStep
<1>11. CASE UNCHANGED sampleVars
  <2> USE <1>11 DEF sampleVars, ssetting, sdisks
  <2>1. SampleTyped' BY DEF SampleInv, SampleTyped, SampleTypeOK
  <2>2. SavedInv' BY DEF SampleInv, SavedInv
  <2>3. StatInv' /\ OriginInv' /\ KeptInv' /\ CompleteInv' BY SampleKeeps
  <2>4. PhaseInv' BY DEF SampleInv, PhaseInv, SampleActive
  <2>5. ReportInv' BY DEF SampleInv, ReportInv
  <2> QED BY <2>1, <2>2, <2>3, <2>4, <2>5 DEF SampleInv
<1> QED
  BY <1>1, <1>2, <1>3, <1>4, <1>5, <1>6, <1>7, <1>8, <1>9, <1>10, <1>11 DEF SampleNext

-----------------------------------------------------------------------------
(* The theorems.                                                           *)

\* Every state of a scan of samples has the invariant: the sets computed at the
\* start still say what the archives hold (sample_scan, sample_move).
THEOREM SampleInvariant == ASSUME DistinctSamples PROVE SampleSpec => []SampleInv
<1>1. SampleInit => SampleInv BY SampleInitInv
<1> QED BY <1>1, SampleNextInv, PTL DEF SampleSpec

LEMMA SampleTypesFromInv == SampleInv => SampleTypeOK
BY DEF SampleInv, SampleTyped

\* No archive comes to have two entries of one name, and the sets are of names.
THEOREM SamplesWellFormed == ASSUME DistinctSamples PROVE SampleSpec => []SampleTypeOK
BY SampleTypesFromInv, SampleInvariant, PTL

\* A complete run keeps every file but the garbage it is to delete; a stopped one
\* loses no sample, and nothing of an archive that no game needs.
THEOREM NoSampleLost == ASSUME DistinctSamples PROVE SampleSpec => []SamplesKept
<1>1. ASSUME SampleInv PROVE KeptAtEnd
  <2> SUFFICES ASSUME spc = "done"
               PROVE  /\ \A d \in DataOf(sstart.z) : KeepSample(d) => d \in Stored
                      /\ \A e \in ToSet(sstart.r) : ~Displaced(e) => e.data \in Stored
    BY DEF KeptAtEnd
  <2>1. sdiskz = sz /\ sdiskr = sr BY <1>1 DEF SampleInv, SavedInv
  <2>2. ASSUME NEW e \in ToSet(sstart.z), KeepSample(e.data) PROVE e.data \in Stored
    BY <1>1, <2>1, <2>2 DEF SampleInv, KeptInv, Stored, DataOf, HasData
  <2>3. ASSUME NEW e \in ToSet(sstart.r), ~Displaced(e) PROVE e.data \in Stored
    BY <1>1, <2>1, <2>3 DEF SampleInv, KeptInv, Stored, DataOf
  <2> QED BY <2>2, <2>3 DEF DataOf
<1>2. ASSUME SampleInv PROVE MovedSafely
  <2> SUFFICES ASSUME ~known, NEW e \in ToSet(sstart.z) PROVE e.data \in Stored
    BY DEF MovedSafely, DataOf
  <2>1. e \in ToSet(sz) \/ HasData(sr, e.name, e.data)
    BY <1>2 DEF SampleInv, KeptInv, KeepSample
  <2>2. sdiskz = sstart.z \/ (sdiskz = sz /\ sdiskr = sr) BY <1>2 DEF SampleInv, SavedInv
  <2> QED BY <2>1, <2>2 DEF Stored, DataOf, HasData
<1>3. ASSUME SampleInv PROVE SamplesStay
  <2> SUFFICES ASSUME known, NEW e \in ToSet(sstart.z), IsNeeded(e.name)
               PROVE HasData(sz, e.name, e.data) /\ HasData(sdiskz, e.name, e.data)
    BY DEF SamplesStay, IsNeeded
  <2>1. e \in ToSet(sz) BY <1>3 DEF SampleInv, OriginInv
  <2>2. e \in ToSet(sdiskz) BY <1>3, <2>1 DEF SampleInv, SavedInv
  <2> QED BY <2>1, <2>2 DEF HasData, SameName
<1>4. SampleInv => SamplesKept BY <1>1, <1>2, <1>3 DEF SamplesKept
<1> QED BY <1>4, SampleInvariant, PTL

\* The report says whether every sample is in the archive that is saved, a sample
\* that is in a directory is put into its place, and a second run does nothing.
THEOREM SamplesFoundAndSettled == ASSUME DistinctSamples PROVE SampleSpec => []SamplesDone
<1>0. ASSUME SampleInv, NEW g PROVE FindName(sdiskz, g) = 0 <=> Named(sdiskz, g) = {}
  BY <1>0, SampleLists, FindNameFinds DEF Named
<1>1. ASSUME SampleInv PROVE SampleReportTrue
  <2> SUFFICES ASSUME szs # "none"
               PROVE szs = "good" <=> \A g \in Sample : FindName(sdiskz, g) # 0
    BY DEF SampleReportTrue
  <2>1. sdiskz = sz /\ (szs = "good" <=> sstat.miss = {}) BY <1>1 DEF SampleInv, ReportInv
  <2>2. sstat.miss = {g \in Sample : Named(sz, g) = {}} BY <1>1 DEF SampleInv, StatInv
  <2> QED BY <1>0, <1>1, <2>1, <2>2
<1>2. ASSUME SampleInv PROVE SampleFound
  <2> SUFFICES ASSUME spc = "done", known, SampleActive("fix"),
                      NEW g \in Sample, NEW e \in ToSet(sstart.z),
                      SameName(FileName[e.name], g), e.data \notin SampleText \cup SampleGarbage,
                      \A h \in Sample : SameName(h, e.name) => h = g
               PROVE Named(sdiskz, g) # {}
    BY <1>0, <1>2 DEF SampleFound
  <2>1. sdiskz = sz BY <1>2 DEF SampleInv, SavedInv
  <2>2. CASE IsNeeded(e.name)
    <3>1. SameName(g, e.name) BY <2>2 DEF IsNeeded
    <3>2. e \in ToSet(sz) BY <1>2, <2>2 DEF SampleInv, OriginInv
    <3> QED BY <2>1, <3>1, <3>2 DEF Named, SameName
  <2>3. CASE ~IsNeeded(e.name)
    <3>1. e.data \in Data BY <1>2, SampleLists, EntryFacts
    <3>2. e \in StraySamples(sstart.z, "binary") BY <2>3, <3>1 DEF StraySamples, SampleClass
    <3>3. g \notin sstat.miss
      BY <1>2, <3>2 DEF SampleInv, PhaseInv, ScanPhases, SameName
    <3>4. sstat.miss = {h \in Sample : Named(sz, h) = {}}
      BY <1>2 DEF SampleInv, StatInv, ScanPhases
    <3> QED BY <2>1, <3>3, <3>4
  <2> QED BY <2>2, <2>3
<1>3. ASSUME SampleInv PROVE SampleSettled
  <2> SUFFICES ASSUME sstart.complete PROVE sdiskz = sstart.z /\ sdiskr = sstart.r
    BY DEF SampleSettled
  <2> QED BY <1>3 DEF SampleInv, CompleteInv, SavedInv
<1>4. SampleInv => SamplesDone BY <1>1, <1>2, <1>3 DEF SamplesDone
<1> QED BY <1>4, SampleInvariant, PTL

-----------------------------------------------------------------------------
(* The moves of disks.  No disk is lost and the disks come to be where     *)
(* they belong, for any directories, games and files, whichever system     *)
(* calls fail and wherever the runs are stopped.                           *)

\* The files that the first run finds are whole and labelled with where they are
\* found, and those with the extension of a damaged file are damaged.
SoundStart ==
  \A s \in DiskStart : \A p \in Path :
    /\ s.files[p].left = s.files[p].size
    /\ s.files[p] # NoChd => s.files[p].of = p
    /\ p.ext = "damaged" => s.files[p].head = "invalid"

-----------------------------------------------------------------------------
(* The inductive invariant.                                                *)

\* The paths that read_dir may return, and that alone are moved from.
Sources == {p \in Path : p.dir \in DiskDir /\ p.ext = "chd"}
AsDamaged(p) == [p EXCEPT !.ext = "damaged"]
AsUnknown(p) == [p EXCEPT !.dir = UnknownDir]

InMove == dpc \in {"rename", "copy", "write", "close", "undo", "remove"}
\* set_disk_load, or what it calls, has not come to its end
Loading == dpc \in {"load", "scan"} \/ (InMove /\ mv.back = "load")
\* all_disk_scan has come to the unknown files
Placing == dpc \in {"move", "done"} \/ (InMove /\ mv.back = "move")

DiskTyped ==
  /\ files \in [Path -> Contents] /\ dfirst \in [Path -> Contents]
  /\ dpc \in {"list", "load", "scan", "move", "rename", "copy", "write", "close", "undo", "remove"}
             \cup DiskEnded
  /\ dzs \in [Games -> SUBSET [path : Path, good : BOOLEAN]]
  /\ mv \in [src : Path \cup {NoPath}, dst : Path \cup {NoPath}, back : {"", "load", "move"}]
  /\ doper \subseteq {"move", "active"}
  /\ dfaults \subseteq DiskFaults /\ cut \subseteq Path /\ druns \in 0..DiskRuns

\* A move is of a file that is there; a damaged one is only ever renamed.
MoveInv ==
  /\ InMove =>
       /\ mv.src \in Sources /\ Present(mv.src) /\ mv.src \notin ds
       /\ \/ /\ mv.back = "load" /\ mv.dst = AsDamaged(mv.src) /\ dpc = "rename"
             /\ files[mv.src].head = "invalid" /\ mv.src \notin dzar
          \/ /\ mv.back = "move" /\ mv.dst = AsUnknown(mv.src)
             /\ Naming(mv.src) = {} /\ active_move
             /\ files[mv.src].head \in Hash
  /\ dpc \in {"write", "close", "remove"} =>
       \E n \in Nat : files[mv.dst] = [files[mv.src] EXCEPT !.left = n]
  /\ dpc = "remove" =>
       \/ mv.src \in cut
       \/ files[mv.dst] = [files[mv.src] EXCEPT !.left = FileSize(files[mv.src])]

\* What the loops have before them is there.
ListInv ==
  /\ ds \subseteq Listed /\ dzar \subseteq Sources
  /\ dpc = "list" => dzar = {}
  /\ dpc = "scan" => ds = {}
  /\ Loading => dzar \subseteq Listed /\ dzar \cap ds = {}
  /\ Placing => \A p \in ds : p \in dzar /\ Naming(p) = {} /\ active_move
  /\ dpc = "done" => ds = {}
  /\ \A p \in dzar : Present(p) => Header(p) \in Hash

\* Where nothing is written, a file is the one of the start or gone; it is gone
\* for a reason.
SourceInv ==
  /\ \A p \in Sources : files[p] # dfirst[p] =>
       /\ files[p] = NoChd
       /\ dfirst[p].head = "invalid" \/ (Naming(p) = {} /\ active_move)
  /\ \A p \in Path \ Sources : files[p] # dfirst[p] =>
       \E q \in Sources : p \in Aside(q) /\ dfirst[q] # NoChd

\* A file that nothing else takes the place of, and whose copy was not cut short,
\* is at its path or aside.
AsideInv ==
  \A p \in Path \ cut : Whole(dfirst[p]) /\ Fits(dfirst[p]) /\ ~InTheWay(p) =>
    files[p] = dfirst[p] \/ (p \in Sources /\ \E q \in Aside(p) : files[q] = dfirst[p])

\* The good files are found and reported as they are.
DiskReportInv ==
  /\ Loading => \A p \in Listed : Header(p) \in Hash => p \in ds \cup dzar
  /\ Placing =>
       /\ \A g \in Games : \A i \in dzs[g] :
            /\ i.path \in Sources /\ g \in Naming(i.path) /\ Present(i.path)
            /\ i.good <=> files[i.path].head = DiskGames[g][i.path.name]
       /\ \A p \in Listed, g \in Games :
            Header(p) \in Hash /\ Naming(p) = {g} => Info(p, g) \in dzs[g]

\* Without faults every file is dealt with.
FaultlessInv ==
  dfaults = {} =>
    /\ Loading => Listed \subseteq ds \cup dzar \cup (IF InMove THEN {mv.src} ELSE {})
    /\ Placing => Listed \subseteq dzar
    /\ Placing /\ active_move =>
         \A p \in Listed : Naming(p) = {} => p \in ds \/ (InMove /\ p = mv.src)

\* A file that is half written is a copy of one that a run can still move, or
\* what fclose has left of one.
HalfInv ==
  /\ \A p \in Path : Present(p) /\ Fits(files[p]) /\ ~Whole(files[p]) =>
       /\ active_move
       /\ \/ \E q \in Listed : p = AsUnknown(q) /\ Naming(q) = {} /\ files[q].head \in Hash
          \/ files[p].of \in cut /\ p = AsUnknown(files[p].of)
  /\ \A p \in Path :
       /\ dfirst[p].left = dfirst[p].size
       /\ dfirst[p] # NoChd => dfirst[p].of = p
       /\ p.ext = "damaged" => dfirst[p].head = "invalid"

DiskInv ==
  /\ DiskTyped /\ MoveInv /\ ListInv /\ SourceInv /\ AsideInv /\ DiskReportInv
  /\ FaultlessInv

-----------------------------------------------------------------------------
(* Paths and contents.                                                     *)

LEMMA PathFacts ==
  /\ Sources \subseteq Path
  /\ \A p \in Sources :
       /\ AsDamaged(p) \in Path \ Sources /\ AsUnknown(p) \in Path \ Sources
       /\ AsDamaged(p).name = p.name /\ AsUnknown(p).name = p.name
       /\ AsDamaged(p).dir = p.dir /\ AsDamaged(p) # AsUnknown(p)
  /\ \A p \in Path : Aside(p) = {AsDamaged(p), AsUnknown(p)}
  /\ \A p, q \in Sources : AsUnknown(p) = AsUnknown(q) => p.name = q.name
  /\ Listed = {p \in Sources : Present(p)}
<1>1. Sources \subseteq Path BY DEF Sources
<1>2. \A p \in Sources : p \in [dir : DiskDir \cup {UnknownDir}, name : DiskName, ext : {"chd", "damaged"}]
                         /\ p.dir \in DiskDir /\ p.ext = "chd"
  BY DEF Sources, Path
<1>3. UnknownDir \notin DiskDir BY DiskAssumption DEF DiskAssumption
<1>4. \A p \in Sources :
       /\ AsDamaged(p) \in Path \ Sources /\ AsUnknown(p) \in Path \ Sources
       /\ AsDamaged(p).name = p.name /\ AsUnknown(p).name = p.name
       /\ AsDamaged(p).dir = p.dir /\ AsDamaged(p) # AsUnknown(p)
  BY <1>2, <1>3 DEF AsDamaged, AsUnknown, Sources, Path
<1>5. \A p \in Path : Aside(p) = {AsDamaged(p), AsUnknown(p)}
  BY DEF Aside, AsDamaged, AsUnknown
<1>6. \A p, q \in Sources : AsUnknown(p) = AsUnknown(q) => p.name = q.name
  BY <1>4
<1>7. Listed = {p \in Sources : Present(p)} BY DEF Listed, Sources
<1> QED BY <1>1, <1>4, <1>5, <1>6, <1>7

LEMMA ContentFacts ==
  /\ NoChd \in Contents /\ NoChd.head = "invalid"
  /\ \A c \in Contents : FileSize(c) \in Nat /\ (Fits(c) => FileSize(c) = c.size)
  /\ \A c \in Contents, n \in Nat :
       /\ [c EXCEPT !.left = n] \in Contents
       /\ [c EXCEPT !.left = n].size = c.size /\ [c EXCEPT !.left = n].head = c.head
       /\ [c EXCEPT !.left = n].left = n
       /\ c.left = n => [c EXCEPT !.left = n] = c
<1>1. NoChd \in Contents /\ NoChd.head = "invalid" BY DEF NoChd, Contents, Heads
<1>2. \A c \in Contents : FileSize(c) \in Nat /\ (Fits(c) => FileSize(c) = c.size)
  BY DiskAssumption DEF DiskAssumption, Contents, FileSize, Fits
<1>3. \A c \in Contents, n \in Nat :
       /\ [c EXCEPT !.left = n] \in Contents
       /\ [c EXCEPT !.left = n].size = c.size /\ [c EXCEPT !.left = n].head = c.head
       /\ [c EXCEPT !.left = n].left = n
       /\ c.left = n => [c EXCEPT !.left = n] = c
  BY DEF Contents
<1> QED BY <1>1, <1>2, <1>3

\* The source is where it is named in its path, its copy aside of it: another
\* file of the start is in the way of the copy.
LEMMA InTheWayFacts ==
  ASSUME NEW s \in Sources, NEW d \in Aside(s), dfirst[s] # NoChd
  PROVE  /\ d \in Path \ Sources /\ InTheWay(d)
         /\ \A p \in Sources : p # s /\ d \in Aside(p) => InTheWay(p)
<1>1. s \in Path /\ d \in Path \ Sources /\ d.name = s.name /\ d # s
  BY PathFacts
<1>2. InTheWay(d) BY <1>1 DEF InTheWay
<1>3. ASSUME NEW p \in Sources, p # s, d \in Aside(p) PROVE InTheWay(p)
  <2>1. p \in Path /\ d.name = p.name BY <1>3, PathFacts
  <2> QED BY <1>1, <1>3, <2>1 DEF InTheWay
<1> QED BY <1>1, <1>2, <1>3

-----------------------------------------------------------------------------
(* What the system calls do to the files: s is the source of the move that *)
(* is in progress and d its destination.                                   *)

\* Only the destination is written.
LEMMA Written ==
  ASSUME DiskTyped, SourceInv, AsideInv,
         NEW s \in Sources, Present(s), NEW d \in Aside(s), NEW c \in Contents,
         files' = [files EXCEPT ![d] = c], UNCHANGED <<dfirst, doper>>, cut \ {s} \subseteq cut'
  PROVE  /\ files' \in [Path -> Contents]
         /\ \A p \in Path \ {d} : files'[p] = files[p]
         /\ \A p \in Sources : files'[p] = files[p]
         /\ Listed' = Listed
         /\ SourceInv' /\ AsideInv'
<1>1. d \in Path \ Sources /\ s \in Path BY PathFacts
<1>2. files' \in [Path -> Contents] /\ \A p \in Path \ {d} : files'[p] = files[p]
  BY <1>1 DEF DiskTyped
<1>3. \A p \in Sources : files'[p] = files[p] BY <1>1, <1>2, PathFacts
<1>4. Listed' = Listed BY <1>3 DEF Listed, Sources, Present
<1>5. dfirst[s] # NoChd /\ files[s] = dfirst[s] BY DEF Present, SourceInv
<1>6. SourceInv'
  <2>1. \A p \in Path \ Sources : files'[p] # dfirst[p] =>
          \E q \in Sources : p \in Aside(q) /\ dfirst[q] # NoChd
    BY <1>2, <1>5 DEF SourceInv
  <2>2. active_move' <=> active_move BY DEF active_move
  <2> QED BY <1>3, <2>1, <2>2 DEF SourceInv
<1>7. AsideInv'
  <2>0. \A p : InTheWay(p)' <=> InTheWay(p) BY DEF InTheWay
  <2> SUFFICES ASSUME NEW p \in Path \ cut', Whole(dfirst[p]), Fits(dfirst[p]), ~InTheWay(p)
               PROVE files'[p] = dfirst[p] \/ (p \in Sources /\ \E q \in Aside(p) : files'[q] = dfirst[p])
    BY <2>0 DEF AsideInv
  <2>1. p # d BY <1>5, InTheWayFacts
  <2>2. CASE p = s \/ files[p] = dfirst[p] BY <1>2, <1>3, <1>5, <2>1, <2>2
  <2>3. CASE p \in Sources /\ \E q \in Aside(p) : files[q] = dfirst[p]
    <3>1. PICK q \in Aside(p) : files[q] = dfirst[p] BY <2>3
    <3>2. CASE p = s BY <2>2, <3>2
    <3>3. CASE p # s
      <4>1. q # d BY <1>5, <2>3, <3>3, InTheWayFacts
      <4>2. q \in Path BY <2>3, PathFacts
      <4> QED BY <1>2, <2>3, <3>1, <4>1, <4>2
    <3> QED BY <3>2, <3>3
  <2>4. p = s \/ p \in Path \ cut OBVIOUS
  <2> QED BY <2>2, <2>3, <2>4 DEF AsideInv
<1> QED BY <1>2, <1>3, <1>4, <1>6, <1>7

\* The source goes, for a reason and after what it was is at the destination, or
\* fclose has failed.
LEMMA TakenAway ==
  ASSUME DiskTyped, SourceInv, AsideInv,
         NEW s \in Sources, Present(s), NEW d \in Aside(s),
         files' \in [Path -> Contents], \A p \in Path \ {s, d} : files'[p] = files[p],
         files'[s] = NoChd, Whole(files[s]) /\ Fits(files[s]) /\ s \notin cut => files'[d] = files[s],
         files[s].head = "invalid" \/ (Naming(s) = {} /\ active_move),
         UNCHANGED <<dfirst, doper, cut>>
  PROVE  /\ \A p \in Sources \ {s} : files'[p] = files[p]
         /\ Listed' = Listed \ {s}
         /\ SourceInv' /\ AsideInv'
<1>1. d \in Path \ Sources /\ s \in Path BY PathFacts
<1>2. \A p \in Sources \ {s} : files'[p] = files[p] BY <1>1, PathFacts
<1>3. Listed' = Listed \ {s} BY <1>2 DEF Listed, Sources, Present
<1>4. dfirst[s] # NoChd /\ files[s] = dfirst[s] BY DEF Present, SourceInv
<1>5. SourceInv'
  <2>1. \A p \in Path \ Sources : files'[p] # dfirst[p] =>
          \E q \in Sources : p \in Aside(q) /\ dfirst[q] # NoChd
    BY <1>4 DEF SourceInv
  <2>2. active_move' <=> active_move BY DEF active_move
  <2>3. \A p \in Sources : files'[p] # dfirst[p] =>
          /\ files'[p] = NoChd
          /\ dfirst[p].head = "invalid" \/ (Naming(p) = {} /\ active_move)
    BY <1>2, <1>4 DEF SourceInv
  <2> QED BY <2>1, <2>2, <2>3 DEF SourceInv
<1>6. AsideInv'
  <2>0. \A p : InTheWay(p)' <=> InTheWay(p) BY DEF InTheWay
  <2> SUFFICES ASSUME NEW p \in Path \ cut, Whole(dfirst[p]), Fits(dfirst[p]), ~InTheWay(p)
               PROVE files'[p] = dfirst[p] \/ (p \in Sources /\ \E q \in Aside(p) : files'[q] = dfirst[p])
    BY <2>0 DEF AsideInv
  <2>1. p # d BY <1>4, InTheWayFacts
  <2>2. CASE p = s BY <1>4, <2>2
  <2>3. CASE p # s /\ files[p] = dfirst[p] BY <2>1, <2>3
  <2>4. CASE p # s /\ p \in Sources /\ \E q \in Aside(p) : files[q] = dfirst[p]
    <3>1. PICK q \in Aside(p) : files[q] = dfirst[p] BY <2>4
    <3>2. q # d BY <1>4, <2>4, InTheWayFacts
    <3>3. q \in Path \ Sources BY <2>4, PathFacts
    <3> QED BY <2>4, <3>1, <3>2, <3>3
  <2> QED BY <2>2, <2>3, <2>4 DEF AsideInv
<1> QED BY <1>2, <1>3, <1>5, <1>6

\* No file changes.
LEMMA Untouched ==
  ASSUME SourceInv, AsideInv, UNCHANGED <<files, dfirst, doper>>, cut \subseteq cut'
  PROVE  /\ SourceInv' /\ AsideInv'
         /\ Listed' = Listed /\ (active_move' <=> active_move)
         /\ \A p : (Present(p)' <=> Present(p)) /\ Header(p)' = Header(p)
<1>1. active_move' <=> active_move BY DEF active_move
<1>2. Listed' = Listed BY DEF Listed, Present
<1>3. \A p : (Present(p)' <=> Present(p)) /\ Header(p)' = Header(p) BY DEF Present, Header
<1>4. SourceInv' BY <1>1 DEF SourceInv
<1>5. AsideInv' BY DEF AsideInv, InTheWay
<1> QED BY <1>1, <1>2, <1>3, <1>4, <1>5

-----------------------------------------------------------------------------
(* What is kept of the lists as long as no source is touched.              *)

LEMMA ListsStay ==
  ASSUME ListInv, DiskReportInv, FaultlessInv,
         Listed' = Listed, \A p \in Sources : files'[p] = files[p],
         UNCHANGED <<ds, dzar, dzs, doper>>, dpc' \notin {"list", "scan", "done"},
         Loading' => Loading, Placing' => Placing,
         dfaults' = {} /\ (Loading' \/ Placing') => dfaults = {} /\ InMove' /\ mv' = mv
  PROVE  ListInv' /\ DiskReportInv' /\ FaultlessInv'
<1>1. active_move' <=> active_move BY DEF active_move
<1>2. \A p \in Sources : (Present(p)' <=> Present(p)) /\ Header(p)' = Header(p)
  BY DEF Present, Header
<1>3. Listed \subseteq Sources BY PathFacts
<1>4. ListInv' BY <1>1, <1>2 DEF ListInv
<1>5. DiskReportInv'
  <2>1. \A p \in Sources, g \in Games : Info(p, g)' = Info(p, g) BY DEF Info
  <2>2. Loading' => \A p \in Listed' : Header(p)' \in Hash => p \in ds' \cup dzar'
    BY <1>2, <1>3 DEF DiskReportInv
  <2>3. Placing' => \A g \in Games : \A i \in dzs'[g] :
          /\ i.path \in Sources /\ g \in Naming(i.path) /\ Present(i.path)'
          /\ i.good <=> files'[i.path].head = DiskGames[g][i.path.name]
    BY <1>2 DEF DiskReportInv
  <2>4. Placing' => \A p \in Listed', g \in Games :
          Header(p)' \in Hash /\ Naming(p) = {g} => Info(p, g)' \in dzs'[g]
    BY <1>2, <1>3, <2>1 DEF DiskReportInv
  <2> QED BY <2>2, <2>3, <2>4 DEF DiskReportInv
<1>6. FaultlessInv' BY <1>1 DEF FaultlessInv
<1> QED BY <1>4, <1>5, <1>6

\* While a file is moved, nothing of it or of the lists changes but what the
\* system call does.
LEMMA MoveFacts ==
  ASSUME DiskInv, InMove
  PROVE  /\ mv.src \in Sources /\ Present(mv.src) /\ mv.dst \in Aside(mv.src)
         /\ mv.src \in Path /\ mv.dst \in Path \ Sources /\ mv.src # mv.dst
         /\ files[mv.src] \in Contents /\ files[mv.src] # NoChd
         /\ files[mv.src].head = "invalid" \/ (Naming(mv.src) = {} /\ active_move)
         /\ ~SameDevice => mv.back = "move"
         /\ mv.back \in {"load", "move"}
         /\ dpc # "rename" => mv.back = "move"
<1>1. mv.src \in Sources /\ Present(mv.src) /\ (mv.dst = AsDamaged(mv.src) \/ mv.dst = AsUnknown(mv.src))
  BY DEF DiskInv, MoveInv
<1>2. mv.back = "load" => mv.dst = AsDamaged(mv.src) BY DEF DiskInv, MoveInv
<1>3. mv.back = "load" => SameDevice BY <1>1, <1>2, PathFacts DEF SameDevice
<1>4. mv.src \in Path /\ mv.dst \in Aside(mv.src) /\ mv.dst \in Path \ Sources
  BY <1>1, PathFacts
<1>5. files[mv.src] \in Contents /\ files[mv.src] # NoChd
  BY <1>1, <1>4 DEF DiskInv, DiskTyped, Present
<1>6. /\ files[mv.src].head = "invalid" \/ (Naming(mv.src) = {} /\ active_move)
      /\ mv.back \in {"load", "move"}
      /\ dpc # "rename" => mv.back = "move"
  BY DEF DiskInv, MoveInv
<1> QED BY <1>1, <1>3, <1>4, <1>5, <1>6

\* Steps of a move that leave the sources as they are.
LEMMA MovingStep ==
  ASSUME DiskInv, InMove, UNCHANGED <<ds, dzar, dzs, doper, dfirst, druns, mv>>,
         files' \in [Path -> Contents], \A p \in Sources : files'[p] = files[p], Listed' = Listed,
         SourceInv', AsideInv',
         (dpc' \in {"copy", "write", "close", "undo", "remove"} /\ mv.back = "move")
           \/ dpc' \in {"error", mv.back},
         dpc' = mv.back => dfaults' # {},
         dfaults' \in SUBSET DiskFaults, dfaults' = {} => dfaults = {},
         dpc' \in {"write", "close", "remove"} =>
           \E n \in Nat : files'[mv.dst] = [files'[mv.src] EXCEPT !.left = n],
         dpc' = "remove" =>
           \/ mv.src \in cut'
           \/ files'[mv.dst] = [files'[mv.src] EXCEPT !.left = FileSize(files'[mv.src])],
         cut' \subseteq Path
  PROVE  DiskInv'
<1>1. active_move' <=> active_move BY DEF active_move
<1>2. Present(mv.src)' <=> Present(mv.src) BY MoveFacts DEF Present
<1>3. mv.back \in {"load", "move"} BY MoveFacts
<1>4. DiskTyped' BY <1>3 DEF DiskInv, DiskTyped, DiskEnded
<1>5. MoveInv'
  <2>1. mv.src \in Sources /\ files'[mv.src] = files[mv.src] BY MoveFacts
  <2>2. InMove' => mv.back = "move" BY <1>3 DEF InMove
  <2>3. InMove' => MoveInv BY DEF DiskInv
  <2>4. /\ dpc' \in {"write", "close", "remove"} =>
             \E n \in Nat : files'[mv'.dst] = [files'[mv'.src] EXCEPT !.left = n]
        /\ dpc' = "remove" =>
             \/ mv'.src \in cut'
             \/ files'[mv'.dst] = [files'[mv'.src] EXCEPT !.left = FileSize(files'[mv'.src])]
    OBVIOUS
  <2> QED BY <1>1, <1>2, <2>1, <2>2, <2>4 DEF DiskInv, MoveInv
<1>6. ListInv' /\ DiskReportInv' /\ FaultlessInv'
  <2>1. Loading' => Loading BY <1>3 DEF Loading, InMove
  <2>2. Placing' => Placing BY <1>3 DEF Placing, InMove
  <2>3. dpc' \notin {"list", "scan", "done"} BY <1>3
  <2>4. dfaults' = {} /\ (Loading' \/ Placing') => dfaults = {} /\ InMove' /\ mv' = mv
    BY <1>3 DEF Loading, Placing, InMove
  <2> QED BY <2>1, <2>2, <2>3, <2>4, ListsStay DEF DiskInv
<1> QED BY <1>4, <1>5, <1>6 DEF DiskInv

\* The source is gone and the loop goes on.
LEMMA MovedStep ==
  ASSUME DiskInv, InMove, UNCHANGED <<ds, dzar, dzs, doper, dfirst, cut, druns, mv, dfaults>>,
         dpc' = mv.back, files' \in [Path -> Contents],
         \A p \in Path \ {mv.src, mv.dst} : files'[p] = files[p], files'[mv.src] = NoChd,
         Whole(files[mv.src]) /\ Fits(files[mv.src]) /\ mv.src \notin cut =>
           files'[mv.dst] = files[mv.src]
  PROVE  DiskInv'
<1> DEFINE s == mv.src
<1>1. /\ s \in Sources /\ s \notin ds /\ mv.back \in {"load", "move"}
      /\ mv.back = "load" => s \notin dzar
      /\ mv.back = "move" => Naming(s) = {} /\ active_move
  BY DEF DiskInv, MoveInv
<1>2. /\ \A p \in Sources \ {s} : files'[p] = files[p]
      /\ Listed' = Listed \ {s}
      /\ SourceInv' /\ AsideInv'
  BY MoveFacts, TakenAway DEF DiskInv
<1>3. active_move' <=> active_move BY DEF active_move
<1>4. \A p \in Sources \ {s} : (Present(p)' <=> Present(p)) /\ Header(p)' = Header(p)
  BY <1>2 DEF Present, Header
<1>5. Listed \subseteq Sources /\ Listed = {p \in Sources : Present(p)} BY PathFacts
<1>6. ~InMove' /\ (Loading' <=> mv.back = "load") /\ (Placing' <=> mv.back = "move")
  BY <1>1 DEF InMove, Loading, Placing
<1>7. (Loading' => Loading) /\ (Placing' => Placing)
  BY <1>6 DEF Loading, Placing
<1> HIDE DEF s
<1>8. DiskTyped' BY <1>1 DEF DiskInv, DiskTyped
<1>9. MoveInv' BY <1>1, <1>6 DEF MoveInv
<1>10. ListInv'
  <2>1. ds' \subseteq Listed' /\ dzar' \subseteq Sources BY <1>1, <1>2 DEF DiskInv, ListInv
  <2>2. dpc' \notin {"list", "scan", "done"} BY <1>1
  <2>3. Loading' => dzar' \subseteq Listed' /\ dzar' \cap ds' = {}
    BY <1>1, <1>2, <1>6, <1>7 DEF DiskInv, ListInv
  <2>4. Placing' => \A p \in ds' : p \in dzar' /\ Naming(p) = {} /\ active_move'
    BY <1>3, <1>7 DEF DiskInv, ListInv
  <2>5. ASSUME NEW p \in dzar', Present(p)' PROVE Header(p)' \in Hash
    <3>0. p # s BY <2>5 DEF Present, s
    <3>1. p \in dzar /\ p \in Sources /\ p # s BY <3>0 DEF DiskInv, ListInv
    <3>2. Present(p) /\ Header(p)' = Header(p) BY <1>4, <2>5, <3>1
    <3> QED BY <3>1, <3>2 DEF DiskInv, ListInv
  <2> QED BY <2>1, <2>2, <2>3, <2>4, <2>5 DEF ListInv
<1>11. DiskReportInv'
  <2>1. \A p \in Sources \ {s}, g \in Games : Info(p, g)' = Info(p, g) BY <1>2 DEF Info
  <2>2. Loading' => \A p \in Listed' : Header(p)' \in Hash => p \in ds' \cup dzar'
    BY <1>2, <1>4, <1>5, <1>7 DEF DiskInv, DiskReportInv
  <2>3. ASSUME Placing', NEW g \in Games, NEW i \in dzs'[g]
        PROVE /\ i.path \in Sources /\ g \in Naming(i.path) /\ Present(i.path)'
              /\ i.good <=> files'[i.path].head = DiskGames[g][i.path.name]
    <3>1. /\ i.path \in Sources /\ g \in Naming(i.path) /\ Present(i.path)
          /\ i.good <=> files[i.path].head = DiskGames[g][i.path.name]
      BY <1>7, <2>3 DEF DiskInv, DiskReportInv
    <3>2. i.path # s BY <1>1, <1>6, <2>3, <3>1
    <3> QED BY <1>2, <1>4, <3>1, <3>2
  <2>4. Placing' => \A p \in Listed', g \in Games :
          Header(p)' \in Hash /\ Naming(p) = {g} => Info(p, g)' \in dzs'[g]
    BY <1>2, <1>4, <1>5, <1>7, <2>1 DEF DiskInv, DiskReportInv
  <2> QED BY <2>2, <2>3, <2>4 DEF DiskReportInv
<1>12. FaultlessInv'
  <2>1. dfaults = {} /\ Loading' => Listed' \subseteq ds' \cup dzar'
    BY <1>2, <1>7 DEF DiskInv, FaultlessInv, s
  <2>2. dfaults = {} /\ Placing' => Listed' \subseteq dzar'
    BY <1>2, <1>7 DEF DiskInv, FaultlessInv
  <2>3. dfaults = {} /\ Placing' /\ active_move' => \A p \in Listed' : Naming(p) = {} => p \in ds'
    BY <1>2, <1>3, <1>7 DEF DiskInv, FaultlessInv, s
  <2> QED BY <1>6, <2>1, <2>2, <2>3 DEF FaultlessInv
<1> QED BY <1>2, <1>8, <1>9, <1>10, <1>11, <1>12 DEF DiskInv

-----------------------------------------------------------------------------
(* The system calls of file_move.                                          *)

LEMMA RenameFileStep ==
  ASSUME DiskInv, RenameFile
  PROVE  DiskInv'
<1> DEFINE s == mv.src
           d == mv.dst
<1>1. InMove BY DEF RenameFile, Moving, InMove
<1>2. s \in Path /\ d \in Path /\ s # d /\ files[s] \in Contents BY <1>1, MoveFacts
<1>3. files' = [files EXCEPT ![d] = files[s], ![s] = NoChd] BY DEF RenameFile
<1>4. files \in [Path -> Contents] BY DEF DiskInv, DiskTyped
<1> HIDE DEF s, d
<1>5. /\ files' \in [Path -> Contents]
      /\ \A p \in Path \ {s, d} : files'[p] = files[p]
      /\ files'[s] = NoChd /\ files'[d] = files[s]
  BY <1>2, <1>3, <1>4, ContentFacts
<1>6. UNCHANGED <<ds, dzar, dzs, doper, dfirst, cut, druns, mv, dfaults>> /\ dpc' = mv.back
  BY DEF RenameFile, Moving
<1> QED BY <1>1, <1>5, <1>6, MovedStep DEF s, d

LEMMA RenameIgnoredStep ==
  ASSUME DiskInv, RenameIgnored
  PROVE  DiskInv'
<1>1. InMove BY DEF RenameIgnored, Moving, InMove
<1>2. /\ UNCHANGED <<ds, dzar, dzs, doper, dfirst, cut, druns, mv, files>>
      /\ dpc' = mv.back /\ dfaults' \in SUBSET DiskFaults /\ dfaults' # {}
  BY DEF RenameIgnored, Moving, Fault, DiskInv, DiskTyped
<1>3. mv.back \in {"load", "move"} BY <1>1, MoveFacts
<1>4. /\ files' \in [Path -> Contents] /\ (\A p \in Sources : files'[p] = files[p])
      /\ Listed' = Listed /\ SourceInv' /\ AsideInv' /\ cut' \subseteq Path
  BY <1>2, Untouched DEF DiskInv, DiskTyped
<1> QED BY <1>1, <1>2, <1>3, <1>4, MovingStep

LEMMA RenameExdevStep ==
  ASSUME DiskInv, RenameExdev
  PROVE  DiskInv'
<1>1. InMove BY DEF RenameExdev, Moving, InMove
<1>2. /\ UNCHANGED <<ds, dzar, dzs, doper, dfirst, cut, druns, mv, files, dfaults>>
      /\ dpc' = "copy" /\ mv.back = "move"
  BY <1>1, MoveFacts DEF RenameExdev, Moving
<1>3. /\ files' \in [Path -> Contents] /\ (\A p \in Sources : files'[p] = files[p])
      /\ Listed' = Listed /\ SourceInv' /\ AsideInv' /\ dfaults' \in SUBSET DiskFaults
      /\ cut' \subseteq Path
  BY <1>2, Untouched DEF DiskInv, DiskTyped
<1> QED BY <1>1, <1>2, <1>3, MovingStep

LEMMA CopyReadFailsStep ==
  ASSUME DiskInv, CopyReadFails
  PROVE  DiskInv'
<1>1. InMove /\ dpc = "copy" BY DEF CopyReadFails, Moving, InMove
<1>2. /\ UNCHANGED <<ds, dzar, dzs, doper, dfirst, cut, druns, mv, files>>
      /\ dpc' = "undo" /\ mv.back = "move"
      /\ dfaults' \in SUBSET DiskFaults /\ (dfaults' = {} => dfaults = {})
  BY <1>1, MoveFacts DEF CopyReadFails, Moving, Fault, DiskInv, DiskTyped
<1>3. /\ files' \in [Path -> Contents] /\ (\A p \in Sources : files'[p] = files[p])
      /\ Listed' = Listed /\ SourceInv' /\ AsideInv' /\ cut' \subseteq Path
  BY <1>2, Untouched DEF DiskInv, DiskTyped
<1> QED BY <1>1, <1>2, <1>3, MovingStep

\* A step that writes the destination and goes on, or fails.
LEMMA WritingStep ==
  ASSUME DiskInv, InMove, dpc \in {"copy", "write", "close", "undo"}, NEW c \in Contents,
         files' = [files EXCEPT ![mv.dst] = c],
         UNCHANGED <<ds, dzar, dzs, doper, dfirst, druns, mv>>,
         cut' \in SUBSET Path, cut \ {mv.src} \subseteq cut',
         dfaults' \in SUBSET DiskFaults, dfaults' = {} => dfaults = {},
         dpc' \in {"write", "close", "undo", "remove", "error"},
         dpc' \in {"write", "close", "remove"} => \E n \in Nat : c = [files[mv.src] EXCEPT !.left = n],
         dpc' = "remove" => c = [files[mv.src] EXCEPT !.left = FileSize(files[mv.src])]
  PROVE  DiskInv'
<1> DEFINE s == mv.src
           d == mv.dst
<1>1. /\ s \in Sources /\ s \in Path /\ d \in Path \ Sources /\ d \in Aside(s) /\ Present(s)
      /\ mv.back = "move" /\ files \in [Path -> Contents]
  BY MoveFacts DEF DiskInv, DiskTyped
<1>2. /\ files' \in [Path -> Contents] /\ (\A p \in Sources : files'[p] = files[p])
      /\ Listed' = Listed /\ SourceInv' /\ AsideInv'
  BY <1>1, Written DEF DiskInv
<1>3. files'[d] = c /\ files'[s] = files[s] BY <1>1, <1>2
<1>4. dpc' \in {"copy", "write", "close", "undo", "remove"} \/ dpc' \in {"error", mv.back} OBVIOUS
<1> QED BY <1>1, <1>2, <1>3, <1>4, MovingStep

\* What is written of the copy is a part of the source.
LEMMA PartWritten ==
  ASSUME DiskInv, InMove, dpc \in {"write", "close"}, NEW n \in Nat,
         files' = [files EXCEPT ![mv.dst].left = n]
  PROVE  /\ files' = [files EXCEPT ![mv.dst] = [files[mv.src] EXCEPT !.left = n]]
         /\ [files[mv.src] EXCEPT !.left = n] \in Contents
<1>1. /\ mv.dst \in Path /\ files \in [Path -> Contents] /\ files[mv.src] \in Contents
      /\ [files[mv.src] EXCEPT !.left = n] \in Contents
  BY MoveFacts, ContentFacts DEF DiskInv, DiskTyped
<1>2. PICK m \in Nat : files[mv.dst] = [files[mv.src] EXCEPT !.left = m]
  BY DEF DiskInv, MoveInv
<1>3. [files[mv.dst] EXCEPT !.left = n] = [files[mv.src] EXCEPT !.left = n]
  BY <1>1, <1>2 DEF Contents
<1> QED BY <1>1, <1>3

LEMMA CopyReadStep ==
  ASSUME DiskInv, CopyRead
  PROVE  DiskInv'
<1>1. InMove /\ dpc = "copy" BY DEF CopyRead, Moving, InMove
<1> DEFINE c == [files[mv.src] EXCEPT !.left = 0]
<1>2. c \in Contents BY <1>1, MoveFacts, ContentFacts
<1>3. /\ UNCHANGED <<ds, dzar, dzs, doper, dfirst, druns, mv, dfaults>>
      /\ files' = [files EXCEPT ![mv.dst] = c] /\ dpc' = "write"
      /\ dfaults' \in SUBSET DiskFaults /\ cut' = cut \ {mv.src} /\ cut' \in SUBSET Path
  BY DEF CopyRead, Moving, DiskInv, DiskTyped
<1> QED BY <1>1, <1>2, <1>3, WritingStep

LEMMA CopyWriteStep ==
  ASSUME DiskInv, CopyWrite
  PROVE  DiskInv'
<1>1. InMove /\ dpc = "write" BY DEF CopyWrite, Moving, InMove
<1>2. PICK n \in 0..FileSize(files[mv.src]) : files' = [files EXCEPT ![mv.dst].left = n]
  BY DEF CopyWrite
<1>3. n \in Nat BY <1>1, <1>2, MoveFacts, ContentFacts
<1> DEFINE c == [files[mv.src] EXCEPT !.left = n]
<1>4. files' = [files EXCEPT ![mv.dst] = c] /\ c \in Contents
  BY <1>1, <1>2, <1>3, PartWritten
<1>5. /\ UNCHANGED <<ds, dzar, dzs, doper, dfirst, cut, druns, mv, dfaults>> /\ dpc' = "close"
      /\ dfaults' \in SUBSET DiskFaults /\ cut' \in SUBSET Path
  BY DEF CopyWrite, Moving, DiskInv, DiskTyped
<1> HIDE DEF c
<1>6. c = [files[mv.src] EXCEPT !.left = n] BY DEF c
<1> QED BY <1>1, <1>3, <1>4, <1>5, <1>6, WritingStep

LEMMA CopyCloseStep ==
  ASSUME DiskInv, CopyClose
  PROVE  DiskInv'
<1>1. InMove /\ dpc = "close" BY DEF CopyClose, Moving, InMove
<1> DEFINE n == FileSize(files[mv.src])
           c == [files[mv.src] EXCEPT !.left = n]
<1>2. n \in Nat BY <1>1, MoveFacts, ContentFacts
<1>3. files' = [files EXCEPT ![mv.dst].left = n] BY DEF CopyClose
<1>4. files' = [files EXCEPT ![mv.dst] = c] /\ c \in Contents
  BY <1>1, <1>2, <1>3, PartWritten
<1>5. /\ UNCHANGED <<ds, dzar, dzs, doper, dfirst, cut, druns, mv, dfaults>> /\ dpc' = "remove"
      /\ dfaults' \in SUBSET DiskFaults /\ cut' \in SUBSET Path
  BY DEF CopyClose, Moving, DiskInv, DiskTyped
<1> QED BY <1>1, <1>2, <1>4, <1>5, WritingStep

LEMMA CopyCloseFailsStep ==
  ASSUME DiskInv, CopyCloseFails
  PROVE  DiskInv'
<1>1. InMove /\ dpc = "close" BY DEF CopyCloseFails, Moving, InMove
<1>2. /\ UNCHANGED <<ds, dzar, dzs, doper, dfirst, druns, mv, files>>
      /\ dpc' = "remove" /\ mv.back = "move" /\ mv.src \in Path
      /\ dfaults' \in SUBSET DiskFaults /\ dfaults' # {}
      /\ cut' = cut \cup {mv.src}
  BY <1>1, MoveFacts DEF CopyCloseFails, Moving, Fault, DiskInv, DiskTyped
<1>3. /\ files' \in [Path -> Contents] /\ (\A p \in Sources : files'[p] = files[p])
      /\ Listed' = Listed /\ SourceInv' /\ AsideInv' /\ cut' \subseteq Path
  BY <1>2, Untouched DEF DiskInv, DiskTyped
<1>4. \E n \in Nat : files'[mv.dst] = [files'[mv.src] EXCEPT !.left = n]
  BY <1>1, <1>2 DEF DiskInv, MoveInv
<1> QED BY <1>1, <1>2, <1>3, <1>4, MovingStep

LEMMA CopyWriteFailsStep ==
  ASSUME DiskInv, CopyWriteFails
  PROVE  DiskInv'
<1>1. InMove /\ dpc = "write" BY DEF CopyWriteFails, Moving, InMove
<1>2. FileSize(files[mv.src]) \in Nat /\ mv.dst \in Path /\ files \in [Path -> Contents]
      /\ files[mv.dst] \in Contents
  BY <1>1, MoveFacts, ContentFacts DEF DiskInv, DiskTyped
<1>3. PICK n \in 0..(FileSize(files[mv.src]) - 1) : files' = [files EXCEPT ![mv.dst].left = n]
  BY DEF CopyWriteFails
<1> DEFINE c == [files[mv.dst] EXCEPT !.left = n]
<1>4. c \in Contents BY <1>2, <1>3, ContentFacts
<1>5. files' = [files EXCEPT ![mv.dst] = c] BY <1>2, <1>3
<1>6. /\ UNCHANGED <<ds, dzar, dzs, doper, dfirst, cut, druns, mv>> /\ dpc' = "undo"
      /\ dfaults' \in SUBSET DiskFaults /\ (dfaults' = {} => dfaults = {}) /\ cut' \in SUBSET Path
  BY DEF CopyWriteFails, Moving, Fault, DiskInv, DiskTyped
<1> QED BY <1>1, <1>4, <1>5, <1>6, WritingStep

LEMMA UndoCopyStep ==
  ASSUME DiskInv, UndoCopy
  PROVE  DiskInv'
<1>1. InMove /\ dpc = "undo" BY DEF UndoCopy, Moving, InMove
<1>2. /\ UNCHANGED <<ds, dzar, dzs, doper, dfirst, cut, druns, mv>> /\ dpc' = "error"
      /\ dfaults' \in SUBSET DiskFaults /\ (dfaults' = {} => dfaults = {}) /\ cut' \in SUBSET Path
  BY DEF UndoCopy, Moving, Fault, DiskInv, DiskTyped
<1>3. CASE files' = [files EXCEPT ![mv.dst] = NoChd]
  BY <1>1, <1>2, <1>3, ContentFacts, WritingStep
<1>4. CASE UNCHANGED files
  <2>1. /\ files' \in [Path -> Contents] /\ (\A p \in Sources : files'[p] = files[p])
        /\ Listed' = Listed /\ SourceInv' /\ AsideInv' /\ mv.back = "move"
    BY <1>1, <1>2, <1>4, MoveFacts, Untouched DEF DiskInv, DiskTyped
  <2> QED BY <1>1, <1>2, <2>1, MovingStep
<1> QED BY <1>3, <1>4 DEF UndoCopy

LEMMA RemoveSourceStep ==
  ASSUME DiskInv, RemoveSource
  PROVE  DiskInv'
<1> DEFINE s == mv.src
           d == mv.dst
<1>1. InMove /\ dpc = "remove" BY DEF RemoveSource, Moving, InMove
<1>2. UNCHANGED <<ds, dzar, dzs, doper, dfirst, cut, druns, mv>> /\ cut' \in SUBSET Path
  BY DEF RemoveSource, Moving, DiskInv, DiskTyped
<1>3. s \in Path /\ d \in Path /\ s # d /\ files[s] \in Contents /\ files \in [Path -> Contents]
  BY <1>1, MoveFacts DEF DiskInv, DiskTyped
<1>4. CASE files' = [files EXCEPT ![mv.src] = NoChd] /\ dpc' = mv.back /\ UNCHANGED dfaults
  <2>1. /\ files' \in [Path -> Contents] /\ files'[s] = NoChd
        /\ \A p \in Path \ {s, d} : files'[p] = files[p]
        /\ files'[d] = files[d]
    BY <1>3, <1>4, ContentFacts
  <2>2. s \in cut \/ files[d] = [files[s] EXCEPT !.left = FileSize(files[s])]
    BY <1>1 DEF DiskInv, MoveInv
  <2>3. Whole(files[s]) /\ Fits(files[s]) /\ s \notin cut => files[d] = files[s]
    BY <1>3, <2>2, ContentFacts DEF Whole
  <2> QED BY <1>1, <1>2, <1>4, <2>1, <2>3, MovedStep
<1>5. CASE Fault("remove") /\ dpc' = "error" /\ UNCHANGED files
  <2>1. /\ files' \in [Path -> Contents] /\ (\A p \in Sources : files'[p] = files[p])
        /\ Listed' = Listed /\ SourceInv' /\ AsideInv'
        /\ mv.back = "move" /\ dfaults' \in SUBSET DiskFaults /\ dfaults' # {}
    BY <1>1, <1>2, <1>5, MoveFacts, Untouched DEF DiskInv, DiskTyped, Fault
  <2> QED BY <1>1, <1>2, <1>5, <2>1, MovingStep
<1> QED BY <1>4, <1>5 DEF RemoveSource

-----------------------------------------------------------------------------
(* The loops.                                                              *)

LEMMA DiskInitInv == DiskInit => DiskInv
<1> SUFFICES ASSUME DiskInit PROVE DiskInv OBVIOUS
<1>1. files \in [Path -> Contents] /\ doper \subseteq {"move", "active"}
  BY DiskAssumption DEF DiskAssumption, DiskInit
<1>2. /\ dfirst = files /\ cut = {} /\ druns = 0 /\ dpc = "list" /\ ds = {} /\ dzar = {} /\ mv = NoMove
      /\ dzs = [g \in Games |-> {}] /\ dfaults = {}
  BY DEF DiskInit
<1>3. ~InMove /\ ~Loading /\ ~Placing BY <1>2 DEF InMove, Loading, Placing
<1>4. DiskTyped
  <2>1. druns \in 0..DiskRuns BY <1>2, DiskAssumption DEF DiskAssumption
  <2>2. dzs \in [Games -> SUBSET [path : Path, good : BOOLEAN]] BY <1>2
  <2>3. mv \in [src : Path \cup {NoPath}, dst : Path \cup {NoPath}, back : {"", "load", "move"}]
    BY <1>2 DEF NoMove
  <2> QED BY <1>1, <1>2, <2>1, <2>2, <2>3 DEF DiskTyped
<1>5. MoveInv BY <1>2, <1>3 DEF MoveInv
<1>6. ListInv BY <1>2, <1>3 DEF ListInv
<1>7. SourceInv /\ AsideInv BY <1>2 DEF SourceInv, AsideInv
<1>8. DiskReportInv /\ FaultlessInv BY <1>3 DEF DiskReportInv, FaultlessInv
<1> QED BY <1>4, <1>5, <1>6, <1>7, <1>8 DEF DiskInv

LEMMA ReadDisksStep ==
  ASSUME DiskInv, ReadDisks
  PROVE  DiskInv'
<1>1. /\ dpc = "list" /\ dpc' = "load" /\ ds' = Listed
      /\ UNCHANGED <<files, dzar, dzs, mv, doper, dfaults, dfirst, cut, druns>>
  BY DEF ReadDisks
<1>2. ~InMove' /\ Loading' /\ ~Placing' BY <1>1 DEF InMove, Loading, Placing
<1>3. SourceInv' /\ AsideInv' /\ Listed' = Listed 
      /\ \A p : (Present(p)' <=> Present(p)) /\ Header(p)' = Header(p)
  BY <1>1, Untouched DEF DiskInv
<1>4. dzar = {} BY <1>1 DEF DiskInv, ListInv
<1>5. DiskTyped' BY <1>1 DEF DiskInv, DiskTyped
<1>6. MoveInv' BY <1>1, <1>2 DEF MoveInv
<1>7. ListInv' BY <1>1, <1>2, <1>3, <1>4 DEF ListInv
<1>8. DiskReportInv' /\ FaultlessInv' BY <1>1, <1>2, <1>3 DEF DiskReportInv, FaultlessInv
<1> QED BY <1>3, <1>5, <1>6, <1>7, <1>8 DEF DiskInv

LEMMA LoadDiskStep ==
  ASSUME DiskInv, NEW p \in ds, LoadDisk(p)
  PROVE  DiskInv'
<1>1. /\ dpc = "load" /\ ds' = ds \ {p}
      /\ UNCHANGED <<files, dzs, doper, dfaults, dfirst, cut, druns>>
  BY DEF LoadDisk
<1>2. SourceInv' /\ AsideInv' /\ Listed' = Listed
      /\ \A q : (Present(q)' <=> Present(q)) /\ Header(q)' = Header(q)
  BY <1>1, Untouched DEF DiskInv
<1>3. /\ p \in Sources /\ p \in Path /\ Present(p) /\ p \in Listed /\ p \notin dzar
      /\ Loading /\ ~InMove /\ ~Placing /\ dzar \subseteq Listed
      /\ files[p] \in Contents
  BY <1>1, PathFacts DEF DiskInv, ListInv, DiskTyped, Loading, InMove, Placing
<1>4. CASE Header(p) = "short" /\ dpc' = "error" /\ UNCHANGED <<dzar, mv>>
  <2>1. ~InMove' /\ ~Loading' /\ ~Placing' BY <1>4 DEF InMove, Loading, Placing
  <2>2. DiskTyped' BY <1>1, <1>4 DEF DiskInv, DiskTyped, DiskEnded
  <2>3. MoveInv' BY <1>4, <2>1 DEF MoveInv
  <2>4. ListInv' BY <1>1, <1>2, <1>4, <2>1 DEF DiskInv, ListInv
  <2>5. DiskReportInv' /\ FaultlessInv' BY <2>1 DEF DiskReportInv, FaultlessInv
  <2> QED BY <1>2, <2>2, <2>3, <2>4, <2>5 DEF DiskInv
<1>5. CASE /\ Header(p) = "invalid"
           /\ mv' = [src |-> p, dst |-> [p EXCEPT !.ext = "damaged"], back |-> "load"]
           /\ dpc' = "rename" /\ UNCHANGED dzar
  <2>1. InMove' /\ Loading' /\ ~Placing' BY <1>5 DEF InMove, Loading, Placing
  <2>2. mv'.src = p /\ mv'.dst = AsDamaged(p) /\ mv'.back = "load" BY <1>5 DEF AsDamaged
  <2>3. files[p].head = "invalid" BY <1>5 DEF Header
  <2>4. DiskTyped'
    <3>1. mv' \in [src : Path \cup {NoPath}, dst : Path \cup {NoPath}, back : {"", "load", "move"}]
      BY <1>3, <1>5, <2>2, PathFacts
    <3> QED BY <1>1, <1>5, <3>1 DEF DiskInv, DiskTyped
  <2>5. MoveInv' BY <1>1, <1>2, <1>3, <1>5, <2>2, <2>3 DEF MoveInv
  <2>6. ListInv' BY <1>1, <1>2, <1>3, <1>5, <2>1 DEF DiskInv, ListInv
  <2>7. DiskReportInv'
    <3>1. Header(p) \notin Hash BY <1>5, DiskAssumption DEF DiskAssumption
    <3> QED BY <1>1, <1>2, <1>3, <1>5, <2>1, <3>1 DEF DiskInv, DiskReportInv
  <2>8. FaultlessInv' BY <1>1, <1>2, <1>3, <1>5, <2>1, <2>2 DEF DiskInv, FaultlessInv
  <2> QED BY <1>2, <2>4, <2>5, <2>6, <2>7, <2>8 DEF DiskInv
<1>6. CASE /\ Header(p) \notin {"short", "invalid"}
           /\ dzar' = dzar \cup {p} /\ UNCHANGED <<dpc, mv>>
  <2>1. ~InMove' /\ Loading' /\ ~Placing' BY <1>1, <1>6 DEF InMove, Loading, Placing
  <2>2. Header(p) \in Hash BY <1>3, <1>6 DEF Header, Contents, Heads
  <2>3. DiskTyped' BY <1>1, <1>6 DEF DiskInv, DiskTyped
  <2>4. MoveInv' BY <1>1, <1>6, <2>1 DEF MoveInv
  <2>5. ListInv' BY <1>1, <1>2, <1>3, <1>6, <2>1, <2>2 DEF DiskInv, ListInv
  <2>6. DiskReportInv' BY <1>1, <1>2, <1>3, <1>6, <2>1 DEF DiskInv, DiskReportInv
  <2>7. FaultlessInv' BY <1>1, <1>2, <1>3, <1>6, <2>1 DEF DiskInv, FaultlessInv
  <2> QED BY <1>2, <2>3, <2>4, <2>5, <2>6, <2>7 DEF DiskInv
<1> QED BY <1>4, <1>5, <1>6 DEF LoadDisk

LEMMA LoadEndsStep ==
  ASSUME DiskInv, LoadEnds
  PROVE  DiskInv'
<1>1. /\ dpc = "load" /\ ds = {} /\ dpc' = "scan"
      /\ UNCHANGED <<files, ds, dzar, dzs, mv, doper, dfaults, dfirst, cut, druns>>
  BY DEF LoadEnds
<1>2. ~InMove' /\ Loading' /\ ~Placing' /\ Loading /\ ~InMove BY <1>1 DEF InMove, Loading, Placing
<1>3. SourceInv' /\ AsideInv' /\ Listed' = Listed
      /\ \A q : (Present(q)' <=> Present(q)) /\ Header(q)' = Header(q)
  BY <1>1, Untouched DEF DiskInv
<1>4. DiskTyped' BY <1>1 DEF DiskInv, DiskTyped
<1>5. MoveInv' BY <1>1, <1>2 DEF MoveInv
<1>6. ListInv' BY <1>1, <1>2, <1>3 DEF DiskInv, ListInv
<1>7. DiskReportInv' BY <1>1, <1>2, <1>3 DEF DiskInv, DiskReportInv
<1>8. FaultlessInv' BY <1>1, <1>2, <1>3 DEF DiskInv, FaultlessInv
<1> QED BY <1>3, <1>4, <1>5, <1>6, <1>7, <1>8 DEF DiskInv

LEMMA ScanDisksStep ==
  ASSUME DiskInv, ScanDisks
  PROVE  DiskInv'
<1>1. /\ dpc = "scan" /\ dpc' = "move"
      /\ UNCHANGED <<files, dzar, mv, doper, dfaults, dfirst, cut, druns>>
      /\ ds' = IF active_move THEN Unwanted ELSE {}
  BY DEF ScanDisks
<1>2. \A g \in Games : dzs'[g] =
        {Info(p, g) : p \in {p \in dzar : g \in Naming(p) /\ \A h \in Naming(p) : g <= h}}
  BY DEF ScanDisks
<1>3. ~InMove' /\ ~Loading' /\ Placing' /\ Loading /\ ~InMove BY <1>1 DEF InMove, Loading, Placing
<1>4. SourceInv' /\ AsideInv' /\ Listed' = Listed /\ (active_move' <=> active_move)
      /\ \A q : (Present(q)' <=> Present(q)) /\ Header(q)' = Header(q)
  BY <1>1, Untouched DEF DiskInv
<1>5. /\ dzar \subseteq Listed /\ dzar \subseteq Sources /\ ds = {}
      /\ \A p \in dzar : Present(p) /\ p \in Path
  BY <1>1, <1>3, PathFacts DEF DiskInv, ListInv
<1>6. \A p \in Path, g \in Games : /\ Info(p, g) \in [path : Path, good : BOOLEAN]
                                   /\ Info(p, g).path = p
                                   /\ Info(p, g).good <=> files[p].head = DiskGames[g][p.name]
                                   /\ Info(p, g)' = Info(p, g)
  BY <1>1 DEF Info
<1>7. DiskTyped'
  <2>1. dzs' \in [Games -> SUBSET [path : Path, good : BOOLEAN]]
    <3>1. dzs' = [g \in Games |-> dzs'[g]] BY DEF ScanDisks
    <3>2. \A g \in Games : dzs'[g] \subseteq [path : Path, good : BOOLEAN]
      BY <1>2, <1>5, <1>6
    <3> QED BY <3>1, <3>2
  <2> QED BY <1>1, <2>1 DEF DiskInv, DiskTyped
<1>8. MoveInv' BY <1>1, <1>3 DEF MoveInv
<1>9. ListInv' BY <1>1, <1>3, <1>4, <1>5 DEF DiskInv, ListInv, Unwanted
<1>10. DiskReportInv'
  <2>1. ASSUME NEW g \in Games, NEW i \in dzs'[g]
        PROVE /\ i.path \in Sources /\ g \in Naming(i.path) /\ Present(i.path)'
              /\ i.good <=> files'[i.path].head = DiskGames[g][i.path.name]
    <3>1. PICK p \in dzar : g \in Naming(p) /\ i = Info(p, g) BY <1>2, <2>1
    <3>2. i.path = p /\ p \in Path /\ Present(p) BY <1>5, <1>6, <3>1
    <3>3. i.good <=> files[p].head = DiskGames[g][p.name] BY <1>5, <1>6, <3>1
    <3> QED BY <1>1, <1>4, <1>5, <3>1, <3>2, <3>3
  <2>2. ASSUME NEW p \in Listed', NEW g \in Games, Header(p)' \in Hash, Naming(p) = {g}
        PROVE Info(p, g)' \in dzs'[g]
    <3>1. p \in dzar BY <1>3, <1>4, <1>5, <2>2 DEF DiskInv, DiskReportInv
    <3>2. g <= g BY DiskAssumption DEF DiskAssumption, Games
    <3>3. Info(p, g) \in dzs'[g] BY <1>2, <2>2, <3>1, <3>2
    <3> QED BY <1>5, <1>6, <3>1, <3>3
  <2> QED BY <1>3, <2>1, <2>2 DEF DiskReportInv
<1>11. FaultlessInv'
  BY <1>1, <1>3, <1>4, <1>5 DEF DiskInv, FaultlessInv, Unwanted
<1> QED BY <1>4, <1>7, <1>8, <1>9, <1>10, <1>11 DEF DiskInv

LEMMA MoveDiskStep ==
  ASSUME DiskInv, NEW p \in ds, MoveDisk(p)
  PROVE  DiskInv'
<1>1. /\ dpc = "move" /\ dpc' = "rename" /\ ds' = ds \ {p}
      /\ mv' = [src |-> p, dst |-> [p EXCEPT !.dir = UnknownDir], back |-> "move"]
      /\ UNCHANGED <<files, dzar, dzs, doper, dfaults, dfirst, cut, druns>>
  BY DEF MoveDisk
<1>2. mv'.src = p /\ mv'.dst = AsUnknown(p) /\ mv'.back = "move" BY <1>1 DEF AsUnknown
<1>3. InMove' /\ ~Loading' /\ Placing' /\ Placing /\ ~InMove
  BY <1>1, <1>2 DEF InMove, Loading, Placing
<1>4. SourceInv' /\ AsideInv' /\ Listed' = Listed /\ (active_move' <=> active_move)
      /\ \A q : (Present(q)' <=> Present(q)) /\ Header(q)' = Header(q)
  BY <1>1, Untouched DEF DiskInv
<1>5. /\ p \in Sources /\ p \in Path /\ Present(p) /\ p \in dzar
      /\ Naming(p) = {} /\ active_move
  BY <1>3, PathFacts DEF DiskInv, ListInv
<1>6. files[p].head \in Hash
  <2>1. Header(p) \in Hash BY <1>5 DEF DiskInv, ListInv
  <2> QED BY <2>1, DiskAssumption DEF DiskAssumption, Header
<1>7. DiskTyped'
  <2>1. mv' \in [src : Path \cup {NoPath}, dst : Path \cup {NoPath}, back : {"", "load", "move"}]
    BY <1>1, <1>2, <1>5, PathFacts
  <2> QED BY <1>1, <2>1 DEF DiskInv, DiskTyped
<1>8. MoveInv' BY <1>1, <1>2, <1>4, <1>5, <1>6 DEF MoveInv
<1>9. ListInv' BY <1>1, <1>3, <1>4 DEF DiskInv, ListInv
<1>10. DiskReportInv'
  <2>1. \A q, g : Info(q, g)' = Info(q, g) BY <1>1 DEF Info
  <2> QED BY <1>1, <1>3, <1>4, <2>1 DEF DiskInv, DiskReportInv
<1>11. FaultlessInv' BY <1>1, <1>2, <1>3, <1>4 DEF DiskInv, FaultlessInv
<1> QED BY <1>4, <1>7, <1>8, <1>9, <1>10, <1>11 DEF DiskInv

LEMMA MoveEndsStep ==
  ASSUME DiskInv, MoveEnds
  PROVE  DiskInv'
<1>1. /\ dpc = "move" /\ ds = {} /\ dpc' = "done"
      /\ UNCHANGED <<files, ds, dzar, dzs, mv, doper, dfaults, dfirst, cut, druns>>
  BY DEF MoveEnds
<1>2. ~InMove' /\ ~Loading' /\ Placing' /\ Placing /\ ~InMove BY <1>1 DEF InMove, Loading, Placing
<1>3. SourceInv' /\ AsideInv' /\ Listed' = Listed /\ (active_move' <=> active_move)
      /\ \A q : (Present(q)' <=> Present(q)) /\ Header(q)' = Header(q)
  BY <1>1, Untouched DEF DiskInv
<1>4. DiskTyped' BY <1>1 DEF DiskInv, DiskTyped, DiskEnded
<1>5. MoveInv' BY <1>1, <1>2 DEF MoveInv
<1>6. ListInv' BY <1>1, <1>2, <1>3 DEF DiskInv, ListInv
<1>7. DiskReportInv'
  <2>1. \A q, g : Info(q, g)' = Info(q, g) BY <1>1 DEF Info
  <2> QED BY <1>1, <1>2, <1>3, <2>1 DEF DiskInv, DiskReportInv
<1>8. FaultlessInv' BY <1>1, <1>2, <1>3 DEF DiskInv, FaultlessInv
<1> QED BY <1>3, <1>4, <1>5, <1>6, <1>7, <1>8 DEF DiskInv

LEMMA DiskKillStep ==
  ASSUME DiskInv, DiskKill
  PROVE  DiskInv'
<1>1. /\ dpc' = "killed" /\ dfaults' = dfaults \cup {"kill"} /\ "kill" \in DiskFaults
      /\ UNCHANGED <<files, ds, dzar, dzs, mv, doper, dfirst, cut, druns>>
  BY DEF DiskKill, Fault
<1>2. ~InMove' /\ ~Loading' /\ ~Placing' BY <1>1 DEF InMove, Loading, Placing
<1>3. SourceInv' /\ AsideInv' /\ Listed' = Listed
      /\ \A q : (Present(q)' <=> Present(q)) /\ Header(q)' = Header(q)
  BY <1>1, Untouched DEF DiskInv
<1>4. DiskTyped' BY <1>1 DEF DiskInv, DiskTyped, DiskEnded
<1>5. MoveInv' BY <1>1, <1>2 DEF MoveInv
<1>6. ListInv' BY <1>1, <1>2, <1>3 DEF DiskInv, ListInv
<1>7. DiskReportInv' /\ FaultlessInv' BY <1>2 DEF DiskReportInv, FaultlessInv
<1> QED BY <1>3, <1>4, <1>5, <1>6, <1>7 DEF DiskInv

LEMMA DiskRerunStep ==
  ASSUME DiskInv, DiskRerun
  PROVE  DiskInv'
<1>1. /\ dpc' = "list" /\ ds' = {} /\ dzar' = {} /\ mv' = NoMove
      /\ dzs' = [g \in Games |-> {}] /\ dfaults' = {}
      /\ druns < DiskRuns /\ druns' = druns + 1
      /\ UNCHANGED <<files, doper, dfirst, cut>>
  BY DEF DiskRerun, NewRun
<1>2. ~InMove' /\ ~Loading' /\ ~Placing' BY <1>1 DEF InMove, Loading, Placing
<1>3. SourceInv' /\ AsideInv' BY <1>1, Untouched DEF DiskInv
<1>4. DiskTyped'
  <2>1. druns \in 0..DiskRuns /\ DiskRuns \in Nat
    BY DiskAssumption DEF DiskAssumption, DiskInv, DiskTyped
  <2>2. druns' \in 0..DiskRuns BY <1>1, <2>1
  <2> QED BY <1>1, <2>2 DEF DiskInv, DiskTyped, NoMove
<1>5. MoveInv' BY <1>1, <1>2 DEF MoveInv
<1>6. ListInv' BY <1>1, <1>2 DEF ListInv
<1>7. DiskReportInv' /\ FaultlessInv' BY <1>2 DEF DiskReportInv, FaultlessInv
<1> QED BY <1>3, <1>4, <1>5, <1>6, <1>7 DEF DiskInv

LEMMA DiskStutter ==
  ASSUME DiskInv, UNCHANGED diskVars
  PROVE  DiskInv'
<1> USE DEF diskVars
<1>1. (InMove' <=> InMove) /\ (Loading' <=> Loading) /\ (Placing' <=> Placing)
  BY DEF InMove, Loading, Placing
<1>2. SourceInv' /\ AsideInv' /\ Listed' = Listed /\ (active_move' <=> active_move)
      /\ \A q : (Present(q)' <=> Present(q)) /\ Header(q)' = Header(q)
  BY Untouched DEF DiskInv
<1>3. DiskTyped' BY DEF DiskInv, DiskTyped
<1>4. MoveInv' BY <1>1, <1>2 DEF DiskInv, MoveInv, Present
<1>5. ListInv' BY <1>1, <1>2 DEF DiskInv, ListInv
<1>6. DiskReportInv'
  <2>1. \A q, g : Info(q, g)' = Info(q, g) BY DEF Info
  <2> QED BY <1>1, <1>2, <2>1 DEF DiskInv, DiskReportInv
<1>7. FaultlessInv' BY <1>1, <1>2 DEF DiskInv, FaultlessInv
<1> QED BY <1>2, <1>3, <1>4, <1>5, <1>6, <1>7 DEF DiskInv

LEMMA DiskNextInv == DiskInv /\ [DiskNext]_diskVars => DiskInv'
<1> SUFFICES ASSUME DiskInv, [DiskNext]_diskVars PROVE DiskInv' OBVIOUS
<1>1. CASE ReadDisks BY <1>1, ReadDisksStep
<1>2. CASE LoadEnds BY <1>2, LoadEndsStep
<1>3. CASE ScanDisks BY <1>3, ScanDisksStep
<1>4. CASE MoveEnds BY <1>4, MoveEndsStep
<1>5. ASSUME NEW p \in ds, LoadDisk(p) PROVE DiskInv' BY <1>5, LoadDiskStep
<1>6. ASSUME NEW p \in ds, MoveDisk(p) PROVE DiskInv' BY <1>6, MoveDiskStep
<1>7. CASE RenameFile BY <1>7, RenameFileStep
<1>8. CASE RenameIgnored BY <1>8, RenameIgnoredStep
<1>9. CASE RenameExdev BY <1>9, RenameExdevStep
<1>10. CASE CopyRead BY <1>10, CopyReadStep
<1>11. CASE CopyReadFails BY <1>11, CopyReadFailsStep
<1>12. CASE CopyWrite BY <1>12, CopyWriteStep
<1>13. CASE CopyWriteFails BY <1>13, CopyWriteFailsStep
<1>14. CASE CopyClose BY <1>14, CopyCloseStep
<1>15. CASE CopyCloseFails BY <1>15, CopyCloseFailsStep
<1>16. CASE UndoCopy BY <1>16, UndoCopyStep
<1>17. CASE RemoveSource BY <1>17, RemoveSourceStep
<1>18. CASE DiskKill BY <1>18, DiskKillStep
<1>19. CASE DiskRerun BY <1>19, DiskRerunStep
<1>20. CASE UNCHANGED diskVars BY <1>20, DiskStutter
<1> QED
  BY <1>1, <1>2, <1>3, <1>4, <1>5, <1>6, <1>7, <1>8, <1>9, <1>10, <1>11, <1>12, <1>13,
     <1>14, <1>15, <1>16, <1>17, <1>18, <1>19, <1>20 DEF DiskNext

-----------------------------------------------------------------------------
(* The theorems.                                                           *)

\* Every state of the moves has the invariant: a copy in progress is of a file
\* that is still there, and no move starts where another one ended (file_move).
THEOREM DiskInvariant == DiskSpec => []DiskInv
BY DiskInitInv, DiskNextInv, PTL DEF DiskSpec

LEMMA DiskTypesFromInv == DiskInv => DiskTypeOK
<1> SUFFICES ASSUME DiskInv PROVE DiskTypeOK
  OBVIOUS
<1>1. dpc \in {"rename", "copy", "write", "close", "remove"} => Present(mv.src) /\ mv.src # mv.dst
  BY MoveFacts DEF InMove
<1> QED BY <1>1, PathFacts DEF DiskInv, DiskTyped, ListInv, DiskTypeOK

\* The state is well formed, and what is being moved is there.
THEOREM DiskWellFormed == DiskSpec => []DiskTypeOK
BY DiskTypesFromInv, DiskInvariant, PTL

\* Wherever a run is stopped and whichever call fails, a disk that was whole has
\* a whole copy, unless its copy is cut short by the fclose of file_write, whose
\* result is not looked at.
THEOREM DisksKept == DiskSpec => []DiskKept
<1>1. ASSUME DiskInv PROVE DiskKept
  <2> SUFFICES ASSUME NEW p \in Path \ cut, Whole(dfirst[p]), Fits(dfirst[p]), ~InTheWay(p)
               PROVE \E q \in Path : files[q] = dfirst[p]
    BY DEF DiskKept
  <2>1. CASE files[p] = dfirst[p] BY <2>1
  <2>2. CASE p \in Sources /\ \E q \in Aside(p) : files[q] = dfirst[p] BY <2>2, PathFacts
  <2> QED BY <1>1, <2>1, <2>2 DEF DiskInv, AsideInv
<1> QED BY <1>1, DiskInvariant, PTL
-----------------------------------------------------------------------------
(* Of a sound start.                                                       *)

LEMMA HalfInit == ASSUME SoundStart, DiskInit PROVE HalfInv
<1>1. PICK s \in DiskStart : files = s.files BY DEF DiskInit
<1>2. dfirst = files BY DEF DiskInit
<1>3. \A p \in Path : /\ dfirst[p].left = dfirst[p].size
                      /\ dfirst[p] # NoChd => dfirst[p].of = p
                      /\ p.ext = "damaged" => dfirst[p].head = "invalid"
  BY <1>1, <1>2 DEF SoundStart
<1>4. \A p \in Path : Present(p) => Whole(files[p]) BY <1>2, <1>3 DEF Present, Whole
<1> QED BY <1>3, <1>4 DEF HalfInv

\* No file changes.
LEMMA HalfUntouched ==
  ASSUME DiskInv, HalfInv, UNCHANGED <<files, dfirst, doper>>, cut \subseteq cut'
  PROVE  HalfInv'
<1>1. /\ Listed' = Listed /\ (active_move' <=> active_move)
      /\ \A p : Present(p)' <=> Present(p)
  BY Untouched DEF DiskInv
<1> QED BY <1>1 DEF HalfInv

\* Only the destination of a copy changes: the source is there to be moved again.
LEMMA HalfWritten ==
  ASSUME DiskInv, HalfInv, InMove, mv.back = "move", NEW c \in Contents,
         files' = [files EXCEPT ![mv.dst] = c], UNCHANGED <<dfirst, doper>>,
         cut \ {mv.src} \subseteq cut'
  PROVE  HalfInv'
<1> DEFINE s == mv.src
           d == mv.dst
<1>1. /\ s \in Sources /\ Present(s) /\ d \in Aside(s) /\ d \in Path \ Sources
      /\ d = AsUnknown(s) /\ Naming(s) = {} /\ active_move /\ files[s].head \in Hash
  BY MoveFacts DEF DiskInv, MoveInv
<1>2. /\ \A p \in Path \ {d} : files'[p] = files[p]
      /\ \A p \in Sources : files'[p] = files[p]
      /\ Listed' = Listed
  BY <1>1, Written DEF DiskInv
<1>3. active_move' <=> active_move BY DEF active_move
<1>4. s \in Listed BY <1>1, PathFacts
<1>5. Listed \subseteq Sources BY PathFacts
<1> HIDE DEF s, d
<1>6. ASSUME NEW p \in Path, Present(p)', Fits(files'[p]), ~Whole(files'[p])
      PROVE  /\ active_move'
             /\ \/ \E q \in Listed' : p = AsUnknown(q) /\ Naming(q) = {} /\ files'[q].head \in Hash
                \/ files'[p].of \in cut' /\ p = AsUnknown(files'[p].of)
  <2>1. CASE p = d BY <1>1, <1>2, <1>3, <1>4, <2>1
  <2>2. CASE p # d
    <3>1. Present(p) /\ files'[p] = files[p] BY <1>2, <1>6, <2>2 DEF Present
    <3>2. /\ active_move
          /\ \/ \E q \in Listed : p = AsUnknown(q) /\ Naming(q) = {} /\ files[q].head \in Hash
             \/ files[p].of \in cut /\ p = AsUnknown(files[p].of)
      BY <1>6, <3>1 DEF HalfInv
    <3>3. CASE \E q \in Listed : p = AsUnknown(q) /\ Naming(q) = {} /\ files[q].head \in Hash
      BY <1>2, <1>3, <1>5, <3>2, <3>3
    <3>4. CASE files[p].of \in cut /\ p = AsUnknown(files[p].of)
      <4>1. files[p].of # s BY <1>1, <2>2, <3>4
      <4>2. files'[p].of \in cut' BY <3>1, <3>4, <4>1 DEF s
      <4> QED BY <1>3, <3>1, <3>2, <3>4, <4>2
    <3> QED BY <3>2, <3>3, <3>4
  <2> QED BY <2>1, <2>2
<1> QED BY <1>6 DEF HalfInv

\* The source goes: if it was to be copied, the copy is whole or cut short.
LEMMA HalfMoved ==
  ASSUME DiskInv, HalfInv, InMove, UNCHANGED <<dfirst, doper, cut>>,
         files' \in [Path -> Contents], files'[mv.src] = NoChd,
         \A p \in Path \ {mv.src, mv.dst} : files'[p] = files[p],
         \/ files'[mv.dst] # NoChd /\ Fits(files'[mv.dst]) => Whole(files'[mv.dst])
         \/ mv.src \in cut /\ mv.dst = AsUnknown(mv.src) /\ active_move /\ files'[mv.dst].of = mv.src
  PROVE  HalfInv'
<1> DEFINE s == mv.src
           d == mv.dst
<1>1. /\ s \in Sources /\ d \in Path \ Sources
      /\ d = AsUnknown(s) \/ files[s].head = "invalid"
  BY MoveFacts DEF DiskInv, MoveInv
<1>2. Listed \subseteq Sources /\ Listed = {p \in Sources : Present(p)} /\ Sources \subseteq Path
  BY PathFacts
<1>3. active_move' <=> active_move BY DEF active_move
<1>4. "invalid" \notin Hash BY DiskAssumption DEF DiskAssumption
<1>5. \A q \in Listed \ {s} : q \in Listed' /\ files'[q] = files[q]
  <2> SUFFICES ASSUME NEW q \in Listed \ {s} PROVE q \in Listed' /\ files'[q] = files[q]
    OBVIOUS
  <2>1. files'[q] = files[q] BY <1>1, <1>2
  <2> QED BY <2>1 DEF Listed, Present
<1>6. ASSUME NEW p \in Path, Present(p)', Fits(files'[p]), ~Whole(files'[p])
      PROVE  /\ active_move'
             /\ \/ \E q \in Listed' : p = AsUnknown(q) /\ Naming(q) = {} /\ files'[q].head \in Hash
                \/ files'[p].of \in cut' /\ p = AsUnknown(files'[p].of)
  <2>0. p # s BY <1>6 DEF Present
  <2>1. CASE p = d BY <1>3, <1>6, <2>1 DEF Present
  <2>2. CASE p # d
    <3>1. files'[p] = files[p] /\ Present(p) BY <1>6, <2>0, <2>2 DEF Present
    <3>2. /\ active_move
          /\ \/ \E q \in Listed : p = AsUnknown(q) /\ Naming(q) = {} /\ files[q].head \in Hash
             \/ files[p].of \in cut /\ p = AsUnknown(files[p].of)
      BY <1>6, <3>1 DEF HalfInv
    <3>3. CASE \E q \in Listed : p = AsUnknown(q) /\ Naming(q) = {} /\ files[q].head \in Hash
      <4>1. PICK q \in Listed : p = AsUnknown(q) /\ Naming(q) = {} /\ files[q].head \in Hash
        BY <3>3
      <4>2. q # s BY <1>1, <1>4, <2>2, <4>1
      <4> QED BY <1>3, <1>5, <3>2, <4>1, <4>2
    <3>4. CASE files[p].of \in cut /\ p = AsUnknown(files[p].of)
      BY <1>3, <3>1, <3>2, <3>4
    <3> QED BY <3>2, <3>3, <3>4
  <2> QED BY <2>1, <2>2
<1> QED BY <1>6 DEF HalfInv

LEMMA HalfCalls ==
  ASSUME DiskInv, HalfInv,
         \/ RenameFile \/ CopyRead \/ CopyWrite \/ CopyWriteFails \/ CopyClose
         \/ UndoCopy \/ RemoveSource
  PROVE  HalfInv'
<1> DEFINE s == mv.src
           d == mv.dst
<1>0. /\ InMove /\ UNCHANGED <<dfirst, doper>>
      /\ dpc \in {"rename", "copy", "write", "close", "undo", "remove"}
      /\ cut \ {s} \subseteq cut' /\ (~CopyRead => cut' = cut)
  BY DEF RenameFile, CopyRead, CopyWrite, CopyWriteFails, CopyClose, UndoCopy, RemoveSource, Moving, InMove
<1>1. /\ s \in Path /\ d \in Path /\ s # d /\ files[s] \in Contents /\ files[s] # NoChd
      /\ files[d] \in Contents /\ files \in [Path -> Contents]
      /\ FileSize(files[s]) \in Nat /\ s \in Sources
      /\ dpc # "rename" => mv.back = "move"
  BY <1>0, MoveFacts, ContentFacts DEF DiskInv, DiskTyped
<1>2. CASE RenameFile
  <2>1. files' = [files EXCEPT ![d] = files[s], ![s] = NoChd] BY <1>2 DEF RenameFile
  <2>2. /\ files' \in [Path -> Contents] /\ files'[s] = NoChd /\ files'[d] = files[s]
        /\ \A p \in Path \ {s, d} : files'[p] = files[p]
    BY <1>1, <2>1, ContentFacts
  <2>3. files[s] = dfirst[s] BY <1>1 DEF DiskInv, SourceInv
  <2>4. Whole(files'[d]) BY <1>1, <2>2, <2>3 DEF HalfInv, Whole
  <2>5. UNCHANGED cut BY <1>2 DEF RenameFile
  <2> QED BY <1>0, <2>2, <2>4, <2>5, HalfMoved
<1>3. CASE CopyRead
  <2>1. [files[s] EXCEPT !.left = 0] \in Contents BY <1>1, ContentFacts
  <2>2. files' = [files EXCEPT ![mv.dst] = [files[s] EXCEPT !.left = 0]] /\ mv.back = "move"
    BY <1>1, <1>3 DEF CopyRead, Moving
  <2> QED BY <1>0, <2>1, <2>2, HalfWritten
<1>4. CASE CopyWrite \/ CopyWriteFails \/ CopyClose
  <2>1. mv.back = "move" BY <1>1, <1>4 DEF CopyWrite, CopyWriteFails, CopyClose, Moving
  <2>2. \E n \in Nat : files' = [files EXCEPT ![mv.dst].left = n]
    <3>1. CASE CopyWrite
      <4>1. PICK n \in 0..FileSize(files[mv.src]) : files' = [files EXCEPT ![mv.dst].left = n]
        BY <3>1 DEF CopyWrite
      <4>2. n \in Nat BY <1>1, <4>1
      <4> QED BY <4>1, <4>2
    <3>2. CASE CopyWriteFails
      <4>1. PICK n \in 0..(FileSize(files[mv.src]) - 1) : files' = [files EXCEPT ![mv.dst].left = n]
        BY <3>2 DEF CopyWriteFails
      <4>2. n \in Nat BY <1>1, <4>1
      <4> QED BY <4>1, <4>2
    <3>3. CASE CopyClose BY <1>1, <3>3 DEF CopyClose
    <3> QED BY <1>4, <3>1, <3>2, <3>3
  <2>3. PICK n \in Nat : files' = [files EXCEPT ![mv.dst].left = n] BY <2>2
  <2>4. [files[d] EXCEPT !.left = n] \in Contents BY <1>1, ContentFacts
  <2>5. files' = [files EXCEPT ![mv.dst] = [files[d] EXCEPT !.left = n]] BY <1>1, <2>3
  <2> QED BY <1>0, <2>1, <2>4, <2>5, HalfWritten
<1>5. CASE UndoCopy
  <2>1. mv.back = "move" BY <1>1, <1>5 DEF UndoCopy, Moving
  <2>2. CASE files' = [files EXCEPT ![mv.dst] = NoChd]
    BY <1>0, <2>1, <2>2, HalfWritten, ContentFacts
  <2>3. CASE UNCHANGED files
    <3>1. UNCHANGED cut BY <1>5 DEF UndoCopy
    <3> QED BY <1>0, <2>3, <3>1, HalfUntouched
  <2> QED BY <1>5, <2>2, <2>3 DEF UndoCopy
<1>6. CASE RemoveSource
  <2>0. UNCHANGED cut BY <1>6 DEF RemoveSource
  <2>1. CASE UNCHANGED files BY <1>0, <2>0, <2>1, HalfUntouched
  <2>2. CASE files' = [files EXCEPT ![mv.src] = NoChd]
    <3>1. /\ files' \in [Path -> Contents] /\ files'[s] = NoChd /\ files'[d] = files[d]
          /\ \A p \in Path \ {s, d} : files'[p] = files[p]
      BY <1>1, <2>2, ContentFacts
    <3>2. CASE files[d] = [files[s] EXCEPT !.left = FileSize(files[s])]
      <4>1. files[d].left = FileSize(files[s]) /\ files[d].size = files[s].size
        BY <1>1, <3>2, ContentFacts
      <4>2. Fits(files[d]) => FileSize(files[s]) = files[s].size
        BY <1>1, <4>1, ContentFacts DEF Fits
      <4>3. files'[d] # NoChd /\ Fits(files'[d]) => Whole(files'[d])
        BY <3>1, <4>1, <4>2 DEF Whole
      <4> QED BY <1>0, <2>0, <3>1, <4>3, HalfMoved
    <3>3. CASE s \in cut
      <4>1. d = AsUnknown(s) /\ active_move
        BY <1>6 DEF RemoveSource, Moving, DiskInv, MoveInv, InMove
      <4>2. \E n \in Nat : files[d] = [files[s] EXCEPT !.left = n]
        BY <1>6 DEF RemoveSource, Moving, DiskInv, MoveInv
      <4>3. files[d].of = files[s].of BY <1>1, <4>2 DEF Contents
      <4>4. files[s] = dfirst[s] BY <1>1 DEF DiskInv, SourceInv
      <4>5. files'[d].of = s BY <1>1, <3>1, <4>3, <4>4 DEF HalfInv
      <4> QED BY <1>0, <2>0, <3>1, <3>3, <4>1, <4>5, HalfMoved
    <3>4. s \in cut \/ files[d] = [files[s] EXCEPT !.left = FileSize(files[s])]
      BY <1>6 DEF RemoveSource, Moving, DiskInv, MoveInv
    <3> QED BY <3>2, <3>3, <3>4
  <2> QED BY <1>6, <2>1, <2>2 DEF RemoveSource
<1> QED BY <1>2, <1>3, <1>4, <1>5, <1>6

LEMMA HalfNext == DiskInv /\ HalfInv /\ [DiskNext]_diskVars => HalfInv'
<1> SUFFICES ASSUME DiskInv, HalfInv, [DiskNext]_diskVars PROVE HalfInv' OBVIOUS
<1>1. CASE ReadDisks \/ LoadEnds \/ ScanDisks \/ MoveEnds
  BY <1>1, HalfUntouched DEF ReadDisks, LoadEnds, ScanDisks, MoveEnds
<1>2. CASE \E p \in ds : LoadDisk(p) \/ MoveDisk(p)
  BY <1>2, HalfUntouched DEF LoadDisk, MoveDisk
<1>3. CASE RenameIgnored \/ RenameExdev \/ CopyReadFails \/ CopyCloseFails
  BY <1>3, HalfUntouched DEF RenameIgnored, RenameExdev, CopyReadFails, CopyCloseFails, Moving
<1>4. CASE \/ RenameFile \/ CopyRead \/ CopyWrite \/ CopyWriteFails \/ CopyClose
           \/ UndoCopy \/ RemoveSource
  BY <1>4, HalfCalls
<1>5. CASE DiskKill \/ DiskRerun BY <1>5, HalfUntouched DEF DiskKill, DiskRerun
<1>6. CASE UNCHANGED diskVars BY <1>6, HalfUntouched DEF diskVars
<1> QED BY <1>1, <1>2, <1>3, <1>4, <1>5, <1>6 DEF DiskNext

\* Disks go where they belong, and the report is of where they are: a wanted disk
\* is not moved, a run without faults leaves no unknown, damaged or half copied
\* one behind, but what an fclose that failed has cut short, and what it reports
\* is there.
THEOREM DisksStayInPlace ==
  ASSUME SoundStart
  PROVE  DiskSpec => []DisksInPlace
<1>1. ASSUME DiskInv, HalfInv PROVE WantedStays
  <2> SUFFICES ASSUME NEW p \in Path, p.dir \in DiskDir, dfirst[p].head \in Hash,
                      Naming(p) # {} \/ ~active_move
               PROVE files[p] = dfirst[p]
    BY DEF WantedStays, active_move
  <2>1. dfirst[p].head # "invalid" BY DiskAssumption DEF DiskAssumption
  <2>2. p.ext # "damaged" BY <1>1, <2>1 DEF HalfInv
  <2>3. p.ext \in {"chd", "damaged"} BY DEF Path
  <2>4. p \in Sources BY <2>2, <2>3 DEF Sources
  <2> QED BY <1>1, <2>1, <2>4 DEF DiskInv, SourceInv
<1>2. ASSUME DiskInv, HalfInv PROVE AllInPlace
  <2> SUFFICES ASSUME dpc = "done", dfaults = {} PROVE
        /\ \A p \in Listed : Header(p) \in Hash
        /\ active_move =>
             /\ \A p \in Listed : Naming(p) # {}
             /\ \A p \in Path : Present(p) /\ Fits(files[p]) /\ files[p].of \notin cut => Whole(files[p])
    BY DEF AllInPlace, active_move
  <2>1. Placing /\ ~InMove /\ ds = {} BY <1>2 DEF Placing, InMove, DiskInv, ListInv
  <2>2. Listed \subseteq dzar BY <1>2, <2>1 DEF DiskInv, FaultlessInv
  <2>3. \A p \in Listed : Header(p) \in Hash
    BY <1>2, <2>2, PathFacts DEF DiskInv, ListInv
  <2>4. active_move => \A p \in Listed : Naming(p) # {}
    BY <1>2, <2>1 DEF DiskInv, FaultlessInv
  <2>5. active_move =>
          \A p \in Path : Present(p) /\ Fits(files[p]) /\ files[p].of \notin cut => Whole(files[p])
    BY <1>2, <2>4 DEF HalfInv
  <2> QED BY <2>3, <2>4, <2>5
<1>3. ASSUME DiskInv PROVE ReportedIsThere
  BY <1>3 DEF DiskInv, DiskReportInv, Placing, ReportedIsThere
<1>4. ASSUME DiskInv PROVE FoundIsReported
  <2>1. dpc = "done" => Placing BY DEF Placing
  <2> QED BY <1>4, <2>1 DEF DiskInv, DiskReportInv, FoundIsReported
<1>5. DiskInv /\ HalfInv => DisksInPlace BY <1>1, <1>2, <1>3, <1>4 DEF DisksInPlace
<1>6. SoundStart /\ DiskInit => HalfInv BY HalfInit
<1>7. SoundStart OBVIOUS
<1>8. DiskInit => HalfInv BY <1>6, <1>7
<1> QED BY <1>5, <1>8, DiskInitInv, DiskNextInv, HalfNext, PTL DEF DiskSpec

-----------------------------------------------------------------------------
(* The layout of a zip file.  What load() accepts is sound, what save()    *)
(* writes open() and load() read back, for any contents, any lengths of    *)
(* headers and files of other programs.  The offsets of save() are sums    *)
(* over the entries before, a recursive function.                          *)

(* Least numbers, sums and offsets.                                        *)

\* A set of numbers has a least one.
LEMMA MinimumOf ==
  ASSUME NEW S \in SUBSET Nat, S # {}
  PROVE  Minimum(S) \in S /\ \A x \in S : Minimum(S) <= x
<1> DEFINE Below == {ss \in Nat \X Nat : ss[1] < ss[2]}
<1>1. IsWellFoundedOn(Below, Nat)
  BY NatLessThanWellFounded DEF OpToRel
<1>2. PICK m \in S : \A x \in S : ~(<<x, m>> \in Below)
  BY <1>1, WFMin
<1>3. ASSUME NEW x \in S PROVE m <= x
  <2>1. x \in Nat /\ m \in Nat /\ ~(x < m)
    BY <1>2
  <2> QED BY <2>1
<1> QED BY <1>3 DEF Minimum

\* f is the function of the first sums of s, up to m.
SumsUpTo(f, s, m) ==
  /\ f \in [0..m -> Nat] /\ f[0] = 0
  /\ \A n \in 1..m : f[n] = f[n - 1] + s[n]
IsSums(f, s) == SumsUpTo(f, s, Len(s))

LEMMA SumsExist ==
  ASSUME NEW s \in Seq(Nat)
  PROVE  \E f : IsSums(f, s)
<1> DEFINE Bad == {m \in 0..Len(s) : ~\E f : SumsUpTo(f, s, m)}
<1>1. Len(s) \in Nat /\ \A n \in 1..Len(s) : s[n] \in Nat
  OBVIOUS
<1>2. ASSUME Bad # {} PROVE FALSE
  <2>1. Bad \in SUBSET Nat
    BY <1>1
  <2>2. PICK m \in Bad : \A x \in Bad : m <= x
    BY <1>2, <2>1, MinimumOf
  <2>3. CASE m = 0
    <3>1. SumsUpTo([n \in 0..0 |-> 0], s, 0)
      BY DEF SumsUpTo
    <3> QED BY <2>2, <2>3, <3>1
  <2>4. CASE m # 0
    <3>1. m \in 1..Len(s) /\ m \in Nat /\ m - 1 \in 0..Len(s)
      BY <1>1, <2>2, <2>4
    <3>2. m - 1 \notin Bad
      BY <2>2, <3>1
    <3>3. PICK f : SumsUpTo(f, s, m - 1)
      BY <3>1, <3>2
    <3> DEFINE g == [n \in 0..m |-> IF n = m THEN f[m - 1] + s[m] ELSE f[n]]
    <3>4. f \in [0..m - 1 -> Nat] /\ f[0] = 0 /\ \A n \in 1..m - 1 : f[n] = f[n - 1] + s[n]
      BY <3>3 DEF SumsUpTo
    <3>5. g \in [0..m -> Nat] /\ g[0] = 0
      BY <1>1, <3>1, <3>4
    <3>6. ASSUME NEW n \in 1..m PROVE g[n] = g[n - 1] + s[n]
      <4>1. n \in 0..m /\ n - 1 \in 0..m /\ n - 1 # m
        BY <3>1
      <4>2. CASE n = m
        BY <4>1, <4>2
      <4>3. CASE n # m
        <5>1. n \in 1..m - 1
          BY <3>1, <4>3
        <5> QED BY <3>4, <4>1, <4>3, <5>1
      <4> QED BY <4>2, <4>3
    <3>7. SumsUpTo(g, s, m)
      <4> HIDE DEF g
      <4> QED BY <3>5, <3>6 DEF SumsUpTo
    <3> HIDE DEF g
    <3> QED BY <2>2, <3>7
  <2> QED BY <2>3, <2>4
<1>3. 0 \in 0..Len(s) /\ Len(s) \in 0..Len(s)
  BY <1>1
<1>4. Len(s) \notin Bad
  BY <1>2
<1>5. \E f : SumsUpTo(f, s, Len(s))
  BY <1>3, <1>4
<1> QED BY <1>5 DEF IsSums

LEMMA SumIs ==
  ASSUME NEW s \in Seq(Nat), NEW f, IsSums(f, s)
  PROVE  Sum(s) = f[Len(s)]
<1> DEFINE g == CHOOSE sum : sum = [n \in 0..Len(s) |-> IF n = 0 THEN 0 ELSE sum[n - 1] + s[n]]
           Bad == {n \in 0..Len(s) : g[n] # f[n]}
<1>1. f = [n \in 0..Len(s) |-> IF n = 0 THEN 0 ELSE f[n - 1] + s[n]]
  BY DEF IsSums, SumsUpTo
<1>2. g = [n \in 0..Len(s) |-> IF n = 0 THEN 0 ELSE g[n - 1] + s[n]]
  BY <1>1
<1>3. Sum(s) = g[Len(s)]
  BY DEF Sum
<1> HIDE DEF g
<1>4. ASSUME Bad # {} PROVE FALSE
  <2>1. Bad \in SUBSET Nat
    OBVIOUS
  <2>2. PICK m \in Bad : \A x \in Bad : m <= x
    BY <1>4, <2>1, MinimumOf
  <2>3. m # 0
    BY <1>2, <2>2 DEF IsSums, SumsUpTo
  <2>4. m - 1 \in 0..Len(s) /\ m \in 1..Len(s) /\ m - 1 \notin Bad
    BY <2>1, <2>2, <2>3
  <2>5. g[m] = g[m - 1] + s[m] /\ f[m] = f[m - 1] + s[m]
    BY <1>2, <2>3, <2>4 DEF IsSums, SumsUpTo
  <2> QED BY <2>2, <2>4, <2>5
<1>5. Len(s) \in Nat
  OBVIOUS
<1> QED BY <1>3, <1>4, <1>5

\* The offsets that save() gives: one entry after the other.
LEMMA SavedOffsets ==
  ASSUME zmap \in Seq(DirEntry)
  PROVE  /\ \A i \in 1..Len(zmap) + 1 : SavedOffset(i) \in Nat
         /\ SavedOffset(1) = 0
         /\ \A i \in 1..Len(zmap) : SavedOffset(i + 1) = SavedOffset(i) + LocalLength(zmap[i])
         /\ \A i \in 1..Len(zmap), j \in 1..Len(zmap) + 1 : i < j => SavedOffset(i) < SavedOffset(j)
<1> DEFINE s == [j \in 1..Len(zmap) |-> LocalLength(zmap[j])]
<1>1. ASSUME NEW j \in 1..Len(zmap) PROVE LocalLength(zmap[j]) \in Nat \ {0}
  <2>1. zmap[j] \in DirEntry
    OBVIOUS
  <2>2. zmap[j].content \in Content
    BY <2>1 DEF DirEntry
  <2>3. zmap[j].content.csize \in Nat /\ LoFixed \in Nat \ {0}
    BY <2>2, DirAssumption DEF DirAssumption
  <2> QED BY <2>3 DEF LocalLength
<1>11. Len(zmap) \in Nat
  OBVIOUS
<1>2. s \in Seq(Nat) /\ Len(s) = Len(zmap)
  BY <1>1, <1>11
<1>3. PICK f : IsSums(f, s)
  BY <1>2, SumsExist
<1>4. ASSUME NEW i \in 1..Len(zmap) + 1 PROVE SavedOffset(i) = f[i - 1]
  <2> DEFINE p == [j \in 1..i - 1 |-> LocalLength(zmap[j])]
             h == [n \in 0..i - 1 |-> f[n]]
  <2>1. p \in Seq(Nat) /\ Len(p) = i - 1
    BY <1>1, <1>11
  <2>2. IsSums(h, p)
    <3>1. h \in [0..i - 1 -> Nat] /\ h[0] = 0
      BY <1>1, <1>11, <1>2, <1>3 DEF IsSums, SumsUpTo
    <3>2. ASSUME NEW n \in 1..i - 1 PROVE h[n] = h[n - 1] + p[n]
      <4>1. n \in 1..Len(zmap) /\ n - 1 \in 0..i - 1 /\ n \in 0..i - 1
        BY <1>1, <1>11
      <4>2. f[n] = f[n - 1] + s[n]
        BY <1>2, <1>3, <4>1 DEF IsSums, SumsUpTo
      <4> QED BY <4>1, <4>2
    <3> QED BY <2>1, <3>1, <3>2 DEF IsSums, SumsUpTo
  <2>3. Sum(p) = h[i - 1]
    BY <2>1, <2>2, SumIs
  <2>4. i - 1 \in 0..i - 1
    BY <1>1, <1>11
  <2> QED BY <2>3, <2>4 DEF SavedOffset
<1>5. \A i \in 1..Len(zmap) + 1 : SavedOffset(i) \in Nat
  BY <1>1, <1>11, <1>2, <1>3, <1>4 DEF IsSums, SumsUpTo
<1>6. SavedOffset(1) = 0
  BY <1>1, <1>11, <1>3, <1>4 DEF IsSums, SumsUpTo
<1>7. ASSUME NEW i \in 1..Len(zmap)
      PROVE  SavedOffset(i + 1) = SavedOffset(i) + LocalLength(zmap[i])
  <2>1. i \in 1..Len(zmap) + 1 /\ i + 1 \in 1..Len(zmap) + 1 /\ (i + 1) - 1 = i
    BY <1>1, <1>11
  <2>2. f[i] = f[i - 1] + s[i]
    BY <1>2, <1>3 DEF IsSums, SumsUpTo
  <2> QED BY <1>4, <2>1, <2>2
<1>8. ASSUME NEW i \in 1..Len(zmap), NEW k \in 1..Len(zmap) + 1, i < k, SavedOffset(i) >= SavedOffset(k)
      PROVE  FALSE
  <2> DEFINE Bad == {j \in 1..Len(zmap) + 1 : i < j /\ SavedOffset(i) >= SavedOffset(j)}
  <2>1. Bad \in SUBSET Nat /\ Bad # {}
    BY <1>8
  <2>2. PICK m \in Bad : \A x \in Bad : m <= x
    BY <2>1, MinimumOf
  <2>3. m - 1 \in 1..Len(zmap) /\ (m - 1) + 1 = m /\ m \in 1..Len(zmap) + 1
    BY <1>1, <1>11, <2>2
  <2>4. SavedOffset(m) = SavedOffset(m - 1) + LocalLength(zmap[m - 1])
    BY <1>7, <2>3
  <2>5. m - 1 = i \/ (m - 1 > i /\ m - 1 \notin Bad)
    BY <2>2, <2>3
  <2>6. SavedOffset(m - 1) >= SavedOffset(i)
    BY <1>5, <2>3, <2>5
  <2> QED BY <1>1, <1>11, <1>5, <2>2, <2>3, <2>4, <2>6
<1> QED BY <1>5, <1>6, <1>7, <1>8, <1>5

-----------------------------------------------------------------------------
(* The state is well formed.                                               *)

\* What the state always is made of; zmap holds the file's contents, in memory
\* or not, and the directory is where the file tells.
DirTyped ==
  /\ IsFile(zf) /\ zmap \in Seq(DirEntry)
  /\ zpc \in {"closed", "open", "load", "loaded", "invalid", "error"}
  /\ zcent \in {0, zf.start} /\ zcomment \in Nat /\ zoffset \in Nat /\ zcount \in Nat
  /\ changed \in BOOLEAN /\ saves \in 0..MaxSaves

\* Where an entry ends, its data descriptor left out.
Stop(e) == e.offset + LoFixed + zf.loc[e.offset].extra + e.content.csize

\* The header of an entry is where the directory tells, and the entry ends
\* before the next one, or before the directory if there is none.
Placed(i) ==
  /\ check_local(zmap[i]) /\ zmap[i].offset < zcent
  /\ \A j \in 1..Len(zmap) : zmap[j].offset > zmap[i].offset => Stop(zmap[i]) <= zmap[j].offset
  /\ (\A j \in 1..Len(zmap) : zmap[j].offset <= zmap[i].offset) => Stop(zmap[i]) <= zcent

\* The entries whose data load() has read.
Read == {i \in 1..Len(zmap) : zmap[i].data # NoData}

Filled(i) == zmap[i].data = zmap[i].content
OneHeader(S) == \A i, j \in S : zmap[i].offset = zmap[j].offset => i = j

LoadInv ==
  /\ zpc = "open" => Read = {}
  /\ zpc \in {"open", "load"} => ~changed
  /\ zpc = "load" => /\ zcount = Cardinality(Read) /\ OneHeader(Read)
                     /\ \A i \in Read : Filled(i) /\ Placed(i) /\ zmap[i].offset < zoffset
  /\ zpc = "loaded" => \A i \in 1..Len(zmap) : Filled(i)
  /\ JustLoaded => OneHeader(1..Len(zmap)) /\ \A i \in 1..Len(zmap) : Placed(i)

\* An entry of zmap, part by part.
LEMMA EntryParts ==
  ASSUME NEW e \in DirEntry
  PROVE  /\ e.content \in Content /\ e.offset \in Nat /\ e.extra \in Nat /\ e.bits \in 0..3
         /\ e.desc \in BOOLEAN /\ e.data \in Content \cup {NoData}
         /\ e.content.csize \in Nat /\ e.content.size \in Nat /\ LocalLength(e) \in Nat \ {0}
         /\ CentLength(e) \in Nat \ {0}
<1>1. /\ e.content \in Content /\ e.offset \in Nat /\ e.extra \in Nat /\ e.bits \in 0..3
      /\ e.desc \in BOOLEAN /\ e.data \in Content \cup {NoData}
  BY DEF DirEntry
<1>2. e.content.csize \in Nat /\ e.content.size \in Nat
  BY <1>1, DirAssumption DEF DirAssumption
<1>3. LoFixed \in Nat \ {0} /\ CoFixed \in Nat \ {0}
  BY DirAssumption DEF DirAssumption
<1>4. LocalLength(e) \in Nat \ {0} /\ CentLength(e) \in Nat \ {0}
  BY <1>1, <1>2, <1>3 DEF LocalLength, CentLength
<1> QED BY <1>1, <1>2, <1>4

\* The entry that load() comes to is the nearest one not behind it.
LEMMA NextEntryIs ==
  ASSUME zmap \in Seq(DirEntry), zoffset \in Nat,
         \E j \in 1..Len(zmap) : zmap[j].offset >= zoffset
  PROVE  /\ NextEntry \in 1..Len(zmap) /\ zmap[NextEntry].offset >= zoffset
         /\ \A j \in 1..Len(zmap) :
              zmap[j].offset >= zoffset => zmap[NextEntry].offset <= zmap[j].offset
<1> DEFINE S == {zmap[i].offset : i \in {k \in DOMAIN zmap : zmap[k].offset >= zoffset}}
           m == Minimum(S)
           I == {i \in 1..Len(zmap) : zmap[i].offset = m}
<1>1. Offsets(LAMBDA o : o >= zoffset) = S
  BY DEF Offsets
<1>2. DOMAIN zmap = 1..Len(zmap) /\ \A i \in 1..Len(zmap) : zmap[i].offset \in Nat
  BY ElementOfSeq, EntryParts
<1>3. S \in SUBSET Nat /\ S # {}
  BY <1>2
<1>4. m \in S /\ \A x \in S : m <= x
  BY <1>3, MinimumOf
<1>5. I \in SUBSET Nat /\ I # {}
  <2>1. PICK i \in DOMAIN zmap : m = zmap[i].offset
    BY <1>4
  <2>2. i \in I
    BY <1>2, <2>1
  <2>3. \A k \in I : k \in Nat
    OBVIOUS
  <2> HIDE DEF I
  <2> QED BY <2>2, <2>3
<1>6. NextEntry = Min(I)
  BY <1>1, <1>5 DEF NextEntry, SelectInSeq
<1>7. NextEntry \in I
  BY <1>5, <1>6, MinimumOf DEF Minimum, Min
<1> HIDE DEF m
<1> QED BY <1>2, <1>4, <1>7

\* An entry must end before the next one, or before the directory.
LEMMA EndOffsetIs ==
  ASSUME zmap \in Seq(DirEntry), NEW e, e.offset \in Nat
  PROVE  /\ \A j \in 1..Len(zmap) : zmap[j].offset > e.offset => EndOffset(e) <= zmap[j].offset
         /\ \/ /\ \A j \in 1..Len(zmap) : zmap[j].offset <= e.offset
               /\ EndOffset(e) = zcent
            \/ \E j \in 1..Len(zmap) : zmap[j].offset > e.offset /\ EndOffset(e) = zmap[j].offset
<1> DEFINE S == {zmap[i].offset : i \in {k \in DOMAIN zmap : zmap[k].offset > e.offset}}
<1>1. EndOffset(e) = IF S = {} THEN zcent ELSE Minimum(S)
  BY DEF EndOffset, Offsets
<1>2. DOMAIN zmap = 1..Len(zmap) /\ \A i \in 1..Len(zmap) : zmap[i].offset \in Nat
  BY ElementOfSeq, EntryParts
<1>3. CASE S = {}
  <2>1. ASSUME NEW j \in 1..Len(zmap) PROVE zmap[j].offset <= e.offset /\ ~(zmap[j].offset > e.offset)
    <3>1. ~(zmap[j].offset > e.offset)
      BY <1>2, <1>3
    <3> QED BY <1>2, <3>1
  <2> QED BY <1>1, <1>3, <2>1
<1>4. CASE S # {}
  <2>1. S \in SUBSET Nat
    BY <1>2
  <2>2. Minimum(S) \in S /\ \A x \in S : Minimum(S) <= x
    BY <1>4, <2>1, MinimumOf
  <2>3. PICK i \in DOMAIN zmap : zmap[i].offset > e.offset /\ Minimum(S) = zmap[i].offset
    BY <2>2
  <2>4. ASSUME NEW j \in 1..Len(zmap), zmap[j].offset > e.offset PROVE Minimum(S) <= zmap[j].offset
    BY <1>2, <2>2, <2>4
  <2> HIDE DEF S
  <2> QED BY <1>1, <1>2, <1>4, <2>3, <2>4
<1> QED BY <1>3, <1>4

\* save() writes a file.
LEMMA SavedFileIs ==
  ASSUME DirTyped, LoadInv, zpc = "loaded"
  PROVE  IsFile(SavedFile)
<1> DEFINE n == Len(zmap)
           Place == {SavedOffset(i) : i \in 1..n}
           lens == [i \in 1..n |-> CentLength(zmap[i])]
<1>1. DOMAIN zmap = 1..n /\ n \in Nat /\ \A i \in 1..n : zmap[i] \in DirEntry
  BY ElementOfSeq DEF DirTyped
<1>2. \A i \in 1..n : zmap[i].data = zmap[i].content
  BY DEF LoadInv, Filled
<1>3. \A i \in 1..n + 1 : SavedOffset(i) \in Nat
  BY SavedOffsets DEF DirTyped
<1>4. Sum(lens) \in Nat
  <2>1. lens \in Seq(Nat) /\ Len(lens) = n
    BY <1>1, EntryParts
  <2>2. PICK f : IsSums(f, lens)
    BY <2>1, SumsExist
  <2>3. f \in [0..n -> Nat] /\ n \in 0..n
    BY <1>1, <2>1, <2>2 DEF IsSums, SumsUpTo
  <2> HIDE DEF lens
  <2> QED BY <2>1, <2>2, <2>3, SumIs
<1>5. {SavedFile.length, SavedFile.start, SavedFile.eo, SavedFile.comment} \subseteq Nat
  <2>1. /\ SavedFile.start = SavedOffset(n + 1) /\ SavedFile.eo = SavedFile.start + Sum(lens)
        /\ SavedFile.length = SavedFile.eo + EoFixed + zcomment /\ SavedFile.comment = zcomment
    BY <1>1 DEF SavedFile
  <2>2. n + 1 \in 1..n + 1 /\ EoFixed \in Nat /\ zcomment \in Nat
    BY <1>1, DirAssumption DEF DirAssumption, DirTyped
  <2> HIDE DEF n, lens
  <2> QED BY <1>3, <1>4, <2>1, <2>2
<1>6. SavedFile.dir \in Seq(DirEntry) /\ \A i \in DOMAIN SavedFile.dir : SavedFile.dir[i].data = NoData
  <2>1. ASSUME NEW i \in 1..n PROVE SavedEntry(i) \in DirEntry /\ SavedEntry(i).data = NoData
    <3>1. SavedOffset(i) % Word \in Nat
      BY <1>1, <1>3, DirAssumption DEF DirAssumption
    <3> QED BY <1>1, <3>1 DEF SavedEntry, DirEntry
  <2>2. SavedFile.dir = [i \in 1..n |-> SavedEntry(i)]
    BY <1>1 DEF SavedFile
  <2> QED BY <1>1, <2>1, <2>2
<1>7. DOMAIN SavedFile.loc \subseteq Nat /\ \A o \in DOMAIN SavedFile.loc : SavedFile.loc[o] \in LocalHeader
  <2> DEFINE At(o) == CHOOSE i \in 1..n : SavedOffset(i) = o
  <2>1. SavedFile.loc = [o \in Place |-> [content |-> zmap[At(o)].data, desc |-> FALSE,
                                          bits |-> zmap[At(o)].bits, extra |-> 0, tail |-> 0]]
    BY <1>1 DEF SavedFile
  <2>2. \A o \in Place : At(o) \in 1..n
    OBVIOUS
  <2>3. Place \subseteq Nat
    BY <1>1, <1>3
  <2> HIDE DEF At, Place, n
  <2>4. ASSUME NEW o \in Place PROVE SavedFile.loc[o] \in LocalHeader
    <3>1. zmap[At(o)].data \in Content /\ zmap[At(o)].bits \in 0..3
      BY <1>1, <1>2, <2>2, EntryParts
    <3> QED BY <2>1, <3>1 DEF LocalHeader
  <2> QED BY <2>1, <2>3, <2>4
<1> QED BY <1>5, <1>6, <1>7 DEF IsFile

\* The j-th of two sequences, if it is in the second, which begins after i.
LEMMA InTheRest ==
  ASSUME NEW l \in Nat, NEW i \in 1..l, NEW la, NEW lb, la = i - 1, lb = l - i,
         NEW j \in 1..la + lb, j > la
  PROVE  j - la \in 1..lb /\ ~(j <= la) /\ i + (j - la) \in 1..l
OBVIOUS

\* erase() leaves the other entries as they are.
LEMMA ErasedIs ==
  ASSUME zmap \in Seq(DirEntry), NEW i \in DOMAIN zmap
  PROVE  /\ RemoveAt(zmap, i) \in Seq(DirEntry)
         /\ \A j \in 1..Len(RemoveAt(zmap, i)) : \E k \in 1..Len(zmap) : RemoveAt(zmap, i)[j] = zmap[k]
<1> DEFINE a == SubSeq(zmap, 1, i - 1)
           b == SubSeq(zmap, i + 1, Len(zmap))
<1>1. i \in 1..Len(zmap) /\ Len(zmap) \in Nat
  OBVIOUS
<1>2. /\ a \in Seq(DirEntry) /\ Len(a) = i - 1
      /\ \A j \in 1..Len(a) : a[j] = zmap[j]
  BY <1>1, SubSeqProperties
<1>3. /\ b \in Seq(DirEntry) /\ Len(b) = Len(zmap) - i
      /\ \A j \in 1..Len(b) : b[j] = zmap[i + j]
  BY <1>1, SubSeqProperties
<1>4. RemoveAt(zmap, i) = a \o b
  BY DEF RemoveAt
<1> HIDE DEF a, b
<1>5. /\ a \o b \in Seq(DirEntry) /\ Len(a \o b) = Len(a) + Len(b)
      /\ \A j \in 1..Len(a) + Len(b) : (a \o b)[j] = IF j <= Len(a) THEN a[j] ELSE b[j - Len(a)]
  BY <1>2, <1>3, ConcatProperties
<1>6. ASSUME NEW j \in 1..Len(a) + Len(b)
      PROVE  \E k \in 1..Len(zmap) : (a \o b)[j] = zmap[k]
  <2>1. CASE j <= Len(a)
    <3>1. (a \o b)[j] = zmap[j] /\ j \in 1..Len(zmap)
      BY <1>1, <1>2, <1>5, <2>1
    <3> QED BY <3>1
  <2>2. CASE j > Len(a)
    <3>0. Len(a) = i - 1 /\ Len(b) = Len(zmap) - i /\ i \in 1..Len(zmap) /\ Len(zmap) \in Nat
      BY <1>1, <1>2, <1>3
    <3>1. j - Len(a) \in 1..Len(b) /\ ~(j <= Len(a)) /\ i + (j - Len(a)) \in 1..Len(zmap)
      BY <2>2, <3>0, InTheRest
    <3>2. (a \o b)[j] = zmap[i + (j - Len(a))]
      BY <1>3, <1>5, <3>1
    <3> QED BY <3>1, <3>2
  <2>3. Len(a) \in Nat /\ j \in Int
    BY <1>1, <1>2
  <2> QED BY <2>1, <2>2, <2>3
<1> QED BY <1>4, <1>5, <1>6

\* The place of an entry is told by what does not change while load() reads.
LEMMA PlaceStays ==
  ASSUME zf' = zf, zcent' = zcent, Len(zmap') = Len(zmap),
         \A j \in 1..Len(zmap) :
           /\ zmap'[j].content = zmap[j].content /\ zmap'[j].desc = zmap[j].desc
           /\ zmap'[j].bits = zmap[j].bits /\ zmap'[j].offset = zmap[j].offset,
         NEW i \in 1..Len(zmap), Placed(i)
  PROVE  Placed(i)'
<1>1. check_local(zmap[i])'
  BY DEF check_local, Placed
<1>2. Stop(zmap[i])' = Stop(zmap[i])
  BY DEF Stop
<1> QED BY <1>1, <1>2 DEF Placed

\* An entry that load() takes is placed as it must be.
LEMMA EntryPlaced ==
  ASSUME DirTyped, NEW i \in 1..Len(zmap), zmap[i].offset < zcent, check_local(zmap[i]),
         EndOffset(zmap[i]) >= zmap[i].offset + LoFixed,
         load_local(zmap[i], EndOffset(zmap[i]) - zmap[i].offset - LoFixed)
  PROVE  Placed(i) /\ EntryEnd(zmap[i]) \in Nat /\ EntryEnd(zmap[i]) > zmap[i].offset
<1> DEFINE e == zmap[i]
           l == zf.loc[e.offset]
           end == EndOffset(e)
<1>1. e \in DirEntry /\ e.offset \in Nat /\ e.content.csize \in Nat /\ e.desc \in BOOLEAN
  BY EntryParts, ElementOfSeq DEF DirTyped
<1>2. l.extra \in Nat /\ l.tail \in Nat
  BY DEF check_local, DirTyped, IsFile, LocalHeader
<1>3. LoFixed \in Nat \ {0} /\ zcent \in Nat
  BY DirAssumption DEF DirAssumption, DirTyped, IsFile
<1>4. \A j \in 1..Len(zmap) : zmap[j].offset \in Nat
  BY ElementOfSeq, EntryParts DEF DirTyped
<1>5. /\ \A j \in 1..Len(zmap) : zmap[j].offset > e.offset => end <= zmap[j].offset
      /\ \/ /\ \A j \in 1..Len(zmap) : zmap[j].offset <= e.offset
            /\ end = zcent
         \/ \E j \in 1..Len(zmap) : zmap[j].offset > e.offset /\ end = zmap[j].offset
  BY <1>1, EndOffsetIs DEF DirTyped
<1>6. end \in Nat
  BY <1>3, <1>4, <1>5
<1>7. Stop(e) \in Nat /\ Stop(e) <= end
  <2> HIDE DEF end
  <2>1. end - e.offset - LoFixed >= l.extra + e.content.csize
    BY DEF load_local, end
  <2>2. end \in Nat
    BY <1>6
  <2>3. Stop(e) = e.offset + LoFixed + l.extra + e.content.csize
    BY DEF Stop
  <2>4. e.offset \in Nat /\ e.content.csize \in Nat /\ l.extra \in Nat /\ LoFixed \in Nat
    BY <1>1, <1>2, <1>3
  <2> HIDE DEF e, l
  <2>5. \A o, lo, x, c, d \in Nat : d - o - lo >= x + c => o + lo + x + c <= d /\ o + lo + x + c \in Nat
    OBVIOUS
  <2>6. e.offset + LoFixed + l.extra + e.content.csize <= end
    BY <2>1, <2>2, <2>4, <2>5
  <2> QED BY <2>3, <2>4, <2>6
<1>8. EntryEnd(e) = e.offset + LoFixed + l.extra + e.content.csize + (IF e.desc THEN l.tail ELSE 0)
  BY DEF EntryEnd
<1>9. Placed(i)
  <2>1. ASSUME NEW j \in 1..Len(zmap), zmap[j].offset > e.offset PROVE Stop(e) <= zmap[j].offset
    <3> HIDE DEF e, end
    <3> QED BY <1>4, <1>5, <1>6, <1>7, <2>1
  <2>2. ASSUME \A j \in 1..Len(zmap) : zmap[j].offset <= e.offset PROVE Stop(e) <= zcent
    <3>1. \A j \in 1..Len(zmap) : ~(zmap[j].offset > e.offset)
      BY <1>1, <1>4, <2>2
    <3> HIDE DEF e, end
    <3> QED BY <1>5, <1>7, <3>1
  <2> QED BY <2>1, <2>2 DEF Placed
<1> HIDE DEF e, l
<1>10. EntryEnd(e) \in Nat /\ EntryEnd(e) > e.offset
  <2> DEFINE t == IF e.desc THEN l.tail ELSE 0
             o == e.offset
             x == l.extra
             c == e.content.csize
  <2>1. o \in Nat /\ x \in Nat /\ c \in Nat /\ t \in Nat /\ LoFixed \in Nat \ {0}
    BY <1>1, <1>2, <1>3
  <2>2. EntryEnd(e) = o + LoFixed + x + c + t
    BY <1>8
  <2> HIDE DEF t, o, x, c
  <2>3. EntryEnd(e) \in Nat /\ EntryEnd(e) > o
    BY ONLY <2>1, <2>2
  <2> QED BY <2>3 DEF o
<1> QED BY <1>9, <1>10 DEF e

LEMMA DirInit_Typed ==
  ASSUME DirInit
  PROVE  DirTyped /\ LoadInv
<1>1. DirTyped
  <2>1. zf \in DirStart /\ IsFile(zf)
    BY DirAssumption DEF DirAssumption, DirInit
  <2>2. zmap \in Seq(DirEntry) /\ saves \in 0..MaxSaves
    BY DirAssumption DEF DirAssumption, DirInit
  <2> QED BY <2>1, <2>2 DEF DirInit, DirTyped
<1>2. LoadInv
  BY DEF DirInit, LoadInv, JustLoaded
<1> QED BY <1>1, <1>2

\* Where nothing is loading, nothing is said.
LEMMA NotLoading ==
  ASSUME zpc' \in {"closed", "invalid", "error"}
  PROVE  LoadInv'
<1>1. /\ zpc' # "open" /\ zpc' # "load" /\ zpc' # "loaded"
      /\ zpc' \notin {"open", "load"} /\ ~JustLoaded'
  BY DEF JustLoaded
<1> QED BY <1>1 DEF LoadInv

\* An entry is read: it was not before, and is where no other one is.
LEMMA LoadEntry_Typed ==
  ASSUME DirTyped, LoadInv, LoadEntry
  PROVE  DirTyped' /\ LoadInv'
<1> DEFINE i == NextEntry
           e == zmap[i]
           n == Len(zmap)
<1>1. /\ i \in 1..n /\ e.offset >= zoffset
      /\ zmap \in Seq(DirEntry) /\ n \in Nat /\ zoffset \in Nat
  <2>1. zmap \in Seq(DirEntry) /\ zoffset \in Nat
    BY DEF DirTyped
  <2>2. \E j \in 1..n : zmap[j].offset >= zoffset
    BY <2>1 DEF LoadEntry, Offsets
  <2> QED BY <2>1, <2>2, NextEntryIs
<1>2. CASE zpc' = "invalid" /\ UNCHANGED <<zmap, zoffset, zcount>>
  <2>1. DirTyped'
    BY <1>2 DEF DirTyped, LoadEntry
  <2> QED BY <1>2, <2>1, NotLoading
<1>3. CASE /\ e.offset < zcent /\ EndOffset(e) >= e.offset + LoFixed /\ check_local(e)
           /\ load_local(e, EndOffset(e) - e.offset - LoFixed)
           /\ zmap' = [zmap EXCEPT ![i].data = zf.loc[e.offset].content]
           /\ zoffset' = EntryEnd(e) /\ zcount' = zcount + 1 /\ UNCHANGED zpc
  <2>1. Placed(i) /\ EntryEnd(e) \in Nat /\ EntryEnd(e) > e.offset
    BY <1>1, <1>3, EntryPlaced
  <2>2. zpc = "load" /\ zpc' = "load" /\ UNCHANGED <<zf, zcent, zcomment, changed, saves>>
    BY <1>3 DEF LoadEntry
  <2>3. zf.loc[e.offset].content = e.content
    BY <1>3 DEF check_local
  <2> HIDE DEF i
  <2>4. e \in DirEntry /\ e.content \in Content /\ e.offset \in Nat
    BY <1>1, ElementOfSeq, EntryParts
  <2>5. zmap' = [zmap EXCEPT ![i] = [e EXCEPT !.data = e.content]]
    BY <1>3, <2>3
  <2>6. [e EXCEPT !.data = e.content] \in DirEntry
    BY <2>4 DEF DirEntry
  <2>7. zmap' \in Seq(DirEntry) /\ Len(zmap') = n /\ DOMAIN zmap = 1..n
    BY <1>1, <2>5, <2>6
  <2>8. ASSUME NEW j \in 1..n
        PROVE  /\ zmap'[j].content = zmap[j].content /\ zmap'[j].desc = zmap[j].desc
               /\ zmap'[j].bits = zmap[j].bits /\ zmap'[j].offset = zmap[j].offset
               /\ zmap'[j].data = IF j = i THEN e.content ELSE zmap[j].data
    <3>1. zmap[j] \in DirEntry
      BY <1>1, ElementOfSeq
    <3>2. zmap'[j] = IF j = i THEN [e EXCEPT !.data = e.content] ELSE zmap[j]
      BY <1>1, <2>5, <2>7
    <3> QED BY <2>4, <3>1, <3>2 DEF DirEntry
  <2>9. DirTyped'
    <3>1. zoffset' \in Nat /\ zcount' \in Nat
      BY <1>3, <2>1 DEF DirTyped
    <3> QED BY <2>2, <2>7, <3>1 DEF DirTyped
  <2>10. e.content # NoData
    BY <2>4, DirAssumption DEF DirAssumption
  <2>11. /\ zcount = Cardinality(Read) /\ OneHeader(Read)
         /\ \A k \in Read : Filled(k) /\ Placed(k) /\ zmap[k].offset < zoffset
    BY <2>2 DEF LoadInv
  <2>12. \A k \in 1..n : zmap[k].offset \in Nat
    BY <1>1, ElementOfSeq, EntryParts
  <2>13. i \notin Read
    BY <1>1, <2>11, <2>12
  <2>14. Read' = Read \cup {i}
    <3>1. Read' = {k \in 1..n : zmap'[k].data # NoData}
      BY <2>7 DEF Read
    <3> QED BY <1>1, <2>8, <2>10, <3>1 DEF Read
  <2>15. zcount' = Cardinality(Read')
    <3>1. IsFiniteSet(Read)
      <4>1. IsFiniteSet(1..n)
        BY <1>1, FS_Interval, 1 \in Int, n \in Int
      <4>2. Read \in SUBSET (1..n)
        BY DEF Read
      <4> QED BY <4>1, <4>2, FS_Subset
    <3> QED BY <1>3, <2>11, <2>13, <2>14, <3>1, FS_AddElement
  <2>16. \A k \in Read' : Filled(k)' /\ Placed(k)' /\ zmap'[k].offset < zoffset'
    <3>1. ASSUME NEW k \in Read' PROVE Filled(k)' /\ Placed(k)' /\ zmap'[k].offset < zoffset'
      <4>1. k \in 1..n
        BY <1>1, <2>14 DEF Read
      <4>2. CASE k = i
        <5>1. Placed(k)'
          BY <2>1, <2>2, <2>7, <2>8, <4>1, <4>2, PlaceStays
        <5>2. Filled(k)' /\ zmap'[k].offset < zoffset'
          BY <1>3, <2>1, <2>8, <4>1, <4>2 DEF Filled
        <5> QED BY <5>1, <5>2
      <4>3. CASE k # i
        <5>1. k \in Read
          BY <2>14, <4>3
        <5>2. Placed(k)'
          BY <2>2, <2>7, <2>8, <2>11, <4>1, <5>1, PlaceStays
        <5>3. zoffset < zoffset'
          BY <1>1, <1>3, <2>1, <2>4
        <5>4. Filled(k)' /\ zmap'[k].offset = zmap[k].offset /\ zmap[k].offset < zoffset
          BY <2>8, <2>11, <4>1, <4>3, <5>1 DEF Filled
        <5> QED BY <1>1, <1>3, <2>1, <2>12, <4>1, <5>2, <5>3, <5>4
      <4> QED BY <4>2, <4>3
    <3> QED BY <3>1
  <2>17. OneHeader(Read)'
    <3>1. ASSUME NEW k \in Read PROVE k \in 1..n /\ zmap[k].offset < e.offset
      BY <1>1, <2>4, <2>11, <2>12 DEF Read
    <3>2. \A k \in Read' : k \in 1..n /\ zmap'[k].offset = zmap[k].offset
      BY <1>1, <2>8, <2>14, <3>1
    <3>3. ASSUME NEW j \in Read', NEW k \in Read', zmap[j].offset = zmap[k].offset
          PROVE  j = k
      <4>1. CASE j \in Read /\ k \in Read
        BY <2>11, <3>3, <4>1 DEF OneHeader
      <4>2. CASE j = i /\ k \in Read
        BY <2>4, <2>12, <3>1, <3>3, <4>2
      <4>3. CASE j \in Read /\ k = i
        BY <2>4, <2>12, <3>1, <3>3, <4>3
      <4> QED BY <2>14, <4>1, <4>2, <4>3
    <3> QED BY <3>2, <3>3 DEF OneHeader
  <2>18. ~changed'
    BY <2>2 DEF LoadInv
  <2> QED BY <2>2, <2>9, <2>15, <2>16, <2>17, <2>18 DEF LoadInv, JustLoaded
<1> QED BY <1>2, <1>3 DEF LoadEntry

\* As many headers as entries: every entry has been read.
LEMMA LoadEnds_Typed ==
  ASSUME DirTyped, LoadInv, DirLoadEnds
  PROVE  DirTyped' /\ LoadInv'
<1>1. DirTyped'
  BY DEF DirTyped, DirLoadEnds
<1>2. zpc = "load" /\ UNCHANGED <<zf, zmap, zcent, zcount, zoffset, changed>>
  BY DEF DirLoadEnds
<1>3. CASE zpc' = "invalid"
  BY <1>1, <1>3, NotLoading
<1>4. CASE zpc' = "loaded"
  <2>1. zcount = Len(zmap) /\ Len(zmap) \in Nat
    BY <1>4 DEF DirLoadEnds, DirTyped
  <2>2. IsFiniteSet(1..Len(zmap)) /\ Cardinality(1..Len(zmap)) = Len(zmap)
    <3>1. 1 \in Int /\ Len(zmap) \in Int
      BY <2>1
    <3>2. /\ IsFiniteSet(1..Len(zmap))
          /\ Cardinality(1..Len(zmap)) = IF 1 > Len(zmap) THEN 0 ELSE Len(zmap) - 1 + 1
      BY <3>1, FS_Interval
    <3> QED BY <2>1, <3>2
  <2>3. Read = 1..Len(zmap)
    <3>1. Read \in SUBSET (1..Len(zmap)) /\ Cardinality(Read) = Cardinality(1..Len(zmap))
      BY <1>2, <2>1, <2>2 DEF LoadInv, Read
    <3> QED BY <2>2, <3>1, FS_Subset
  <2>4. OneHeader(1..Len(zmap)) /\ \A k \in 1..Len(zmap) : Filled(k) /\ Placed(k)
    BY <1>2, <2>3 DEF LoadInv
  <2>5. (OneHeader(1..Len(zmap)))'
    BY <1>2, <2>4 DEF OneHeader
  <2>6. \A k \in 1..Len(zmap) : Filled(k)' /\ Placed(k)'
    BY <1>2, <2>4 DEF Filled, Placed, check_local, Stop
  <2>7. zmap' = zmap /\ zpc' # "open" /\ zpc' # "load" /\ zpc' \notin {"open", "load"}
    BY <1>2, <1>4
  <2> QED BY <1>1, <2>5, <2>6, <2>7 DEF LoadInv
<1> QED BY <1>1, <1>3, <1>4 DEF DirLoadEnds

LEMMA Opened_Typed ==
  ASSUME DirTyped, LoadInv, ZipOpen
  PROVE  DirTyped' /\ LoadInv'
<1>1. /\ zpc' \in {"open", "invalid"} /\ zcent' \in {0, zf.start} /\ zcomment' \in Nat
      /\ zmap' \in Seq(DirEntry)
  <2>1. CASE cent_read(zf) /\ DirectoryThere(zf)
    <3>1. zf.start \in Nat /\ zf.comment \in Nat /\ zf.dir \in Seq(DirEntry)
      BY DEF DirTyped, IsFile
    <3>2. zf.start % Word = zf.start
      <4>1. Word \in Nat \ {0} /\ zf.start \in Nat /\ zf.start < Word
        BY <2>1, <3>1, DirAssumption DEF DirAssumption, DirectoryThere
      <4> QED BY <4>1
    <3> QED BY <2>1, <3>1, <3>2 DEF ZipOpen
  <2>2. CASE ~(cent_read(zf) /\ DirectoryThere(zf))
    BY <2>2 DEF ZipOpen, DirTyped
  <2> QED BY <2>1, <2>2
<1>2. DirTyped'
  BY <1>1 DEF ZipOpen, DirTyped
<1>3. CASE zpc' = "invalid"
  BY <1>2, <1>3, NotLoading
<1>4. CASE zpc' = "open"
  <2>1. zmap' = zf.dir /\ changed' = FALSE
    BY <1>4 DEF ZipOpen
  <2>2. Read' = {}
    BY <2>1 DEF Read, DirTyped, IsFile
  <2> QED BY <1>2, <1>4, <2>1, <2>2 DEF LoadInv, JustLoaded
<1> QED BY <1>1, <1>3, <1>4

LEMMA LoadStarts_Typed ==
  ASSUME DirTyped, LoadInv, LoadStarts
  PROVE  DirTyped' /\ LoadInv'
<1>1. /\ zpc' = "load" /\ zpc = "open" /\ zcount' = 0 /\ zoffset' = 0
      /\ UNCHANGED <<zf, zmap, zcent, zcomment, changed, saves>>
  BY DEF LoadStarts
<1>2. DirTyped'
  BY <1>1 DEF DirTyped
<1>3. Read' = {}
  BY <1>1 DEF LoadInv, Read
<1>4. Cardinality({}) = 0
  BY FS_EmptySet
<1> QED BY <1>1, <1>2, <1>3, <1>4 DEF LoadInv, JustLoaded, OneHeader

LEMMA Fetch_Typed ==
  ASSUME DirTyped, LoadInv, NEW i \in DOMAIN zmap, Fetch(i)
  PROVE  DirTyped' /\ LoadInv'
<1>1. DirTyped'
  BY DEF Fetch, DirTyped
<1>2. CASE zpc' = "error"
  BY <1>1, <1>2, NotLoading
<1>3. CASE zpc' = zpc
  <2>1. zpc = "open" /\ zpc' = "open" /\ zmap' = zmap /\ changed' = changed
    BY <1>3 DEF Fetch
  <2>2. Read' = {}
    BY <2>1 DEF LoadInv, Read
  <2> QED BY <1>1, <2>1, <2>2 DEF LoadInv, JustLoaded
<1> QED BY <1>2, <1>3 DEF Fetch

\* What is inserted, or left, has its data, and it is not what the file holds.
LEMMA Change_Typed ==
  ASSUME DirTyped, LoadInv,
         (\E c \in Content : Insert(c)) \/ (\E i \in DOMAIN zmap : Erase(i))
  PROVE  DirTyped' /\ LoadInv'
<1>1. ASSUME zpc = "loaded", zpc' = "loaded", changed' = TRUE, zmap' \in Seq(DirEntry),
             UNCHANGED <<zf, zcent, zcomment, zoffset, zcount, saves>>,
             \A i \in 1..Len(zmap') : zmap'[i].data = zmap'[i].content
      PROVE  DirTyped' /\ LoadInv'
  <2>1. DirTyped'
    BY <1>1 DEF DirTyped
  <2> QED BY <1>1, <2>1 DEF LoadInv, JustLoaded, Filled
<1>2. ASSUME zpc = "loaded" PROVE \A i \in 1..Len(zmap) : zmap[i].data = zmap[i].content
  BY <1>2 DEF LoadInv, Filled
<1>3. ASSUME NEW c \in Content, Insert(c) PROVE DirTyped' /\ LoadInv'
  <2>1. CASE Insertable(c)
    <3> DEFINE new == [content |-> c, desc |-> FALSE, bits |-> set_bits(method_get(c)),
                       extra |-> 0, offset |-> 0, data |-> c]
    <3>1. set_bits(method_get(c)) \in 0..3
      BY DEF set_bits
    <3>2. new \in DirEntry /\ new.data = new.content
      BY <3>1 DEF DirEntry
    <3> HIDE DEF new
    <3>3. zmap' = Append(zmap, new) /\ zmap \in Seq(DirEntry)
      BY <1>3, <2>1 DEF Insert, DirTyped, new
    <3>4. /\ zmap' \in Seq(DirEntry) /\ Len(zmap') = Len(zmap) + 1
          /\ \A i \in 1..Len(zmap) : zmap'[i] = zmap[i]
          /\ zmap'[Len(zmap) + 1] = new
      BY <3>2, <3>3, AppendProperties
    <3>5. \A i \in 1..Len(zmap') : zmap'[i].data = zmap'[i].content
      <4>1. zpc = "loaded" /\ Len(zmap) \in Nat
        BY <1>3, <3>3 DEF Insert
      <4>2. \A i \in 1..Len(zmap') : i \in 1..Len(zmap) \/ i = Len(zmap) + 1
        BY <3>4, <4>1
      <4> QED BY <1>2, <3>2, <3>4, <4>1, <4>2
    <3> QED BY <1>1, <1>3, <2>1, <3>4, <3>5 DEF Insert
  <2>2. CASE ~Insertable(c)
    <3>1. zpc' = "error" /\ UNCHANGED <<zf, zmap, zcent, zcomment, zoffset, zcount, changed, saves>>
      BY <1>3, <2>2 DEF Insert
    <3>2. DirTyped'
      BY <3>1 DEF DirTyped
    <3> QED BY <3>1, <3>2, NotLoading
  <2> QED BY <2>1, <2>2
<1>4. ASSUME NEW i \in DOMAIN zmap, Erase(i) PROVE DirTyped' /\ LoadInv'
  <2>1. zmap' = RemoveAt(zmap, i) /\ zpc = "loaded"
    BY <1>4 DEF Erase
  <2>2. /\ zmap' \in Seq(DirEntry)
        /\ \A j \in 1..Len(zmap') : \E k \in 1..Len(zmap) : zmap'[j] = zmap[k]
    BY <2>1, ErasedIs DEF DirTyped
  <2>3. \A j \in 1..Len(zmap') : zmap'[j].data = zmap'[j].content
    BY <1>2, <2>1, <2>2
  <2> QED BY <1>1, <1>4, <2>2, <2>3 DEF Erase
<1> QED BY <1>3, <1>4

LEMMA Save_Typed ==
  ASSUME DirTyped, LoadInv, Save
  PROVE  DirTyped' /\ LoadInv'
<1>1. /\ zpc' = "closed" /\ zmap' = <<>> /\ zcent' = 0 /\ zcomment' = 0 /\ changed' = FALSE
      /\ zf' = SavedFile /\ saves' = saves + 1 /\ saves < MaxSaves /\ zpc = "loaded"
      /\ UNCHANGED <<zoffset, zcount>>
  BY DEF Save
<1>2. IsFile(zf)'
  BY <1>1, SavedFileIs DEF IsFile
<1>3. saves' \in 0..MaxSaves /\ zmap' \in Seq(DirEntry)
  BY <1>1, DirAssumption DEF DirAssumption, DirTyped
<1>4. DirTyped'
  BY <1>1, <1>2, <1>3 DEF DirTyped
<1> QED BY <1>1, <1>4, NotLoading

LEMMA DirStep ==
  ASSUME DirTyped, LoadInv, [DirNext]_dirVars
  PROVE  DirTyped' /\ LoadInv'
<1>1. CASE UNCHANGED dirVars
  BY <1>1 DEF dirVars, DirTyped, LoadInv, JustLoaded, Read, Filled, Placed, OneHeader, check_local, Stop
<1>2. CASE \E i \in DOMAIN zmap : Fetch(i) \/ Erase(i)
  BY <1>2, Fetch_Typed, Change_Typed
<1>3. CASE \E c \in Content : Insert(c)
  BY <1>3, Change_Typed
<1> QED BY <1>1, <1>2, <1>3, Opened_Typed, LoadStarts_Typed, LoadEntry_Typed, LoadEnds_Typed,
           Save_Typed DEF DirNext

\* The state of an archive is well formed, and of what load() has accepted
\* every entry has been read, and lies apart from the others.
THEOREM DirInvariant == DirSpec => [](DirTyped /\ LoadInv)
<1>1. DirInit => DirTyped /\ LoadInv
  BY DirInit_Typed
<1>2. (DirTyped /\ LoadInv) /\ [DirNext]_dirVars => (DirTyped /\ LoadInv)'
  BY DirStep
<1> QED BY <1>1, <1>2, PTL DEF DirSpec

LEMMA DirTypesFromInv == DirTyped /\ LoadInv => DirTypeOK
<1> SUFFICES ASSUME DirTyped, LoadInv PROVE DirTypeOK
  OBVIOUS
<1>1. Len(zmap) \in Nat /\ DOMAIN zmap = 1..Len(zmap)
  BY DEF DirTyped
<1>2. \A i \in DOMAIN zmap : zmap[i].data \in Content \cup {NoData}
  BY <1>1, ElementOfSeq, EntryParts DEF DirTyped
<1>3. zpc = "load" => zcount <= Len(zmap)
  <2>1. 1 \in Int /\ Len(zmap) \in Int
    BY <1>1
  <2>2. /\ IsFiniteSet(1..Len(zmap))
        /\ Cardinality(1..Len(zmap)) = IF 1 > Len(zmap) THEN 0 ELSE Len(zmap) - 1 + 1
    BY <2>1, FS_Interval
  <2>3. Read \in SUBSET (1..Len(zmap))
    BY DEF Read
  <2>4. Cardinality(Read) <= Len(zmap)
    <3>1. Cardinality(Read) <= Cardinality(1..Len(zmap))
      BY <2>2, <2>3, FS_Subset
    <3>2. Cardinality(1..Len(zmap)) = Len(zmap)
      BY <1>1, <2>2
    <3> QED BY <3>1, <3>2
  <2> QED BY <2>4 DEF LoadInv
<1> QED BY <1>2, <1>3 DEF DirTypeOK, DirTyped

\* The directory is taken to be where the field tells, and load() counts no
\* more headers than the directory has entries.
THEOREM DirWellFormed == DirSpec => []DirTypeOK
BY DirTypesFromInv, DirInvariant, PTL

\* Of an archive of any program that load() accepts, every entry is read, no
\* entry shares a byte with another or with the directory, and compressed_read()
\* finds in the file what load() has found.
THEOREM LoadedIsSound == DirSpec => []LoadedSound
<1>1. DirTyped /\ LoadInv => LoadedSound
  <2> SUFFICES ASSUME DirTyped, LoadInv, JustLoaded PROVE LoadedSound
    BY DEF LoadedSound, EveryEntryLoaded, LoadedDisjoint, SeekAgreesWithLoad
  <2>1. DOMAIN zmap = 1..Len(zmap) /\ \A i \in 1..Len(zmap) : zmap[i] \in DirEntry
    BY ElementOfSeq DEF DirTyped
  <2>2. OneHeader(1..Len(zmap)) /\ \A i \in 1..Len(zmap) : Placed(i) /\ Filled(i)
    BY DEF LoadInv, JustLoaded
  <2>3. EveryEntryLoaded
    BY <2>1, <2>2 DEF EveryEntryLoaded, Filled
  <2>4. ASSUME NEW i \in 1..Len(zmap)
        PROVE  /\ zmap[i].offset \in Nat /\ Stop(zmap[i]) \in Nat /\ Stop(zmap[i]) <= zcent
               /\ Span(zmap[i]) = zmap[i].offset..Stop(zmap[i]) - 1
    <3>1. zmap[i].offset \in Nat /\ zmap[i].content.csize \in Nat
      BY <2>1, EntryParts
    <3>2. zf.loc[zmap[i].offset].extra \in Nat
      BY <2>2 DEF Placed, check_local, DirTyped, IsFile, LocalHeader
    <3>3. LoFixed \in Nat /\ zcent \in Nat
      BY DirAssumption DEF DirAssumption, DirTyped, IsFile
    <3>4. Stop(zmap[i]) \in Nat
      <4>1. \A o, lo, x, c \in Nat : o + lo + x + c \in Nat
        OBVIOUS
      <4> QED BY <3>1, <3>2, <3>3, <4>1 DEF Stop
    <3>5. Stop(zmap[i]) <= zcent
      <4>1. CASE \A j \in 1..Len(zmap) : zmap[j].offset <= zmap[i].offset
        BY <2>2, <4>1 DEF Placed
      <4>2. CASE \E j \in 1..Len(zmap) : ~(zmap[j].offset <= zmap[i].offset)
        <5>1. PICK j \in 1..Len(zmap) : ~(zmap[j].offset <= zmap[i].offset)
          BY <4>2
        <5>2. zmap[j].offset \in Nat
          BY <2>1, EntryParts
        <5>3. Stop(zmap[i]) <= zmap[j].offset /\ zmap[j].offset < zcent
          BY <2>2, <3>1, <5>1, <5>2 DEF Placed
        <5> QED BY <3>3, <3>4, <5>2, <5>3
      <4> QED BY <4>1, <4>2
    <3>6. Span(zmap[i]) = zmap[i].offset..Stop(zmap[i]) - 1
      <4> DEFINE o == zmap[i].offset
                 x == zf.loc[o].extra
                 c == zmap[i].content.csize
      <4>1. Stop(zmap[i]) = o + LoFixed + x + c
        BY DEF Stop
      <4>2. Span(zmap[i]) = o..(o + LoFixed + x + c - 1)
        BY DEF Span
      <4>3. o \in Nat /\ x \in Nat /\ c \in Nat
        BY <3>1, <3>2
      <4> HIDE DEF o, x, c
      <4>4. o + LoFixed + x + c - 1 = (o + LoFixed + x + c) - 1
        BY <3>3, <4>3
      <4>5. Span(zmap[i]) = o..Stop(zmap[i]) - 1
        BY <4>1, <4>2, <4>4
      <4> QED BY <4>5 DEF o
    <3> QED BY <3>1, <3>4, <3>5, <3>6
  <2>5. LoadedDisjoint
    <3>1. ASSUME NEW i \in 1..Len(zmap), NEW o \in Span(zmap[i]) PROVE o < zcent
      <4>1. zcent \in Nat
        BY DEF DirTyped, IsFile
      <4> QED BY <2>4, <4>1
    <3>2. ASSUME NEW i \in 1..Len(zmap), NEW j \in 1..Len(zmap),
                 zmap[i].offset < zmap[j].offset
          PROVE  Span(zmap[i]) \cap Span(zmap[j]) = {}
      <4>1. Stop(zmap[i]) <= zmap[j].offset
        BY <2>2, <2>4, <3>2 DEF Placed
      <4> QED BY <2>4, <4>1
    <3>3. ASSUME NEW i \in 1..Len(zmap), NEW j \in 1..Len(zmap), i # j
          PROVE  Span(zmap[i]) \cap Span(zmap[j]) = {}
      <4>1. zmap[i].offset # zmap[j].offset
        BY <2>2, <3>3 DEF OneHeader
      <4>2. zmap[i].offset < zmap[j].offset \/ zmap[j].offset < zmap[i].offset
        BY <2>4, <4>1
      <4> QED BY <3>2, <4>2
    <3> QED BY <2>1, <3>1, <3>3 DEF LoadedDisjoint
  <2>6. SeekAgreesWithLoad
    <3>1. ASSUME NEW i \in 1..Len(zmap)
          PROVE  compressed_read([zmap[i] EXCEPT !.data = NoData]) = zmap[i].data
      <4> DEFINE e == [zmap[i] EXCEPT !.data = NoData]
      <4>1. /\ e.data = NoData /\ e.offset = zmap[i].offset /\ e.content = zmap[i].content
            /\ e.desc = zmap[i].desc /\ e.bits = zmap[i].bits
        BY <2>1 DEF DirEntry
      <4> HIDE DEF e
      <4>2. check_local(e) /\ zf.loc[e.offset].content = zmap[i].content
        BY <2>2, <4>1 DEF Placed, check_local
      <4>3. compressed_read(e) = zmap[i].data
        BY <2>2, <4>1, <4>2 DEF compressed_read, Filled
      <4> QED BY <4>3 DEF e
    <3> QED BY <2>1, <3>1 DEF SeekAgreesWithLoad
  <2> QED BY <2>3, <2>5, <2>6 DEF LoadedSound
<1> QED BY <1>1, DirInvariant, PTL

-----------------------------------------------------------------------------
(* What save() writes.                                                     *)

\* Where the i-th entry of a saved file ends.
After(f, i) == IF i = Len(f.dir) THEN f.start ELSE f.dir[i + 1].offset

\* One entry after the other from the start of the file, then the directory,
\* then its end with the comment; each header tells what the directory tells.
LaidOut(f) ==
  /\ f.length = f.eo + EoFixed + f.comment /\ f.start <= f.eo
  /\ f.length < Word =>
       /\ After(f, 0) = 0
       /\ \A i \in 1..Len(f.dir) :
            /\ After(f, i) = f.dir[i].offset + LocalLength(f.dir[i])
            /\ f.dir[i].offset < f.start /\ f.dir[i].offset \in DOMAIN f.loc
            /\ f.loc[f.dir[i].offset] = [content |-> f.dir[i].content, desc |-> FALSE,
                                         bits |-> f.dir[i].bits, extra |-> 0, tail |-> 0]
            /\ ~f.dir[i].desc
       /\ \A i, j \in 1..Len(f.dir) : i < j => f.dir[i].offset < f.dir[j].offset

\* The options of an entry are those its data were compressed with.
OwnBits(f) ==
  \A i \in 1..Len(f.dir) :
    f.dir[i].content.method \in {"deflate", "implode"} => f.dir[i].bits = f.dir[i].content.bits

\* zmap is the directory of the file, except for the data.
AsInFile ==
  /\ Len(zmap) = Len(zf.dir) /\ zcent = zf.start
  /\ \A i \in 1..Len(zmap) :
       /\ zmap[i].content = zf.dir[i].content /\ zmap[i].desc = zf.dir[i].desc
       /\ zmap[i].bits = zf.dir[i].bits /\ zmap[i].offset = zf.dir[i].offset

LayoutInv ==
  /\ (zpc \in {"open", "load"} \/ JustLoaded) => AsInFile
  /\ saves > 0 => LaidOut(zf) /\ promise = [i \in 1..Len(zf.dir) |-> zf.dir[i].content]
  /\ zpc = "load" /\ saves > 0 /\ zf.length < Word =>
       zcount \in 0..Len(zf.dir) /\ zoffset = After(zf, zcount)
  /\ SavedIsReadable /\ MethodKept /\ OwnBits(zf)

\* save() lays the entries out.
LEMMA SavedFileLaidOut ==
  ASSUME DirTyped, LoadInv, zpc = "loaded"
  PROVE  /\ LaidOut(SavedFile) /\ Len(SavedFile.dir) = Len(zmap)
         /\ \A i \in 1..Len(zmap) : /\ SavedFile.dir[i].content = zmap[i].content
                                    /\ SavedFile.dir[i].bits = zmap[i].bits
<1> DEFINE n == Len(zmap)
           F == SavedFile
           lens == [i \in 1..n |-> CentLength(zmap[i])]
           At(o) == CHOOSE i \in 1..n : SavedOffset(i) = o
<1>1. DOMAIN zmap = 1..n /\ n \in Nat /\ \A i \in 1..n : zmap[i] \in DirEntry
  BY ElementOfSeq DEF DirTyped
<1>2. \A i \in 1..n : zmap[i].data = zmap[i].content
  BY DEF LoadInv, Filled
<1>3. /\ \A i \in 1..n + 1 : SavedOffset(i) \in Nat
      /\ SavedOffset(1) = 0
      /\ \A i \in 1..n : SavedOffset(i + 1) = SavedOffset(i) + LocalLength(zmap[i])
      /\ \A i \in 1..n, j \in 1..n + 1 : i < j => SavedOffset(i) < SavedOffset(j)
  BY SavedOffsets DEF DirTyped
<1>4. Sum(lens) \in Nat
  <2>1. lens \in Seq(Nat) /\ Len(lens) = n
    BY <1>1, EntryParts
  <2>2. PICK f : IsSums(f, lens)
    BY <2>1, SumsExist
  <2>3. f \in [0..n -> Nat] /\ n \in 0..n
    BY <1>1, <2>1, <2>2 DEF IsSums, SumsUpTo
  <2> HIDE DEF lens
  <2> QED BY <2>1, <2>2, <2>3, SumIs
<1>5. /\ F.start = SavedOffset(n + 1) /\ F.eo = F.start + Sum(lens)
      /\ F.length = F.eo + EoFixed + zcomment /\ F.comment = zcomment
      /\ F.dir = [i \in 1..n |-> SavedEntry(i)]
      /\ F.loc = [o \in {SavedOffset(i) : i \in 1..n} |->
                    [content |-> zmap[At(o)].data, desc |-> FALSE,
                     bits |-> zmap[At(o)].bits, extra |-> 0, tail |-> 0]]
  BY <1>1 DEF SavedFile
<1>6. Len(F.dir) = n
  BY <1>1, <1>5
<1>7. ASSUME NEW i \in 1..n
      PROVE  /\ F.dir[i].content = zmap[i].content /\ F.dir[i].bits = zmap[i].bits
             /\ F.dir[i].desc = FALSE /\ F.dir[i].offset = SavedOffset(i) % Word
  <2>1. F.dir[i] = SavedEntry(i)
    BY <1>5
  <2> QED BY <1>1, <2>1 DEF SavedEntry, DirEntry
<1>8. F.start \in Nat /\ F.eo \in Nat /\ F.length \in Nat /\ F.start <= F.eo /\ F.eo <= F.length
  <2>1. EoFixed \in Nat /\ zcomment \in Nat /\ n + 1 \in 1..n + 1
    BY <1>1, DirAssumption DEF DirAssumption, DirTyped
  <2> HIDE DEF F, lens, n
  <2> QED BY <1>3, <1>4, <1>5, <2>1
<1>9. ASSUME F.length < Word
      PROVE  /\ After(F, 0) = 0
             /\ \A i \in 1..n :
                  /\ After(F, i) = F.dir[i].offset + LocalLength(F.dir[i])
                  /\ F.dir[i].offset < F.start /\ F.dir[i].offset \in DOMAIN F.loc
                  /\ F.loc[F.dir[i].offset] = [content |-> F.dir[i].content, desc |-> FALSE,
                                               bits |-> F.dir[i].bits, extra |-> 0, tail |-> 0]
                  /\ ~F.dir[i].desc
             /\ \A i, j \in 1..n : i < j => F.dir[i].offset < F.dir[j].offset
  <2>1. Word \in Nat \ {0}
    BY DirAssumption DEF DirAssumption
  <2> HIDE DEF F, lens, n
  <2>2. ASSUME NEW i \in 1..n PROVE F.dir[i].offset = SavedOffset(i) /\ SavedOffset(i) < F.start
    <3>1. i \in 1..n + 1 /\ n + 1 \in 1..n + 1 /\ i < n + 1
      BY <1>1
    <3>2. SavedOffset(i) \in Nat /\ SavedOffset(i) < F.start
      BY <1>3, <1>5, <3>1
    <3>3. SavedOffset(i) < Word
      BY <1>8, <1>9, <2>1, <3>2
    <3>4. SavedOffset(i) % Word = SavedOffset(i)
      BY <2>1, <3>2, <3>3
    <3> QED BY <1>7, <3>2, <3>4
  <2>3. ASSUME NEW i \in 0..n PROVE After(F, i) = SavedOffset(i + 1)
    <3>1. CASE i = n
      BY <1>5, <1>6, <3>1 DEF After
    <3>2. CASE i # n
      <4>1. i + 1 \in 1..n
        BY <1>1, <3>2
      <4> QED BY <1>6, <2>2, <3>2, <4>1 DEF After
    <3> QED BY <3>1, <3>2
  <2>4. After(F, 0) = 0
    BY <1>1, <1>3, <2>3
  <2>5. ASSUME NEW i \in 1..n
        PROVE  /\ After(F, i) = F.dir[i].offset + LocalLength(F.dir[i])
               /\ F.dir[i].offset < F.start /\ F.dir[i].offset \in DOMAIN F.loc
               /\ F.loc[F.dir[i].offset] = [content |-> F.dir[i].content, desc |-> FALSE,
                                            bits |-> F.dir[i].bits, extra |-> 0, tail |-> 0]
               /\ ~F.dir[i].desc
    <3>1. LocalLength(F.dir[i]) = LocalLength(zmap[i])
      BY <1>7 DEF LocalLength
    <3>2. After(F, i) = F.dir[i].offset + LocalLength(F.dir[i])
      BY <1>1, <1>3, <2>2, <2>3, <3>1
    <3>3. At(SavedOffset(i)) = i
      <4>1. ASSUME NEW j \in 1..n, SavedOffset(j) = SavedOffset(i) PROVE j = i
        <5>1. j \in 1..n + 1 /\ i \in 1..n + 1
          BY <1>1
        <5>2. ~(i < j) /\ ~(j < i)
          BY <1>3, <4>1, <5>1
        <5> QED BY <1>1, <5>2
      <4> QED BY <4>1
    <3> HIDE DEF At
    <3>4. F.dir[i].offset \in DOMAIN F.loc
      BY <1>5, <2>2
    <3>5. F.loc[SavedOffset(i)] = [content |-> zmap[i].data, desc |-> FALSE,
                                   bits |-> zmap[i].bits, extra |-> 0, tail |-> 0]
      BY <1>5, <3>3
    <3> QED BY <1>2, <1>7, <2>2, <3>2, <3>4, <3>5
  <2>6. ASSUME NEW i \in 1..n, NEW j \in 1..n, i < j PROVE F.dir[i].offset < F.dir[j].offset
    <3>1. j \in 1..n + 1
      BY <1>1
    <3> QED BY <1>3, <2>2, <2>6, <3>1
  <2> QED BY <2>4, <2>5, <2>6
<1> HIDE DEF F
<1>10. LaidOut(F)
  BY <1>5, <1>6, <1>8, <1>9 DEF LaidOut
<1> QED BY <1>6, <1>7, <1>10 DEF F

-----------------------------------------------------------------------------
(* What save() writes is read back.                                        *)

\* The search for the end of the directory goes back far enough.
LEMMA LastBufferReaches ==
  ASSUME NEW length \in Nat
  PROVE  /\ LastBuffer(length) \in Nat
         /\ LastBuffer(length) = length \/ LastBuffer(length) >= ReadBuffers * ReadBuffer
<1> DEFINE first == FirstBuffer(length)
           all == ReadBuffers * ReadBuffer
           tried == {first + n * ReadBuffer : n \in 0..ReadBuffers}
           stops == {b \in tried : b >= all \/ b >= length}
           least == CHOOSE b \in stops : \A c \in stops : b <= c
<1>1. ReadBuffer \in Nat /\ ReadBuffer # 0 /\ ReadBuffers \in Nat
  BY DirAssumption DEF DirAssumption
<1>2. first \in Nat
  BY <1>1 DEF FirstBuffer
<1> HIDE DEF first
<1>3. \A n \in 0..ReadBuffers : n * ReadBuffer \in Nat
  BY <1>1
<1>4. all \in Nat
  BY <1>1
<1>5. tried \in SUBSET Nat
  BY <1>1, <1>2, <1>3
<1>6. first + all \in tried /\ first + all >= all
  BY <1>1, <1>2, <1>4
<1> HIDE DEF all, tried
<1>7. stops \in SUBSET Nat /\ stops # {}
  BY <1>5, <1>6
<1>8. least \in stops
  BY <1>7, MinimumOf DEF Minimum
<1>9. LastBuffer(length) = Least(length, least)
  BY DEF LastBuffer, first, tried, all
<1> HIDE DEF least
<1>10. least \in Nat /\ (least >= all \/ least >= length)
  BY <1>5, <1>8
<1>11. LastBuffer(length) = IF length < least THEN length ELSE least
  BY <1>9 DEF Least
<1>12. LastBuffer(length) \in Nat /\ (LastBuffer(length) = length \/ LastBuffer(length) >= all)
  BY <1>4, <1>10, <1>11
<1> QED BY <1>12 DEF all

\* open() finds the directory of a file that save() wrote.
LEMMA SavedIsFound ==
  ASSUME NEW f, IsFile(f), LaidOut(f), f.length < Word, CommentFound(f)
  PROVE  cent_read(f) /\ DirectoryThere(f)
<1>1. /\ f.length \in Nat /\ f.start \in Nat /\ f.eo \in Nat /\ f.comment \in Nat
      /\ EoFixed \in Nat \ {0} /\ Word \in Nat \ {0}
  BY DirAssumption DEF IsFile, DirAssumption
<1>2. f.length = f.eo + EoFixed + f.comment /\ f.start <= f.eo /\ f.length < Word
  BY DEF LaidOut
<1> DEFINE last == LastBuffer(f.length)
           all == ReadBuffers * ReadBuffer
<1>3. last \in Nat /\ (last = f.length \/ last >= all)
  BY <1>1, LastBufferReaches
<1>4. f.comment + EoFixed <= all /\ all \in Nat
  <2>1. ReadBuffer \in Nat /\ ReadBuffers \in Nat
    BY DirAssumption DEF DirAssumption
  <2> QED BY <2>1 DEF CommentFound
<1> HIDE DEF last, all
<1>5. f.eo >= f.length - last /\ f.eo + EoFixed <= f.length /\ f.start < f.length /\ f.start < Word
  BY <1>1, <1>2, <1>3, <1>4
<1>6. f.length % Word = f.length /\ f.start % Word = f.start
  BY <1>1, <1>2, <1>5
<1> QED BY <1>5, <1>6 DEF cent_read, ecd_find_sig, DirectoryThere, last

LEMMA Opened_Saved ==
  ASSUME DirTyped, LayoutInv, ZipOpen
  PROVE  LayoutInv'
<1>1. UNCHANGED <<zf, promise, saves>> /\ zpc = "closed" /\ zpc' \in {"open", "invalid"}
  BY DEF ZipOpen
<1>2. (saves' > 0 => LaidOut(zf') /\ promise' = [i \in 1..Len(zf'.dir) |-> zf'.dir[i].content])
      /\ OwnBits(zf')
  BY <1>1 DEF LayoutInv
<1>3. CASE cent_read(zf) /\ DirectoryThere(zf)
  <2>1. zpc' = "open" /\ zmap' = zf.dir /\ zcent' = zf.start % Word
    BY <1>3 DEF ZipOpen
  <2>2. zf.start % Word = zf.start
    <3>1. Word \in Nat \ {0} /\ zf.start \in Nat /\ zf.start < Word
      BY <1>3, DirAssumption DEF DirAssumption, DirTyped, IsFile, DirectoryThere
    <3> QED BY <3>1
  <2>3. AsInFile'
    BY <1>1, <2>1, <2>2 DEF AsInFile
  <2>4. DOMAIN zf.dir = 1..Len(zf.dir)
    BY DEF DirTyped, IsFile
  <2>5. MethodKept'
    BY <1>1, <1>2, <2>1, <2>4 DEF MethodKept, OwnBits
  <2> QED BY <1>1, <1>2, <2>1, <2>3, <2>5 DEF LayoutInv, SavedIsReadable
<1>4. CASE ~(cent_read(zf) /\ DirectoryThere(zf))
  <2>1. zpc' = "invalid" /\ zmap' = zmap
    BY <1>4 DEF ZipOpen
  <2>2. SavedIsReadable'
    BY <1>1, <1>2, <1>4, SavedIsFound DEF SavedIsReadable, DirTyped, CommentFound
  <2>3. MethodKept'
    BY <2>1 DEF LayoutInv, MethodKept
  <2> QED BY <1>2, <2>1, <2>2, <2>3 DEF LayoutInv, JustLoaded
<1> QED BY <1>3, <1>4

LEMMA LoadStarts_Saved ==
  ASSUME DirTyped, LayoutInv, LoadStarts
  PROVE  LayoutInv'
<1>1. /\ zpc = "open" /\ zpc' = "load" /\ zoffset' = 0 /\ zcount' = 0
      /\ UNCHANGED <<zf, zmap, zcent, promise, saves>>
  BY DEF LoadStarts
<1>2. AsInFile'
  BY <1>1 DEF LayoutInv, AsInFile
<1>3. saves > 0 => LaidOut(zf) /\ promise = [i \in 1..Len(zf.dir) |-> zf.dir[i].content]
  BY DEF LayoutInv
<1>4. saves > 0 /\ zf.length < Word => 0 \in 0..Len(zf.dir) /\ 0 = After(zf, 0)
  <2>1. Len(zf.dir) \in Nat
    BY DEF DirTyped, IsFile
  <2> QED BY <1>3, <2>1 DEF LaidOut
<1>5. SavedIsReadable' /\ MethodKept' /\ OwnBits(zf')
  BY <1>1 DEF LayoutInv, SavedIsReadable, MethodKept
<1>6. zf' = zf /\ saves' = saves /\ promise' = promise
  BY <1>1
<1>7. zpc' = "load" => (saves' > 0 /\ zf'.length < Word =>
        zcount' \in 0..Len(zf'.dir) /\ zoffset' = After(zf', zcount'))
  BY <1>1, <1>4
<1>8. saves' > 0 => LaidOut(zf') /\ promise' = [i \in 1..Len(zf'.dir) |-> zf'.dir[i].content]
  BY <1>3, <1>6
<1> QED BY <1>2, <1>5, <1>7, <1>8 DEF LayoutInv

\* load() walks over the entries of a saved file in their order.
LEMMA LoadEntry_Saved ==
  ASSUME DirTyped, LoadInv, LayoutInv, LoadEntry
  PROVE  LayoutInv'
<1> DEFINE n == Len(zmap)
           i == NextEntry
           e == zmap[i]
           k == zcount + 1
<1>1. /\ zpc = "load" /\ AsInFile /\ zoffset < zcent /\ UNCHANGED <<zf, zcent, promise, saves>>
      /\ (\E j \in 1..n : zmap[j].offset >= zoffset)
      /\ zpc' \in {"load", "invalid"}
  <2>1. DOMAIN zmap = 1..n
    BY DEF DirTyped
  <2>2. zpc = "load" /\ zpc' \in {"load", "invalid"} /\ zoffset < zcent /\ UNCHANGED <<zf, zcent, promise, saves>>
    BY DEF LoadEntry
  <2>3. \E j \in 1..n : zmap[j].offset >= zoffset
    BY <2>1 DEF LoadEntry, Offsets
  <2> QED BY <2>2, <2>3 DEF LayoutInv
<1>2. /\ i \in 1..n /\ e.offset >= zoffset
      /\ \A j \in 1..n : zmap[j].offset >= zoffset => e.offset <= zmap[j].offset
  BY <1>1, NextEntryIs DEF DirTyped
<1>3. /\ n \in Nat /\ DOMAIN zmap = 1..n /\ \A j \in 1..n : zmap[j] \in DirEntry
      /\ zoffset \in Nat /\ zcount \in Nat
  BY ElementOfSeq DEF DirTyped
<1>4. \A j \in 1..n : zmap[j].offset \in Nat
  BY <1>3, EntryParts
<1>5. /\ (saves' > 0 => LaidOut(zf') /\ promise' = [j \in 1..Len(zf'.dir) |-> zf'.dir[j].content])
      /\ OwnBits(zf')
  BY <1>1 DEF LayoutInv
\* a saved file: the entry is the next one, and its header is as it should be
<1>6. ASSUME saves > 0, zf.length < Word
      PROVE  /\ k \in 1..n /\ i = k
             /\ e.offset < zcent /\ EndOffset(e) >= e.offset + LoFixed /\ check_local(e)
             /\ load_local(e, EndOffset(e) - e.offset - LoFixed)
             /\ EntryEnd(e) = After(zf, k)
  <2>1. /\ zcount \in 0..n /\ zoffset = After(zf, zcount) /\ n = Len(zf.dir) /\ zcent = zf.start
        /\ \A j \in 1..n : /\ zmap[j].content = zf.dir[j].content /\ zmap[j].desc = zf.dir[j].desc
                           /\ zmap[j].bits = zf.dir[j].bits /\ zmap[j].offset = zf.dir[j].offset
    BY <1>1, <1>6 DEF LayoutInv, AsInFile
  <2>2. /\ \A j \in 1..n : /\ After(zf, j) = zf.dir[j].offset + LocalLength(zf.dir[j])
                           /\ zf.dir[j].offset < zf.start /\ zf.dir[j].offset \in DOMAIN zf.loc
                           /\ zf.loc[zf.dir[j].offset] = [content |-> zf.dir[j].content, desc |-> FALSE,
                                                bits |-> zf.dir[j].bits, extra |-> 0, tail |-> 0]
                           /\ ~zf.dir[j].desc
        /\ \A h, j \in 1..n : h < j => zf.dir[h].offset < zf.dir[j].offset
    BY <1>6, <2>1 DEF LayoutInv, LaidOut
  <2>3. zcount # n
    <3>1. zcount = n => zoffset = zf.start
      BY <2>1 DEF After
    <3>2. zoffset # zcent
      BY <1>1, <1>3 DEF DirTyped, IsFile
    <3> QED BY <2>1, <3>1, <3>2
  <2>4. k \in 1..n
    BY <1>3, <2>1, <2>3
  <2>5. zoffset = zmap[k].offset
    BY <2>1, <2>3, <2>4 DEF After
  <2>6. i = k
    <3>1. e.offset = zmap[k].offset
      BY <1>2, <1>4, <2>4, <2>5
    <3>2. ~(i < k) /\ ~(k < i)
      BY <1>2, <1>4, <2>1, <2>2, <2>4, <3>1
    <3> HIDE DEF i
    <3> QED BY <1>2, <2>4, <3>2
  <2>7. /\ e.content \in Content /\ e.content.csize \in Nat /\ LocalLength(e) = LoFixed + e.content.csize
        /\ LoFixed \in Nat
    BY <1>2, <1>3, EntryParts, DirAssumption DEF LocalLength, DirAssumption
  <2>8. /\ e.offset \in DOMAIN zf.loc /\ ~e.desc /\ e.desc = FALSE
        /\ zf.loc[e.offset] = [content |-> e.content, desc |-> FALSE, bits |-> e.bits, extra |-> 0, tail |-> 0]
    <3>1. e.desc \in BOOLEAN
      BY <1>2, <1>3, EntryParts
    <3> QED BY <1>2, <2>1, <2>2, <3>1
  <2>9. After(zf, k) = e.offset + LoFixed + e.content.csize
    <3>1. After(zf, k) = zf.dir[k].offset + LocalLength(zf.dir[k])
      BY <2>2, <2>4
    <3>2. zf.dir[k].offset = e.offset /\ LocalLength(zf.dir[k]) = LocalLength(e)
      BY <2>1, <2>4, <2>6 DEF LocalLength
    <3>3. e.offset \in Nat
      BY <1>2, <1>4
    <3> HIDE DEF e
    <3> QED BY <2>7, <3>1, <3>2, <3>3
  <2>10. EndOffset(e) = After(zf, k)
    <3>1. /\ \A j \in 1..n : zmap[j].offset > e.offset => EndOffset(e) <= zmap[j].offset
          /\ \/ /\ \A j \in 1..n : zmap[j].offset <= e.offset
                /\ EndOffset(e) = zcent
             \/ \E j \in 1..n : zmap[j].offset > e.offset /\ EndOffset(e) = zmap[j].offset
      BY <1>2, <1>4, EndOffsetIs DEF DirTyped
    <3>2. \A h, j \in 1..n : h < j => zmap[h].offset < zmap[j].offset
      BY <2>1, <2>2
    <3>3. e.offset = zmap[k].offset
      BY <2>6
    <3> HIDE DEF e, i
    <3>4. CASE k = n
      <4>1. ASSUME NEW j \in 1..n PROVE ~(zmap[j].offset > e.offset)
        <5>1. j = k \/ j < k
          BY <1>3, <3>4
        <5> QED BY <1>4, <2>4, <3>2, <3>3, <5>1
      <4>2. EndOffset(e) = zcent
        BY <3>1, <4>1
      <4> QED BY <2>1, <3>4, <4>2 DEF After
    <3>5. CASE k # n
      <4>1. k + 1 \in 1..n /\ k < k + 1
        <5> HIDE DEF k, n
        <5> QED BY <1>3, <2>4, <3>5
      <4>2. After(zf, k) = zmap[k + 1].offset
        BY <2>1, <3>5, <4>1 DEF After
      <4>3. zmap[k + 1].offset > e.offset /\ EndOffset(e) <= zmap[k + 1].offset
        BY <1>4, <2>4, <3>1, <3>2, <3>3, <4>1
      <4>4. ~(zmap[k + 1].offset <= e.offset)
        BY <1>4, <2>4, <3>3, <4>1, <4>3
      <4>5. PICK j \in 1..n : zmap[j].offset > e.offset /\ EndOffset(e) = zmap[j].offset
        BY <3>1, <4>1, <4>4
      <4>6. j = k + 1 \/ k + 1 < j
        <5>1. ~(j = k) /\ ~(j < k)
          BY <1>4, <2>4, <3>2, <3>3, <4>5
        <5> QED BY <1>3, <2>4, <5>1
      <4>7. zmap[k + 1].offset <= zmap[j].offset
        BY <1>4, <3>2, <4>1, <4>6
      <4> QED BY <1>4, <4>1, <4>2, <4>3, <4>5, <4>7
    <3> QED BY <3>4, <3>5
  <2>11. e.offset < zcent
    BY <1>2, <2>1, <2>2
  <2>12. check_local(e)
    <3>1. /\ zf.loc[e.offset].content = e.content /\ zf.loc[e.offset].bits = e.bits
          /\ zf.loc[e.offset].desc = FALSE
      BY <2>8
    <3>2. zf.loc[e.offset].desc = e.desc
      BY <2>8, <3>1
    <3> QED BY <2>8, <3>1, <3>2 DEF check_local
  <2>13. e.offset \in Nat
    BY <1>2, <1>4
  <2>14. EntryEnd(e) = After(zf, k)
    <3>1. EntryEnd(e) = e.offset + LoFixed + 0 + e.content.csize + 0
      BY <2>8 DEF EntryEnd
    <3> HIDE DEF e
    <3> QED BY <2>7, <2>9, <2>13, <3>1
  <2>15. EndOffset(e) >= e.offset + LoFixed /\ EndOffset(e) - e.offset - LoFixed = e.content.csize
    <3> HIDE DEF e
    <3> QED BY <2>7, <2>9, <2>10, <2>13
  <2>16. load_local(e, EndOffset(e) - e.offset - LoFixed)
    <3>1. e.content.csize >= 0 + e.content.csize
      BY <2>7
    <3> QED BY <2>8, <2>15, <3>1 DEF load_local
  <2> QED BY <2>4, <2>6, <2>11, <2>12, <2>14, <2>15, <2>16
<1>7. CASE zpc' = "invalid" /\ UNCHANGED <<zmap, zoffset, zcount>>
  <2>1. ~(saves > 0 /\ zf.length < Word)
    BY <1>6, <1>7 DEF LoadEntry
  <2>2. SavedIsReadable'
    BY <1>1, <2>1 DEF SavedIsReadable
  <2>3. MethodKept'
    BY <1>7 DEF LayoutInv, MethodKept
  <2> QED BY <1>5, <1>7, <2>2, <2>3 DEF LayoutInv, JustLoaded
<1>8. CASE /\ e.offset < zcent /\ EndOffset(e) >= e.offset + LoFixed /\ check_local(e)
           /\ load_local(e, EndOffset(e) - e.offset - LoFixed)
           /\ zmap' = [zmap EXCEPT ![i].data = zf.loc[e.offset].content]
           /\ zoffset' = EntryEnd(e) /\ zcount' = zcount + 1 /\ UNCHANGED zpc
  <2>1. /\ Len(zmap') = n /\ DOMAIN zmap' = 1..n
        /\ \A j \in 1..n :
             /\ zmap'[j].content = zmap[j].content /\ zmap'[j].desc = zmap[j].desc
             /\ zmap'[j].bits = zmap[j].bits /\ zmap'[j].offset = zmap[j].offset
    <3> DEFINE d == zf.loc[e.offset].content
    <3>1. zmap' = [zmap EXCEPT ![i].data = d]
      BY <1>8
    <3> HIDE DEF d, i
    <3>2. Len(zmap') = n /\ DOMAIN zmap' = 1..n
      <4>1. zmap \in Seq(DirEntry)
        BY DEF DirTyped
      <4>2. DOMAIN zmap' = DOMAIN zmap
        BY <3>1
      <4>3. zmap' = [j \in 1..n |-> zmap'[j]]
        BY <1>3, <3>1
      <4> QED BY <1>3, <4>2, <4>3
    <3>3. ASSUME NEW j \in 1..n
          PROVE  /\ zmap'[j].content = zmap[j].content /\ zmap'[j].desc = zmap[j].desc
                 /\ zmap'[j].bits = zmap[j].bits /\ zmap'[j].offset = zmap[j].offset
      <4>1. zmap'[j] = IF j = i THEN [zmap[i] EXCEPT !.data = d] ELSE zmap[j]
        BY <1>2, <1>3, <3>1
      <4> QED BY <1>3, <4>1 DEF DirEntry
    <3> QED BY <3>2, <3>3
  <2>2. AsInFile'
    BY <1>1, <2>1 DEF AsInFile
  <2>3. MethodKept'
    BY <1>3, <2>1 DEF LayoutInv, MethodKept
  <2>4. zpc' = "load" /\ zoffset' = EntryEnd(e) /\ zcount' = k
    BY <1>1, <1>8
  <2>5. SavedIsReadable'
    BY <2>4 DEF SavedIsReadable
  <2>6. saves' > 0 /\ zf'.length < Word => zcount' \in 0..Len(zf'.dir) /\ zoffset' = After(zf', zcount')
    <3>1. ASSUME saves > 0, zf.length < Word PROVE k \in 0..Len(zf.dir) /\ EntryEnd(e) = After(zf, k)
      <4>1. k \in 1..n /\ EntryEnd(e) = After(zf, k)
        BY <1>6, <3>1
      <4>2. n = Len(zf.dir)
        BY <1>1 DEF AsInFile
      <4> QED BY <4>1, <4>2
    <3> HIDE DEF e, k
    <3> QED BY <1>1, <2>4, <3>1
  <2> QED BY <1>5, <2>2, <2>3, <2>5, <2>6 DEF LayoutInv
<1> QED BY <1>7, <1>8 DEF LoadEntry

\* When the walk over a saved file is at its end, it has seen every header.
LEMMA LoadEnds_Saved ==
  ASSUME DirTyped, LayoutInv, DirLoadEnds
  PROVE  LayoutInv'
<1>1. /\ zpc = "load" /\ AsInFile /\ zpc' \in {"loaded", "invalid"}
      /\ UNCHANGED <<zf, zmap, zcent, promise, saves>>
  BY DEF DirLoadEnds, LayoutInv
<1>2. AsInFile' /\ MethodKept'
  BY <1>1 DEF AsInFile, LayoutInv, MethodKept
<1>3. (saves' > 0 => LaidOut(zf') /\ promise' = [j \in 1..Len(zf'.dir) |-> zf'.dir[j].content])
      /\ OwnBits(zf')
  BY <1>1 DEF LayoutInv
<1>4. ASSUME saves > 0, zf.length < Word PROVE zcount = Len(zmap)
  <2> DEFINE n == Len(zmap)
  <2>1. zcount \in 0..n /\ zoffset = After(zf, zcount) /\ n = Len(zf.dir) /\ n \in Nat
    BY <1>1, <1>4 DEF LayoutInv, AsInFile, DirTyped
  <2>2. ASSUME zcount # n PROVE FALSE
    <3>1. zcount + 1 \in 1..n /\ zcount + 1 \in DOMAIN zmap
      BY <2>1, <2>2 DEF DirTyped
    <3>2. zoffset = zmap[zcount + 1].offset /\ zmap[zcount + 1].offset < zcent
      BY <1>1, <1>4, <2>1, <2>2, <3>1 DEF After, AsInFile, LayoutInv, LaidOut
    <3>3. zmap[zcount + 1].offset \in Nat /\ zcent \in Nat
      BY <3>1, ElementOfSeq, EntryParts DEF DirTyped, IsFile
    <3>4. ~(zoffset >= zcent)
      BY <3>2, <3>3
    <3>5. zmap[zcount + 1].offset \in
            {zmap[i].offset : i \in {k \in DOMAIN zmap : zmap[k].offset >= zoffset}}
      BY <3>1, <3>2, <3>3
    <3>6. {zmap[i].offset : i \in {k \in DOMAIN zmap : zmap[k].offset >= zoffset}} = {}
      BY <3>4 DEF DirLoadEnds, Offsets
    <3> QED BY <3>5, <3>6
  <2> QED BY <2>2
<1>5. SavedIsReadable'
  <2>1. saves > 0 /\ zf.length < Word => zpc' = "loaded"
    BY <1>4 DEF DirLoadEnds
  <2> QED BY <1>1, <2>1 DEF SavedIsReadable
<1>6. zpc' # "load"
  BY <1>1
<1> QED BY <1>2, <1>3, <1>5, <1>6 DEF LayoutInv

LEMMA Fetch_Saved ==
  ASSUME LayoutInv, NEW i \in DOMAIN zmap, Fetch(i)
  PROVE  LayoutInv'
<1>1. /\ zpc = "open" /\ zpc' \in {"open", "error"} /\ AsInFile
      /\ UNCHANGED <<zf, zmap, zcent, promise, saves>>
  BY DEF Fetch, LayoutInv
<1>2. AsInFile' /\ MethodKept'
  BY <1>1 DEF AsInFile, LayoutInv, MethodKept
<1>3. (saves' > 0 => LaidOut(zf') /\ promise' = [j \in 1..Len(zf'.dir) |-> zf'.dir[j].content])
      /\ OwnBits(zf')
  BY <1>1 DEF LayoutInv
<1>4. SavedIsReadable' /\ zpc' # "load"
  BY <1>1 DEF SavedIsReadable
<1> QED BY <1>2, <1>3, <1>4 DEF LayoutInv

\* set() writes back the options that method_get() read.
LEMMA BitsKept ==
  ASSUME NEW c \in Content, c.method \in {"deflate", "implode"}
  PROVE  set_bits(method_get(c)) = c.bits
<1>1. c.bits \in 0..3
  BY DirAssumption DEF DirAssumption
<1>2. c.bits = 0 \/ c.bits = 1 \/ c.bits = 2 \/ c.bits = 3
  BY <1>1
<1>3. CASE c.method = "deflate"
  <2>1. method_get(c) = Deflates[c.bits + 1]
    BY <1>3 DEF method_get
  <2>2. /\ Deflates[1] = "deflate6" /\ Deflates[2] = "deflate9"
        /\ Deflates[3] = "deflate3" /\ Deflates[4] = "deflate1"
    BY DEF Deflates
  <2>3. /\ set_bits("deflate6") = 0 /\ set_bits("deflate9") = 1
        /\ set_bits("deflate3") = 2 /\ set_bits("deflate1") = 3
    BY DEF set_bits
  <2> QED BY <1>2, <2>1, <2>2, <2>3
<1>4. CASE c.method = "implode"
  <2>1. method_get(c) = Implodes[c.bits + 1]
    BY <1>4 DEF method_get
  <2>2. /\ Implodes[1] = "implode_4kdict_2tree" /\ Implodes[2] = "implode_8kdict_2tree"
        /\ Implodes[3] = "implode_4kdict_3tree" /\ Implodes[4] = "implode_8kdict_3tree"
    BY DEF Implodes
  <2>3. /\ set_bits("implode_4kdict_2tree") = 0 /\ set_bits("implode_8kdict_2tree") = 1
        /\ set_bits("implode_4kdict_3tree") = 2 /\ set_bits("implode_8kdict_3tree") = 3
    BY DEF set_bits
  <2> QED BY <1>2, <2>1, <2>2, <2>3
<1> QED BY <1>3, <1>4

LEMMA Change_Saved ==
  ASSUME DirTyped, LayoutInv,
         (\E c \in Content : Insert(c)) \/ (\E i \in DOMAIN zmap : Erase(i))
  PROVE  LayoutInv'
<1>1. /\ UNCHANGED <<zf, promise, saves>> /\ zpc' \in {"loaded", "error"}
      /\ zpc' = "loaded" => changed' = TRUE
  BY DEF Insert, Erase
<1>2. (saves' > 0 => LaidOut(zf') /\ promise' = [j \in 1..Len(zf'.dir) |-> zf'.dir[j].content])
      /\ OwnBits(zf') /\ SavedIsReadable'
  BY <1>1 DEF LayoutInv, SavedIsReadable
<1>3. ~JustLoaded' /\ zpc' \notin {"open", "load"} /\ zpc' # "load"
  BY <1>1 DEF JustLoaded
<1>4. MethodKept'
  <2>1. ASSUME NEW c \in Content, Insert(c), Insertable(c) PROVE MethodKept'
    <3> DEFINE new == [content |-> c, desc |-> FALSE, bits |-> set_bits(method_get(c)),
                       extra |-> 0, offset |-> 0, data |-> c]
    <3>1. new \in DirEntry
      BY DEF DirEntry, set_bits
    <3>2. new.content.method \in {"deflate", "implode"} => new.bits = new.content.bits
      BY BitsKept
    <3> HIDE DEF new
    <3>3. zmap' = Append(zmap, new) /\ zmap \in Seq(DirEntry)
      BY <2>1 DEF Insert, DirTyped, new
    <3>4. /\ zmap' \in Seq(DirEntry) /\ Len(zmap') = Len(zmap) + 1
          /\ \A i \in 1..Len(zmap) : zmap'[i] = zmap[i]
          /\ zmap'[Len(zmap) + 1] = new
      BY <3>1, <3>3, AppendProperties
    <3>5. ASSUME NEW i \in DOMAIN zmap' PROVE i \in DOMAIN zmap \/ i = Len(zmap) + 1
      BY <3>3, <3>4
    <3>6. \A i \in DOMAIN zmap : zmap'[i] = zmap[i]
      BY <3>3, <3>4
    <3> QED BY <3>2, <3>4, <3>5, <3>6 DEF MethodKept, LayoutInv
  <2>2. ASSUME NEW c \in Content, Insert(c), ~Insertable(c) PROVE MethodKept'
    BY <2>2 DEF Insert, MethodKept, LayoutInv
  <2>3. ASSUME NEW i \in DOMAIN zmap, Erase(i) PROVE MethodKept'
    <3>1. zmap' = RemoveAt(zmap, i)
      BY <2>3 DEF Erase
    <3>2. /\ zmap' \in Seq(DirEntry) /\ zmap \in Seq(DirEntry)
          /\ \A j \in 1..Len(zmap') : \E k \in 1..Len(zmap) : zmap'[j] = zmap[k]
      BY <3>1, ErasedIs DEF DirTyped
    <3> QED BY <3>2 DEF MethodKept, LayoutInv
  <2> QED BY <2>1, <2>2, <2>3
<1> QED BY <1>2, <1>3, <1>4 DEF LayoutInv

LEMMA Save_Saved ==
  ASSUME DirTyped, LoadInv, LayoutInv, Save
  PROVE  LayoutInv'
<1>1. /\ zpc = "loaded" /\ zpc' = "closed" /\ zmap' = <<>> /\ zf' = SavedFile /\ saves' = saves + 1
      /\ promise' = [i \in DOMAIN zmap |-> zmap[i].data]
  BY DEF Save
<1>2. /\ LaidOut(SavedFile) /\ Len(SavedFile.dir) = Len(zmap)
      /\ \A i \in 1..Len(zmap) : /\ SavedFile.dir[i].content = zmap[i].content
                                 /\ SavedFile.dir[i].bits = zmap[i].bits
  BY <1>1, SavedFileLaidOut
<1>3. DOMAIN zmap = 1..Len(zmap) /\ \A i \in 1..Len(zmap) : zmap[i].data = zmap[i].content
  BY <1>1 DEF DirTyped, LoadInv, Filled
<1>4. promise' = [i \in 1..Len(SavedFile.dir) |-> SavedFile.dir[i].content]
  BY <1>1, <1>2, <1>3
<1>5. OwnBits(SavedFile)
  BY <1>2, <1>3 DEF OwnBits, LayoutInv, MethodKept
<1>6. MethodKept'
  BY <1>1 DEF MethodKept
<1>7. zpc' \notin {"open", "load"} /\ zpc' # "load" /\ ~JustLoaded' /\ SavedIsReadable'
  BY <1>1 DEF JustLoaded, SavedIsReadable
<1>8. /\ saves' > 0 => LaidOut(zf') /\ promise' = [j \in 1..Len(zf'.dir) |-> zf'.dir[j].content]
      /\ OwnBits(zf')
  BY <1>1, <1>2, <1>4, <1>5
<1> QED BY <1>6, <1>7, <1>8 DEF LayoutInv

LEMMA SavedStep ==
  ASSUME DirTyped, LoadInv, LayoutInv, [DirNext]_dirVars
  PROVE  LayoutInv'
<1>1. CASE UNCHANGED dirVars
  BY <1>1 DEF dirVars, LayoutInv, JustLoaded, AsInFile, SavedIsReadable, MethodKept
<1>2. CASE \E i \in DOMAIN zmap : Fetch(i) \/ Erase(i)
  BY <1>2, Fetch_Saved, Change_Saved
<1>3. CASE \E c \in Content : Insert(c)
  BY <1>3, Change_Saved
<1> QED BY <1>1, <1>2, <1>3, Opened_Saved, LoadStarts_Saved, LoadEntry_Saved, LoadEnds_Saved,
           Save_Saved DEF DirNext

\* What save() writes, open() and load() accept, as long as it fits the unsigned
\* and its comment is not longer than the search goes back; what is loaded is what
\* was saved, and its data are read with the options they were compressed with,
\* if other programs told those of the files they wrote.
THEOREM SavedIsReadBack ==
  ASSUME \A f \in DirStart : OwnBits(f)
  PROVE  DirSpec => []SavedIsRead
<1>1. DirInit => LayoutInv
  <2> SUFFICES ASSUME DirInit PROVE LayoutInv
    OBVIOUS
  <2>1. OwnBits(zf)
    BY DEF DirInit
  <2> QED BY <2>1 DEF DirInit, LayoutInv, JustLoaded, SavedIsReadable, MethodKept
<1>2. DirTyped /\ LoadInv /\ LayoutInv /\ [DirNext]_dirVars => LayoutInv'
  BY SavedStep
<1>3. DirTyped /\ LoadInv /\ LayoutInv => SavedIsRead
  <2> SUFFICES ASSUME DirTyped, LoadInv, LayoutInv PROVE SavedIsRead
    OBVIOUS
  <2>1. ASSUME JustLoaded, saves > 0 PROVE [i \in DOMAIN zmap |-> zmap[i].data] = promise
    <3>1. DOMAIN zmap = 1..Len(zf.dir) /\ \A i \in 1..Len(zf.dir) : zmap[i].content = zf.dir[i].content
      BY <2>1 DEF LayoutInv, AsInFile, DirTyped
    <3>2. \A i \in 1..Len(zf.dir) : zmap[i].data = zmap[i].content
      BY <2>1, <3>1 DEF LoadInv, JustLoaded, Filled, DirTyped
    <3>3. promise = [i \in 1..Len(zf.dir) |-> zf.dir[i].content]
      BY <2>1 DEF LayoutInv
    <3> QED BY <3>1, <3>2, <3>3
  <2> QED BY <2>1 DEF SavedIsRead, LayoutInv, RoundTrip
<1> QED BY <1>1, <1>2, <1>3, DirInvariant, PTL DEF DirSpec

-----------------------------------------------------------------------------
(* Samples, disks and the layout of a file together.                       *)

\* A part that rests does nothing, and its state is well formed.
LEMMA SampleRests == SampleIdle => SampleTypeOK /\ ~SampleNext
<1> SUFFICES ASSUME SampleIdle PROVE SampleTypeOK /\ ~SampleNext
  OBVIOUS
<1>1. /\ sz = <<>> /\ sr = <<>> /\ sdiskz = <<>> /\ sdiskr = <<>> /\ sstart.z = <<>> /\ sstart.r = <<>>
      /\ known = FALSE /\ sreadonly = FALSE /\ soper = {} /\ spc = "done" /\ szs = "none"
      /\ sstat = [miss |-> {}, binary |-> {}, text |-> {}, garbage |-> {}] /\ sruns = SampleRuns
  BY DEF SampleIdle, NoSampleStat
<1>2. <<>> \in Seq(Entry) /\ Len(<<>>) = 0 /\ DOMAIN <<>> = {}
  OBVIOUS
<1>3. Distinct(<<>>)
  BY <1>2 DEF Distinct
<1>4. SampleTypeOK
  <2>1. SampleRuns \in 0..SampleRuns
    BY SampleAssumption DEF SampleAssumption
  <2> QED BY <1>1, <1>2, <1>3, <2>1 DEF SampleTypeOK, SampleEnded
<1>5. ~SampleNext
  <2>1. SampleRuns \in Nat
    BY SampleAssumption DEF SampleAssumption
  <2> QED BY <1>1, <2>1 DEF SampleNext, SampleStat, SampleAddEnds, SampleRemove, SampleGarbageRemove,
          SampleRemoveEnds, SampleAdd, SampleSaveZ, SampleSaveR, SampleMove, SampleMoveEnds,
          SampleDelete, SampleStops, SampleRerun, SampleEnded, SampleActive
<1> QED BY <1>4, <1>5

LEMMA DiskRests == DiskIdle => DiskTypeOK /\ ~DiskNext
<1> SUFFICES ASSUME DiskIdle PROVE DiskTypeOK /\ ~DiskNext
  OBVIOUS
<1>1. /\ files = [p \in Path |-> NoChd] /\ cut = {} /\ doper = {} /\ dpc = "done" /\ ds = {} /\ dzar = {}
      /\ mv.src = NoPath /\ mv.dst = NoPath /\ dzs = [g \in Games |-> {}] /\ dfaults = {} /\ druns = DiskRuns
  BY DEF DiskIdle, NoMove
<1>2. DiskRuns \in Nat
  BY DiskAssumption DEF DiskAssumption
<1>3. DiskTypeOK
  BY <1>1, <1>2, ContentFacts DEF DiskTypeOK, DiskEnded
<1>4. ~DiskNext
  BY <1>1, <1>2 DEF DiskNext, ReadDisks, LoadEnds, ScanDisks, MoveEnds, LoadDisk, MoveDisk, RenameFile,
         RenameIgnored, RenameExdev, CopyRead, CopyReadFails, CopyWrite, CopyWriteFails, CopyClose,
         CopyCloseFails, UndoCopy, RemoveSource, DiskKill, DiskRerun, DiskEnded, Moving
<1> QED BY <1>3, <1>4

LEMMA DirRests == DirIdle => DirTypeOK /\ ~DirNext
<1> SUFFICES ASSUME DirIdle PROVE DirTypeOK /\ ~DirNext
  OBVIOUS
<1>1. /\ zf.start = 0 /\ zpc = "error" /\ zmap = <<>> /\ zcent = 0 /\ zoffset = 0 /\ zcount = 0
      /\ changed = FALSE /\ saves = 0 /\ DOMAIN <<>> = {}
  BY DEF DirIdle
<1>2. MaxSaves \in Nat
  BY DirAssumption DEF DirAssumption
<1>3. DirTypeOK
  <2>1. /\ zcent \in {0, zf.start} /\ zoffset \in Nat /\ zcount \in Nat /\ saves \in 0..MaxSaves
        /\ \A i \in DOMAIN zmap : zmap[i].data \in Content \cup {NoData}
    BY <1>1, <1>2
  <2> QED BY <1>1, <2>1 DEF DirTypeOK
<1>4. ~DirNext
  BY <1>1 DEF DirNext, ZipOpen, LoadStarts, LoadEntry, DirLoadEnds, Save, Fetch, Erase, Insert
<1> QED BY <1>3, <1>4

FilesInv ==
  \/ SampleInv /\ DiskIdle /\ DirIdle
  \/ SampleIdle /\ DiskInv /\ DirIdle
  \/ SampleIdle /\ DiskIdle /\ DirTyped /\ LoadInv

LEMMA RestGoesOn ==
  /\ UNCHANGED sampleVars /\ SampleIdle => SampleIdle'
  /\ UNCHANGED diskVars /\ DiskIdle => DiskIdle'
  /\ UNCHANGED dirVars /\ DirIdle => DirIdle'
BY DEF sampleVars, diskVars, dirVars, SampleIdle, DiskIdle, DirIdle, NoSampleStat, NoMove, NoChd, NoPath

LEMMA FilesStep ==
  ASSUME FilesInv, [FilesNext]_<<sampleVars, diskVars, dirVars>>
  PROVE  FilesInv'
<1>1. \/ SampleNext /\ UNCHANGED diskVars /\ UNCHANGED dirVars
      \/ DiskNext /\ UNCHANGED sampleVars /\ UNCHANGED dirVars
      \/ DirNext /\ UNCHANGED sampleVars /\ UNCHANGED diskVars
      \/ UNCHANGED sampleVars /\ UNCHANGED diskVars /\ UNCHANGED dirVars
  BY DEF FilesNext
<1>2. CASE SampleInv /\ DiskIdle /\ DirIdle
  <2>1. ~DiskNext /\ ~DirNext
    BY <1>2, DiskRests, DirRests
  <2>2. [SampleNext]_sampleVars /\ UNCHANGED diskVars /\ UNCHANGED dirVars
    BY <1>1, <2>1
  <2> QED BY <1>2, <2>2, SampleNextInv, RestGoesOn DEF FilesInv
<1>3. CASE SampleIdle /\ DiskInv /\ DirIdle
  <2>1. ~SampleNext /\ ~DirNext
    BY <1>3, SampleRests, DirRests
  <2>2. [DiskNext]_diskVars /\ UNCHANGED sampleVars /\ UNCHANGED dirVars
    BY <1>1, <2>1
  <2> QED BY <1>3, <2>2, DiskNextInv, RestGoesOn DEF FilesInv
<1>4. CASE SampleIdle /\ DiskIdle /\ DirTyped /\ LoadInv
  <2>1. ~SampleNext /\ ~DiskNext
    BY <1>4, SampleRests, DiskRests
  <2>2. [DirNext]_dirVars /\ UNCHANGED sampleVars /\ UNCHANGED diskVars
    BY <1>1, <2>1
  <2>3. DirTyped' /\ LoadInv'
    BY <1>4, <2>2, DirStep
  <2> QED BY <1>4, <2>2, <2>3, RestGoesOn DEF FilesInv
<1> QED BY <1>2, <1>3, <1>4 DEF FilesInv

\* In every run, of whichever part, the state is well formed: samples have
\* distinct names, the disk in motion is there, and load() counts no more
\* headers than there are entries (sample_scan, file_move, zip::load).
THEOREM FilesWellFormed == ASSUME DistinctSamples PROVE FilesSpec => []FilesTypeOK
<1>1. FilesInit => FilesInv
  BY SampleInitInv, DiskInitInv, DirInit_Typed DEF FilesInit, FilesInv
<1>2. FilesInv => FilesTypeOK
  BY SampleTypesFromInv, DiskTypesFromInv, DirTypesFromInv, SampleRests, DiskRests, DirRests
     DEF FilesInv, FilesTypeOK
<1>3. FilesInv /\ [FilesNext]_<<sampleVars, diskVars, dirVars>> => FilesInv'
  BY FilesStep
<1> QED BY <1>1, <1>2, <1>3, PTL DEF FilesSpec
=============================================================================
