---------------------------- MODULE RomScanProofs ----------------------------
(***************************************************************************)
(* A scan keeps the files of an archive, reports it truly and does what the*)
(* run over all the archives relies on, for any romset, any archives, any  *)
(* set of operations and any number of runs, wherever a run stops.         *)
(*                                                                         *)
(* The archives that a run finds have no two files of the same name.       *)
(***************************************************************************)
EXTENDS RomScan, RomZipProofs

DistinctStart == \A s \in Start : Distinct(s.z) /\ Distinct(s.r)

-----------------------------------------------------------------------------
(* The inductive invariant.                                                *)

ScanTyped ==
  /\ \A s \in {z, r, diskz, diskr, start.z, start.r} : s \in Seq(Entry)
  /\ start \in [z : Seq(Entry), r : Seq(Entry), scanned : BOOLEAN]
  /\ other \subseteq Data /\ readonly \in BOOLEAN /\ oper \subseteq Oper
  /\ pc \in {"stat"} \cup ToSet(Phases) \cup Ended
  /\ stat \in [miss : SUBSET Roms, bad : SUBSET Roms, binary : SUBSET Entry,
               text : SUBSET Entry, garbage : SUBSET Entry]
  /\ good \in {"none", "good", "bad"}
  /\ runs \in 0..MaxRuns
  /\ pc # "failed check"

\* No two files of a list have the same name.
AllDistinct == \A s \in {z, r, diskz, diskr, start.z, start.r} : Distinct(s)

Before == {"stat", "miss", "bad", "binary", "text", "garbage", "savez"}
Scanning == {"miss", "bad", "binary", "text", "garbage", "savez", "saver", "done"}

\* What the disk holds before, between and after the saves.
SavedInv ==
  /\ pc = "stat" => z = start.z /\ r = start.r /\ stat = NoStat
  /\ pc \in Before => diskz = start.z /\ diskr = start.r
  /\ pc \in {"saver", "done"} => diskz = z
  /\ pc = "saver" => diskr = start.r
  /\ pc = "done" => diskr = r
  /\ diskz \in {start.z, z} /\ diskr \in {start.r, r}

Rom(g) == [name |-> g, data |-> Good[g]]
HasRom(s, g) == HasData(s, g, Good[g])
Offered == other \cup DataOf(start.z) \cup DataOf(start.r)
Class(k) == CASE k = "binary" -> Data \ (Text \cup Garbage)
              [] k = "text" -> Text \ Garbage
              [] k = "garbage" -> Garbage
Kinds == {"binary", "text", "garbage"}

\* The entries of the archive that are there to be removed.
Strays(s, k) == {e \in ToSet(s) : ~Known(e.name) /\ e.data \in Class(k)}

\* A rom in the sets is not in the archive; while the scan runs every other rom
\* is, and the sets of files have all the strays.
StatInv ==
  /\ \A g \in stat.miss : Named(z, g) = {}
  /\ \A g \in stat.bad : Named(z, g) # {} /\ ~HasRom(z, g)
  /\ \A k \in Kinds : stat[k] \subseteq Strays(z, k)
  /\ pc \in Scanning \/ good # "none" =>
       \A g \in Roms : ~HasRom(z, g) => g \in stat.miss \cup stat.bad
  /\ pc \in Scanning => \A k \in Kinds : stat[k] = Strays(z, k)

\* What was added is a rom that was offered, what was saved came from the two
\* archives.
OriginInv ==
  /\ \A e \in ToSet(z) :
       e \in ToSet(start.z) \/ \E g \in Roms : e = Rom(g) /\ Good[g] \in Offered
  /\ DataOf(r) \subseteq DataOf(start.z) \cup DataOf(start.r)

\* The data is where the scan does not touch it any more: a rom in its place,
\* or a file of the reject archive whose name is of no file yet to be moved.
Pending(n) ==
  \/ \E g \in stat.bad : SameName(n, g)
  \/ \E k \in {"binary", "text"} : \E e \in stat[k] : SameName(n, e.name)
Safe(d) ==
  \/ \E g \in Roms : Good[g] = d /\ HasRom(z, g)
  \/ \E e \in ToSet(r) : e.data = d /\ ~Pending(e.name)

KeptInv ==
  /\ \A e \in ToSet(start.z) :
       Keep(e.data) \/ pc \in {"stat", "miss", "bad"} => e \in ToSet(z) \/ Safe(e.data)
  /\ \A e \in ToSet(start.r) : ~Collides(e) => e \in ToSet(r) \/ Safe(e.data)
  /\ \A g \in Roms : HasRom(start.z, g) => HasRom(z, g)

\* A set that was worked off has nothing left that could be done.
PhaseInv ==
  /\ active("fix") /\ pc \in Scanning \ {"miss"} =>
       \A g \in stat.miss : Good[g] \notin Offered
  /\ active("fix") /\ pc \in Scanning \ {"miss", "bad"} =>
       \A g \in stat.bad : Good[g] \notin Offered
  /\ active("binary") /\ pc \in Scanning \ {"miss", "bad", "binary"} => stat.binary = {}
  /\ active("text") /\ pc \in Scanning \ {"miss", "bad", "binary", "text"} => stat.text = {}
  /\ active("garbage") /\ pc \in {"savez", "saver", "done"} => stat.garbage = {}
  /\ (\A op \in Oper : ~active(op)) => z = start.z /\ r = start.r

\* A complete scan of these archives leaves nothing to be done.
Clean(s, t) ==
  /\ active("fix") =>
       \A g \in Roms : HasRom(s, g) \/ Good[g] \notin other \cup DataOf(s) \cup DataOf(t)
  /\ \A k \in Kinds : active(k) => Strays(s, k) = {}

CleanInv == start.scanned => z = start.z /\ r = start.r /\ Clean(start.z, start.r)

ReportInv ==
  good # "none" => /\ pc \in {"saver", "done", "error", "crash"} /\ diskz = z
                   /\ good = "good" <=> stat.miss = {} /\ stat.bad = {}

ScanInv ==
  /\ ScanTyped /\ AllDistinct /\ SavedInv /\ StatInv /\ OriginInv /\ KeptInv
  /\ PhaseInv /\ CleanInv /\ ReportInv

-----------------------------------------------------------------------------
(* Facts about the definitions of RomScan.                                 *)

LEMMA RomNames ==
  /\ Roms \subseteq Name
  /\ \A g, h \in Roms : SameName(g, h) => g = h
  /\ \A g \in Roms : Good[g] \in Data /\ Known(g) /\ Rom(g) \in Entry
  /\ \A n, m : SameName(n, m) /\ Known(m) => Known(n)
BY RomScanAssumption DEF RomScanAssumption, Roms, Known, SameName, Rom, Entry

LEMMA PhaseNames ==
  /\ ToSet(Phases) = {"miss", "bad", "binary", "text", "garbage", "savez", "saver", "done"}
  /\ After("miss") = "bad" /\ After("bad") = "binary" /\ After("binary") = "text"
  /\ After("text") = "garbage" /\ After("garbage") = "savez"
<1>1. DOMAIN Phases = 1..8 BY DEF Phases
<1>2. /\ Phases[1] = "miss" /\ Phases[2] = "bad" /\ Phases[3] = "binary"
      /\ Phases[4] = "text" /\ Phases[5] = "garbage" /\ Phases[6] = "savez"
      /\ Phases[7] = "saver" /\ Phases[8] = "done"
  BY DEF Phases
<1>3. \A i \in 1..8 : i = 1 \/ i = 2 \/ i = 3 \/ i = 4 \/ i = 5 \/ i = 6 \/ i = 7 \/ i = 8
  OBVIOUS
<1>4. ToSet(Phases) = {"miss", "bad", "binary", "text", "garbage", "savez", "saver", "done"}
  <2>1. ToSet(Phases) = {Phases[i] : i \in 1..8} BY <1>1 DEF ToSet
  <2> QED BY <1>2, <1>3, <2>1
<1>5. \A i \in 1..5, j \in 1..7 : Phases[j] = Phases[i] => j = i
  BY <1>2
<1>6. \A i \in 1..5 : (CHOOSE j \in 1..7 : Phases[j] = Phases[i]) = i
  BY <1>5
<1>7. \A i \in 1..5 : After(Phases[i]) = Phases[i + 1]
  BY <1>6 DEF After
<1> QED BY <1>2, <1>4, <1>7

LEMMA NextPhase ==
  ASSUME pc' = After(pc)
  PROVE  /\ pc = "miss" => pc' = "bad"
         /\ pc = "bad" => pc' = "binary"
         /\ pc = "binary" => pc' = "text"
         /\ pc = "text" => pc' = "garbage"
         /\ pc = "garbage" => pc' = "savez"
BY PhaseNames, Zenon

LEMMA Classes ==
  /\ \A d \in Data : \E k \in Kinds : d \in Class(k)
  /\ \A k, l \in Kinds : \A d : d \in Class(k) /\ d \in Class(l) => k = l
  /\ \A k \in Kinds : Class(k) \subseteq Data
  /\ \A k \in Kinds : \A d : ~Keep(d) /\ d \in Class(k) => k = "garbage" /\ active("garbage")
BY RomScanAssumption DEF RomScanAssumption, Class, Kinds, Keep

\* A name has the rom g if and only if the entry found by the name has its data.
LEMMA RomFound ==
  ASSUME NEW s \in Seq(Entry), Distinct(s), NEW g
  PROVE  /\ FindName(s, g) = 0 <=> Named(s, g) = {}
         /\ HasRom(s, g) <=> FindName(s, g) # 0 /\ s[FindName(s, g)].data = Good[g]
         /\ HasRom(s, g) <=> \E e \in Named(s, g) : e.data = Good[g]
         /\ HasRom(s, g) => \A e \in Named(s, g) : e.data = Good[g]
         /\ HasRom(s, g) => Good[g] \in DataOf(s)
<1>1. /\ FindName(s, g) = 0 => Named(s, g) = {}
      /\ FindName(s, g) # 0 => Named(s, g) = {s[FindName(s, g)]}
  BY NamedOne
<1>2. HasRom(s, g) <=> \E e \in Named(s, g) : e.data = Good[g]
  BY DEF HasRom, HasData, Named
<1>3. HasRom(s, g) => Good[g] \in DataOf(s)
  BY DEF HasRom, HasData, DataOf
<1> QED BY <1>1, <1>2, <1>3

LEMMA StraysFound ==
  ASSUME z \in Seq(Entry), Distinct(z), NEW D
  PROVE  Unknown(D) = {e \in ToSet(z) : ~Known(e.name) /\ e.data \in D}
<1>1. DOMAIN z = 1 .. Len(z) /\ Len(z) \in Nat BY LenProperties
<1>2. \A i \in DOMAIN z : First(i) BY <1>1 DEF First, Distinct
<1> DEFINE U == {i \in DOMAIN z : ~IsRom(i) /\ z[i].data \in D}
<1>3. U = {i \in DOMAIN z : ~Known(z[i].name) /\ z[i].data \in D}
  BY <1>2 DEF IsRom
<1>4. \A i \in U : ~\E j \in U : j < i /\ SameName(z[j].name, z[i].name)
  BY <1>1 DEF Distinct
<1>5. Unknown(D) = {z[i] : i \in U} BY <1>4 DEF Unknown
<1> QED BY <1>3, <1>5 DEF ToSet

LEMMA InitInv ==
  ASSUME DistinctStart, Init
  PROVE  ScanInv
<1> PICK s \in Start :
       /\ diskz = s.z /\ diskr = s.r
       /\ other = s.other /\ readonly = s.readonly /\ oper = s.oper
       /\ z = diskz /\ r = diskr
       /\ pc = "stat" /\ stat = NoStat /\ good = "none"
       /\ start = [z |-> diskz, r |-> diskr, scanned |-> FALSE] /\ runs = 0
  BY DEF Init
<1>1. ScanTyped
  <2>1. NoStat \in [miss : SUBSET Roms, bad : SUBSET Roms, binary : SUBSET Entry,
                    text : SUBSET Entry, garbage : SUBSET Entry]
    BY DEF NoStat
  <2> QED BY <2>1, RomScanAssumption DEF RomScanAssumption, ScanTyped
<1>2. AllDistinct BY DEF DistinctStart, AllDistinct
<1>3. SavedInv BY DEF SavedInv
<1>4. StatInv BY DEF StatInv, NoStat, Kinds, Scanning
<1>5. OriginInv BY DEF OriginInv
<1>6. KeptInv BY DEF KeptInv
<1>7. PhaseInv BY DEF PhaseInv, Scanning
<1>8. CleanInv /\ ReportInv BY DEF CleanInv, ReportInv
<1> QED BY <1>1, <1>2, <1>3, <1>4, <1>5, <1>6, <1>7, <1>8 DEF ScanInv

LEMMA StatStep ==
  ASSUME ScanInv, Stat
  PROVE  ScanInv'
<1> USE DEF ScanInv, Stat
<1>1. z \in Seq(Entry) /\ Distinct(z) /\ z = start.z /\ r = start.r
  BY DEF ScanTyped, AllDistinct, SavedInv
<1>2. \A k \in Kinds : stat'[k] = Strays(z, k)
  BY <1>1, StraysFound DEF Kinds, stat_rom_zip, Strays, Class
<1>3. stat'.miss = {g \in Roms : Named(z, g) = {}}
  BY <1>1, RomFound DEF stat_rom_zip
<1>4. stat'.bad = {g \in Roms : Named(z, g) # {} /\ ~HasRom(z, g)}
  BY <1>1, RomFound DEF stat_rom_zip
<1>5. ScanTyped'
  <2>1. \A k \in Kinds : stat'[k] \in SUBSET Entry BY <1>1, <1>2, InList DEF Strays
  <2>2. stat' \in [miss : SUBSET Roms, bad : SUBSET Roms, binary : SUBSET Entry,
                   text : SUBSET Entry, garbage : SUBSET Entry]
    BY <2>1 DEF stat_rom_zip, Kinds
  <2> QED BY <2>2, PhaseNames DEF ScanTyped, disks, setting
<1>6. AllDistinct' BY DEF AllDistinct, disks
<1>7. SavedInv' BY DEF SavedInv, disks, Before
<1>8. StatInv' BY <1>2, <1>3, <1>4 DEF StatInv, Strays, Named, HasRom, HasData, Class, Known, SameName
<1>9. OriginInv' BY DEF OriginInv, setting, Offered, Rom, DataOf
<1>10. KeptInv' BY <1>1 DEF KeptInv, HasRom, HasData
<1>11. PhaseInv' BY <1>1 DEF PhaseInv, Scanning
<1>12. CleanInv' BY DEF CleanInv, Clean, setting, active, HasRom, HasData, DataOf, Strays
<1>13. ReportInv' BY DEF ReportInv
<1> QED BY <1>5, <1>6, <1>7, <1>8, <1>9, <1>10, <1>11, <1>12, <1>13

-----------------------------------------------------------------------------
(* Steps that change no list.                                              *)

LEMMA KeptStays ==
  ASSUME KeptInv, UNCHANGED <<z, r, stat, start, setting>>,
         pc' \in {"stat", "miss", "bad"} => pc \in {"stat", "miss", "bad"}
  PROVE  KeptInv'
<1>1. \A n : Pending(n)' <=> Pending(n) BY DEF Pending
<1>2. \A g : HasRom(z, g)' <=> HasRom(z, g) BY DEF HasRom, HasData
<1>3. \A d : Safe(d)' <=> Safe(d) BY <1>1, <1>2 DEF Safe
<1>4. \A d : Keep(d)' <=> Keep(d) BY DEF Keep, active, setting
<1>5. \A e : Collides(e)' <=> Collides(e) BY DEF Collides
<1>6. \A g : HasRom(start.z, g)' <=> HasRom(start.z, g) BY DEF HasRom, HasData
<1> QED BY <1>2, <1>3, <1>4, <1>5, <1>6 DEF KeptInv

LEMMA FailStep ==
  ASSUME ScanInv, NEW how \in {"dangling entry", "error", "crash"}, Fail(how),
         how = "dangling entry" => pc \in {"miss", "bad"}
  PROVE  ScanInv'
<1> USE DEF ScanInv, Fail
<1>1. ScanTyped' BY DEF ScanTyped, disks, setting, Ended
<1>2. AllDistinct' BY DEF AllDistinct, disks
<1>3. SavedInv' BY DEF SavedInv, disks, Before
<1>4. StatInv' BY DEF StatInv, Scanning, Strays, Named, HasRom, HasData
<1>5. OriginInv' BY DEF OriginInv, setting, Offered, Rom, DataOf
<1>6. KeptInv' BY KeptStays
<1>7. PhaseInv' BY DEF PhaseInv, Scanning, active, setting
<1>8. CleanInv' BY DEF CleanInv, Clean, setting, active, HasRom, HasData, DataOf, Strays
<1>9. ReportInv' BY DEF ReportInv, disks
<1> QED BY <1>1, <1>2, <1>3, <1>4, <1>5, <1>6, <1>7, <1>8, <1>9

LEMMA StutterStep ==
  ASSUME ScanInv, UNCHANGED vars
  PROVE  ScanInv'
<1> USE DEF ScanInv, vars, disks, setting
<1>1. ScanTyped' BY DEF ScanTyped
<1>2. AllDistinct' BY DEF AllDistinct
<1>3. SavedInv' BY DEF SavedInv
<1>4. StatInv' BY DEF StatInv, Strays, Named, HasRom, HasData
<1>5. OriginInv' BY DEF OriginInv, Offered, Rom, DataOf
<1>6. KeptInv' BY KeptStays
<1>7. PhaseInv' BY DEF PhaseInv, active, Offered
<1>8. CleanInv' BY DEF CleanInv, Clean, active, HasRom, HasData, DataOf, Strays
<1>9. ReportInv' BY DEF ReportInv
<1> QED BY <1>1, <1>2, <1>3, <1>4, <1>5, <1>6, <1>7, <1>8, <1>9

\* Everything that is offered is found while the search lasts.
LEMMA OfferedIsFound ==
  ASSUME ScanInv, pc \in {"miss", "bad"}, NEW g \in Roms, Good[g] \in Offered
  PROVE  Found(g)
<1> USE DEF ScanInv
<1>1. z \in Seq(Entry) /\ r \in Seq(Entry) /\ diskr = start.r
  BY DEF ScanTyped, SavedInv, Before
<1>2. Good[g] \in DataOf(z) => InSame(g) BY <1>1, FindDataFinds DEF InSame
<1>3. Good[g] \in DataOf(r) => InReject(g) BY <1>1, FindDataFinds DEF InReject
<1>4. Good[g] \in other \cup DataOf(start.r) => InOther(g) BY <1>1 DEF InOther
<1>5. ASSUME Good[g] \in DataOf(start.z) PROVE Good[g] \in DataOf(z) \cup DataOf(r)
  <2>1. PICK e \in ToSet(start.z) : e.data = Good[g] BY <1>5 DEF DataOf
  <2>2. e \in ToSet(z) \/ Safe(e.data) BY DEF KeptInv
  <2> QED BY <2>1, <2>2 DEF Safe, DataOf, HasRom, HasData
<1> QED BY <1>2, <1>3, <1>4, <1>5 DEF Found, Offered

LEMMA SearchEndsStep ==
  ASSUME ScanInv, SearchEnds
  PROVE  ScanInv'
<1> USE DEF ScanInv, SearchEnds
<1>1. \/ pc = "miss" /\ pc' = "bad"
      \/ pc = "bad" /\ pc' = "binary"
  BY NextPhase
<1>2. ScanTyped' BY <1>1, PhaseNames DEF ScanTyped, disks, setting
<1>3. AllDistinct' BY DEF AllDistinct, disks
<1>4. SavedInv' BY <1>1 DEF SavedInv, disks, Before
<1>5. StatInv' BY <1>1 DEF StatInv, Scanning, Strays, Named, HasRom, HasData
<1>6. OriginInv' BY DEF OriginInv, setting, Offered, Rom, DataOf
<1>7. KeptInv' BY <1>1, KeptStays
<1>8. active("fix") => \A g \in stat[pc] : Good[g] \notin Offered
  BY OfferedIsFound DEF ScanTyped
<1>9. PhaseInv' BY <1>1, <1>8 DEF PhaseInv, Scanning, active, setting, Offered
<1>10. CleanInv' BY DEF CleanInv, Clean, setting, active, HasRom, HasData, DataOf, Strays
<1>11. ReportInv' BY <1>1 DEF ReportInv
<1> QED BY <1>2, <1>3, <1>4, <1>5, <1>6, <1>7, <1>9, <1>10, <1>11

LEMMA RemoveEndsStep ==
  ASSUME ScanInv, RemoveEnds
  PROVE  ScanInv'
<1> USE DEF ScanInv, RemoveEnds
<1>1. \/ pc = "binary" /\ pc' = "text"
      \/ pc = "text" /\ pc' = "garbage"
      \/ pc = "garbage" /\ pc' = "savez"
  BY NextPhase
<1>2. ScanTyped' BY <1>1, PhaseNames DEF ScanTyped, disks, setting
<1>3. AllDistinct' BY DEF AllDistinct, disks
<1>4. SavedInv' BY <1>1 DEF SavedInv, disks, Before
<1>5. StatInv' BY <1>1 DEF StatInv, Scanning, Strays, Named, HasRom, HasData
<1>6. OriginInv' BY DEF OriginInv, setting, Offered, Rom, DataOf
<1>7. KeptInv' BY <1>1, KeptStays
<1>8. PhaseInv' BY <1>1 DEF PhaseInv, Scanning, active, setting, Offered
<1>9. CleanInv' BY DEF CleanInv, Clean, setting, active, HasRom, HasData, DataOf, Strays
<1>10. ReportInv' BY <1>1 DEF ReportInv
<1> QED BY <1>2, <1>3, <1>4, <1>5, <1>6, <1>7, <1>8, <1>9, <1>10

LEMMA SaveZStep ==
  ASSUME ScanInv, SaveZ
  PROVE  ScanInv'
<1> USE DEF ScanInv, SaveZ
<1>1. ScanTyped' BY PhaseNames DEF ScanTyped, setting
<1>2. AllDistinct' BY DEF AllDistinct
<1>3. SavedInv' BY DEF SavedInv, Before
<1>4. StatInv' BY DEF StatInv, Scanning, Strays, Named, HasRom, HasData
<1>5. OriginInv' BY DEF OriginInv, setting, Offered, Rom, DataOf
<1>6. KeptInv' BY KeptStays
<1>7. PhaseInv' BY DEF PhaseInv, Scanning, active, setting, Offered
<1>8. CleanInv' BY DEF CleanInv, Clean, setting, active, HasRom, HasData, DataOf, Strays
<1>9. ReportInv' BY DEF ReportInv
<1> QED BY <1>1, <1>2, <1>3, <1>4, <1>5, <1>6, <1>7, <1>8, <1>9

LEMMA SaveRStep ==
  ASSUME ScanInv, SaveR
  PROVE  ScanInv'
<1> USE DEF ScanInv, SaveR
<1>1. ScanTyped' BY PhaseNames DEF ScanTyped, setting
<1>2. AllDistinct' BY DEF AllDistinct
<1>3. SavedInv' BY DEF SavedInv, Before
<1>4. StatInv' BY DEF StatInv, Scanning, Strays, Named, HasRom, HasData
<1>5. OriginInv' BY DEF OriginInv, setting, Offered, Rom, DataOf
<1>6. KeptInv' BY KeptStays
<1>7. PhaseInv' BY DEF PhaseInv, Scanning, active, setting, Offered
<1>8. CleanInv' BY DEF CleanInv, Clean, setting, active, HasRom, HasData, DataOf, Strays
<1>9. ReportInv' BY DEF ReportInv
<1> QED BY <1>1, <1>2, <1>3, <1>4, <1>5, <1>6, <1>7, <1>8, <1>9

\* What comes from the two archives, or was offered, was offered at the start.
LEMMA NothingNewOffered ==
  ASSUME OriginInv
  PROVE  other \cup DataOf(z) \cup DataOf(r) \subseteq Offered
BY DEF OriginInv, Offered, DataOf, Rom

LEMMA DoneIsClean ==
  ASSUME ScanInv, pc = "done"
  PROVE  Clean(diskz, diskr)
<1> USE DEF ScanInv
<1>1. diskz = z /\ diskr = r BY DEF SavedInv
<1>2. ASSUME active("fix"), NEW g \in Roms, ~HasRom(z, g)
      PROVE Good[g] \notin other \cup DataOf(z) \cup DataOf(r)
  <2>1. g \in stat.miss \cup stat.bad BY <1>2 DEF StatInv, Scanning
  <2>2. Good[g] \notin Offered BY <1>2, <2>1 DEF PhaseInv, Scanning
  <2> QED BY <2>2, NothingNewOffered
<1>3. ASSUME NEW k \in Kinds, active(k) PROVE Strays(z, k) = {}
  <2>1. stat[k] = {} BY <1>3 DEF PhaseInv, Scanning, Kinds
  <2> QED BY <2>1 DEF StatInv, Scanning
<1> QED BY <1>1, <1>2, <1>3 DEF Clean

LEMMA RerunStep ==
  ASSUME ScanInv, Rerun
  PROVE  ScanInv'
<1> USE DEF ScanInv, Rerun
<1>0. runs + 1 \in 0..MaxRuns
  <2>1. runs \in 0..MaxRuns /\ runs < MaxRuns BY DEF ScanTyped
  <2>2. MaxRuns \in Nat BY RomScanAssumption DEF RomScanAssumption
  <2> QED BY <2>1, <2>2
<1>1. ScanTyped'
  <2>1. NoStat \in [miss : SUBSET Roms, bad : SUBSET Roms, binary : SUBSET Entry,
                    text : SUBSET Entry, garbage : SUBSET Entry]
    BY DEF NoStat
  <2> QED BY <1>0, <2>1 DEF ScanTyped, disks, setting
<1>2. AllDistinct' BY DEF AllDistinct, disks
<1>3. SavedInv' BY DEF SavedInv, disks
<1>4. StatInv' BY DEF StatInv, NoStat, Kinds, Scanning
<1>5. OriginInv' BY DEF OriginInv
<1>6. KeptInv' BY DEF KeptInv
<1>7. PhaseInv' BY DEF PhaseInv, Scanning
<1>8. CleanInv'
  <2>1. pc = "done" => Clean(diskz, diskr) BY DoneIsClean
  <2> QED BY <2>1 DEF CleanInv, Clean, disks, setting, active
<1>9. ReportInv' BY DEF ReportInv
<1> QED BY <1>1, <1>2, <1>3, <1>4, <1>5, <1>6, <1>7, <1>8, <1>9

-----------------------------------------------------------------------------
(* Steps that move an entry: what has the name n goes to the reject        *)
(* archive, and no other name that is still to be dealt with is touched.   *)

PairNow == [z |-> z', r |-> r']

LEMMA KeptMoves ==
  ASSUME NEW n, NEW gone, NEW new, ScanTyped, KeptInv,
         AsideAt(Pair, PairNow, n, gone, new),
         UNCHANGED <<start, setting, pc>>,
         Named(z, n) # {} => Pending(n),
         \A m : Pending(m)' => Pending(m),
         \A m : SameName(m, n) => ~Pending(m)',
         Named(z, n) \subseteq ToSet(start.z),
         \A g \in Roms : HasRom(z, g) => HasRom(z, g)',
         \A e \in new : \E g \in Roms : e = Rom(g) /\ HasRom(z, g)',
         \A e \in gone : e \in Named(z, n) \/ Safe(e.data)'
  PROVE  KeptInv'
<1>1. /\ ToSet(z') = (ToSet(z) \ gone) \cup new
      /\ \A e \in Named(z, n) : \E f \in Named(r', n) : f.data = e.data
      /\ \A e \in ToSet(r) :
           e \in ToSet(r') \/ e \in new \/ (SameName(e.name, n) /\ Named(z, n) # {})
  BY DEF AsideAt, Pair, PairNow
<1>2. \A e \in Named(z, n) : Safe(e.data)'
  BY <1>1 DEF Safe, Named
<1>3. \A e \in new : Safe(e.data)' BY DEF Safe, Rom
<1>4. ASSUME NEW d, Safe(d) PROVE Safe(d)'
  <2>1. CASE \E g \in Roms : Good[g] = d /\ HasRom(z, g)
    BY <2>1 DEF Safe
  <2>2. CASE \E e \in ToSet(r) : e.data = d /\ ~Pending(e.name)
    <3>1. PICK e \in ToSet(r) : e.data = d /\ ~Pending(e.name) BY <2>2
    <3>2. ~(SameName(e.name, n) /\ Named(z, n) # {}) BY <3>1 DEF Pending, SameName
    <3>3. CASE e \in ToSet(r') BY <3>1, <3>3 DEF Safe
    <3>4. CASE e \in new BY <1>3, <3>1, <3>4
    <3> QED BY <1>1, <3>2, <3>3, <3>4
  <2> QED BY <1>4, <2>1, <2>2 DEF Safe
<1>5. \A d : Keep(d)' <=> Keep(d) BY DEF Keep, active, setting
<1>6. \A e : Collides(e)' <=> Collides(e) BY DEF Collides
<1>7. ASSUME NEW e \in ToSet(start.z), Keep(e.data) \/ pc \in {"stat", "miss", "bad"}
      PROVE e \in ToSet(z') \/ Safe(e.data)'
  BY <1>1, <1>2, <1>4, <1>7 DEF KeptInv
<1>8. ASSUME NEW e \in ToSet(start.r), ~Collides(e)
      PROVE e \in ToSet(r') \/ Safe(e.data)'
  <2>1. CASE Safe(e.data) BY <1>4, <2>1
  <2>2. CASE e \in ToSet(r) /\ e \notin ToSet(r') /\ e \notin new
    <3>1. SameName(e.name, n) /\ Named(z, n) # {} BY <1>1, <2>2
    <3>2. PICK f \in Named(z, n) : TRUE BY <3>1
    <3>3. f = e BY <1>8, <3>1, <3>2 DEF Collides, Named, SameName
    <3> QED BY <1>2, <3>2, <3>3
  <2> QED BY <1>3, <1>8, <2>1, <2>2 DEF KeptInv
<1>9. \A g \in Roms : HasRom(start.z, g)' => HasRom(z, g)'
  BY DEF KeptInv, HasRom, HasData
<1> QED BY <1>5, <1>6, <1>7, <1>8, <1>9 DEF KeptInv

\* A rom is put in its place; the files S are the ones renamed to it.
LEMMA AddStep ==
  ASSUME ScanInv, NEW g \in Roms, Searching(g), active("fix"), Found(g),
         NEW S \in SUBSET stat.binary, \A e \in S : e.data = Good[g],
         AsideAt(Pair, PairNow, g, Named(z, g) \cup S, {Rom(g)}),
         stat' = [stat EXCEPT ![pc] = @ \ {g}, !.binary = @ \ S],
         UNCHANGED <<disks, setting, pc, good, start, runs>>
  PROVE  ScanInv'
<1> USE DEF ScanInv
<1>1. /\ z' \in Seq(Entry) /\ r' \in Seq(Entry) /\ Distinct(z') /\ Distinct(r')
      /\ ToSet(z') = (ToSet(z) \ (Named(z, g) \cup S)) \cup {Rom(g)}
      /\ \A e \in Named(z, g) : \E f \in Named(r', g) : f.data = e.data
      /\ \A f \in ToSet(r') :
           f \in ToSet(r) \/ (SameName(f.name, g) /\ \E e \in Named(z, g) : f.data = e.data)
  BY DEF AsideAt, Pair, PairNow, Pairs, DistinctPair
<1>2. pc \in {"miss", "bad"} /\ g \in stat[pc] BY DEF Searching
<1>3. ~HasRom(z, g)
  BY <1>2 DEF StatInv, HasRom, HasData, Named
<1>4. Good[g] \in Offered
  <2>1. z \in Seq(Entry) /\ r \in Seq(Entry) BY DEF ScanTyped
  <2>2. InBag(g) \/ InSame(g) => Good[g] \in DataOf(z)
    BY <2>1, FindDataFinds DEF InBag, InSame, StatInv, Kinds, Strays, DataOf
  <2>3. InReject(g) => Good[g] \in DataOf(r) BY <2>1, FindDataFinds DEF InReject
  <2>4. InOther(g) => Good[g] \in Offered
    BY <1>2 DEF InOther, SavedInv, Before, Offered
  <2>5. Good[g] \in DataOf(z) \cup DataOf(r) => Good[g] \in Offered
    BY NothingNewOffered
  <2> QED BY <2>2, <2>3, <2>4, <2>5 DEF Found
<1>5. \A e \in S : ~Known(e.name) /\ e.data \in Class("binary") /\ e \in ToSet(z)
  BY DEF StatInv, Kinds, Strays
<1>6. \A h \in Roms : Named(z', h) = IF h = g THEN {Rom(g)} ELSE Named(z, h)
  <2> SUFFICES ASSUME NEW h \in Roms
               PROVE Named(z', h) = IF h = g THEN {Rom(g)} ELSE Named(z, h)
    OBVIOUS
  <2>1. SameName(Rom(g).name, h) <=> h = g BY RomNames DEF Rom, SameName
  <2>2. \A e \in S : ~SameName(e.name, h) BY <1>5, RomNames
  <2>3. \A e \in Named(z, g) : SameName(e.name, h) => h = g
    BY RomNames DEF Named, SameName
  <2> QED BY <1>1, <2>1, <2>2, <2>3 DEF Named
<1>7. \A h \in Roms : HasRom(z', h) <=> h = g \/ HasRom(z, h)
  BY <1>6 DEF HasRom, HasData, Named, Rom
<1>8. Strays(z', "binary") = Strays(z, "binary") \ S
      /\ Strays(z', "text") = Strays(z, "text") /\ Strays(z', "garbage") = Strays(z, "garbage")
  <2>1. Known(Rom(g).name) BY RomNames DEF Rom
  <2>2. \A e \in Named(z, g) : Known(e.name) BY RomNames DEF Named
  <2>3. \A e \in S : e.data \notin Class("text") /\ e.data \notin Class("garbage")
    BY <1>5, Classes DEF Kinds
  <2> QED BY <1>1, <2>1, <2>2, <2>3 DEF Strays
<1>9. /\ stat' \in [miss : SUBSET Roms, bad : SUBSET Roms, binary : SUBSET Entry,
                    text : SUBSET Entry, garbage : SUBSET Entry]
      /\ stat'.miss = stat.miss \ {g} /\ stat'.bad = stat.bad \ {g}
      /\ stat'.binary = stat.binary \ S /\ stat'.text = stat.text
      /\ stat'.garbage = stat.garbage
  <2>1. g \in stat.miss => g \notin stat.bad BY DEF StatInv
  <2> QED BY <1>2, <2>1 DEF ScanTyped
<1>10. Named(z, g) \subseteq ToSet(start.z)
  <2> SUFFICES ASSUME NEW e \in Named(z, g), e \notin ToSet(start.z) PROVE FALSE
    OBVIOUS
  <2>1. PICK h \in Roms : e = Rom(h) BY DEF Named, OriginInv
  <2>2. h = g BY <2>1, RomNames DEF Named, Rom
  <2> QED BY <1>3, <2>1, <2>2 DEF Named, HasRom, HasData, Rom
<1>11. ScanTyped' BY <1>1, <1>9 DEF ScanTyped, disks, setting
<1>12. AllDistinct' BY <1>1 DEF AllDistinct, disks
<1>13. SavedInv' BY <1>2 DEF SavedInv, disks, Before
<1>14. StatInv'
  <2>1. \A h \in Roms : HasRom(z, h)' <=> HasRom(z', h) BY DEF HasRom, HasData
  <2>2. \A h \in stat'.miss : Named(z', h) = {}
    BY <1>6, <1>9 DEF StatInv, ScanTyped
  <2>3. \A h \in stat'.bad : Named(z', h) # {} /\ ~HasRom(z', h)
    BY <1>6, <1>7, <1>9 DEF StatInv, ScanTyped
  <2>4. \A k \in Kinds : stat[k] = Strays(z, k)
    BY <1>2 DEF StatInv, Scanning
  <2>5. \A k \in Kinds : stat'[k] = Strays(z', k)
    BY <1>8, <1>9, <2>4 DEF Kinds
  <2>6. \A h \in Roms : ~HasRom(z', h) => h \in stat'.miss \cup stat'.bad
    BY <1>2, <1>7, <1>9 DEF StatInv, Scanning
  <2> QED BY <2>1, <2>2, <2>3, <2>5, <2>6 DEF StatInv, Strays, Named
<1>15. OriginInv'
  <2>1. Offered' = Offered BY DEF Offered, setting, DataOf
  <2>2. \A e \in ToSet(z') : e \in ToSet(start.z) \/ \E h \in Roms : e = Rom(h) /\ Good[h] \in Offered
    BY <1>1, <1>4 DEF OriginInv
  <2>3. DataOf(r') \subseteq DataOf(start.z) \cup DataOf(start.r)
    <3> SUFFICES ASSUME NEW f \in ToSet(r')
                 PROVE f.data \in DataOf(start.z) \cup DataOf(start.r)
      BY DEF DataOf
    <3>1. CASE f \in ToSet(r) BY <3>1 DEF OriginInv, DataOf
    <3>2. CASE \E e \in Named(z, g) : f.data = e.data BY <1>10, <3>2 DEF DataOf
    <3> QED BY <1>1, <3>1, <3>2
  <2> QED BY <2>1, <2>2, <2>3 DEF OriginInv, DataOf, Rom
<1>16. KeptInv'
  <2>1. \A m : Pending(m)' => Pending(m) BY <1>9 DEF Pending
  <2>2. Named(z, g) # {} => Pending(g)
    <3>1. g \notin stat.miss \/ Named(z, g) = {} BY DEF StatInv
    <3> QED BY <1>2, <3>1 DEF Pending, SameName
  <2>3. ASSUME NEW m, SameName(m, g) PROVE ~Pending(m)'
    <3>1. g \notin stat'.bad BY <1>9
    <3>2. \A h \in stat'.bad : ~SameName(m, h)
      <4> SUFFICES ASSUME NEW h \in stat'.bad, SameName(m, h) PROVE FALSE
        OBVIOUS
      <4>1. h \in Roms BY <1>9
      <4>2. SameName(h, g) BY <2>3 DEF SameName
      <4> QED BY <3>1, <4>1, <4>2, RomNames
    <3>3. \A k \in {"binary", "text"} : \A e \in stat'[k] : ~Known(e.name)
      BY <1>9 DEF StatInv, Strays, Kinds
    <3>4. \A k \in {"binary", "text"} : \A e \in stat'[k] : ~SameName(m, e.name)
      BY <2>3, <3>3, RomNames DEF SameName
    <3> QED BY <3>2, <3>4 DEF Pending
  <2>4. \A h \in Roms : HasRom(z, h)' <=> HasRom(z', h) BY DEF HasRom, HasData
  <2>5. \A e \in {Rom(g)} : \E h \in Roms : e = Rom(h) /\ HasRom(z, h)'
    BY <1>7, <2>4
  <2>6. \A e \in S : Safe(e.data)' BY <1>7, <2>4 DEF Safe
  <2>7. \A e \in Named(z, g) \cup S : e \in Named(z, g) \/ Safe(e.data)' BY <2>6
  <2>8. \A h \in Roms : HasRom(z, h) => HasRom(z, h)' BY <1>7, <2>4
  <2>9. UNCHANGED <<start, setting, pc>> /\ ScanTyped /\ KeptInv OBVIOUS
  <2> DEFINE gone == Named(z, g) \cup S
             new == {Rom(g)}
  <2>10. AsideAt(Pair, PairNow, g, gone, new) OBVIOUS
  <2>11. \A e \in new : \E h \in Roms : e = Rom(h) /\ HasRom(z, h)' BY <2>5
  <2>12. \A e \in gone : e \in Named(z, g) \/ Safe(e.data)' BY <2>7
  <2>13. \A m : SameName(m, g) => ~Pending(m)' BY <2>3
  <2> HIDE DEF gone, new
  <2> QED BY <1>10, <2>1, <2>2, <2>8, <2>9, <2>10, <2>11, <2>12, <2>13, KeptMoves, Zenon
<1>17. PhaseInv'
  <2>1. Offered' = Offered BY DEF Offered, setting, DataOf
  <2>2. active("fix")' /\ "fix" \in Oper BY DEF active, setting, Oper
  <2>3. active("fix") <=> active("fix")' BY DEF active, setting
  <2> QED BY <1>2, <1>9, <2>1, <2>2, <2>3 DEF PhaseInv, Scanning
<1>18. CleanInv'
  <2>1. ~start.scanned
    BY <1>3, <1>4 DEF CleanInv, Clean, Offered
  <2> QED BY <2>1 DEF CleanInv
<1>19. ReportInv' BY <1>2 DEF ReportInv
<1> QED BY <1>11, <1>12, <1>13, <1>14, <1>15, <1>16, <1>17, <1>18, <1>19

\* A stray e of the set k leaves the archive: no rom and no other set sees it.
LEMMA StrayLeaves ==
  ASSUME ScanInv, NEW k \in Kinds, NEW e \in stat[k], pc \in Scanning,
         z' \in Seq(Entry), Distinct(z'), ToSet(z') = ToSet(z) \ {e},
         stat' = [stat EXCEPT ![k] = @ \ {e}]
  PROVE  /\ \A h \in Roms : Named(z', h) = Named(z, h) /\ (HasRom(z', h) <=> HasRom(z, h))
         /\ \A l \in Kinds : stat'[l] = stat[l] \ {e} /\ stat'[l] = Strays(z', l)
         /\ stat'.miss = stat.miss /\ stat'.bad = stat.bad
         /\ stat' \in [miss : SUBSET Roms, bad : SUBSET Roms, binary : SUBSET Entry,
                       text : SUBSET Entry, garbage : SUBSET Entry]
         /\ Named(z, e.name) = {e} /\ e \in ToSet(start.z) /\ ~Known(e.name) /\ e.name \in Name
<1> USE DEF ScanInv
<1>1. \A l \in Kinds : stat[l] = Strays(z, l) BY DEF StatInv
<1>2. e \in ToSet(z) /\ ~Known(e.name) /\ e.data \in Class(k) BY <1>1 DEF Strays
<1>3. \A h \in Roms : ~SameName(e.name, h) BY <1>2, RomNames
<1>4. \A h \in Roms : Named(z', h) = Named(z, h) BY <1>3 DEF Named
<1>5. \A h \in Roms : HasRom(z', h) <=> HasRom(z, h) BY <1>3 DEF HasRom, HasData
<1>6. \A l \in Kinds : l # k => e \notin stat[l]
  BY <1>1, <1>2, Classes DEF Strays
<1>7. \A l \in Kinds : stat'[l] = stat[l] \ {e}
  BY <1>6 DEF Kinds, ScanTyped
<1>8. \A l \in Kinds : Strays(z', l) = Strays(z, l) \ {e} BY DEF Strays
<1>9. /\ stat'.miss = stat.miss /\ stat'.bad = stat.bad
      /\ stat' \in [miss : SUBSET Roms, bad : SUBSET Roms, binary : SUBSET Entry,
                    text : SUBSET Entry, garbage : SUBSET Entry]
  BY DEF Kinds, ScanTyped
<1>10. Named(z, e.name) = {e}
  <2>1. z \in Seq(Entry) /\ Distinct(z) BY DEF ScanTyped, AllDistinct
  <2> QED BY <1>2, <2>1, ByName DEF Named, SameName
<1>11. e \in ToSet(start.z) /\ e.name \in Name
  <2>1. \A g \in Roms : e # Rom(g) BY <1>2, RomNames DEF Rom
  <2>2. e \in Entry BY <1>2, InList DEF ScanTyped
  <2> QED BY <1>2, <2>1, <2>2 DEF OriginInv, Entry
<1> QED BY <1>1, <1>2, <1>4, <1>5, <1>7, <1>8, <1>9, <1>10, <1>11

LEMMA RemoveUnknownStep ==
  ASSUME ScanInv, RemoveUnknown
  PROVE  ScanInv'
<1> USE DEF ScanInv
<1>1. PICK e \in stat[pc] :
        LET p == Rejected(Pair, e.name) IN
        /\ z' = p.z /\ r' = p.r
        /\ stat' = [stat EXCEPT ![pc] = @ \ {e}]
  BY DEF RemoveUnknown
<1>2. /\ pc \in {"binary", "text"} /\ active(pc)
      /\ UNCHANGED <<disks, setting, pc, good, start, runs>>
  BY DEF RemoveUnknown
<1>3. pc \in Kinds /\ pc \in Scanning BY <1>2 DEF Kinds, Scanning
<1>4. e \in ToSet(z) /\ e.name \in Name
  <2>1. e \in ToSet(z) BY <1>3 DEF StatInv, Strays
  <2> QED BY <2>1, InList DEF ScanTyped, Entry
<1>5. AsideAt(Pair, PairNow, e.name, Named(z, e.name), {})
  <2>1. Pair \in Pairs /\ DistinctPair(Pair) BY DEF ScanTyped, AllDistinct, Pair, Pairs, DistinctPair
  <2>2. AsideAt(Pair, Rejected(Pair, e.name), e.name, Named(Pair.z, e.name), {})
    BY <1>4, <2>1, RejectedEntries
  <2>3. Rejected(Pair, e.name) \in [z : Seq(Entry), r : Seq(Entry)] BY <2>2 DEF AsideAt, Pairs
  <2>4. Rejected(Pair, e.name) = PairNow BY <1>1, <2>3 DEF PairNow
  <2> QED BY <2>2, <2>4 DEF Pair
<1>6. Named(z, e.name) = {e}
  <2>1. z \in Seq(Entry) /\ Distinct(z) BY DEF ScanTyped, AllDistinct
  <2> QED BY <1>4, <2>1, ByName DEF Named, SameName
<1>7. /\ z' \in Seq(Entry) /\ r' \in Seq(Entry) /\ Distinct(z') /\ Distinct(r')
      /\ ToSet(z') = ToSet(z) \ {e}
      /\ \A f \in ToSet(r') : f \in ToSet(r) \/ f.data = e.data
  BY <1>5, <1>6 DEF AsideAt, Pair, PairNow, Pairs, DistinctPair
<1>8. /\ \A h \in Roms : Named(z', h) = Named(z, h) /\ (HasRom(z', h) <=> HasRom(z, h))
      /\ \A l \in Kinds : stat'[l] = stat[l] \ {e} /\ stat'[l] = Strays(z', l)
      /\ stat'.miss = stat.miss /\ stat'.bad = stat.bad
      /\ stat' \in [miss : SUBSET Roms, bad : SUBSET Roms, binary : SUBSET Entry,
                    text : SUBSET Entry, garbage : SUBSET Entry]
      /\ e \in ToSet(start.z) /\ ~Known(e.name)
  BY <1>1, <1>3, <1>7, StrayLeaves
<1>9. ScanTyped' BY <1>2, <1>7, <1>8 DEF ScanTyped, disks, setting
<1>10. AllDistinct' BY <1>2, <1>7 DEF AllDistinct, disks
<1>11. SavedInv' BY <1>2 DEF SavedInv, disks, Before
<1>12. StatInv'
  <2>1. \A h \in Roms : (HasRom(z, h)' <=> HasRom(z', h)) /\ Named(z, h)' = Named(z', h)
    BY DEF HasRom, HasData, Named
  <2>2. \A k \in Kinds : Strays(z, k)' = Strays(z', k) BY DEF Strays
  <2>3. stat'.miss \subseteq Roms /\ stat'.bad \subseteq Roms BY <1>8
  <2> QED BY <1>2, <1>3, <1>8, <2>1, <2>2, <2>3 DEF StatInv
<1>13. OriginInv'
  BY <1>2, <1>7, <1>8 DEF OriginInv, Offered, setting, DataOf, Rom
<1>14. KeptInv'
  <2>1. \A m : Pending(m)' => Pending(m) BY <1>8 DEF Pending, Kinds
  <2>2. Pending(e.name) BY <1>2 DEF Pending, SameName
  <2>3. ASSUME NEW m, SameName(m, e.name) PROVE ~Pending(m)'
    <3>1. \A h \in stat'.bad : ~SameName(m, h)
      BY <1>8, <2>3, RomNames DEF SameName
    <3>2. \A l \in Kinds : \A f \in stat'[l] : f \in ToSet(z) /\ f # e
      BY <1>7, <1>8 DEF Strays
    <3>3. \A l \in {"binary", "text"} : \A f \in stat'[l] : ~SameName(m, f.name)
      BY <1>6, <2>3, <3>2 DEF Named, SameName, Kinds
    <3> QED BY <3>1, <3>3 DEF Pending
  <2>4. \A h \in Roms : HasRom(z, h) => HasRom(z, h)' BY <1>8 DEF HasRom, HasData
  <2>5. Named(z, e.name) \subseteq ToSet(start.z) BY <1>6, <1>8
  <2> DEFINE n == e.name
             gone == Named(z, n)
             new == {}
  <2>6. AsideAt(Pair, PairNow, n, gone, new) BY <1>5
  <2>7. \A f \in new : \E g \in Roms : f = Rom(g) /\ HasRom(z, g)' OBVIOUS
  <2>8. \A f \in gone : f \in Named(z, n) \/ Safe(f.data)' OBVIOUS
  <2>9. \A m : SameName(m, n) => ~Pending(m)' BY <2>3
  <2>10. UNCHANGED <<start, setting, pc>> /\ ScanTyped /\ KeptInv BY <1>2
  <2>11. Pending(n) /\ Named(z, n) \subseteq ToSet(start.z) BY <2>2, <2>5
  <2> HIDE DEF gone, new, n
  <2> QED BY <2>1, <2>4, <2>6, <2>7, <2>8, <2>9, <2>10, <2>11, KeptMoves, Zenon
<1>15. PhaseInv'
  <2>1. \A op : active(op)' <=> active(op) BY <1>2 DEF active, setting
  <2>2. Offered' = Offered BY <1>2 DEF Offered, setting, DataOf
  <2>3. pc \in Oper BY <1>2 DEF Oper
  <2> QED BY <1>2, <1>8, <2>1, <2>2, <2>3 DEF PhaseInv, Kinds
<1>16. CleanInv'
  <2>1. ~start.scanned BY <1>2, <1>3 DEF CleanInv, Clean, StatInv
  <2> QED BY <1>2, <2>1 DEF CleanInv
<1>17. ReportInv' BY <1>2 DEF ReportInv
<1> QED BY <1>9, <1>10, <1>11, <1>12, <1>13, <1>14, <1>15, <1>16, <1>17

LEMMA RemoveGarbageStep ==
  ASSUME ScanInv, RemoveGarbage
  PROVE  ScanInv'
<1> USE DEF ScanInv
<1>1. PICK e \in stat.garbage :
        z' = Removed(z, e.name) /\ stat' = [stat EXCEPT !.garbage = @ \ {e}]
  BY DEF RemoveGarbage
<1>2. /\ pc = "garbage" /\ active("garbage")
      /\ UNCHANGED <<r, disks, setting, pc, good, start, runs>>
  BY DEF RemoveGarbage
<1>3. "garbage" \in Kinds /\ e \in stat["garbage"] /\ pc \in Scanning
  BY <1>2 DEF Kinds, Scanning
<1>4. z \in Seq(Entry) /\ Distinct(z) BY DEF ScanTyped, AllDistinct
<1>5. e \in ToSet(z) /\ e.data \in Class("garbage") BY <1>3 DEF StatInv, Strays
<1>6. Named(z, e.name) = {e} BY <1>4, <1>5, ByName DEF Named, SameName
<1>7. z' \in Seq(Entry) /\ Distinct(z') /\ ToSet(z') = ToSet(z) \ {e}
  BY <1>1, <1>4, <1>6, RemovedEntries
<1>8. /\ \A h \in Roms : Named(z', h) = Named(z, h) /\ (HasRom(z', h) <=> HasRom(z, h))
      /\ \A l \in Kinds : stat'[l] = stat[l] \ {e} /\ stat'[l] = Strays(z', l)
      /\ stat'.miss = stat.miss /\ stat'.bad = stat.bad
      /\ stat' \in [miss : SUBSET Roms, bad : SUBSET Roms, binary : SUBSET Entry,
                    text : SUBSET Entry, garbage : SUBSET Entry]
  <2>1. stat' = [stat EXCEPT !["garbage"] = @ \ {e}] BY <1>1
  <2> QED BY <1>3, <1>7, <2>1, StrayLeaves
<1>9. ScanTyped' BY <1>2, <1>7, <1>8 DEF ScanTyped, disks, setting
<1>10. AllDistinct' BY <1>2, <1>7 DEF AllDistinct, disks
<1>11. SavedInv' BY <1>2 DEF SavedInv, disks, Before
<1>12. StatInv'
  <2>1. \A h \in Roms : (HasRom(z, h)' <=> HasRom(z', h)) /\ Named(z, h)' = Named(z', h)
    BY DEF HasRom, HasData, Named
  <2>2. \A k \in Kinds : Strays(z, k)' = Strays(z', k) BY DEF Strays
  <2>3. stat'.miss \subseteq Roms /\ stat'.bad \subseteq Roms BY <1>8
  <2> QED BY <1>2, <1>3, <1>8, <2>1, <2>2, <2>3 DEF StatInv
<1>13. OriginInv'
  BY <1>2, <1>7 DEF OriginInv, Offered, setting, DataOf, Rom
<1>14. KeptInv'
  <2>1. \A m : Pending(m)' => Pending(m) BY <1>8 DEF Pending, Kinds
  <2>2. \A h \in Roms : HasRom(z, h) => HasRom(z, h)' BY <1>8 DEF HasRom, HasData
  <2>3. \A d : Safe(d) => Safe(d)' BY <1>2, <2>1, <2>2 DEF Safe
  <2>4. \A d : Keep(d)' <=> Keep(d) BY <1>2 DEF Keep, active, setting
  <2>5. \A f : Collides(f)' <=> Collides(f) BY <1>2 DEF Collides
  <2>6. ~Keep(e.data) BY <1>2, <1>5 DEF Keep, Class
  <2>7. \A h \in Roms : HasRom(start.z, h)' => HasRom(z, h)'
    BY <1>2, <2>2 DEF KeptInv, HasRom, HasData
  <2> QED BY <1>2, <1>7, <2>3, <2>4, <2>5, <2>6, <2>7 DEF KeptInv
<1>15. PhaseInv'
  <2>1. \A op : active(op)' <=> active(op) BY <1>2 DEF active, setting
  <2>2. Offered' = Offered BY <1>2 DEF Offered, setting, DataOf
  <2>3. "garbage" \in Oper BY DEF Oper
  <2> QED BY <1>2, <1>8, <2>1, <2>2, <2>3 DEF PhaseInv, Kinds
<1>16. CleanInv'
  <2>1. ~start.scanned BY <1>2, <1>3 DEF CleanInv, Clean, StatInv
  <2> QED BY <1>2, <2>1 DEF CleanInv
<1>17. ReportInv' BY <1>2 DEF ReportInv
<1> QED BY <1>9, <1>10, <1>11, <1>12, <1>13, <1>14, <1>15, <1>16, <1>17

-----------------------------------------------------------------------------
(* The four ways a rom is added.                                           *)

\* What is known of the two lists while they are searched for the rom g.
LEMMA SearchFacts ==
  ASSUME ScanInv, NEW g \in Roms, Searching(g)
  PROVE  /\ Pair \in Pairs /\ DistinctPair(Pair) /\ Pair.z = z /\ Pair.r = r
         /\ z \in Seq(Entry) /\ r \in Seq(Entry) /\ Distinct(z) /\ Distinct(r)
         /\ g \in Name /\ Good[g] \in Data
         /\ ~HasRom(z, g)
         /\ pc \in {"miss", "bad"}
BY RomNames DEF ScanInv, ScanTyped, AllDistinct, StatInv, Searching, Pair, Pairs, DistinctPair,
                HasRom, HasData, Named

\* A rom that is copied in takes the place of what has its name.
LEMMA CopyStep ==
  ASSUME ScanInv, NEW g \in Roms, Searching(g), active("fix"), Found(g),
         AddedAs(g, Added(Pair, g, Good[g]), stat.binary)
  PROVE  ScanInv'
<1> DEFINE p == Added(Pair, g, Good[g])
           S == {}
<1>1. AsideAt(Pair, p, g, Named(z, g), {Rom(g)})
  BY SearchFacts, AddedEntries DEF Rom
<1>2. p = PairNow
  <2>1. p \in [z : Seq(Entry), r : Seq(Entry)] BY <1>1 DEF AsideAt, Pairs
  <2> HIDE DEF p
  <2>2. z' = p.z /\ r' = p.r BY DEF AddedAs, p
  <2> QED BY <2>1, <2>2 DEF PairNow
<1>3. /\ stat' = [stat EXCEPT ![pc] = @ \ {g}, !.binary = @ \ S]
      /\ UNCHANGED <<disks, setting, pc, good, start, runs>>
  BY SearchFacts DEF AddedAs, ScanInv, ScanTyped
<1> HIDE DEF p
<1>4. AsideAt(Pair, PairNow, g, Named(z, g) \cup S, {Rom(g)}) BY <1>1, <1>2
<1>5. S \in SUBSET stat.binary /\ \A e \in S : e.data = Good[g] OBVIOUS
<1> HIDE DEF S
<1> QED BY <1>3, <1>4, <1>5, AddStep

LEMMA RenameFromBagStep ==
  ASSUME ScanInv, NEW g \in Roms, RenameFromBag(g)
  PROVE  ScanInv'
<1>1. PICK e \in stat.binary :
        e.data = Good[g] /\ AddedAs(g, Renamed(Pair, e.name, g), stat.binary \ {e})
  BY DEF RenameFromBag
<1>2. Searching(g) /\ active("fix") /\ Found(g) BY DEF RenameFromBag, Found
<1>3. e \in ToSet(z) /\ ~SameName(e.name, g)
  BY RomNames DEF ScanInv, StatInv, Kinds, Strays
<1> DEFINE p == Renamed(Pair, e.name, g)
           S == {e}
<1>4. AsideAt(Pair, p, g, Named(z, g) \cup S, {Rom(g)})
  BY <1>1, <1>2, <1>3, SearchFacts, RenamedEntries DEF Rom
<1>5. p = PairNow
  <2>1. p \in [z : Seq(Entry), r : Seq(Entry)] BY <1>4 DEF AsideAt, Pairs
  <2> HIDE DEF p
  <2>2. z' = p.z /\ r' = p.r BY <1>1 DEF AddedAs, p
  <2> QED BY <2>1, <2>2 DEF PairNow
<1>6. /\ stat' = [stat EXCEPT ![pc] = @ \ {g}, !.binary = @ \ S]
      /\ UNCHANGED <<disks, setting, pc, good, start, runs>>
  BY <1>1, <1>2, SearchFacts DEF AddedAs, ScanInv, ScanTyped
<1> HIDE DEF p
<1>7. S \in SUBSET stat.binary /\ \A f \in S : f.data = Good[g] BY <1>1
<1> HIDE DEF S
<1> QED BY <1>2, <1>4, <1>5, <1>6, <1>7, AddStep

LEMMA CopyFromSameStep ==
  ASSUME ScanInv, NEW g \in Roms, CopyFromSame(g)
  PROVE  ScanInv'
<1> DEFINE j == FindData(z, Good[g])
<1>1. Searching(g) /\ InSame(g) /\ Found(g) BY DEF CopyFromSame, Found
<1>2. z[j].name # g
  <2>1. j \in DOMAIN z /\ z[j].data = Good[g]
    BY <1>1, SearchFacts, FindDataFinds DEF InSame
  <2>2. z[j] \in ToSet(z) BY <1>1, <2>1, SearchFacts, InList
  <2> QED BY <1>1, <2>1, <2>2, SearchFacts DEF HasRom, HasData, SameName
<1>3. CASE active("fix") /\ Fail("dangling entry")
  BY <1>1, <1>3, SearchFacts, FailStep
<1>4. CASE active("fix") /\ AddedAs(g, Added(Pair, g, Good[g]), stat.binary)
  BY <1>1, <1>4, CopyStep
<1> QED BY <1>2, <1>3, <1>4 DEF CopyFromSame

LEMMA TakeFromRejectStep ==
  ASSUME ScanInv, NEW g \in Roms, TakeFromReject(g)
  PROVE  ScanInv'
<1> DEFINE j == FindData(r, Good[g])
           p == Swapped(Pair, g, j)
           S == {}
<1>1. Searching(g) /\ InReject(g) /\ Found(g) /\ active("fix") BY DEF TakeFromReject, Found
<1>2. j \in DOMAIN r /\ r[j].data = Good[g] /\ r[j] \in Entry
  BY <1>1, SearchFacts, FindDataFinds, InList DEF InReject
<1>3. CASE r[j].name = g /\ AddedAs(g, p, stat.binary)
  <2>1. r[j] = Rom(g)
    BY <1>2, <1>3 DEF Rom, Entry
  <2>2. AsideAt(Pair, p, g, Named(z, g), {Rom(g)})
    <3>1. j \in DOMAIN Pair.r /\ Pair.r[j].name = g /\ Pair.r[j] = Rom(g)
      BY <1>1, <1>2, <1>3, <2>1, SearchFacts
    <3> HIDE DEF j
    <3> QED BY <1>1, <3>1, SearchFacts, SwappedEntries
  <2> HIDE DEF j
  <2>3. p = PairNow
    <3>1. p \in [z : Seq(Entry), r : Seq(Entry)] BY <2>2 DEF AsideAt, Pairs
    <3>2. z' = p.z /\ r' = p.r BY <1>3 DEF AddedAs
    <3> HIDE DEF p
    <3> QED BY <3>1, <3>2 DEF PairNow
  <2>4. /\ stat' = [stat EXCEPT ![pc] = @ \ {g}, !.binary = @ \ S]
        /\ UNCHANGED <<disks, setting, pc, good, start, runs>>
    BY <1>1, <1>3, SearchFacts DEF AddedAs, ScanInv, ScanTyped
  <2> HIDE DEF p
  <2>5. AsideAt(Pair, PairNow, g, Named(z, g) \cup S, {Rom(g)}) BY <2>2, <2>3
  <2>6. S \in SUBSET stat.binary /\ \A f \in S : f.data = Good[g] OBVIOUS
  <2> HIDE DEF S
  <2> QED BY <1>1, <2>4, <2>5, <2>6, AddStep
<1>4. CASE Fail("dangling entry") BY <1>1, <1>4, SearchFacts, FailStep
<1>5. CASE AddedAs(g, Added(Pair, g, Good[g]), stat.binary)
  BY <1>1, <1>5, CopyStep
<1> QED BY <1>3, <1>4, <1>5 DEF TakeFromReject

-----------------------------------------------------------------------------
(* The theorems.                                                           *)

LEMMA NextInv ==
  ASSUME ScanInv, [Next]_vars
  PROVE  ScanInv'
<1>1. CASE Stat BY <1>1, StatStep
<1>2. ASSUME NEW g \in Roms, RenameFromBag(g) PROVE ScanInv'
  BY <1>2, RenameFromBagStep
<1>3. ASSUME NEW g \in Roms, CopyFromSame(g) PROVE ScanInv'
  BY <1>3, CopyFromSameStep
<1>4. ASSUME NEW g \in Roms, TakeFromReject(g) PROVE ScanInv'
  BY <1>4, TakeFromRejectStep
<1>5. ASSUME NEW g \in Roms, CopyFromOther(g) PROVE ScanInv'
  BY <1>5, CopyStep DEF CopyFromOther, Found
<1>6. CASE SearchEnds BY <1>6, SearchEndsStep
<1>7. CASE RemoveUnknown BY <1>7, RemoveUnknownStep
<1>8. CASE RemoveGarbage BY <1>8, RemoveGarbageStep
<1>9. CASE RemoveEnds BY <1>9, RemoveEndsStep
<1>10. CASE SaveZ BY <1>10, SaveZStep
<1>11. CASE SaveR BY <1>11, SaveRStep
<1>12. CASE SaveFails BY <1>12, FailStep DEF SaveFails
<1>13. CASE Crash BY <1>13, FailStep DEF Crash
<1>14. CASE Rerun BY <1>14, RerunStep
<1>15. CASE UNCHANGED vars BY <1>15, StutterStep
<1> QED
  BY <1>1, <1>2, <1>3, <1>4, <1>5, <1>6, <1>7, <1>8, <1>9, <1>10, <1>11, <1>12, <1>13,
     <1>14, <1>15 DEF Next

\* The invariant is one: every reachable state has it.
THEOREM ScanInvariant ==
  ASSUME DistinctStart
  PROVE  Spec => []ScanInv
<1>1. Init => ScanInv BY InitInv
<1>2. ScanInv /\ [Next]_vars => ScanInv' BY NextInv
<1> QED BY <1>1, <1>2, PTL DEF Spec

\* No list ever has two files of the same name, and the check of rom_scan_add,
\* that a rom is not found under its own name, never fails.
THEOREM ScanWellFormed ==
  ASSUME DistinctStart
  PROVE  Spec => []TypeOK
<1>1. ScanInv => TypeOK BY DEF ScanInv, ScanTyped, AllDistinct, TypeOK
<1> QED BY <1>1, ScanInvariant, PTL

\* A scan that ends has lost no file but the garbage it was told to remove, and
\* one that stops anywhere has taken no good rom from the archive.
THEOREM ScanKeepsFiles ==
  ASSUME DistinctStart
  PROVE  Spec => []FilesKept
<1>1. ASSUME ScanInv PROVE GoodKept
  <2> USE DEF ScanInv
  <2>1. \A g \in Roms : HasRom(start.z, g) => HasRom(z, g) /\ HasRom(diskz, g)
    BY <1>1 DEF KeptInv, SavedInv
  <2> QED BY <2>1 DEF GoodKept, HasRom
<1>2. ASSUME ScanInv PROVE KeptWhenDone
  <2> USE DEF ScanInv
  <2> SUFFICES ASSUME pc = "done"
               PROVE  /\ \A d \in DataOf(start.z) : Keep(d) => d \in OnDisk
                      /\ \A e \in ToSet(start.r) : ~Collides(e) => e.data \in OnDisk
    BY DEF KeptWhenDone
  <2>1. OnDisk = DataOf(z) \cup DataOf(r) BY <1>2 DEF OnDisk, SavedInv
  <2>2. \A d : Safe(d) => d \in OnDisk BY <2>1 DEF Safe, HasRom, HasData, DataOf
  <2>3. \A e \in ToSet(start.z) : Keep(e.data) => e.data \in OnDisk
    BY <1>2, <2>1, <2>2 DEF KeptInv, DataOf
  <2>4. \A e \in ToSet(start.r) : ~Collides(e) => e.data \in OnDisk
    BY <1>2, <2>1, <2>2 DEF KeptInv, DataOf
  <2> QED BY <2>3, <2>4 DEF DataOf
<1>3. ScanInv => FilesKept BY <1>1, <1>2 DEF FilesKept
<1> QED BY <1>3, ScanInvariant, PTL

\* The game is reported good exactly if the archive that was saved has all its
\* roms.
THEOREM ScanReportsTrue ==
  ASSUME DistinctStart
  PROVE  Spec => []ReportTrue
<1>1. ASSUME ScanInv, good # "none"
      PROVE good = "good" <=> \A g \in Roms : HasRom(diskz, g)
  <2> USE DEF ScanInv
  <2>1. diskz = z /\ (good = "good" <=> stat.miss = {} /\ stat.bad = {}) BY <1>1 DEF ReportInv
  <2>2. \A g \in Roms : HasRom(z, g) <=> g \notin stat.miss \cup stat.bad
    BY <1>1 DEF StatInv, HasRom, HasData, Named
  <2>3. stat.miss \subseteq Roms /\ stat.bad \subseteq Roms BY <1>1 DEF ScanTyped
  <2> QED BY <2>1, <2>2, <2>3
<1>2. ScanInv => ReportTrue BY <1>1 DEF ReportTrue, HasRom
<1> QED BY <1>2, ScanInvariant, PTL

\* A complete scan does to the data of the two archives what RomCollection
\* relies on, and leaves no rom out that is offered anywhere.
THEOREM ScanKeepsContract ==
  ASSUME DistinctStart
  PROVE  Spec => []KeepsContract
<1>1. ASSUME ScanInv, pc = "done", \A e \in ToSet(start.r) : ~Collides(e)
      PROVE  /\ Scanned({op \in Oper : active(op)}, {Good[g] : g \in Roms}, other,
                        {d \in Garbage : ~Keep(d)},
                        DataOf(start.z), DataOf(start.r), DataOf(diskz), DataOf(diskr))
             /\ active("fix") =>
                  \A g \in Roms : Good[g] \in other \cup OnDisk => HasData(diskz, g, Good[g])
  <2> USE DEF ScanInv
  <2> DEFINE roms == {Good[g] : g \in Roms}
             lost == {d \in Garbage : ~Keep(d)}
             ops == {op \in Oper : active(op)}
  <2>1. diskz = z /\ diskr = r BY <1>1 DEF SavedInv
  <2>2. \A d : Safe(d) => d \in DataOf(z) \cup DataOf(r)
    BY DEF Safe, HasRom, HasData, DataOf
  <2>3. (DataOf(start.z) \cup DataOf(start.r)) \ lost \subseteq DataOf(z) \cup DataOf(r)
    <3>1. \A d : d \notin lost => Keep(d) BY DEF Keep
    <3>2. \A e \in ToSet(start.z) : Keep(e.data) => e.data \in DataOf(z) \cup DataOf(r)
      BY <1>1, <2>2 DEF KeptInv, DataOf
    <3>3. \A e \in ToSet(start.r) : e.data \in DataOf(z) \cup DataOf(r)
      BY <1>1, <2>2 DEF KeptInv, DataOf
    <3> HIDE DEF lost
    <3> QED BY <3>1, <3>2, <3>3 DEF DataOf
  <2>4. DataOf(r) \subseteq DataOf(start.r) \cup DataOf(start.z)
    BY <1>1 DEF OriginInv
  <2>5. DataOf(z) \subseteq DataOf(start.z) \cup (roms \cap (other \cup DataOf(start.r)))
    BY <1>1 DEF OriginInv, Offered, DataOf, Rom
  <2>6. ASSUME active("fix"), NEW g \in Roms, Good[g] \in Offered PROVE HasRom(z, g)
    BY <1>1, <2>6 DEF PhaseInv, StatInv, Scanning
  <2>7. "fix" \in ops => roms \cap (DataOf(start.z) \cup DataOf(start.r) \cup other) \subseteq DataOf(z)
    <3> SUFFICES ASSUME active("fix"), NEW g \in Roms,
                        Good[g] \in DataOf(start.z) \cup DataOf(start.r) \cup other
                 PROVE Good[g] \in DataOf(z)
      OBVIOUS
    <3>1. HasRom(z, g) BY <2>6 DEF Offered
    <3> QED BY <3>1 DEF HasRom, HasData, DataOf
  <2>8. ops = {} => DataOf(z) = DataOf(start.z) /\ DataOf(r) = DataOf(start.r)
    <3>1. ops = {} => \A op \in Oper : ~active(op) OBVIOUS
    <3> QED BY <1>1, <3>1 DEF PhaseInv
  <2>9. active("fix") => \A g \in Roms : Good[g] \in other \cup OnDisk => HasData(diskz, g, Good[g])
    <3>1. other \cup OnDisk \subseteq Offered
      BY <1>1, <2>1, NothingNewOffered DEF OnDisk
    <3> QED BY <2>1, <2>6, <3>1 DEF HasRom
  <2> HIDE DEF roms, lost, ops
  <2>10. Scanned(ops, roms, other, lost,
                 DataOf(start.z), DataOf(start.r), DataOf(diskz), DataOf(diskr))
    BY <2>1, <2>3, <2>4, <2>5, <2>7, <2>8 DEF Scanned
  <2> QED BY <2>9, <2>10 DEF roms, lost, ops
<1>2. ScanInv => KeepsContract BY <1>1 DEF KeepsContract
<1> QED BY <1>2, ScanInvariant, PTL

\* The scan of what a complete scan left changes nothing on the disk.
THEOREM ScanSettles ==
  ASSUME DistinctStart
  PROVE  Spec => []Settled
<1>1. ASSUME ScanInv, start.scanned PROVE diskz = start.z /\ diskr = start.r
  BY <1>1 DEF ScanInv, CleanInv, SavedInv
<1>2. ScanInv => Settled BY <1>1 DEF Settled
<1> QED BY <1>2, ScanInvariant, PTL
=============================================================================
