------------------------------ MODULE RomScan ------------------------------
(***************************************************************************)
(* rom_scan: one existing romset archive is brought in order.  Missing and *)
(* bad roms are taken from where they are found; unknown files go to the   *)
(* reject archive in rom_unknown; then the two archives are saved, one     *)
(* after the other.  Nothing reaches the disk before the saves.            *)
(*                                                                         *)
(* The sets of rom_stat_t are visited in any order (the code goes by       *)
(* name).  A save is atomic here: module ZipFile is where it is taken apart*)
(***************************************************************************)
EXTENDS RomZip, RomSetContract, FiniteSets

CONSTANTS
  Good,      \* the romset of the game: from names to their data
  NoDump,    \* the names of its roms that nobody has dumped
  Text,      \* data that analyze takes for text
  Garbage,   \* ... and for garbage; the rest is binary
  Start,     \* the disk a run may find: [z, r, other, readonly, oper]
  MaxRuns    \* bound on the runs of the program

Oper == {"fix", "binary", "text", "garbage"}

ASSUME RomScanAssumption ==
  /\ DOMAIN Good \subseteq Name
  /\ NoDump \subseteq Name
  /\ \A n, m \in DOMAIN Good \cup NoDump : SameName(n, m) => n = m
  /\ DOMAIN Good \cap NoDump = {}
  /\ \A n \in DOMAIN Good : Good[n] \in Data
  /\ Text \cup Garbage \subseteq Data
  /\ \A s \in Start :
       /\ s.z \in Seq(Entry) /\ s.r \in Seq(Entry)
       /\ s.other \subseteq Data /\ s.readonly \in BOOLEAN /\ s.oper \subseteq Oper
  /\ MaxRuns \in Nat

VARIABLES
  z, r,         \* zip::map of the archive and of the reject archive
  diskz, diskr, \* the archives on the disk; <<>> when there is none
  other,        \* the data the other archives offer
  readonly,     \* ziprom::readonly of the archive
  oper,         \* the active operations
  pc,
  stat,         \* rom_stat_t: [miss, bad, binary, text, garbage]
  good,         \* what rzs_add reported: "none", "good" or "bad"
  start,        \* history: the disk as this run found it, and whether a
                \* complete scan left it
  runs

disks == <<diskz, diskr>>
setting == <<other, readonly, oper>>
vars == <<z, r, diskz, diskr, other, readonly, oper, pc, stat, good, start, runs>>

Roms == DOMAIN Good
Phases == <<"miss", "bad", "binary", "text", "garbage", "savez", "saver", "done">>
Ended == {"done", "failed check", "dangling entry", "error", "crash"}
NoStat == [miss |-> {}, bad |-> {}, binary |-> {}, text |-> {}, garbage |-> {}]

Init ==
  \E s \in Start :
    /\ diskz = s.z /\ diskr = s.r
    /\ other = s.other /\ readonly = s.readonly /\ oper = s.oper
    /\ z = diskz /\ r = diskr
    /\ pc = "stat" /\ stat = NoStat /\ good = "none"
    /\ start = [z |-> diskz, r |-> diskr, scanned |-> FALSE] /\ runs = 0

active(op) == op \in oper /\ ~readonly

\* Where each phase leads when its set is empty.
After(phase) == Phases[(CHOOSE i \in 1..7 : Phases[i] = phase) + 1]

-----------------------------------------------------------------------------
(* stat_rom_zip.                                                           *)

Known(n) == \E g \in Roms \cup NoDump : SameName(g, n)

\* Only the first entry of a name meets the rom, as it leaves the bag then.
First(i) == ~\E j \in 1..(i - 1) : SameName(z[j].name, z[i].name)

\* mutant: a rom leaves the bag only if it is bad
BadLeavesBag(i) ==
  First(i) /\ \E g \in Roms : SameName(g, z[i].name) /\ Good[g] # z[i].data

IsRom(i) == First(i) /\ Known(z[i].name)

\* A set by name keeps the first of the entries with the same name.
Unknown(D) ==
  LET U == {i \in DOMAIN z : ~IsRom(i) /\ z[i].data \in D}
  IN {z[i] : i \in {i \in U : ~\E j \in U : j < i /\ SameName(z[j].name, z[i].name)}}

\* mutant: what nobody has dumped is missing
NoDumpMissing ==
  [NoStat EXCEPT !.miss = {g \in Roms \cup NoDump : FindName(z, g) = 0}]
\* mutant: the data of the roms is not compared
AllBad == [NoStat EXCEPT !.bad = {g \in Roms : FindName(z, g) # 0}]

stat_rom_zip ==
  [miss |-> {g \in Roms : FindName(z, g) = 0},
   bad |-> {g \in Roms : FindName(z, g) # 0 /\ z[FindName(z, g)].data # Good[g]},
   binary |-> Unknown(Data \ (Text \cup Garbage)),
   text |-> Unknown(Text \ Garbage),
   garbage |-> Unknown(Garbage)]

Stat ==
  /\ pc = "stat"
  /\ stat' = stat_rom_zip
  /\ pc' = "miss"
  /\ UNCHANGED <<z, r, disks, setting, good, start, runs>>

-----------------------------------------------------------------------------
(* rom_scan_add for the rom g of st.rom_miss or st.rom_bad.                *)

Searching(g) == pc \in {"miss", "bad"} /\ g \in stat[pc]

InBag(g) == \E e \in stat.binary : e.data = Good[g]
InSame(g) == FindData(z, Good[g]) # 0
InReject(g) == FindData(r, Good[g]) # 0
\* mutant: only the reject archive is searched
InRejectOnDisk(g) == Good[g] \in DataOf(diskr)
\* find_exclude also sees the reject archive as it was read from the disk.
InOther(g) == Good[g] \in other \cup DataOf(diskr)

\* The rom is added: the archives become p, the rom leaves the set.
AddedAs(g, p, bag) ==
  /\ z' = p.z /\ r' = p.r
  /\ stat' = [stat EXCEPT ![pc] = @ \ {g}, !.binary = bag]
  /\ UNCHANGED <<disks, setting, pc, good, start, runs>>

Fail(how) ==
  /\ pc' = how
  /\ UNCHANGED <<z, r, disks, setting, stat, good, start, runs>>

Pair == [z |-> z, r |-> r]

\* An unknown binary file is renamed.
RenameFromBag(g) ==
  /\ Searching(g) /\ InBag(g) /\ active("fix")
  /\ \E e \in stat.binary :
       /\ e.data = Good[g]
       /\ AddedAs(g, Renamed(Pair, e.name, g), stat.binary \ {e})

\* Another rom of the archive is copied.  An entry that remove() erases is
\* used after its end if it is the one to be copied.
CopyFromSame(g) ==
  LET j == FindData(z, Good[g]) IN
  /\ Searching(g) /\ ~InBag(g) /\ InSame(g)
  /\ IF z[j].name = g THEN Fail("failed check")
     ELSE /\ active("fix")
          /\ IF FindName(z, g) = j THEN Fail("dangling entry")
             ELSE AddedAs(g, Added(Pair, g, Good[g]), stat.binary)

\* A file of the reject archive is copied, or swapped with that of its name.
TakeFromReject(g) ==
  LET j == FindData(r, Good[g]) IN
  /\ Searching(g) /\ ~InBag(g) /\ ~InSame(g) /\ InReject(g)
  /\ active("fix")
  /\ IF r[j].name = g THEN AddedAs(g, Swapped(Pair, g, j), stat.binary)
     ELSE IF FindName(z, g) # 0 /\ FindName(r, g) = j THEN Fail("dangling entry")
     ELSE AddedAs(g, Added(Pair, g, Good[g]), stat.binary)

\* A file of another archive is copied.
CopyFromOther(g) ==
  /\ Searching(g) /\ ~InBag(g) /\ ~InSame(g) /\ ~InReject(g) /\ InOther(g)
  /\ active("fix")
  /\ AddedAs(g, Added(Pair, g, Good[g]), stat.binary)

Found(g) == InBag(g) \/ InSame(g) \/ InReject(g) \/ InOther(g)

\* The roms that remain are those that are not found, or not to be fixed: no
\* step makes data available, so the order of the visits is no matter here.
SearchEnds ==
  /\ pc \in {"miss", "bad"}
  /\ \A g \in stat[pc] : ~(active("fix") /\ Found(g))
  /\ \A g \in stat[pc] :
       ~InBag(g) /\ InSame(g) => z[FindData(z, Good[g])].name # g
  /\ pc' = After(pc)
  /\ UNCHANGED <<z, r, disks, setting, stat, good, start, runs>>

-----------------------------------------------------------------------------
(* The unknown files.                                                      *)

RemoveUnknown ==
  /\ pc \in {"binary", "text"} /\ active(pc)
  /\ \E e \in stat[pc] :
       LET p == Rejected(Pair, e.name) IN
       /\ z' = p.z /\ r' = p.r
       /\ stat' = [stat EXCEPT ![pc] = @ \ {e}]
  /\ UNCHANGED <<disks, setting, pc, good, start, runs>>

RemoveGarbage ==
  /\ pc = "garbage" /\ active(pc)
  /\ \E e \in stat.garbage :
       /\ z' = Removed(z, e.name)
       /\ stat' = [stat EXCEPT !.garbage = @ \ {e}]
  /\ UNCHANGED <<r, disks, setting, pc, good, start, runs>>

\* mutant: the loop may leave some out
RemoveEndsEarly ==
  /\ pc \in {"binary", "text", "garbage"}
  /\ pc' = After(pc)
  /\ UNCHANGED <<z, r, disks, setting, stat, good, start, runs>>

RemoveEnds ==
  /\ pc \in {"binary", "text", "garbage"}
  /\ active(pc) => stat[pc] = {}
  /\ pc' = After(pc)
  /\ UNCHANGED <<z, r, disks, setting, stat, good, start, runs>>

-----------------------------------------------------------------------------
(* z.save(), rzs_add, reject.save(); ends and new runs.                    *)

\* mutant: bad roms are not looked at
SaveZMissOnly ==
  /\ pc = "savez"
  /\ diskz' = z
  /\ good' = IF z = <<>> THEN "none" ELSE IF stat.miss = {} THEN "good" ELSE "bad"
  /\ pc' = "saver"
  /\ UNCHANGED <<z, r, diskr, setting, stat, start, runs>>

SaveZ ==
  /\ pc = "savez"
  /\ diskz' = z
  /\ good' = IF z = <<>> THEN "none"
             ELSE IF stat.miss = {} /\ stat.bad = {} THEN "good" ELSE "bad"
  /\ pc' = "saver"
  /\ UNCHANGED <<z, r, diskr, setting, stat, start, runs>>

SaveR ==
  /\ pc = "saver"
  /\ diskr' = r
  /\ pc' = "done"
  /\ UNCHANGED <<z, r, diskz, setting, stat, good, start, runs>>

\* A save that fails throws, and main() ends the program.
SaveFails == pc \in {"savez", "saver"} /\ Fail("error")

\* The process is stopped between two steps.
Crash == pc \notin Ended /\ Fail("crash")

Rerun ==
  /\ pc \in Ended /\ runs < MaxRuns
  /\ runs' = runs + 1
  /\ z' = diskz /\ r' = diskr
  /\ pc' = "stat" /\ stat' = NoStat /\ good' = "none"
  /\ start' = [z |-> diskz, r |-> diskr, scanned |-> pc = "done"]
  /\ UNCHANGED <<disks, setting>>

Next ==
  \/ Stat
  \/ \E g \in Roms : RenameFromBag(g) \/ CopyFromSame(g) \/ TakeFromReject(g) \/ CopyFromOther(g)
  \/ SearchEnds
  \/ RemoveUnknown \/ RemoveGarbage \/ RemoveEnds
  \/ SaveZ \/ SaveR \/ SaveFails \/ Crash \/ Rerun

Spec == Init /\ [][Next]_vars

-----------------------------------------------------------------------------\* The state is well formed: a scan leaves no two files of the same name in an
\* archive that had none, and never fails its own check, that a rom is not
\* found under its name, "the name must be different (it always be)"
\* (scan.cc:451).
TypeOK ==
  /\ \A s \in {z, r, diskz, diskr, start.z, start.r} : s \in Seq(Entry)
  /\ other \subseteq Data /\ readonly \in BOOLEAN /\ oper \subseteq Oper
  /\ pc \in {"stat"} \cup ToSet(Phases) \cup Ended
  /\ stat \in [miss : SUBSET Roms, bad : SUBSET Roms, binary : SUBSET Entry,
               text : SUBSET Entry, garbage : SUBSET Entry]
  /\ good \in {"none", "good", "bad"}
  /\ start.scanned \in BOOLEAN
  /\ runs \in 0..MaxRuns
  /\ Distinct(start.z) /\ Distinct(start.r) => Distinct(z) /\ Distinct(r)
  /\ pc # "failed check"

OnDisk == DataOf(diskz) \cup DataOf(diskr)

\* Garbage is not kept when its removal is active.
Keep(d) == ~(d \in Garbage /\ active("garbage"))

\* What the reject archive holds under a name that the archive also has: a
\* file moved there by its name takes its place.
Collides(e) == \E f \in ToSet(start.z) : SameName(e.name, f.name) /\ e # f

\* A complete scan keeps every file of the archive, and every file of the
\* reject archive whose name does not collide.
KeptWhenDone ==
  pc = "done" =>
    /\ \A d \in DataOf(start.z) : Keep(d) => d \in OnDisk
    /\ \A e \in ToSet(start.r) : ~Collides(e) => e.data \in OnDisk

\* A scan never takes a good rom from an archive, on the disk or in memory,
\* wherever it stops.
GoodKept ==
  \A g \in Roms : HasData(start.z, g, Good[g]) =>
    HasData(z, g, Good[g]) /\ HasData(diskz, g, Good[g])

\* A scan that ends has lost nothing, and one that stops no rom.
FilesKept == KeptWhenDone /\ GoodKept

\* The game is reported good exactly if the saved archive has all its roms.
ReportTrue ==
  good # "none" => (good = "good" <=> \A g \in Roms : HasData(diskz, g, Good[g]))

\* A complete scan does to the two archives what the run over all the archives
\* relies on; a rom that is offered anywhere is added (rom_scan_add).
KeepsContract ==
  pc = "done" /\ (\A e \in ToSet(start.r) : ~Collides(e)) =>
    /\ Scanned({op \in Oper : active(op)}, {Good[g] : g \in Roms}, other,
               {d \in Garbage : ~Keep(d)},
               DataOf(start.z), DataOf(start.r), DataOf(diskz), DataOf(diskr))
    /\ active("fix") =>
         \A g \in Roms : Good[g] \in other \cup OnDisk => HasData(diskz, g, Good[g])

\* The scan of what a complete scan left changes nothing.
Settled == start.scanned => diskz = start.z /\ diskr = start.r

\* "this operation is safe, because the zip iterator is a list" (scan.cc:454
\* and 483): the entry to copy is not the one that is removed.
EntryLives == pc # "dangling entry"

\* "any file removed or overwritten is saved in the `rom_unknown'"
\* (doc/advscan.d:47), wherever the scan stops, if no name collides with one of
\* the reject archive.
SavedAtAnyTime ==
  (\A e \in ToSet(start.r) : ~Collides(e)) =>
    \A d \in DataOf(start.z) \cup DataOf(start.r) : Keep(d) => d \in OnDisk
=============================================================================
