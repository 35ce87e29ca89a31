--------------------------- MODULE RomCollection ---------------------------
(***************************************************************************)
(* A run over all the rom archives (all_rom_load, all_rom_scan and         *)
(* all_unknown_scan): every archive found is held open in a ziparchive     *)
(* with an index of what they contain; the archives of the required games  *)
(* are scanned, the missing ones added, the others moved to rom_unknown,   *)
(* and rom_unknown is freed of what the collection has.                    *)
(*                                                                         *)
(* An archive is the set of its data: names are left to module RomScan,    *)
(* and so are the files that collide in rom_unknown.  A save is atomic     *)
(* (module ZipFile).  The archives of rom_unknown are writable.            *)
(***************************************************************************)
EXTENDS Naturals, RomSetContract

CONSTANTS
  Name,       \* names of archives without directory and extension
  Required,   \* the names of the games with a romset (is_romset_required)
  RomDir,     \* the directories of option rom
  NewDir,     \* the directory of option rom_new
  UnknownDir, \* the directory of option rom_unknown
  Data,       \* contents of files, told apart by size and crc
  Roms,       \* the data of the romset of a required game
  Import,     \* what the archives of option rom_import have
  Start,      \* what a run may find: [disk, readonly, oper]
  MaxRuns     \* bound on the runs of the program

Path == (RomDir \cup {NewDir, UnknownDir}) \X Name
Own == RomDir \X Name
New(g) == <<NewDir, g>>
Unknown(n) == <<UnknownDir, n>>
Oper == {"fix", "binary", "add", "move"}

ASSUME CollectionAssumption ==
  /\ Required \subseteq Name
  /\ UnknownDir \notin RomDir \cup {NewDir}
  /\ Roms \in [Required -> SUBSET Data]
  /\ Import \subseteq Data
  /\ \A s \in Start : /\ s.disk \in [Path -> SUBSET Data]
                      /\ s.readonly \subseteq {p \in Own : s.disk[p] # {}}
                      /\ s.oper \subseteq Oper
  /\ MaxRuns \in Nat

VARIABLES
  disk,     \* the archives on the disk; {} when there is none
  held,     \* ziparchive::data, what the program knows of the archives
  index,    \* ziparchive::index
  readonly, \* the archives that cannot be written
  oper,     \* the operations the user asked for, none of them simulated
  pc,
  todo,     \* what the loop in progress has yet to visit
  strays,   \* the archives to move (container unknown of all_rom_scan)
  usable,   \* the games with a usable archive (game::has_usable_rom)
  work,     \* the archive and the reject archive in memory
  stored,   \* history: the data this run found on the disk
  runs

setting == <<readonly, oper>>
vars == <<disk, held, index, readonly, oper, pc, todo, strays, usable, work, stored, runs>>

NoWork == [path |-> <<>>, z |-> {}, r |-> {}]
Ended == {"done", "stopped", "torn"}
Nothing == [p \in Path |-> {}]

DataIn(d) == UNION {d[p] : p \in Path}

Init ==
  \E s \in Start :
    /\ disk = s.disk /\ readonly = s.readonly /\ oper = s.oper
    /\ held = Nothing /\ index = {}
    /\ pc = "load" /\ todo = {} /\ strays = {} /\ usable = {} /\ work = NoWork
    /\ stored = DataIn(disk) /\ runs = 0

-----------------------------------------------------------------------------
(* all_rom_load and the ziparchive.                                        *)

Loaded == [p \in Path |-> IF p[1] \in RomDir \cup {UnknownDir} THEN disk[p] ELSE {}]

\* mutant: rom_import is read but not indexed
LoadUnindexed ==
  /\ pc = "load"
  /\ held' = Loaded
  /\ index' = DataIn(Loaded)
  /\ pc' = "scan"
  /\ todo' = {p \in Own : disk[p] # {}}
  /\ UNCHANGED <<disk, setting, strays, usable, work, stored, runs>>

Load ==
  /\ pc = "load"
  /\ held' = Loaded
  /\ index' = DataIn(Loaded) \cup Import
  /\ pc' = "scan"
  /\ todo' = {p \in Own : disk[p] # {}}
  /\ UNCHANGED <<disk, setting, strays, usable, work, stored, runs>>

\* mutant: only the archives of the collection are searched
OfferedOwn(p) == index \cap UNION {held[q] : q \in Own \ {p}}

\* find_exclude: what the index knows and an archive other than p still has
Offered(p) == index \cap (Import \cup UNION {held[q] : q \in Path \ {p}})

\* mutant: the archive that is held stays as it was read
NoUpdate(p, s) == UNCHANGED <<held, index>>

\* mutant: the archive is closed and not inserted again
UpdateErases(p, s) ==
  /\ held' = [held EXCEPT ![p] = {}]
  /\ index' = index

\* ziparchive::update
Update(p, s) ==
  /\ held' = [held EXCEPT ![p] = s]
  /\ index' = index \cup s

-----------------------------------------------------------------------------
(* all_rom_scan: the archives are scanned.                                 *)

active(op, p) == op \in oper /\ p \notin readonly

ScanStray ==
  /\ pc = "scan"
  /\ \E p \in todo :
       /\ p[2] \notin Required
       /\ todo' = todo \ {p} /\ strays' = strays \cup {p}
  /\ UNCHANGED <<disk, held, index, setting, pc, usable, work, stored, runs>>

\* rom_scan up to the saves; the reject archive is read from the disk.
Scan ==
  /\ pc = "scan"
  /\ \E p \in todo, z, r \in SUBSET Data :
       /\ p[2] \in Required
       /\ Scanned({op \in {"fix", "binary"} : active(op, p)}, Roms[p[2]], Offered(p), {},
                  disk[p], disk[Unknown(p[2])], z, r)
       /\ work' = [path |-> p, z |-> z, r |-> r]
       /\ todo' = todo \ {p}
  /\ pc' = "savez"
  /\ UNCHANGED <<disk, held, index, setting, strays, usable, stored, runs>>

\* z.save() and rzs_add; a good archive has all the roms.
SaveZ ==
  LET p == work.path IN
  /\ pc = "savez"
  /\ disk' = [disk EXCEPT ![p] = work.z]
  /\ held' = [held EXCEPT ![p] = work.z]
  /\ \/ work.z # {} /\ p \notin readonly /\ usable' = usable \cup {p[2]}
     \/ work.z # {} /\ p \in readonly /\ Roms[p[2]] \subseteq work.z /\ usable' = usable \cup {p[2]}
     \/ (work.z = {} \/ p \in readonly) /\ UNCHANGED usable
  /\ pc' = "saver"
  /\ UNCHANGED <<index, setting, todo, strays, work, stored, runs>>

\* reject.save() and zar.update(reject)
SaveR ==
  LET u == Unknown(work.path[2]) IN
  /\ pc = "saver"
  /\ disk' = [disk EXCEPT ![u] = work.r]
  /\ Update(u, work.r)
  /\ pc' = "scan" /\ work' = NoWork
  /\ UNCHANGED <<setting, todo, strays, usable, stored, runs>>

ScanEnds ==
  /\ pc = "scan" /\ todo = {}
  /\ pc' = "add"
  /\ todo' = IF "add" \in oper THEN Required ELSE {}
  /\ UNCHANGED <<disk, held, index, setting, strays, usable, work, stored, runs>>

-----------------------------------------------------------------------------
(* all_rom_scan: the missing archives are added.                           *)

\* The roms that other games have too (gamerom_by_crc_multiset).
Shared(g) == {d \in Roms[g] : \E h \in Required \ {g} : d \in Roms[h]}
Unique(g) == Roms[g] \ Shared(g)

\* mutant: an archive is made only if it will be good
FoundAll(g) == IF Roms[g] \subseteq Offered(New(g)) THEN Roms[g] ELSE {}

\* rom_add: the shared roms count only with a unique one, or if all are shared.
Found(g) ==
  LET avail == Roms[g] \cap Offered(New(g))
  IN IF Unique(g) \subseteq avail \/ Unique(g) \cap avail # {} THEN avail ELSE {}

AddSkips ==
  /\ pc = "add"
  /\ \E g \in todo :
       /\ g \in usable
       /\ todo' = todo \ {g}
  /\ UNCHANGED <<disk, held, index, setting, pc, strays, usable, work, stored, runs>>

\* open_and_insert and rom_add.  What the archive has under the name of a rom
\* that is added is overwritten, and saved nowhere.
Add ==
  /\ pc = "add"
  /\ \E g \in todo :
       LET p == New(g)
           found == IF active("add", p) THEN Found(g) ELSE {}
       IN
       /\ g \notin usable
       /\ todo' = todo \ {g}
       /\ \E z \in SUBSET (disk[p] \cup found) :
            /\ found \subseteq z
            /\ found = {} => z = disk[p]
            /\ disk' = [disk EXCEPT ![p] = z]
            /\ held' = [held EXCEPT ![p] = z]
       /\ index' = index \cup disk[p]
       /\ usable' = usable \cup (IF found = {} THEN {} ELSE {g})
  /\ UNCHANGED <<setting, pc, strays, work, stored, runs>>

\* mutant: the archives are not moved
AddEndsAtUnknown ==
  /\ pc = "add" /\ todo = {}
  /\ pc' = "unknown"
  /\ todo' = {n \in Name : held[Unknown(n)] # {}}
  /\ UNCHANGED <<disk, held, index, setting, strays, usable, work, stored, runs>>

AddEnds ==
  /\ pc = "add" /\ todo = {}
  /\ pc' = "move"
  /\ todo' = IF "move" \in oper THEN strays ELSE {}
  /\ UNCHANGED <<disk, held, index, setting, strays, usable, work, stored, runs>>

-----------------------------------------------------------------------------
(* all_rom_scan: the other archives are moved to rom_unknown.              *)

\* rom_move up to the saves
Move ==
  /\ pc = "move"
  /\ \E p \in todo :
       LET r == disk[Unknown(p[2])] IN
       /\ todo' = todo \ {p}
       /\ work' = IF p \in readonly THEN [path |-> p, z |-> disk[p], r |-> r]
                  ELSE [path |-> p, z |-> {}, r |-> r \cup disk[p]]
  /\ pc' = "mover"
  /\ UNCHANGED <<disk, held, index, setting, strays, usable, stored, runs>>

Moves(p, s, next) ==
  /\ disk' = [disk EXCEPT ![p] = s]
  /\ pc' = next
  /\ UNCHANGED <<setting, todo, strays, usable, stored, runs>>

\* mutant: the archive to move is forgotten by the first save
MoveRForgets ==
  /\ pc = "mover"
  /\ Moves(Unknown(work.path[2]), work.r, "movez")
  /\ work' = NoWork
  /\ UNCHANGED <<held, index>>

\* mutant: the archive is deleted before the reject archive is saved
MoveRLast ==
  /\ pc = "mover"
  /\ Moves(work.path, work.z, "movez")
  /\ UNCHANGED <<held, index, work>>

\* reject.save(): "First save and only after delete the data."
MoveR ==
  /\ pc = "mover"
  /\ Moves(Unknown(work.path[2]), work.r, "movez")
  /\ UNCHANGED <<held, index, work>>

\* z.save() and zar.update(reject)
MoveZ ==
  LET u == Unknown(work.path[2]) IN
  /\ pc = "movez"
  /\ Moves(work.path, work.z, "move")
  /\ held' = [held EXCEPT ![work.path] = work.z, ![u] = work.r]
  /\ index' = index \cup work.r
  /\ work' = NoWork

MoveEnds ==
  /\ pc = "move" /\ todo = {}
  /\ pc' = "unknown"
  /\ todo' = {n \in Name : held[Unknown(n)] # {}}
  /\ UNCHANGED <<disk, held, index, setting, strays, usable, work, stored, runs>>

-----------------------------------------------------------------------------
(* all_unknown_scan                                                        *)

\* zar.find(size, crc, zip_own): an archive that was added is one of them
OwnHeld == UNION {held[p] : p \in {q \in Path : q[1] # UnknownDir}}

\* unknown_scan: what the collection has is removed from rom_unknown.
UnknownScan ==
  /\ pc = "unknown"
  /\ \E n \in todo :
       LET rest == held[Unknown(n)] \ OwnHeld IN
       /\ todo' = todo \ {n}
       /\ disk' = [disk EXCEPT ![Unknown(n)] = rest]
       /\ held' = [held EXCEPT ![Unknown(n)] = rest]
  /\ UNCHANGED <<index, setting, pc, strays, usable, work, stored, runs>>

UnknownEnds ==
  /\ pc = "unknown" /\ todo = {}
  /\ pc' = "done"
  /\ UNCHANGED <<disk, held, index, setting, todo, strays, usable, work, stored, runs>>

-----------------------------------------------------------------------------
\* An error that main() reports, a signal or a kill between two steps
Stop ==
  /\ pc \notin Ended
  /\ pc' = IF pc = "saver" THEN "torn" ELSE "stopped"
  /\ UNCHANGED <<disk, held, index, setting, todo, strays, usable, work, stored, runs>>

Rerun ==
  /\ pc \in Ended /\ runs < MaxRuns
  /\ runs' = runs + 1
  /\ held' = Nothing /\ index' = {}
  /\ pc' = "load" /\ todo' = {} /\ strays' = {} /\ usable' = {} /\ work' = NoWork
  /\ stored' = DataIn(disk)
  /\ UNCHANGED <<disk, setting>>

Next ==
  \/ Load
  \/ ScanStray \/ Scan \/ SaveZ \/ SaveR \/ ScanEnds
  \/ AddSkips \/ Add \/ AddEnds
  \/ Move \/ MoveR \/ MoveZ \/ MoveEnds
  \/ UnknownScan \/ UnknownEnds
  \/ Stop \/ Rerun

Spec == Init /\ [][Next]_vars
-----------------------------------------------------------------------------
Scanning == {"scan", "savez", "saver"}
Moving == {"move", "mover", "movez"}
Works == [path : Path \cup {<<>>}, z : SUBSET Data, r : SUBSET Data]

TypeOK ==
  /\ disk \in [Path -> SUBSET Data] /\ held \in [Path -> SUBSET Data]
  /\ index \subseteq Data
  /\ readonly \subseteq Own /\ oper \subseteq Oper
  /\ pc \in {"load", "add", "unknown"} \cup Scanning \cup Moving \cup Ended
  /\ pc \in Scanning \cup Moving => todo \subseteq Own
  /\ pc = "add" => todo \subseteq Required
  /\ pc = "unknown" => todo \subseteq Name
  /\ strays \subseteq Own /\ usable \subseteq Required
  /\ work \in Works
  /\ pc \in {"savez", "saver", "mover", "movez"} => work.path \in Own
  /\ pc \in {"savez", "saver"} => work.path[2] \in Required
  /\ stored \subseteq Data
  /\ runs \in 0..MaxRuns

\* Nothing a run finds is lost, wherever it stops, but for the time between
\* the two saves of rom_scan, when the reject archive is only in memory.
NothingLost == pc \notin {"saver", "torn"} => stored \subseteq DataIn(disk)

\* Whatever an archive in memory has is in the index, which is never rebuilt
\* and which the operations of ziprom do not touch: find_exclude, that looks
\* there first, misses nothing.
IndexComplete == pc \notin {"load"} \cup Ended => DataIn(held) \cup Import \subseteq index

\* Between two archives, what the program knows is what the disk has: a rom
\* found in an archive can be read from it, and what unknown_scan deletes as
\* a duplicate is a duplicate.
HeldIsDisk ==
  pc \in {"scan", "add", "move", "unknown"} =>
    \A p \in Path : p[1] \in RomDir \cup {UnknownDir} => held[p] = disk[p]

\* After a complete run with the fixes active, an archive of a game has every
\* rom that was anywhere to be found.
AllFixed ==
  pc = "done" /\ "fix" \in oper =>
    \A p \in Own \ readonly : p[2] \in Required /\ disk[p] # {} =>
      Roms[p[2]] \cap (stored \cup Import) \subseteq disk[p]

\* ... with the additions active, a game has no archive only if none of the
\* roms that it alone has is to be found, and no rom at all if it has none.
NoArchive(g) == \A p \in Path : p[1] # UnknownDir /\ p[2] = g => disk[p] = {}

AllAdded ==
  pc = "done" /\ "add" \in oper =>
    \A g \in Required : NoArchive(g) =>
      /\ Unique(g) \cap (stored \cup Import) = {}
      /\ Unique(g) = {} => Roms[g] \cap (stored \cup Import) = {}

\* ... and rom_unknown has nothing that the collection has.
UnknownIsRest ==
  pc = "done" => \A n \in Name : \A p \in Own : disk[Unknown(n)] \cap disk[p] = {}

\* ... and an archive that is no game's is gone, if moves are active.
AllMoved ==
  pc = "done" /\ "move" \in oper => \A p \in Own \ readonly : p[2] \notin Required => disk[p] = {}

\* What a complete run leaves: all that can be fixed, added and moved is, and
\* rom_unknown is freed of the rest.
Completed == AllFixed /\ AllAdded /\ AllMoved /\ UnknownIsRest
=============================================================================
