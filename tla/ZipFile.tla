------------------------------ MODULE ZipFile ------------------------------
(***************************************************************************)
(* One archive object (class zip, driven through ziprom) and the files it  *)
(* leaves on the disk.  An operation in memory is one step; a save is one  *)
(* step per system call, so that a signal, a failed call or the end of the *)
(* process can come between any two of them.                               *)
(***************************************************************************)
EXTENDS Naturals, FiniteSets

CONSTANTS
  Entry,          \* the entries, a name with its compressed data
  Sized,          \* those with a nonzero uncompressed size (directories have 0)
  Streamed,       \* those other tools wrote with a data descriptor
  Faults,         \* what may go wrong, a subset of FaultKinds
  ReopenModified, \* whether unload() is called with unsaved changes
  MaxRuns,        \* bound on the runs of the program
  NoFile          \* the path names no file

\* A file: its entries, those with a data descriptor, and whether it is whole.
File == {f \in [entries : SUBSET Entry, streamed : SUBSET Entry, whole : BOOLEAN] :
           f.streamed \subseteq f.entries}

FaultKinds == {"write", "close", "remove", "rename", "kill"}

ASSUME ZipAssumption ==
  /\ Sized \subseteq Entry /\ Streamed \subseteq Entry
  /\ Faults \subseteq FaultKinds
  /\ ReopenModified \in BOOLEAN
  /\ MaxRuns \in Nat
  /\ NoFile \notin File

VARIABLES
  disk,      \* the file at the archive's path
  temp,      \* the temporary file of the save in progress
  orphans,   \* temporary files that former runs left behind
  flag,      \* zip::flag
  path,      \* zip::path is still set
  map,       \* zip::map
  bit3,      \* entries of map with the data descriptor bit in info
  pc,        \* idle, a stage of save(), or how the process ended
  sig,       \* the handlers of siglock.cc
  committed, \* history: what the last save that went through promised
  runs

files == <<disk, temp, orphans, committed>>
memory == <<flag, path, map, bit3>>
vars == <<disk, temp, orphans, flag, path, map, bit3, pc, sig, committed, runs>>

Flags == [open : BOOLEAN, read : BOOLEAN, modify : BOOLEAN]
Handlers == [lock : BOOLEAN, ignored : BOOLEAN]
Saving == {"write", "close", "remove", "rename"}
Ended == {"exit", "signal", "error", "invalid", "kill"}

Closed == [open |-> FALSE, read |-> FALSE, modify |-> FALSE]
Opened == [open |-> TRUE, read |-> FALSE, modify |-> FALSE]
InMemory == [open |-> TRUE, read |-> TRUE, modify |-> FALSE]
Unlocked == [lock |-> FALSE, ignored |-> FALSE]

TypeOK ==
  /\ disk \in File \cup {NoFile} /\ temp \in File \cup {NoFile}
  /\ orphans \in SUBSET File
  /\ flag \in Flags
  /\ path \in BOOLEAN
  /\ map \in SUBSET Entry /\ bit3 \in SUBSET map
  /\ pc \in {"idle"} \cup Saving \cup Ended
  /\ sig \in Handlers
  /\ committed \in SUBSET Entry
  /\ runs \in 0..MaxRuns

\* zip::empty: no file of nonzero size
Empty == map \cap Sized = {}

Init ==
  /\ \/ disk = NoFile
     \/ \E es \in SUBSET Entry :
          /\ es \cap Sized # {}
          /\ disk = [entries |-> es, streamed |-> es \cap Streamed, whole |-> TRUE]
  /\ committed = IF disk = NoFile THEN {} ELSE disk.entries
  /\ temp = NoFile /\ orphans = {}
  /\ flag = Closed /\ path = TRUE /\ map = {} /\ bit3 = {}
  /\ pc = "idle" /\ sig = Unlocked /\ runs = 0

-----------------------------------------------------------------------------
(* How the process ends: an exception that main() reports, a signal, kill. *)

\* The temporary file of an unfinished save stays on the disk.
End(how) ==
  /\ pc' = how
  /\ temp' = NoFile
  /\ orphans' = orphans \cup ({temp} \ {NoFile})

Throw(how) == End(how) /\ UNCHANGED <<disk, committed, memory, sig, runs>>

-----------------------------------------------------------------------------
(* Opening and closing.                                                    *)

\* open(): a missing file creates an empty archive in memory.
OpenMissing ==
  /\ pc = "idle" /\ ~flag.open
  /\ disk = NoFile
  /\ flag' = InMemory
  /\ UNCHANGED <<files, path, map, bit3, pc, sig, runs>>

\* open(): the central directory is read.
OpenPresent ==
  /\ pc = "idle" /\ ~flag.open
  /\ disk # NoFile
  /\ \/ /\ disk.whole
        /\ flag' = Opened
        /\ map' = disk.entries
        /\ bit3' = disk.streamed
        /\ UNCHANGED <<files, path, pc, sig, runs>>
     \/ ~disk.whole /\ Throw("invalid")

\* mutant: directories are not counted
CheckSized == disk.whole /\ map \cap Sized = disk.entries /\ bit3 = disk.streamed

\* check_local() of every entry of the file, as load() counts them.
CheckLocal ==
  /\ disk.whole
  /\ map = disk.entries
  /\ bit3 = disk.streamed

Load ==
  /\ pc = "idle" /\ flag.open /\ ~flag.read
  /\ \/ disk = NoFile /\ Throw("error")
     \/ disk # NoFile /\ ~CheckLocal /\ Throw("invalid")
     \/ /\ disk # NoFile /\ CheckLocal
        /\ flag' = InMemory
        /\ UNCHANGED <<files, path, map, bit3, pc, sig, runs>>

\* ziprom::unload of an archive without changes
Unload ==
  /\ pc = "idle" /\ flag.read /\ ~flag.modify
  /\ flag' = [flag EXCEPT !.read = FALSE]
  /\ UNCHANGED <<files, path, map, bit3, pc, sig, runs>>

\* ziprom::unload of a changed archive: reopen() closes, which forgets the
\* path, and opens the empty path, which creates an empty archive.
Reopen ==
  /\ ReopenModified
  /\ pc = "idle" /\ flag.read /\ flag.modify
  /\ path' = FALSE
  /\ map' = {} /\ bit3' = {}
  /\ flag' = InMemory
  /\ UNCHANGED <<files, pc, sig, runs>>

-----------------------------------------------------------------------------
(* Changes in memory.                                                      *)

\* mutant: the change is not flagged
Unflagged == pc = "idle" /\ flag.read /\ UNCHANGED flag

Changing == pc = "idle" /\ flag.read /\ flag' = [flag EXCEPT !.modify = TRUE]

\* insert(): set() resets the purpose bits of the copy.
Insert(e) ==
  /\ Changing /\ e \notin map
  /\ map' = map \cup {e}
  /\ UNCHANGED <<files, path, bit3, pc, sig, runs>>

\* insert(): the entry cannot be read from the archive it comes from.
InsertFails == pc = "idle" /\ flag.read /\ Throw("error")

\* mutant: the bits of the entry stay
EraseEntryOnly(e) ==
  /\ Changing /\ e \in map
  /\ map' = map \ {e}
  /\ UNCHANGED <<files, path, bit3, pc, sig, runs>>

Erase(e) ==
  /\ Changing /\ e \in map
  /\ map' = map \ {e} /\ bit3' = bit3 \ {e}
  /\ UNCHANGED <<files, path, pc, sig, runs>>

\* rename(): the entry, its bits included, under another name; the size stays.
Rename(e, f) ==
  /\ Changing /\ e \in map /\ f \in Entry \ map
  /\ (e \in Sized) = (f \in Sized)
  /\ map' = (map \ {e}) \cup {f}
  /\ bit3' = IF e \in bit3 THEN (bit3 \ {e}) \cup {f} ELSE bit3
  /\ UNCHANGED <<files, path, pc, sig, runs>>

-----------------------------------------------------------------------------
(* ziprom::save and zip::save.                                             *)

\* mutant: no sig_auto_lock in save()
NoLock == sig

SigLock == [lock |-> TRUE, ignored |-> FALSE]

\* mutant: the signal is forgotten
Silent(next) == sig' = Unlocked /\ pc' = next

\* sig_unlock(): a signal that came meanwhile is raised again.
SigUnlock(next) ==
  /\ sig' = Unlocked
  /\ pc' = IF sig.ignored THEN "signal" ELSE next

SaveStarts ==
  /\ pc = "idle" /\ flag.read /\ flag.modify
  /\ ~Empty
  /\ flag' = [flag EXCEPT !.modify = FALSE]
  /\ sig' = SigLock
  /\ pc' = "write"
  /\ UNCHANGED <<orphans, path, map, bit3, committed, runs>>

NewFile(es) == [entries |-> es, streamed |-> {}, whole |-> FALSE]

\* mutant: the old archive is deleted before the new one is written
SaveRemovesFirst == SaveStarts /\ temp' = NewFile(map) /\ disk' = NoFile
\* mutant: the archive is overwritten in place
SaveInPlace == SaveStarts /\ temp' = NewFile(map) /\ disk' = NewFile(map)
\* mutant: the directories are dropped
SaveSized == SaveStarts /\ temp' = NewFile(map \cap Sized) /\ UNCHANGED disk

SaveBegin == SaveStarts /\ temp' = NewFile(map) /\ UNCHANGED disk

\* An archive with no file left is deleted; map keeps its directories.
SaveEmpty ==
  /\ pc = "idle" /\ flag.read /\ flag.modify
  /\ Empty
  /\ flag' = [flag EXCEPT !.modify = FALSE]
  /\ \/ /\ disk' = IF path THEN NoFile ELSE disk
        /\ committed' = IF path THEN {} ELSE committed
        /\ UNCHANGED pc
     \/ /\ "remove" \in Faults /\ path /\ disk # NoFile
        /\ pc' = "error"
        /\ UNCHANGED <<disk, committed>>
  /\ UNCHANGED <<temp, orphans, path, map, bit3, sig, runs>>

\* The local headers with their data, the central directory, its end.
SaveWrite ==
  /\ pc = "write"
  /\ pc' = "close"
  /\ UNCHANGED <<files, memory, sig, runs>>

\* fopen(), ftell() or a write fails: the temporary file is removed.
SaveWriteFails ==
  /\ pc = "write" /\ "write" \in Faults
  /\ temp' = NoFile
  /\ SigUnlock("error")
  /\ UNCHANGED <<disk, orphans, memory, committed, runs>>

\* fclose() flushes what is buffered; its result is not looked at.
SaveClose ==
  /\ pc = "close"
  /\ \/ temp' = [temp EXCEPT !.whole = TRUE]
     \/ "close" \in Faults /\ UNCHANGED temp
  /\ pc' = "remove"
  /\ UNCHANGED <<disk, orphans, committed, memory, sig, runs>>

\* The old file is deleted first: from here the temporary file is the archive.
SaveRemove ==
  /\ pc = "remove"
  /\ disk' = IF path THEN NoFile ELSE disk
  /\ committed' = IF path THEN map ELSE committed
  /\ pc' = "rename"
  /\ UNCHANGED <<temp, orphans, memory, sig, runs>>

SaveRemoveFails ==
  /\ pc = "remove" /\ "remove" \in Faults /\ path /\ disk # NoFile
  /\ temp' = NoFile
  /\ SigUnlock("error")
  /\ UNCHANGED <<disk, orphans, memory, committed, runs>>

SaveRename ==
  /\ pc = "rename" /\ path
  /\ disk' = temp /\ temp' = NoFile
  /\ SigUnlock("idle")
  /\ UNCHANGED <<orphans, memory, committed, runs>>

\* mutant: the temporary file is removed as after the other failures
RenameFailureCleansUp ==
  /\ pc = "rename" /\ ("rename" \in Faults \/ ~path)
  /\ temp' = NoFile
  /\ SigUnlock("error")
  /\ UNCHANGED <<disk, orphans, memory, committed, runs>>

\* The temporary file stays; an empty path can never be renamed to.
SaveRenameFails ==
  /\ pc = "rename" /\ ("rename" \in Faults \/ ~path)
  /\ orphans' = orphans \cup {temp} /\ temp' = NoFile
  /\ SigUnlock("error")
  /\ UNCHANGED <<disk, memory, committed, runs>>

SaveStep == \/ SaveWrite \/ SaveWriteFails \/ SaveClose
            \/ SaveRemove \/ SaveRemoveFails \/ SaveRename \/ SaveRenameFails

-----------------------------------------------------------------------------
(* Signals, crashes and new runs.                                          *)

\* SIGINT and the like: sig_ignore() while locked, else the default action.
Signal ==
  /\ pc \notin Ended
  /\ \/ /\ sig.lock /\ ~sig.ignored
        /\ sig' = [sig EXCEPT !.ignored = TRUE]
        /\ UNCHANGED <<files, memory, pc, runs>>
     \/ ~sig.lock /\ Throw("signal")

\* SIGKILL or a power failure, that nothing can hold back.
Kill == pc \notin Ended /\ "kill" \in Faults /\ Throw("kill")

\* main() returns; the destructors close without saving.
Exit == pc = "idle" /\ Throw("exit")

\* The user runs the program again.
Restart ==
  /\ pc \in Ended /\ runs < MaxRuns
  /\ runs' = runs + 1
  /\ pc' = "idle"
  /\ flag' = Closed /\ path' = TRUE /\ map' = {} /\ bit3' = {}
  /\ sig' = Unlocked
  /\ UNCHANGED files

Next ==
  \/ OpenMissing \/ OpenPresent \/ Load \/ Unload \/ Reopen
  \/ \E e \in Entry : Insert(e) \/ Erase(e)
  \/ InsertFails
  \/ \E e, f \in Entry : Rename(e, f)
  \/ SaveBegin \/ SaveEmpty \/ SaveStep
  \/ Signal \/ Kill \/ Exit \/ Restart

\* A save is straight-line code: each call returns.
Fairness == WF_vars(SaveStep)

Spec == Init /\ [][Next]_vars
FairSpec == Spec /\ Fairness
-----------------------------------------------------------------------------
(* What the archive must keep, whatever happens.                           *)

Complete(f, es) == f # NoFile /\ f.whole /\ f.entries = es
Shown(f) == IF f = NoFile THEN {} ELSE f.entries

\* What the last save promised is complete in some file at every moment, even
\* between the deletion of the old archive and the rename of the new one
\* (save() writes, deletes, renames, in this order).
Recoverable ==
  committed # {} => \E f \in {disk, temp} \cup orphans : Complete(f, committed)

\* Unless a kill or a failed rename left a temporary file, the archive itself
\* holds what was promised as soon as no save is in progress: a signal
\* (sig_auto_lock) and every failure that save() handles come out on one side
\* of the save or on the other.
NothingHalfSaved ==
  pc \notin Saving /\ orphans = {} =>
    IF committed = {} THEN disk = NoFile ELSE Complete(disk, committed)

\* An archive in memory without changes is the archive of the disk: nothing
\* clears flag.modify while a change is neither saved nor given up.
CleanIsOnDisk ==
  pc = "idle" /\ flag.open /\ ~flag.modify /\ path =>
    IF disk = NoFile THEN Empty ELSE map = disk.entries

\* An archive is refused as invalid only if its file really is damaged
\* (check_local compares with what the program itself may have saved).
NoFalseDamage == pc = "invalid" => disk # NoFile /\ ~disk.whole

\* The file of an archive is replaced only by a complete file, and deleted
\* only by a save: an operation in memory never changes it.  Only a kill or a
\* failed rename leaves a temporary file on the disk.
FilesReplacedWhole ==
  [][/\ disk' # disk => \/ disk' = NoFile /\ (pc = "remove" \/ Empty)
                        \/ pc = "rename" /\ Complete(disk', map)
     /\ orphans' # orphans => pc' = "kill" \/ (pc = "rename" /\ disk' = disk)]_vars

\* A signal that a save held back ends the process as soon as the save ends
\* (sig_unlock raises it again).
SignalDelivered == sig.ignored ~> pc \in Ended

\* The archive with its files implements an archive that is saved atomically;
\* the save takes effect when the old file goes.
Abstract == INSTANCE AtomicArchive WITH
  content <- IF pc = "rename" THEN temp.entries ELSE Shown(disk),
  view <- IF pc \in Ended THEN {} ELSE map,
  up <- flag.open /\ pc \notin Ended

SavesAtomically == Abstract!AbsSpec
=============================================================================
