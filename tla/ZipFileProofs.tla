--------------------------- MODULE ZipFileProofs ---------------------------
(***************************************************************************)
(* The durability of a saved archive, what is in memory against what is on *)
(* the disk, and the refinement of AtomicArchive, for any entries and any  *)
(* number of runs.  Each theorem names the faults it excludes.             *)
(***************************************************************************)
EXTENDS ZipFile, TLAPS

-----------------------------------------------------------------------------
(* The values that records are built from.                                 *)

LEMMA FileFields ==
  ASSUME NEW f \in File
  PROVE  /\ f.entries \in SUBSET Entry
         /\ f.streamed \in SUBSET f.entries
         /\ f.whole \in BOOLEAN
         /\ f # NoFile
BY ZipAssumption DEF File, ZipAssumption

LEMMA NewFileType ==
  ASSUME NEW es \in SUBSET Entry
  PROVE  /\ NewFile(es) \in File
         /\ NewFile(es).entries = es
BY DEF File, NewFile

LEMMA ClosedFileType ==
  ASSUME NEW f \in File
  PROVE  /\ [f EXCEPT !.whole = TRUE] \in File
         /\ [f EXCEPT !.whole = TRUE].entries = f.entries
         /\ [f EXCEPT !.whole = TRUE].whole
BY DEF File

LEMMA FlagTypes ==
  /\ Closed \in Flags /\ Opened \in Flags /\ InMemory \in Flags
  /\ \A f \in Flags : /\ [f EXCEPT !.read = FALSE] \in Flags
                      /\ [f EXCEPT !.modify = FALSE] \in Flags
                      /\ [f EXCEPT !.modify = TRUE] \in Flags
BY DEF Flags, Closed, Opened, InMemory

LEMMA HandlerTypes ==
  /\ Unlocked \in Handlers /\ SigLock \in Handlers
  /\ \A s \in Handlers : [s EXCEPT !.ignored = TRUE] \in Handlers
BY DEF Handlers, Unlocked, SigLock

-----------------------------------------------------------------------------
(* Type correctness.                                                       *)

\* A save in progress, and nothing else, has a temporary file.
TempInv == pc \in Saving <=> temp # NoFile

TypeInv == TypeOK /\ TempInv

LEMMA InitTypeInv == Init => TypeInv
<1> SUFFICES ASSUME Init PROVE TypeInv
  OBVIOUS
<1> USE ZipAssumption DEF Init, ZipAssumption
<1>1. disk \in File \cup {NoFile}
  <2>1. ASSUME NEW es \in SUBSET Entry
        PROVE [entries |-> es, streamed |-> es \cap Streamed, whole |-> TRUE] \in File
    BY DEF File
  <2> QED BY <2>1
<1>2. committed \in SUBSET Entry
  BY <1>1, FileFields
<1>3. runs \in 0..MaxRuns
  OBVIOUS
<1> QED
  BY <1>1, <1>2, <1>3, FlagTypes, HandlerTypes
  DEF TypeInv, TypeOK, TempInv, Saving

LEMMA NextTypeInv == TypeInv /\ [Next]_vars => TypeInv'
<1> SUFFICES ASSUME TypeInv, [Next]_vars PROVE TypeInv'
  OBVIOUS
<1> USE ZipAssumption, FlagTypes, HandlerTypes
    DEF ZipAssumption, TypeInv, TypeOK, TempInv, Saving, Ended, files, memory,
        SigUnlock, Changing, Throw, End
<1>1. CASE OpenMissing
  BY <1>1 DEF OpenMissing
<1>2. CASE OpenPresent
  BY <1>2, FileFields DEF OpenPresent
<1>3. CASE Load
  BY <1>3 DEF Load
<1>4. CASE Unload \/ Reopen
  BY <1>4 DEF Unload, Reopen
<1>5. ASSUME NEW e \in Entry, Insert(e) \/ Erase(e) PROVE TypeInv'
  BY <1>5 DEF Insert, Erase
<1>6. ASSUME NEW e \in Entry, NEW f \in Entry, Rename(e, f) PROVE TypeInv'
  BY <1>6 DEF Rename
<1>7. CASE SaveBegin
  BY <1>7, NewFileType, FileFields DEF SaveBegin, SaveStarts
<1>8. CASE SaveEmpty
  BY <1>8 DEF SaveEmpty
<1>9. CASE SaveWrite \/ SaveWriteFails
  BY <1>9 DEF SaveWrite, SaveWriteFails
<1>10. CASE SaveClose
  BY <1>10, ClosedFileType, FileFields DEF SaveClose
<1>11. CASE SaveRemove \/ SaveRemoveFails
  BY <1>11 DEF SaveRemove, SaveRemoveFails
<1>12. CASE SaveRename \/ SaveRenameFails
  BY <1>12 DEF SaveRename, SaveRenameFails
<1>13. CASE Signal \/ Kill \/ Exit \/ InsertFails
  BY <1>13 DEF Signal, Kill, Exit, InsertFails
<1>14. CASE Restart
  BY <1>14 DEF Restart
<1>15. CASE UNCHANGED vars
  BY <1>15 DEF vars
<1> QED
  BY <1>1, <1>2, <1>3, <1>4, <1>5, <1>6, <1>7, <1>8, <1>9, <1>10, <1>11,
     <1>12, <1>13, <1>14, <1>15 DEF Next, SaveStep

\* The variables always have the values the code gives them.
THEOREM TypeCorrect == Spec => []TypeOK
BY InitTypeInv, NextTypeInv, PTL DEF Spec, TypeInv

-----------------------------------------------------------------------------
(* Durability.  Recoverable alone is not inductive: that the temporary     *)
(* file can stand for the archive once the old file is gone rests on what  *)
(* each stage of the save has already done to it.                          *)

\* The temporary file holds the archive of the memory, complete once closed.
TempFaithful ==
  /\ pc \in Saving => temp.entries = map /\ map # {}
  /\ pc \in {"remove", "rename"} => temp.whole

\* Between delete and rename the promise has moved to the temporary file.
Replacing == pc = "rename" /\ path

PromiseMoved == Replacing => committed = map

\* Otherwise the promise is at the path, or in a file of an earlier run.
PromiseKept ==
  ~Replacing /\ committed # {} => \E f \in {disk} \cup orphans : Complete(f, committed)

PromiseAtPath ==
  ~Replacing /\ orphans = {} =>
    IF committed = {} THEN disk = NoFile ELSE Complete(disk, committed)

DurableInv == TypeInv /\ TempFaithful /\ PromiseMoved /\ PromiseKept /\ PromiseAtPath

LEMMA InitDurableInv == Init => DurableInv
<1> SUFFICES ASSUME Init PROVE DurableInv
  OBVIOUS
<1>1. TypeInv
  BY InitTypeInv
<1>2. TempFaithful /\ PromiseMoved
  BY DEF Init, TempFaithful, PromiseMoved, Replacing, Saving
<1>3. PromiseKept /\ PromiseAtPath
  <2>1. CASE disk = NoFile
    BY <2>1 DEF Init, PromiseKept, PromiseAtPath
  <2>2. CASE disk # NoFile
    BY <2>2, ZipAssumption DEF Init, ZipAssumption, PromiseKept, PromiseAtPath, Complete
  <2> QED BY <2>1, <2>2
<1> QED BY <1>1, <1>2, <1>3 DEF DurableInv

\* The process ends while a temporary file may exist.
LEMMA EndDurable ==
  ASSUME DurableInv, NEW how \in Ended, Throw(how)
  PROVE  TempFaithful' /\ PromiseMoved' /\ PromiseKept' /\ PromiseAtPath'
<1> USE DEF Throw, End, files, memory
<1>1. pc' = how /\ pc' \notin Saving /\ pc' # "remove" /\ pc' # "rename"
  BY DEF Ended, Saving
<1>2. TempFaithful' /\ PromiseMoved' /\ ~Replacing'
  BY <1>1 DEF TempFaithful, PromiseMoved, Replacing
<1>3. CASE Replacing
  <2>1. temp # NoFile /\ Complete(temp, committed)
    BY <1>3 DEF DurableInv, TypeInv, TempInv, TempFaithful, PromiseMoved, Replacing,
                Saving, Complete
  <2>2. temp \in orphans' /\ committed' = committed
    BY <2>1
  <2>3. PromiseKept' /\ PromiseAtPath'
    BY <2>1, <2>2 DEF PromiseKept, PromiseAtPath, Complete
  <2> QED BY <1>2, <2>3
<1>4. CASE ~Replacing
  <2>1. /\ disk' = disk /\ committed' = committed
        /\ orphans \subseteq orphans'
    OBVIOUS
  <2>2. PromiseKept'
    BY <1>4, <2>1 DEF DurableInv, PromiseKept, Complete
  <2>3. PromiseAtPath'
    BY <1>4, <2>1 DEF DurableInv, PromiseAtPath, Complete
  <2> QED BY <1>2, <2>2, <2>3
<1> QED BY <1>3, <1>4

LEMMA NextDurableInv ==
  ASSUME "close" \notin Faults
  PROVE  DurableInv /\ [Next]_vars => DurableInv'
<1> SUFFICES ASSUME DurableInv, [Next]_vars PROVE DurableInv'
  OBVIOUS
<1>t. TypeInv'
  BY NextTypeInv DEF DurableInv
<1> DEFINE Rest == TempFaithful /\ PromiseMoved /\ PromiseKept /\ PromiseAtPath
<1> SUFFICES Rest'
  BY <1>t DEF DurableInv
<1> USE ZipAssumption
    DEF ZipAssumption, DurableInv, TypeInv, TempInv, TypeOK, Saving, files, memory, SigUnlock,
        Changing, TempFaithful, PromiseMoved, PromiseKept, PromiseAtPath, Replacing
<1>e. ASSUME NEW how \in Ended, Throw(how) PROVE Rest'
  BY <1>e, EndDurable
<1>1. CASE OpenMissing \/ Unload \/ Reopen
  BY <1>1 DEF OpenMissing, Unload, Reopen
<1>2. CASE OpenPresent
  BY <1>2, <1>e DEF OpenPresent, Ended
<1>3. CASE Load
  BY <1>3, <1>e DEF Load, Ended
<1>5. ASSUME NEW e \in Entry, Insert(e) \/ Erase(e) PROVE Rest'
  BY <1>5 DEF Insert, Erase
<1>6. ASSUME NEW e \in Entry, NEW f \in Entry, Rename(e, f) PROVE Rest'
  BY <1>6 DEF Rename
<1>7. CASE SaveBegin
  BY <1>7, NewFileType DEF SaveBegin, SaveStarts, Empty
<1>8. CASE SaveEmpty
  BY <1>8 DEF SaveEmpty, Ended
<1>9. CASE SaveWrite \/ SaveWriteFails
  BY <1>9 DEF SaveWrite, SaveWriteFails
<1>10. CASE SaveClose
  BY <1>10, ClosedFileType, FileFields DEF SaveClose
<1>11. CASE SaveRemove \/ SaveRemoveFails
  BY <1>11 DEF SaveRemove, SaveRemoveFails
<1>12. CASE SaveRename
  BY <1>12 DEF SaveRename, Complete
<1>13. CASE SaveRenameFails
  <2>1. temp \in orphans' /\ orphans' # {}
    BY <1>13 DEF SaveRenameFails
  <2>2. CASE path
    BY <1>13, <2>1, <2>2 DEF SaveRenameFails, Complete
  <2>3. CASE ~path
    BY <1>13, <2>1, <2>3 DEF SaveRenameFails
  <2> QED BY <2>2, <2>3
<1>14. CASE Signal \/ Kill \/ Exit \/ InsertFails
  BY <1>14, <1>e DEF Signal, Kill, Exit, InsertFails, Ended
<1>15. CASE Restart
  BY <1>15 DEF Restart, Ended
<1>16. CASE UNCHANGED vars
  BY <1>16 DEF vars
<1> QED
  BY <1>1, <1>2, <1>3, <1>5, <1>6, <1>7, <1>8, <1>9, <1>10, <1>11,
     <1>12, <1>13, <1>14, <1>15, <1>16 DEF Next, SaveStep

\* Whatever the save stage at which a call fails or the process is killed,
\* the content of the last save is complete in a file.
THEOREM Durability ==
  ASSUME "close" \notin Faults
  PROVE  Spec => []Recoverable
<1>1. DurableInv => Recoverable
  BY DEF DurableInv, TypeInv, TempInv, TempFaithful, PromiseMoved, PromiseKept, Replacing,
         Recoverable, Complete, Saving
<1> QED BY <1>1, InitDurableInv, NextDurableInv, PTL DEF Spec

\* Signals and the failures that save() handles leave the archive itself
\* either as it was or as saved.
THEOREM NeverHalfSaved ==
  ASSUME "close" \notin Faults
  PROVE  Spec => []NothingHalfSaved
<1>1. DurableInv => NothingHalfSaved
  BY DEF DurableInv, PromiseAtPath, Replacing, NothingHalfSaved, Saving
<1> QED BY <1>1, InitDurableInv, NextDurableInv, PTL DEF Spec

-----------------------------------------------------------------------------
(* What a step does to the files.  That no signal ends a save, so that only *)
(* a kill or a failed rename leaves a temporary file behind, rests on the   *)
(* lock, which every stage of a save holds.                                 *)

LockInv == pc \in Saving => sig.lock

LEMMA NextLockInv == TypeInv /\ LockInv /\ [Next]_vars => LockInv'
<1> SUFFICES ASSUME TypeInv, LockInv, [Next]_vars PROVE LockInv'
  OBVIOUS
<1> USE DEF LockInv, TypeInv, TypeOK, Saving, Ended, files, memory, SigUnlock, Changing, Throw, End
<1>1. CASE OpenMissing \/ OpenPresent \/ Load
  BY <1>1 DEF OpenMissing, OpenPresent, Load
<1>2. CASE Unload \/ Reopen \/ InsertFails \/ SaveEmpty
  BY <1>2 DEF Unload, Reopen, InsertFails, SaveEmpty
<1>3. ASSUME NEW e \in Entry, Insert(e) \/ Erase(e) PROVE LockInv'
  BY <1>3 DEF Insert, Erase
<1>4. ASSUME NEW e \in Entry, NEW f \in Entry, Rename(e, f) PROVE LockInv'
  BY <1>4 DEF Rename
<1>5. CASE SaveBegin
  BY <1>5 DEF SaveBegin, SaveStarts, SigLock
<1>6. CASE SaveStep
  BY <1>6 DEF SaveStep, SaveWrite, SaveWriteFails, SaveClose, SaveRemove, SaveRemoveFails,
              SaveRename, SaveRenameFails
<1>7. CASE Signal \/ Kill \/ Exit
  BY <1>7 DEF Signal, Kill, Exit, Handlers
<1>8. CASE Restart \/ UNCHANGED vars
  BY <1>8 DEF Restart, vars
<1> QED BY <1>1, <1>2, <1>3, <1>4, <1>5, <1>6, <1>7, <1>8 DEF Next

\* The body of FilesReplacedWhole.
ReplacedWhole ==
  /\ disk' # disk => \/ disk' = NoFile /\ (pc = "remove" \/ Empty)
                     \/ pc = "rename" /\ Complete(disk', map)
  /\ orphans' # orphans => pc' = "kill" \/ (pc = "rename" /\ disk' = disk)

LEMMA StepReplacesWhole ==
  ASSUME DurableInv, LockInv, [Next]_vars
  PROVE  [ReplacedWhole]_vars
<1> USE DEF DurableInv, TypeInv, TempInv, files, memory, ReplacedWhole
<1>0. pc = "idle" => temp = NoFile BY DEF Saving
<1>1. \A how : temp = NoFile /\ Throw(how) => ReplacedWhole
  BY DEF Throw, End
<1>2. CASE OpenMissing \/ OpenPresent \/ Load
  BY <1>0, <1>1, <1>2 DEF OpenMissing, OpenPresent, Load
<1>3. CASE Unload \/ Reopen \/ InsertFails
  BY <1>0, <1>1, <1>3 DEF Unload, Reopen, InsertFails
<1>4. ASSUME NEW e \in Entry, Insert(e) \/ Erase(e) PROVE ReplacedWhole
  BY <1>4 DEF Insert, Erase
<1>5. ASSUME NEW e \in Entry, NEW f \in Entry, Rename(e, f) PROVE ReplacedWhole
  BY <1>5 DEF Rename
<1>6. CASE SaveBegin \/ SaveEmpty
  BY <1>6 DEF SaveBegin, SaveStarts, SaveEmpty
<1>7. CASE SaveWrite \/ SaveWriteFails \/ SaveClose
  BY <1>7 DEF SaveWrite, SaveWriteFails, SaveClose
<1>8. CASE SaveRemove \/ SaveRemoveFails
  BY <1>8 DEF SaveRemove, SaveRemoveFails
<1>9. CASE SaveRename
  BY <1>9 DEF SaveRename, TempFaithful, Complete, Saving
<1>10. CASE SaveRenameFails
  BY <1>10 DEF SaveRenameFails
<1>11. CASE Signal
  <2>1. CASE sig.lock BY <1>11, <2>1 DEF Signal
  <2>2. CASE ~sig.lock BY <1>1, <1>11, <2>2 DEF Signal, LockInv
  <2> QED BY <2>1, <2>2
<1>12. CASE Kill BY <1>12 DEF Kill, Throw, End
<1>13. CASE Exit BY <1>0, <1>1, <1>13 DEF Exit
<1>14. CASE Restart BY <1>14 DEF Restart
<1> QED
  BY <1>2, <1>3, <1>4, <1>5, <1>6, <1>7, <1>8, <1>9, <1>10, <1>11, <1>12, <1>13, <1>14
  DEF Next, SaveStep

\* The file of an archive is replaced only by a complete one and deleted only by
\* a save; only a kill or a failed rename leaves a temporary file.
THEOREM ReplacedOnlyWhole ==
  ASSUME "close" \notin Faults
  PROVE  Spec => FilesReplacedWhole
<1>1. Init => LockInv BY DEF Init, LockInv, Saving
<1>2. DurableInv => TypeInv BY DEF DurableInv
<1>3. DurableInv /\ LockInv /\ [Next]_vars => [ReplacedWhole]_vars BY StepReplacesWhole
<1>4. Spec => [](DurableInv /\ LockInv)
  BY <1>1, <1>2, InitDurableInv, NextDurableInv, NextLockInv, PTL DEF Spec
<1>5. Spec => [][ReplacedWhole]_vars BY <1>3, <1>4, PTL DEF Spec
<1> QED BY <1>5 DEF FilesReplacedWhole, ReplacedWhole

-----------------------------------------------------------------------------
(* The memory and the file.                                                *)

\* The temporary file is what the memory holds, whether it is complete or not;
\* an archive that is not open is empty.
CleanInv ==
  /\ TypeInv /\ CleanIsOnDisk
  /\ ~flag.open => map = {}
  /\ flag.read => flag.open
  /\ pc \in Saving => temp.entries = map

LEMMA NextCleanInv == CleanInv /\ [Next]_vars => CleanInv'
<1> SUFFICES ASSUME CleanInv, [Next]_vars PROVE CleanInv'
  OBVIOUS
<1>t. TypeInv'
  BY NextTypeInv DEF CleanInv
<1> DEFINE Rest == /\ CleanIsOnDisk /\ (pc \in Saving => temp.entries = map)
                   /\ (~flag.open => map = {}) /\ (flag.read => flag.open)
<1> SUFFICES Rest'
  BY <1>t DEF CleanInv
<1> USE DEF CleanInv, CleanIsOnDisk, Saving, files, memory, Empty
<1>e. ASSUME NEW how \in Ended, Throw(how) PROVE Rest'
  BY <1>e DEF Throw, End, Ended
<1>f. flag \in Flags /\ disk \in File \cup {NoFile} /\ NoFile \notin File
  BY ZipAssumption DEF ZipAssumption, TypeInv, TypeOK
<1>1. CASE OpenMissing
  <2>1. /\ disk = NoFile /\ disk' = NoFile /\ map' = map /\ pc' = "idle" /\ flag' = InMemory
        /\ map \cap Sized = {}
    BY <1>1 DEF OpenMissing
  <2> QED BY <2>1 DEF InMemory
<1>2. CASE OpenPresent
  BY <1>2, <1>e DEF OpenPresent, Opened, Ended
<1>3. CASE Load
  BY <1>3, <1>e DEF Load, CheckLocal, InMemory, Ended
<1>4. CASE Unload \/ Reopen
  BY <1>4, <1>f DEF Unload, Reopen, InMemory, Flags
<1>5. ASSUME NEW e \in Entry, Insert(e) \/ Erase(e) PROVE Rest'
  BY <1>5, <1>f DEF Insert, Erase, Changing, Flags
<1>6. ASSUME NEW e \in Entry, NEW f \in Entry, Rename(e, f) PROVE Rest'
  BY <1>6, <1>f DEF Rename, Changing, Flags
<1>7. CASE SaveBegin
  BY <1>7, <1>f DEF SaveBegin, SaveStarts, NewFile, Flags
<1>8. CASE SaveEmpty
  BY <1>8, <1>f DEF SaveEmpty, Flags
<1>9. CASE SaveWrite \/ SaveWriteFails
  BY <1>9 DEF SaveWrite, SaveWriteFails, SigUnlock
<1>10. CASE SaveClose
  BY <1>10, ClosedFileType DEF SaveClose, TypeInv, TypeOK, TempInv
<1>11. CASE SaveRemove \/ SaveRemoveFails
  BY <1>11 DEF SaveRemove, SaveRemoveFails, SigUnlock
<1>12. CASE SaveRename
  BY <1>12 DEF SaveRename, SigUnlock, TypeInv, TempInv
<1>13. CASE SaveRenameFails
  BY <1>13 DEF SaveRenameFails, SigUnlock
<1>14. CASE Signal \/ Kill \/ Exit \/ InsertFails
  BY <1>14, <1>e DEF Signal, Kill, Exit, InsertFails, Ended
<1>15. CASE Restart
  BY <1>15 DEF Restart, Closed
<1>16. CASE UNCHANGED vars
  BY <1>16 DEF vars
<1> QED
  BY <1>1, <1>2, <1>3, <1>4, <1>5, <1>6, <1>7, <1>8, <1>9, <1>10, <1>11,
     <1>12, <1>13, <1>14, <1>15, <1>16 DEF Next, SaveStep

LEMMA InitCleanInv == Init => CleanInv
BY InitTypeInv DEF Init, CleanInv, CleanIsOnDisk, Closed, Saving

\* An archive in memory without changes is that of the disk, also when fclose
\* could not write all of it.
THEOREM CleanOnDisk == Spec => []CleanIsOnDisk
<1>1. CleanInv => CleanIsOnDisk BY DEF CleanInv
<1> QED BY <1>1, InitCleanInv, NextCleanInv, PTL DEF Spec

-----------------------------------------------------------------------------
(* Damage.  Without data descriptors, which are not written (SaveBegin) but *)
(* may be met, and without unloads of changed archives, the comparison in   *)
(* load() fails for a damaged file only.                                    *)

SoundInv ==
  /\ path /\ bit3 = {}
  /\ disk # NoFile => disk.streamed = {}
  /\ temp # NoFile => temp.streamed = {}
  /\ flag.modify => flag.read
  /\ NoFalseDamage

LEMMA NextSoundInv ==
  ASSUME Streamed = {}, ~ReopenModified
  PROVE  CleanInv /\ SoundInv /\ [Next]_vars => SoundInv'
<1> SUFFICES ASSUME CleanInv, SoundInv, [Next]_vars PROVE SoundInv'
  OBVIOUS
<1> USE DEF SoundInv, NoFalseDamage, files, memory
<1>f. /\ flag \in Flags /\ disk \in File \cup {NoFile} /\ temp \in File \cup {NoFile}
      /\ NoFile \notin File
  BY ZipAssumption DEF ZipAssumption, CleanInv, TypeInv, TypeOK
<1>e. ASSUME NEW how \in Ended \ {"invalid"}, Throw(how) PROVE SoundInv'
  BY <1>e DEF Throw, End
<1>i. ASSUME Throw("invalid"), disk # NoFile, ~disk.whole PROVE SoundInv'
  BY <1>i DEF Throw, End
<1>1. CASE OpenMissing
  BY <1>1 DEF OpenMissing, InMemory
<1>2. CASE OpenPresent
  <2>1. CASE Throw("invalid") /\ ~disk.whole BY <1>2, <1>i, <2>1 DEF OpenPresent
  <2>2. CASE bit3' = disk.streamed /\ flag' = Opened /\ UNCHANGED <<files, path, pc, sig, runs>>
    BY <1>2, <2>2 DEF OpenPresent, Opened
  <2> QED BY <1>2, <2>1, <2>2 DEF OpenPresent
<1>3. CASE Load
  <2>1. CASE Throw("error") BY <2>1, <1>e DEF Ended
  <2>2. CASE disk # NoFile /\ CheckLocal /\ flag' = InMemory /\ UNCHANGED <<files, path, map, bit3, pc, sig, runs>>
    BY <2>2, <1>3 DEF Load, InMemory
  <2>3. CASE disk # NoFile /\ ~CheckLocal /\ Throw("invalid")
    <3>1. map = disk.entries
      BY <1>3, <2>3 DEF Load, CleanInv, CleanIsOnDisk
    <3>2. ~disk.whole BY <2>3, <3>1 DEF CheckLocal
    <3> QED BY <1>i, <2>3, <3>2
  <2> QED BY <1>3, <2>1, <2>2, <2>3 DEF Load
<1>4. CASE Unload \/ Reopen
  BY <1>4, <1>f DEF Unload, Reopen, Flags
<1>5. ASSUME NEW e \in Entry, Insert(e) \/ Erase(e) PROVE SoundInv'
  BY <1>5, <1>f DEF Insert, Erase, Changing, Flags
<1>6. ASSUME NEW e \in Entry, NEW f \in Entry, Rename(e, f) PROVE SoundInv'
  BY <1>6, <1>f DEF Rename, Changing, Flags
<1>7. CASE SaveBegin
  BY <1>7, <1>f DEF SaveBegin, SaveStarts, NewFile, Flags
<1>8. CASE SaveEmpty
  BY <1>8, <1>f DEF SaveEmpty, Flags
<1>9. CASE SaveWrite \/ SaveWriteFails
  BY <1>9 DEF SaveWrite, SaveWriteFails, SigUnlock
<1>10. CASE SaveClose
  <2>1. temp \in File BY <1>10, <1>f DEF SaveClose, CleanInv, TypeInv, TempInv, Saving
  <2>2. [temp EXCEPT !.whole = TRUE].streamed = temp.streamed BY <2>1 DEF File
  <2> QED BY <1>10, <1>f, <2>1, <2>2 DEF SaveClose
<1>11. CASE SaveRemove \/ SaveRemoveFails
  BY <1>11 DEF SaveRemove, SaveRemoveFails, SigUnlock
<1>12. CASE SaveRename \/ SaveRenameFails
  BY <1>12 DEF SaveRename, SaveRenameFails, SigUnlock
<1>14. CASE Signal \/ Kill \/ Exit \/ InsertFails
  BY <1>14, <1>e DEF Signal, Kill, Exit, InsertFails, Ended
<1>15. CASE Restart
  BY <1>15 DEF Restart, Closed
<1>16. CASE UNCHANGED vars
  BY <1>16 DEF vars
<1> QED
  BY <1>1, <1>2, <1>3, <1>4, <1>5, <1>6, <1>7, <1>8, <1>9, <1>10, <1>11,
     <1>12, <1>14, <1>15, <1>16 DEF Next, SaveStep

\* An archive is refused as invalid only if its file is damaged, whichever of the
\* failures, fclose included, came before.
THEOREM NeverFalselyDamaged ==
  ASSUME Streamed = {}, ~ReopenModified
  PROVE  Spec => []NoFalseDamage
<1>1. Init => SoundInv
  BY DEF Init, SoundInv, Closed, NoFalseDamage
<1>2. SoundInv => NoFalseDamage BY DEF SoundInv
<1> QED BY <1>1, <1>2, InitCleanInv, NextCleanInv, NextSoundInv, PTL DEF Spec

-----------------------------------------------------------------------------
(* Refinement.  Without kills, failed renames and unloads of changed       *)
(* archives, the object and its files behave as an atomically saved one.   *)

RefineInv ==
  /\ TypeInv
  /\ path
  /\ ~flag.open => map = {}
  /\ flag.read => flag.open
  /\ pc \in Saving => sig.lock /\ flag.open /\ temp.entries = map /\ ~Empty

LEMMA InitRefineInv == Init => RefineInv
BY InitTypeInv DEF Init, RefineInv, Closed, Saving

LEMMA NextRefineInv ==
  ASSUME ~ReopenModified
  PROVE  RefineInv /\ [Next]_vars => RefineInv'
<1> SUFFICES ASSUME RefineInv, [Next]_vars PROVE RefineInv'
  OBVIOUS
<1>t. TypeInv'
  BY NextTypeInv DEF RefineInv
<1> DEFINE Rest == /\ path
                   /\ ~flag.open => map = {}
                   /\ flag.read => flag.open
                   /\ pc \in Saving =>
                        sig.lock /\ flag.open /\ temp.entries = map /\ ~Empty
<1> SUFFICES Rest'
  BY <1>t DEF RefineInv
<1> USE DEF RefineInv, TypeInv, TempInv, Saving, Ended, files, memory,
        SigUnlock, Changing, Throw, End, Closed, Opened, InMemory, SigLock, Empty
<1>1. CASE OpenMissing
  BY <1>1 DEF OpenMissing
<1>4. CASE Unload \/ Reopen
  BY <1>4 DEF Unload, Reopen, TypeOK, Flags
<1>e. ASSUME NEW how \in Ended, Throw(how) PROVE Rest'
  BY <1>e
<1>2. CASE OpenPresent
  <2>1. CASE Throw("invalid")
    BY <2>1, <1>e
  <2>2. CASE ~Throw("invalid")
    <3>1. path' = path /\ pc' = "idle" /\ flag' = Opened
      BY <1>2, <2>2 DEF OpenPresent
    <3> QED BY <3>1
  <2> QED BY <2>1, <2>2
<1>3. CASE Load
  <2>1. CASE Throw("invalid") \/ Throw("error")
    BY <2>1, <1>e
  <2>2. CASE ~(Throw("invalid") \/ Throw("error"))
    <3>1. path' = path /\ pc' = "idle" /\ flag' = InMemory /\ flag.open /\ map' = map
      BY <1>3, <2>2 DEF Load
    <3> QED BY <3>1
  <2> QED BY <2>1, <2>2
<1>u. pc = "idle" => \A f : flag' = [flag EXCEPT !.modify = f] =>
        /\ flag'.open = flag.open
        /\ flag'.read = flag.read
  BY DEF TypeOK, Flags
<1>5. ASSUME NEW e \in Entry, Insert(e) \/ Erase(e) PROVE Rest'
  BY <1>5, <1>u DEF Insert, Erase
<1>6. ASSUME NEW e \in Entry, NEW f \in Entry, Rename(e, f) PROVE Rest'
  BY <1>6, <1>u DEF Rename
<1>7. CASE SaveBegin
  BY <1>7, NewFileType DEF SaveBegin, SaveStarts, TypeOK, Flags
<1>8. CASE SaveEmpty
  BY <1>8 DEF SaveEmpty, TypeOK, Flags
<1>9. CASE SaveWrite \/ SaveWriteFails
  BY <1>9 DEF SaveWrite, SaveWriteFails
<1>10. CASE SaveClose
  BY <1>10, ClosedFileType DEF SaveClose, TypeOK
<1>11. CASE SaveRemove \/ SaveRemoveFails
  BY <1>11 DEF SaveRemove, SaveRemoveFails
<1>12. CASE SaveRename \/ SaveRenameFails
  BY <1>12 DEF SaveRename, SaveRenameFails
<1>14. CASE Signal \/ Kill \/ Exit \/ InsertFails
  BY <1>14 DEF Signal, Kill, Exit, InsertFails, TypeOK, Handlers
<1>15. CASE Restart
  BY <1>15 DEF Restart
<1>16. CASE UNCHANGED vars
  BY <1>16 DEF vars
<1> QED
  BY <1>1, <1>2, <1>3, <1>5, <1>6, <1>7, <1>8, <1>9, <1>10, <1>11,
     <1>12, <1>4, <1>14, <1>15, <1>16 DEF Next, SaveStep


\* Each step is a step of the abstract archive or leaves it alone.
LEMMA StepRefines ==
  ASSUME Faults \subseteq {"write", "remove"}, RefineInv, RefineInv', [Next]_vars
  PROVE  [Abstract!AbsNext]_Abstract!absVars
<1> DEFINE Goal == [Abstract!AbsNext]_Abstract!absVars
<1> USE DEF RefineInv, TypeInv, TempInv, TypeOK, Saving, Ended, files, memory,
            SigUnlock, Changing, Throw, End, Shown,
            Abstract!AbsNext, Abstract!absVars, Abstract!Start, Abstract!Edit,
            Abstract!Commit, Abstract!Stop, Abstract!Kept
<1>1. CASE OpenMissing
  BY <1>1 DEF OpenMissing, InMemory
<1>2. CASE OpenPresent
  BY <1>2 DEF OpenPresent, Opened
<1>3. CASE Load
  BY <1>3 DEF Load, InMemory
<1>4. CASE Unload
  BY <1>4 DEF Unload, Flags
<1>5. ASSUME NEW e \in Entry, Insert(e) \/ Erase(e) PROVE Goal
  BY <1>5 DEF Insert, Erase, Flags
<1>6. ASSUME NEW e \in Entry, NEW f \in Entry, Rename(e, f) PROVE Goal
  BY <1>6 DEF Rename, Flags
<1>7. CASE SaveBegin
  BY <1>7 DEF SaveBegin, SaveStarts, Flags
<1>8. CASE SaveEmpty
  BY <1>8 DEF SaveEmpty, Empty, Flags
<1>9. CASE SaveWrite \/ SaveWriteFails \/ SaveClose
  BY <1>9 DEF SaveWrite, SaveWriteFails, SaveClose
<1>10. CASE SaveRemove
  BY <1>10, ZipAssumption DEF SaveRemove, Empty, ZipAssumption
<1>11. CASE SaveRemoveFails
  BY <1>11 DEF SaveRemoveFails
<1>12. CASE SaveRename
  BY <1>12 DEF SaveRename
<1>13. CASE SaveRenameFails
  BY <1>13 DEF SaveRenameFails
<1>14. CASE Signal \/ Kill \/ Exit \/ InsertFails
  BY <1>14 DEF Signal, Kill, Exit, InsertFails
<1>15. CASE Restart
  BY <1>15 DEF Restart, Closed
<1>16. CASE UNCHANGED vars
  BY <1>16 DEF vars
<1>17. CASE Reopen
  BY <1>17 DEF Reopen, InMemory
<1> QED
  BY <1>1, <1>2, <1>3, <1>4, <1>5, <1>6, <1>7, <1>8, <1>9, <1>10, <1>11,
     <1>12, <1>13, <1>14, <1>15, <1>16, <1>17 DEF Next, SaveStep

\* The step-by-step save implements the atomic one.
THEOREM Refinement ==
  ASSUME Faults \subseteq {"write", "remove"}, ~ReopenModified
  PROVE  Spec => SavesAtomically
<1>1. Init => Abstract!AbsInit
  BY DEF Init, Abstract!AbsInit, Abstract!Kept, Shown, Closed, Ended
<1>2. RefineInv /\ RefineInv' /\ [Next]_vars => [Abstract!AbsNext]_Abstract!absVars
  BY StepRefines
<1>3. Spec => []RefineInv
  BY InitRefineInv, NextRefineInv, PTL DEF Spec
<1> QED BY <1>1, <1>2, <1>3, PTL DEF Spec, SavesAtomically, Abstract!AbsSpec
=============================================================================
