------------------------ MODULE RomCollectionProofs ------------------------
(***************************************************************************)
(* Nothing is lost in a run over all the archives, and what the program    *)
(* holds of them is what the disk has; a run that is not stopped leaves    *)
(* nothing undone.  For any directories, games and data.                   *)
(***************************************************************************)
EXTENDS RomCollection, TLAPS

-----------------------------------------------------------------------------
(* Paths, and the data in a disk.                                          *)

LEMMA PathFacts ==
  /\ Own \subseteq Path
  /\ \A p \in Path : p[1] \in RomDir \cup {NewDir, UnknownDir} /\ p[2] \in Name
  /\ \A p \in Own : p[1] \in RomDir /\ p[2] \in Name
  /\ \A n \in Name : /\ Unknown(n) \in Path /\ Unknown(n) \notin Own
                     /\ Unknown(n)[1] = UnknownDir /\ Unknown(n)[2] = n
                     /\ New(n) \in Path /\ New(n)[1] = NewDir /\ New(n)[2] = n
BY CollectionAssumption DEF CollectionAssumption, Own, Path, Unknown, New

LEMMA DataInUpper ==
  ASSUME NEW d \in [Path -> SUBSET Data], NEW S, \A p \in Path : d[p] \subseteq S
  PROVE  DataIn(d) \subseteq S
BY DEF DataIn

LEMMA DataInMember ==
  ASSUME NEW d \in [Path -> SUBSET Data], NEW p \in Path
  PROVE  d[p] \subseteq DataIn(d)
BY DEF DataIn

\* An archive is replaced: only what it had and has no more can be missing.
LEMMA DataInReplace ==
  ASSUME NEW d \in [Path -> SUBSET Data], NEW q \in Path, NEW s \in SUBSET Data
  PROVE  /\ [d EXCEPT ![q] = s] \in [Path -> SUBSET Data]
         /\ s \subseteq DataIn([d EXCEPT ![q] = s])
         /\ DataIn([d EXCEPT ![q] = s]) \subseteq DataIn(d) \cup s
         /\ DataIn(d) \subseteq DataIn([d EXCEPT ![q] = s]) \cup (d[q] \ s)
<1> DEFINE e == [d EXCEPT ![q] = s]
<1>1. e \in [Path -> SUBSET Data]
  OBVIOUS
<1>2. s \subseteq DataIn(e)
  <2>1. e[q] = s
    OBVIOUS
  <2> QED BY <1>1, <2>1, DataInMember
<1>3. DataIn(e) \subseteq DataIn(d) \cup s
  <2>1. \A p \in Path : e[p] \subseteq DataIn(d) \cup s
    BY DataInMember
  <2> QED BY <1>1, <2>1, DataInUpper
<1>4. DataIn(d) \subseteq DataIn(e) \cup (d[q] \ s)
  <2>1. \A p \in Path \ {q} : d[p] \subseteq DataIn(e)
    <3> SUFFICES ASSUME NEW p \in Path \ {q} PROVE d[p] \subseteq DataIn(e)
      OBVIOUS
    <3>1. e[p] = d[p]
      OBVIOUS
    <3> QED BY <1>1, <3>1, DataInMember
  <2>2. \A p \in Path : d[p] \subseteq DataIn(e) \cup (d[q] \ s)
    BY <1>2, <2>1
  <2> HIDE DEF e
  <2> QED BY <2>2, DataInUpper
<1> QED BY <1>1, <1>2, <1>3, <1>4

-----------------------------------------------------------------------------
(* Type correctness.                                                       *)

LEMMA StartTypes ==
  ASSUME NEW s \in Start
  PROVE  /\ s.disk \in [Path -> SUBSET Data]
         /\ s.readonly \subseteq Own /\ s.oper \subseteq Oper
BY CollectionAssumption DEF CollectionAssumption

LEMMA WorkTypes ==
  /\ NoWork \in Works
  /\ \A p \in Path, x, y \in SUBSET Data : [path |-> p, z |-> x, r |-> y] \in Works
  /\ \A w \in Works : w.z \in SUBSET Data /\ w.r \in SUBSET Data
BY DEF NoWork, Works

LEMMA LoadedType ==
  ASSUME disk \in [Path -> SUBSET Data]
  PROVE  Loaded \in [Path -> SUBSET Data]
BY DEF Loaded

LEMMA DataInType ==
  ASSUME NEW d \in [Path -> SUBSET Data]
  PROVE  DataIn(d) \in SUBSET Data
BY DEF DataIn

LEMMA InitType == Init => TypeOK
BY CollectionAssumption, StartTypes, WorkTypes, DataInType
DEF CollectionAssumption, Init, TypeOK, Nothing, Scanning, Moving, Ended

-----------------------------------------------------------------------------
(* The steps that choose, with the types of what they choose.              *)

LEMMA FoundOffered ==
  ASSUME NEW g \in Required
  PROVE  Found(g) \subseteq index
BY DEF Found, Offered

LEMMA ScanStep ==
  ASSUME TypeOK, Scan
  PROVE  \E p \in todo, z, r \in SUBSET Data :
           /\ p \in Own /\ p[2] \in Required
           /\ disk[p] \cup disk[Unknown(p[2])] \subseteq z \cup r
           /\ z \cup r \subseteq disk[p] \cup disk[Unknown(p[2])] \cup index
           /\ work' = [path |-> p, z |-> z, r |-> r]
           /\ todo' = todo \ {p}
<1>1. PICK p \in todo : \E z, r \in SUBSET Data :
        /\ p[2] \in Required
        /\ Scanned({op \in {"fix", "binary"} : active(op, p)}, Roms[p[2]], Offered(p), {},
                   disk[p], disk[Unknown(p[2])], z, r)
        /\ work' = [path |-> p, z |-> z, r |-> r]
        /\ todo' = todo \ {p}
  BY DEF Scan
<1>2. p \in Own
  BY DEF TypeOK, Scan, Scanning
<1> QED BY <1>1, <1>2 DEF Scanned, Offered

LEMMA AddStep ==
  ASSUME TypeOK, Add
  PROVE  \E g \in todo, z \in SUBSET Data :
           /\ g \in Required \ usable
           /\ disk' = [disk EXCEPT ![New(g)] = z]
           /\ held' = [held EXCEPT ![New(g)] = z]
           /\ index' = index \cup disk[New(g)]
           /\ todo' = todo \ {g}
           /\ z \subseteq disk[New(g)] \cup index
           /\ usable' \subseteq usable \cup {g} /\ usable \subseteq usable'
           /\ \/ z = disk[New(g)]
              \/ New(g) \notin readonly /\ g \in usable'
<1>1. PICK g \in todo :
        LET found == IF active("add", New(g)) THEN Found(g) ELSE {} IN
        /\ g \notin usable
        /\ todo' = todo \ {g}
        /\ \E z \in SUBSET (disk[New(g)] \cup found) :
             /\ found \subseteq z
             /\ found = {} => z = disk[New(g)]
             /\ disk' = [disk EXCEPT ![New(g)] = z]
             /\ held' = [held EXCEPT ![New(g)] = z]
        /\ index' = index \cup disk[New(g)]
        /\ usable' = usable \cup (IF found = {} THEN {} ELSE {g})
  BY DEF Add
<1> DEFINE found == IF active("add", New(g)) THEN Found(g) ELSE {}
<1>2. g \in Required
  BY DEF TypeOK, Add
<1>3. New(g) \in Path
  BY <1>2, PathFacts, CollectionAssumption DEF CollectionAssumption
<1>4. found \subseteq index /\ (found # {} => New(g) \notin readonly)
  BY <1>2, FoundOffered DEF active
<1>5. PICK z \in SUBSET (disk[New(g)] \cup found) :
        /\ found = {} => z = disk[New(g)]
        /\ disk' = [disk EXCEPT ![New(g)] = z]
        /\ held' = [held EXCEPT ![New(g)] = z]
  BY <1>1
<1>6. z \subseteq disk[New(g)] \cup index /\ z \in SUBSET Data
  BY <1>3, <1>4, <1>5 DEF TypeOK
<1>7. usable' = usable \cup (IF found = {} THEN {} ELSE {g})
  BY <1>1
<1> HIDE DEF found
<1>8. usable' \subseteq usable \cup {g} /\ usable \subseteq usable'
  BY <1>7
<1>9. z = disk[New(g)] \/ (New(g) \notin readonly /\ g \in usable')
  BY <1>4, <1>5, <1>7
<1>10. g \notin usable /\ todo' = todo \ {g} /\ index' = index \cup disk[New(g)]
  BY <1>1
<1> QED BY <1>2, <1>5, <1>6, <1>8, <1>9, <1>10

LEMMA MoveStep ==
  ASSUME TypeOK, Move
  PROVE  \E p \in todo, z, r \in SUBSET Data :
           /\ p \in Own
           /\ disk[p] \subseteq z \cup r /\ z \subseteq disk[p]
           /\ disk[Unknown(p[2])] \subseteq r
           /\ r \subseteq disk[Unknown(p[2])] \cup disk[p]
           /\ work' = [path |-> p, z |-> z, r |-> r]
           /\ todo' = todo \ {p}
<1>1. PICK p \in todo :
        /\ todo' = todo \ {p}
        /\ work' = IF p \in readonly
                   THEN [path |-> p, z |-> disk[p], r |-> disk[Unknown(p[2])]]
                   ELSE [path |-> p, z |-> {}, r |-> disk[Unknown(p[2])] \cup disk[p]]
  BY DEF Move
<1>2. p \in Own /\ p \in Path /\ Unknown(p[2]) \in Path
  BY PathFacts DEF TypeOK, Move, Moving
<1>3. disk[p] \in SUBSET Data /\ disk[Unknown(p[2])] \in SUBSET Data
  BY <1>2 DEF TypeOK
<1>4. CASE p \in readonly
  BY <1>1, <1>2, <1>3, <1>4
<1>5. CASE p \notin readonly
  <2>1. disk[Unknown(p[2])] \cup disk[p] \in SUBSET Data /\ {} \in SUBSET Data
    BY <1>3
  <2>2. work' = [path |-> p, z |-> {}, r |-> disk[Unknown(p[2])] \cup disk[p]]
    BY <1>1, <1>5
  <2> QED BY <1>1, <1>2, <2>1, <2>2
<1> QED BY <1>4, <1>5

LEMMA NextType == TypeOK /\ [Next]_vars => TypeOK'
<1> SUFFICES ASSUME TypeOK, [Next]_vars PROVE TypeOK'
  OBVIOUS
<1> USE CollectionAssumption, PathFacts, WorkTypes
    DEF CollectionAssumption, TypeOK, Scanning, Moving, Ended, setting
<1>1. CASE Load
  BY <1>1, LoadedType, DataInType DEF Load
<1>2. CASE ScanStray
  BY <1>2 DEF ScanStray
<1>3. CASE Scan
  <2>1. PICK p \in todo, z \in SUBSET Data, r \in SUBSET Data :
          /\ p \in Own /\ p[2] \in Required
          /\ work' = [path |-> p, z |-> z, r |-> r]
          /\ todo' = todo \ {p}
    BY <1>3, ScanStep
  <2>2. work'.path = p /\ work' \in Works
    BY <2>1
  <2> QED BY <1>3, <2>1, <2>2 DEF Scan
<1>4. CASE SaveZ
  BY <1>4, DataInReplace DEF SaveZ
<1>5. CASE SaveR
  BY <1>5, DataInReplace DEF SaveR, Update
<1>6. CASE ScanEnds
  BY <1>6 DEF ScanEnds
<1>7. CASE AddSkips
  BY <1>7 DEF AddSkips
<1>8. CASE Add
  <2>1. PICK g \in todo, z \in SUBSET Data :
          /\ g \in Required
          /\ disk' = [disk EXCEPT ![New(g)] = z]
          /\ held' = [held EXCEPT ![New(g)] = z]
          /\ index' = index \cup disk[New(g)]
          /\ usable' \subseteq usable \cup {g}
          /\ todo' = todo \ {g}
    BY <1>8, AddStep
  <2> QED BY <1>8, <2>1, DataInReplace DEF Add
<1>9. CASE AddEnds
  BY <1>9 DEF AddEnds
<1>10. CASE Move
  <2>1. PICK p \in todo, z \in SUBSET Data, r \in SUBSET Data :
          p \in Own /\ work' = [path |-> p, z |-> z, r |-> r] /\ todo' = todo \ {p}
    BY <1>10, MoveStep
  <2>2. work'.path = p /\ work' \in Works
    BY <2>1
  <2> QED BY <1>10, <2>1, <2>2 DEF Move
<1>11. CASE MoveR
  BY <1>11, DataInReplace DEF MoveR, Moves
<1>12. CASE MoveZ
  BY <1>12, DataInReplace DEF MoveZ, Moves
<1>13. CASE MoveEnds
  BY <1>13 DEF MoveEnds
<1>14. CASE UnknownScan
  BY <1>14, DataInReplace DEF UnknownScan
<1>15. CASE UnknownEnds \/ Stop
  BY <1>15 DEF UnknownEnds, Stop
<1>16. CASE Rerun
  BY <1>16, DataInType DEF Rerun, Nothing
<1>17. CASE UNCHANGED vars
  BY <1>17 DEF vars
<1> QED
  BY <1>1, <1>2, <1>3, <1>4, <1>5, <1>6, <1>7, <1>8, <1>9, <1>10, <1>11, <1>12,
     <1>13, <1>14, <1>15, <1>16, <1>17 DEF Next

\* The variables always have the values the code gives them.
THEOREM TypeCorrect == Spec => []TypeOK
BY InitType, NextType, PTL DEF Spec

-----------------------------------------------------------------------------
(* What the program holds is what the disk has.  HeldIsDisk is of the time *)
(* between two archives; in between, the one place that differs is the     *)
(* reject archive a move has saved and not yet put back.                   *)

Held(p) == p[1] \in RomDir \cup {UnknownDir} => held[p] = disk[p]

HeldInv ==
  /\ TypeOK
  /\ pc \notin {"load", "movez"} \cup Ended => \A p \in Path : Held(p)
  /\ pc = "movez" =>
       /\ \A p \in Path \ {Unknown(work.path[2])} : Held(p)
       /\ disk[Unknown(work.path[2])] = work.r

LEMMA HeldReplace ==
  ASSUME TypeOK, NEW q \in Path, NEW s, NEW p \in Path, p = q \/ Held(p),
         disk' = [disk EXCEPT ![q] = s], held' = [held EXCEPT ![q] = s]
  PROVE  Held(p)'
BY DEF TypeOK, Held

LEMMA InitHeldInv == Init => HeldInv
BY InitType DEF HeldInv, Init

LEMMA NextHeldInv == HeldInv /\ [Next]_vars => HeldInv'
<1> SUFFICES ASSUME HeldInv, [Next]_vars PROVE HeldInv'
  OBVIOUS
<1>0. TypeOK /\ TypeOK'
  BY NextType DEF HeldInv
<1> USE <1>0, PathFacts DEF HeldInv, Ended, setting
<1>1. CASE Load
  BY <1>1 DEF Load, Loaded, Held
<1>2. CASE ScanStray \/ Scan \/ ScanEnds
  BY <1>2 DEF ScanStray, Scan, ScanEnds, Held
<1>3. CASE SaveZ
  <2>1. work.path \in Path
    BY <1>3 DEF SaveZ, TypeOK
  <2>2. \A p \in Path : Held(p)'
    BY <1>3, <2>1, HeldReplace DEF SaveZ
  <2> QED BY <1>3, <2>2 DEF SaveZ
<1>4. CASE SaveR
  <2>1. Unknown(work.path[2]) \in Path
    BY <1>4 DEF SaveR, TypeOK
  <2>2. \A p \in Path : Held(p)'
    BY <1>4, <2>1, HeldReplace DEF SaveR, Update
  <2> QED BY <1>4, <2>2 DEF SaveR
<1>5. CASE AddSkips \/ AddEnds
  BY <1>5 DEF AddSkips, AddEnds, Held
<1>6. CASE Add
  <2>1. PICK g \in todo, z \in SUBSET Data :
          /\ g \in Required
          /\ disk' = [disk EXCEPT ![New(g)] = z]
          /\ held' = [held EXCEPT ![New(g)] = z]
    BY <1>6, AddStep
  <2>2. New(g) \in Path
    BY <2>1, CollectionAssumption DEF CollectionAssumption
  <2>3. \A p \in Path : Held(p)'
    BY <1>6, <2>1, <2>2, HeldReplace DEF Add
  <2> QED BY <1>6, <2>3 DEF Add
<1>7. CASE Move
  BY <1>7 DEF Move, Held
<1>8. CASE MoveR
  <2>1. Unknown(work.path[2]) \in Path
    BY <1>8 DEF MoveR, TypeOK
  <2>2. disk'[Unknown(work.path[2])] = work.r
    BY <1>8, <2>1 DEF MoveR, Moves, TypeOK
  <2>3. \A p \in Path \ {Unknown(work.path[2])} : Held(p)'
    BY <1>8, <2>1 DEF MoveR, Moves, TypeOK, Held
  <2> QED BY <1>8, <2>2, <2>3 DEF MoveR, Moves
<1>9. CASE MoveZ
  <2> DEFINE u == Unknown(work.path[2])
  <2>1. work.path \in Own /\ work.path \in Path /\ u \in Path /\ u # work.path
    BY <1>9 DEF MoveZ, TypeOK
  <2>2. /\ held'[work.path] = disk'[work.path]
        /\ held'[u] = disk'[u]
        /\ \A p \in Path \ {u, work.path} : held'[p] = held[p] /\ disk'[p] = disk[p]
    <3> HIDE DEF u
    <3>1. held' = [held EXCEPT ![work.path] = work.z, ![u] = work.r]
      BY <1>9 DEF MoveZ, u
    <3>2. disk' = [disk EXCEPT ![work.path] = work.z] /\ disk[u] = work.r
      BY <1>9 DEF MoveZ, Moves, u
    <3> QED BY <2>1, <3>1, <3>2 DEF TypeOK
  <2>3. \A p \in Path : Held(p)'
    BY <1>9, <2>1, <2>2 DEF MoveZ, Held
  <2> QED BY <1>9, <2>3 DEF MoveZ, Moves
<1>10. CASE MoveEnds \/ UnknownEnds \/ Stop \/ Rerun
  BY <1>10 DEF MoveEnds, UnknownEnds, Stop, Rerun, Held
<1>11. CASE UnknownScan
  <2>1. PICK n \in todo :
          LET rest == held[Unknown(n)] \ OwnHeld IN
          /\ disk' = [disk EXCEPT ![Unknown(n)] = rest]
          /\ held' = [held EXCEPT ![Unknown(n)] = rest]
    BY <1>11 DEF UnknownScan
  <2>2. Unknown(n) \in Path
    BY <1>11 DEF UnknownScan, TypeOK
  <2>3. \A p \in Path : Held(p)'
    BY <1>11, <2>1, <2>2, HeldReplace DEF UnknownScan
  <2> QED BY <1>11, <2>3 DEF UnknownScan
<1>12. CASE UNCHANGED vars
  BY <1>12 DEF vars, Held
<1> QED
  BY <1>1, <1>2, <1>3, <1>4, <1>5, <1>6, <1>7, <1>8, <1>9, <1>10, <1>11, <1>12 DEF Next

\* Between two archives the program holds what the disk has: what it finds in
\* an archive can be read there, and what it deletes as a duplicate is one.
THEOREM HeldCorrect == Spec => []HeldIsDisk
<1>1. HeldInv => HeldIsDisk
  BY DEF HeldInv, HeldIsDisk, Held, Ended
<1> QED BY <1>1, InitHeldInv, NextHeldInv, PTL DEF Spec

-----------------------------------------------------------------------------
(* The index covers what is held; so does what is in memory during a scan  *)
(* or a move, because it comes from archives that are held.                *)

Working == {"savez", "saver", "mover", "movez"}

IndexInv ==
  /\ HeldInv
  /\ \A p \in Path : held[p] \subseteq index
  /\ pc \notin {"load"} \cup Ended => Import \subseteq index
  /\ pc \in Working => work.z \cup work.r \subseteq index

LEMMA InitIndexInv == Init => IndexInv
BY InitHeldInv DEF IndexInv, Init, Nothing, Working

LEMMA NextIndexInv == IndexInv /\ [Next]_vars => IndexInv'
<1> SUFFICES ASSUME IndexInv, [Next]_vars PROVE IndexInv'
  OBVIOUS
<1>0. TypeOK /\ TypeOK' /\ HeldInv /\ HeldInv'
  BY NextHeldInv DEF IndexInv, HeldInv
<1> USE <1>0, PathFacts DEF IndexInv, Ended, setting, Working
<1>1. CASE Load
  <2>1. \A p \in Path : held'[p] \subseteq index'
    BY <1>1, LoadedType, DataInMember DEF Load, TypeOK
  <2> QED BY <1>1, <2>1 DEF Load
<1>2. CASE ScanStray \/ ScanEnds
  BY <1>2 DEF ScanStray, ScanEnds
<1>3. CASE Scan
  <2>1. PICK p \in todo, z \in SUBSET Data, r \in SUBSET Data :
          /\ p \in Own
          /\ z \cup r \subseteq disk[p] \cup disk[Unknown(p[2])] \cup index
          /\ work' = [path |-> p, z |-> z, r |-> r]
    BY <1>3, ScanStep
  <2>2. disk[p] = held[p] /\ disk[Unknown(p[2])] = held[Unknown(p[2])]
    BY <1>3, <2>1 DEF Scan, HeldInv, Held
  <2>3. z \cup r \subseteq index
    BY <2>1, <2>2
  <2> QED BY <1>3, <2>1, <2>3 DEF Scan
<1>4. CASE SaveZ
  BY <1>4 DEF SaveZ, TypeOK
<1>5. CASE SaveR
  BY <1>5 DEF SaveR, Update, TypeOK
<1>6. CASE AddSkips \/ AddEnds
  BY <1>6 DEF AddSkips, AddEnds
<1>7. CASE Add
  <2>1. PICK g \in todo, z \in SUBSET Data :
          /\ g \in Required
          /\ held' = [held EXCEPT ![New(g)] = z]
          /\ index' = index \cup disk[New(g)]
          /\ z \subseteq disk[New(g)] \cup index
    BY <1>7, AddStep
  <2>2. \A p \in Path : held'[p] \subseteq index'
    BY <2>1 DEF TypeOK
  <2> QED BY <1>7, <2>1, <2>2 DEF Add
<1>8. CASE Move
  <2>1. PICK p \in todo, z \in SUBSET Data, r \in SUBSET Data :
          /\ p \in Own
          /\ z \subseteq disk[p]
          /\ r \subseteq disk[Unknown(p[2])] \cup disk[p]
          /\ work' = [path |-> p, z |-> z, r |-> r]
    BY <1>8, MoveStep
  <2>2. disk[p] = held[p] /\ disk[Unknown(p[2])] = held[Unknown(p[2])]
    BY <1>8, <2>1 DEF Move, HeldInv, Held
  <2>3. z \cup r \subseteq index
    BY <2>1, <2>2
  <2> QED BY <1>8, <2>1, <2>3 DEF Move
<1>9. CASE MoveR
  BY <1>9 DEF MoveR, Moves
<1>10. CASE MoveZ
  BY <1>10 DEF MoveZ, Moves, TypeOK
<1>11. CASE MoveEnds \/ UnknownEnds \/ Stop
  BY <1>11 DEF MoveEnds, UnknownEnds, Stop
<1>12. CASE UnknownScan
  BY <1>12 DEF UnknownScan, TypeOK
<1>13. CASE Rerun
  BY <1>13 DEF Rerun, Nothing
<1>14. CASE UNCHANGED vars
  BY <1>14 DEF vars
<1> QED
  BY <1>1, <1>2, <1>3, <1>4, <1>5, <1>6, <1>7, <1>8, <1>9, <1>10, <1>11, <1>12,
     <1>13, <1>14 DEF Next

\* find_exclude, that asks the index first, misses nothing that is held.
THEOREM IndexCorrect == Spec => []IndexComplete
<1>1. IndexInv => IndexComplete
  BY DataInUpper DEF IndexInv, HeldInv, TypeOK, IndexComplete
<1> QED BY <1>1, InitIndexInv, NextIndexInv, PTL DEF Spec

-----------------------------------------------------------------------------
(* Nothing is lost, if rom_new is one of the directories of option rom: an *)
(* archive that rom_add creates then takes the place of none.              *)

\* What is written last is saved already, or still where it was.
WorkKept ==
  LET u == Unknown(work.path[2])
      all == work.z \cup work.r
  IN /\ pc = "savez" => disk[work.path] \cup disk[u] \subseteq all
     /\ pc = "saver" => disk[work.path] = work.z /\ disk[u] \subseteq all
     /\ pc = "mover" => disk[work.path] \subseteq all /\ disk[u] \subseteq work.r
     /\ pc = "movez" => disk[work.path] \subseteq all

\* Every archive of a game that can be written was scanned, and counts.
Counted(p) ==
  \/ p[2] \in usable
  \/ pc \in Scanning /\ p \in todo
  \/ pc = "savez" /\ p = work.path

Archived ==
  pc \in Scanning \cup {"add"} =>
    \A p \in Own \ readonly : p[2] \in Required /\ disk[p] # {} => Counted(p)

LossInv ==
  /\ HeldInv
  /\ WorkKept
  /\ Archived
  /\ NothingLost
  /\ pc = "saver" => stored \subseteq DataIn(disk) \cup work.r

\* DataInReplace for a step
LEMMA DiskReplace ==
  ASSUME TypeOK, NEW q \in Path, NEW s \in SUBSET Data,
         disk' = [disk EXCEPT ![q] = s]
  PROVE  /\ disk'[q] = s
         /\ \A p \in Path \ {q} : disk'[p] = disk[p]
         /\ s \subseteq DataIn(disk')
         /\ DataIn(disk) \subseteq DataIn(disk') \cup (disk[q] \ s)
<1>1. disk \in [Path -> SUBSET Data]
  BY DEF TypeOK
<1>2. disk'[q] = s /\ \A p \in Path \ {q} : disk'[p] = disk[p]
  BY <1>1
<1> QED BY <1>1, <1>2, DataInReplace

LEMMA InitLossInv == Init => LossInv
BY InitHeldInv DEF LossInv, Init, WorkKept, Archived, NothingLost, Scanning

LEMMA NextLossInv == NewDir \in RomDir /\ LossInv /\ [Next]_vars => LossInv'
<1> SUFFICES ASSUME NewDir \in RomDir, LossInv, [Next]_vars PROVE LossInv'
  OBVIOUS
<1>0. TypeOK /\ TypeOK' /\ HeldInv /\ HeldInv'
  BY NextHeldInv DEF LossInv, HeldInv
<1> USE <1>0, PathFacts
    DEF LossInv, WorkKept, Archived, Counted, NothingLost, Ended, setting, Scanning
<1>1. CASE Load
  BY <1>1 DEF Load
<1>2. CASE ScanStray
  BY <1>2 DEF ScanStray
<1>3. CASE Scan
  <2>1. PICK p \in todo, z \in SUBSET Data, r \in SUBSET Data :
          /\ p \in Own
          /\ disk[p] \cup disk[Unknown(p[2])] \subseteq z \cup r
          /\ work' = [path |-> p, z |-> z, r |-> r]
          /\ todo' = todo \ {p}
    BY <1>3, ScanStep
  <2> QED BY <1>3, <2>1 DEF Scan
<1>4. CASE SaveZ
  <2> DEFINE p == work.path
             u == Unknown(work.path[2])
  <2>1. p \in Own /\ p \in Path /\ u \in Path /\ u # p
    BY <1>4 DEF SaveZ, TypeOK
  <2>2. work.z \in SUBSET Data /\ disk' = [disk EXCEPT ![p] = work.z]
    BY <1>4, WorkTypes DEF SaveZ, TypeOK
  <2>3. disk'[p] = work.z /\ disk'[u] = disk[u]
    BY <2>1, <2>2 DEF TypeOK
  <2>4. stored' \subseteq DataIn(disk') \cup work.r
    <3>1. DataIn(disk) \subseteq DataIn(disk') \cup (disk[p] \ work.z)
      <4> HIDE DEF p, u
      <4> QED BY ONLY <1>0, <2>1, <2>2, DiskReplace
    <3> QED BY <1>4, <3>1 DEF SaveZ
  <2>5. usable \subseteq usable' /\ (work.z # {} /\ p \notin readonly => p[2] \in usable')
    BY <1>4 DEF SaveZ
  <2>6. Archived'
    BY <1>4, <2>1, <2>2, <2>3, <2>5 DEF SaveZ, TypeOK
  <2> QED BY <1>4, <2>3, <2>4, <2>6 DEF SaveZ
<1>5. CASE SaveR
  <2> DEFINE p == work.path
             u == Unknown(work.path[2])
  <2>1. p \in Own /\ p \in Path /\ u \in Path /\ u # p
    BY <1>5 DEF SaveR, TypeOK
  <2>2. work.r \in SUBSET Data /\ disk' = [disk EXCEPT ![u] = work.r]
    BY <1>5, WorkTypes DEF SaveR, TypeOK
  <2>3. work.z \subseteq DataIn(disk')
    <3>1. disk'[p] = work.z
      BY <1>5, <2>1, <2>2 DEF SaveR, TypeOK
    <3> QED BY <2>1, <3>1, DataInMember DEF TypeOK
  <2>4. stored' \subseteq DataIn(disk')
    <3>1. DataIn(disk) \subseteq DataIn(disk') \cup (disk[u] \ work.r)
          /\ work.r \subseteq DataIn(disk')
      BY <2>1, <2>2, DiskReplace
    <3> QED BY <1>5, <2>3, <3>1 DEF SaveR
  <2>5. \A q \in Own : disk'[q] = disk[q]
    BY <1>5, <2>1, <2>2 DEF SaveR, TypeOK
  <2> QED BY <1>5, <2>4, <2>5 DEF SaveR
<1>6. CASE ScanEnds \/ AddSkips \/ AddEnds \/ MoveEnds \/ UnknownEnds \/ Stop
  BY <1>6 DEF ScanEnds, AddSkips, AddEnds, MoveEnds, UnknownEnds, Stop
<1>7. CASE Add
  <2>1. PICK g \in todo, z \in SUBSET Data :
          /\ g \in Required \ usable
          /\ disk' = [disk EXCEPT ![New(g)] = z]
          /\ usable \subseteq usable'
          /\ \/ z = disk[New(g)]
             \/ New(g) \notin readonly /\ g \in usable'
    BY <1>7, AddStep
  <2>2. New(g) \in Path /\ New(g) \in Own
    BY <2>1, CollectionAssumption DEF CollectionAssumption, Own, New
  <2>3. CASE z = disk[New(g)]
    <3>1. disk' = disk
      BY <2>1, <2>2, <2>3 DEF TypeOK
    <3> QED BY <1>7, <2>1, <3>1 DEF Add
  <2>4. CASE New(g) \notin readonly /\ g \in usable'
    <3>1. disk[New(g)] = {}
      BY <1>7, <2>1, <2>2, <2>4, CollectionAssumption DEF Add, CollectionAssumption
    <3>2. stored' \subseteq DataIn(disk')
      BY <1>7, <2>1, <2>2, <3>1, DiskReplace DEF Add
    <3>3. Archived'
      BY <1>7, <2>1, <2>2, <2>4, CollectionAssumption DEF Add, TypeOK, CollectionAssumption
    <3> QED BY <1>7, <3>2, <3>3 DEF Add
  <2> QED BY <2>1, <2>3, <2>4
<1>8. CASE Move
  <2>1. PICK p \in todo, z \in SUBSET Data, r \in SUBSET Data :
          /\ disk[p] \subseteq z \cup r
          /\ disk[Unknown(p[2])] \subseteq r
          /\ work' = [path |-> p, z |-> z, r |-> r]
    BY <1>8, MoveStep
  <2> QED BY <1>8, <2>1 DEF Move
<1>9. CASE MoveR
  <2> DEFINE p == work.path
             u == Unknown(work.path[2])
  <2>1. p \in Own /\ p \in Path /\ u \in Path /\ u # p
    BY <1>9 DEF MoveR, TypeOK
  <2>2. work.r \in SUBSET Data /\ disk' = [disk EXCEPT ![u] = work.r] /\ work' = work
    BY <1>9, WorkTypes DEF MoveR, Moves, TypeOK
  <2>3. DataIn(disk) \subseteq DataIn(disk') \cup (disk[u] \ work.r)
    <3> HIDE DEF u
    <3> QED BY ONLY <1>0, <2>1, <2>2, DiskReplace
  <2>4. disk'[p] = disk[p]
    BY <2>1, <2>2 DEF TypeOK
  <2> QED BY <1>9, <2>2, <2>3, <2>4 DEF MoveR, Moves
<1>10. CASE MoveZ
  <2> DEFINE p == work.path
             u == Unknown(work.path[2])
  <2>1. p \in Own /\ p \in Path /\ u \in Path /\ u # p
    BY <1>10 DEF MoveZ, TypeOK
  <2>2. work.z \in SUBSET Data /\ disk' = [disk EXCEPT ![p] = work.z]
    BY <1>10, WorkTypes DEF MoveZ, Moves, TypeOK
  <2>3. work.r \subseteq DataIn(disk')
    <3>1. disk'[u] = work.r
      BY <1>10, <2>1, <2>2 DEF MoveZ, TypeOK, HeldInv
    <3> QED BY <2>1, <3>1, DataInMember DEF TypeOK
  <2>4. DataIn(disk) \subseteq DataIn(disk') \cup (disk[p] \ work.z)
    <3> HIDE DEF p, u
    <3> QED BY ONLY <1>0, <2>1, <2>2, DiskReplace
  <2> QED BY <1>10, <2>3, <2>4 DEF MoveZ, Moves
<1>11. CASE UnknownScan
  <2>1. PICK n \in todo :
          disk' = [disk EXCEPT ![Unknown(n)] = held[Unknown(n)] \ OwnHeld]
    BY <1>11 DEF UnknownScan
  <2> DEFINE u == Unknown(n)
  <2>2. u \in Path /\ u[1] = UnknownDir
    BY <1>11 DEF UnknownScan, TypeOK
  <2>3. \A q \in Path : held[q] = disk[q]
    BY <1>11 DEF UnknownScan, HeldInv, Held
  <2>4. OwnHeld \subseteq DataIn(disk')
    <3>1. ASSUME NEW q \in Path, q[1] # UnknownDir PROVE held[q] \subseteq DataIn(disk')
      <4>1. disk'[q] = held[q]
        BY <2>1, <2>2, <2>3, <3>1 DEF TypeOK
      <4> QED BY <4>1, DataInMember DEF TypeOK
    <3> QED BY <3>1 DEF OwnHeld
  <2>5. DataIn(disk) \subseteq DataIn(disk') \cup OwnHeld
    <3>1. held[u] \ OwnHeld \in SUBSET Data
      BY <2>2 DEF TypeOK
    <3>2. disk' = [disk EXCEPT ![u] = held[u] \ OwnHeld]
      BY <2>1
    <3>3. DataIn(disk) \subseteq DataIn(disk') \cup (disk[u] \ (held[u] \ OwnHeld))
      <4> HIDE DEF u
      <4> QED BY ONLY <1>0, <2>2, <3>1, <3>2, DiskReplace
    <3> QED BY <2>2, <2>3, <3>3
  <2> QED BY <1>11, <2>4, <2>5 DEF UnknownScan
<1>12. CASE Rerun
  BY <1>12 DEF Rerun
<1>13. CASE UNCHANGED vars
  BY <1>13 DEF vars
<1> QED
  BY <1>1, <1>2, <1>3, <1>4, <1>5, <1>6, <1>7, <1>8, <1>9, <1>10, <1>11, <1>12, <1>13
  DEF Next

\* Wherever a run stops, all that it found on the disk is still there, but for
\* the time between the two saves of rom_scan.
THEOREM SafeCollection ==
  ASSUME NewDir \in RomDir
  PROVE  Spec => []NothingLost
<1>1. LossInv /\ [Next]_vars => LossInv'
  BY NextLossInv
<1>2. LossInv => NothingLost
  BY DEF LossInv
<1> QED BY <1>1, <1>2, InitLossInv, PTL DEF Spec
-----------------------------------------------------------------------------
(* What a complete run leaves.  A pass over the archives or the games has  *)
(* done its work for those that it is past; later steps leave it done.     *)

Total == stored \cup Import

\* The scan is past p.
Past(p) == ~(pc \in Scanning /\ p \in todo) /\ ~(pc = "savez" /\ p = work.path)

After(steps) == pc \in steps \cup {"done"}

\* What is in memory is as the archive, or as it shall be.
WorkInv ==
  LET p == work.path IN
  /\ pc \in {"savez", "saver"} => p \notin todo
  /\ pc = "savez" /\ p \notin readonly /\ "fix" \in oper => Roms[p[2]] \cap Total \subseteq work.z
  /\ pc = "savez" /\ p \in readonly => work.z = disk[p]
  /\ pc \in {"mover", "movez"} =>
       /\ p[2] \notin Required
       /\ work.z = IF p \in readonly THEN disk[p] ELSE {}

\* An archive that cannot be written stays; a game that counts has an archive.
ArchiveInv ==
  /\ pc = "load" => usable = {}
  /\ \A p \in readonly : disk[p] # {}
  /\ \A g \in usable : \E p \in Own : p[2] = g /\ disk[p] # {} /\ Past(p)

FixedInv ==
  After(Scanning \cup {"add", "unknown"} \cup Moving) /\ "fix" \in oper =>
    \A p \in Own \ readonly : p[2] \in Required /\ disk[p] # {} /\ Past(p) =>
      Roms[p[2]] \cap Total \subseteq disk[p]

\* The roms of a game that decide whether it gets an archive are nowhere.
Unavailable(g) ==
  /\ Unique(g) \cap Total = {}
  /\ Unique(g) = {} => Roms[g] \cap Total = {}

AddedInv ==
  After({"add", "unknown"} \cup Moving) /\ "add" \in oper =>
    \A g \in Required : NoArchive(g) => Unavailable(g) \/ (pc = "add" /\ g \in todo)

\* Every archive of no game is on its way to rom_unknown.
MovedInv ==
  /\ \A p \in strays : p[2] \notin Required
  /\ pc \in Moving => todo \subseteq strays
  /\ \A p \in Own \ readonly : p[2] \notin Required /\ disk[p] # {} =>
       /\ pc \in Scanning => p \in todo \cup strays
       /\ pc = "add" => p \in strays
       /\ After({"unknown"} \cup Moving) /\ "move" \in oper =>
            \/ pc \in Moving /\ p \in todo
            \/ pc \in {"mover", "movez"} /\ p = work.path

RestInv ==
  After({"unknown"}) =>
    \A n \in Name : ~(pc = "unknown" /\ n \in todo) =>
      \A p \in Own : disk[Unknown(n)] \cap disk[p] = {}

CompleteInv ==
  LossInv /\ IndexInv /\ WorkInv /\ ArchiveInv /\ FixedInv /\ AddedInv /\ MovedInv /\ RestInv

\* All that the run found is in an archive or offered from another.
LEMMA AllOffered ==
  ASSUME NewDir \in RomDir, LossInv, IndexInv, pc \in {"scan", "add"}, NEW p \in Path
  PROVE  Total \subseteq disk[p] \cup Offered(p)
<1>1. TypeOK /\ stored \subseteq DataIn(disk) /\ Import \subseteq index
  BY DEF LossInv, HeldInv, NothingLost, IndexInv, Ended
<1>2. \A q \in Path : held[q] = disk[q] /\ held[q] \subseteq index
  BY PathFacts DEF LossInv, HeldInv, Held, IndexInv, Ended
<1>3. Import \subseteq Offered(p)
  BY <1>1 DEF Offered
<1>4. ASSUME NEW x \in stored PROVE x \in disk[p] \cup Offered(p)
  <2>1. PICK q \in Path : x \in disk[q]
    BY <1>1 DEF DataIn
  <2>2. CASE q = p
    BY <2>1, <2>2
  <2>3. CASE q # p
    <3>1. x \in held[q] /\ x \in index
      BY <1>2, <2>1
    <3> QED BY <2>3, <3>1 DEF Offered
  <2> QED BY <2>2, <2>3
<1> QED BY <1>3, <1>4 DEF Total

\* What an archive gets from a scan with the fixes active.
LEMMA ScanFixes ==
  ASSUME NewDir \in RomDir, LossInv, IndexInv, Scan
  PROVE  \E p \in todo, z, r \in SUBSET Data :
           /\ p \in Own /\ p[2] \in Required
           /\ work' = [path |-> p, z |-> z, r |-> r]
           /\ todo' = todo \ {p}
           /\ p \notin readonly /\ "fix" \in oper => Roms[p[2]] \cap Total \subseteq z
           /\ p \in readonly => z = disk[p]
<1>1. PICK p \in todo, z, r \in SUBSET Data :
        /\ p[2] \in Required
        /\ Scanned({op \in {"fix", "binary"} : active(op, p)}, Roms[p[2]], Offered(p), {},
                   disk[p], disk[Unknown(p[2])], z, r)
        /\ work' = [path |-> p, z |-> z, r |-> r]
        /\ todo' = todo \ {p}
  BY DEF Scan
<1>2. p \in Own /\ p \in Path
  BY PathFacts DEF LossInv, HeldInv, TypeOK, Scan, Scanning
<1>3. ASSUME p \notin readonly, "fix" \in oper PROVE Roms[p[2]] \cap Total \subseteq z
  <2>1. Roms[p[2]] \cap (disk[p] \cup disk[Unknown(p[2])] \cup Offered(p)) \subseteq z
    BY <1>1, <1>3 DEF Scanned, active
  <2>2. Total \subseteq disk[p] \cup Offered(p)
    BY <1>2, AllOffered DEF Scan
  <2> QED BY <2>1, <2>2
<1>4. p \in readonly => z = disk[p]
  BY <1>1 DEF Scanned, active
<1> QED BY <1>1, <1>2, <1>3, <1>4

\* An archive that is added did not exist, unless it can only be read.
LEMMA AddMakes ==
  ASSUME NewDir \in RomDir, LossInv, IndexInv, ArchiveInv, Add
  PROVE  \E g \in todo, z \in SUBSET Data :
           /\ g \in Required \ usable
           /\ New(g) \in Own
           /\ disk' = [disk EXCEPT ![New(g)] = z]
           /\ held' = [held EXCEPT ![New(g)] = z]
           /\ todo' = todo \ {g}
           /\ \/ /\ z = disk[New(g)] /\ usable' = usable
                 /\ "add" \in oper /\ disk[New(g)] = {} => Unavailable(g)
              \/ /\ disk[New(g)] = {} /\ z # {} /\ usable' = usable \cup {g}
                 /\ Roms[g] \cap Total \subseteq z
<1>0. TypeOK
  BY DEF LossInv, HeldInv
<1>1. PICK g \in todo :
        LET found == IF active("add", New(g)) THEN Found(g) ELSE {} IN
        /\ g \notin usable
        /\ todo' = todo \ {g}
        /\ \E z \in SUBSET (disk[New(g)] \cup found) :
             /\ found \subseteq z
             /\ found = {} => z = disk[New(g)]
             /\ disk' = [disk EXCEPT ![New(g)] = z]
             /\ held' = [held EXCEPT ![New(g)] = z]
        /\ usable' = usable \cup (IF found = {} THEN {} ELSE {g})
  BY DEF Add
<1> DEFINE p == New(g)
           found == IF active("add", p) THEN Found(g) ELSE {}
<1>2. g \in Required \ usable
  BY <1>0, <1>1 DEF TypeOK, Add
<1>3. p \in Own /\ p \in Path /\ p[2] = g /\ p[1] # UnknownDir
  BY <1>2, PathFacts, CollectionAssumption DEF CollectionAssumption, Own, New
<1>4. PICK z \in SUBSET (disk[p] \cup found) :
        /\ found \subseteq z
        /\ found = {} => z = disk[p]
        /\ disk' = [disk EXCEPT ![p] = z]
        /\ held' = [held EXCEPT ![p] = z]
  BY <1>1
<1>5. usable' = usable \cup (IF found = {} THEN {} ELSE {g})
  BY <1>1
<1>6. disk[p] \subseteq Data /\ Found(g) \subseteq Data
  BY <1>0, <1>2, <1>3, FoundOffered DEF TypeOK
<1>7. z \in SUBSET Data
  BY <1>4, <1>6
<1>8. disk[p] = {} => Roms[g] \cap Total \subseteq Offered(p)
  BY <1>3, AllOffered DEF Add
<1> DEFINE avail == Roms[g] \cap Offered(New(g))
<1>9. CASE found = {}
  <2>1. ASSUME "add" \in oper, disk[p] = {} PROVE Unavailable(g)
    <3>1. p \notin readonly
      BY <2>1 DEF ArchiveInv
    <3>2. Found(g) = {}
      BY <1>9, <2>1, <3>1 DEF active
    <3>3. Unique(g) \subseteq Roms[g]
      BY DEF Unique
    <3>4. Unique(g) \subseteq avail \/ Unique(g) \cap avail # {} => avail = {}
      BY <3>2 DEF Found
    <3>5. Unique(g) \cap avail = {} /\ (Unique(g) = {} => avail = {})
      <4> HIDE DEF avail
      <4> QED BY <3>4
    <3> QED BY <1>8, <2>1, <3>3, <3>5 DEF Unavailable
  <2> HIDE DEF found, p
  <2>2. z = disk[p] /\ usable' = usable
    BY <1>4, <1>5, <1>9
  <2> USE DEF p
  <2> QED BY <1>1, <1>2, <1>3, <1>4, <1>7, <2>1, <2>2
<1>10. CASE found # {}
  <2>1. active("add", p) /\ found = Found(g)
    BY <1>10
  <2>2. disk[p] = {}
    <3>1. p \in Own \ readonly /\ p[2] \in Required /\ pc = "add"
      BY <1>2, <1>3, <2>1 DEF active, Add
    <3>2. disk[p] # {} => Counted(p)
      BY <3>1 DEF LossInv, Archived
    <3> QED BY <1>2, <1>3, <3>1, <3>2 DEF Counted, Scanning
  <2>3. found = avail
    <3>1. Found(g) = avail \/ Found(g) = {}
      BY DEF Found
    <3> QED BY <1>10, <2>1, <3>1
  <2>4. Roms[g] \cap Total \subseteq z
    BY <1>4, <1>8, <2>2, <2>3
  <2> HIDE DEF found, p
  <2>5. z # {} /\ usable' = usable \cup {g}
    BY <1>4, <1>5, <1>10
  <2> USE DEF p
  <2> QED BY <1>1, <1>2, <1>3, <1>4, <1>7, <2>2, <2>4, <2>5
<1> QED BY <1>9, <1>10

\* What the steps leave alone; the steps that write one archive.
LEMMA DiskSteps ==
  ASSUME TypeOK, TypeOK', [Next]_vars
  PROVE  /\ \/ disk' = disk
            \/ SaveZ \/ SaveR \/ Add \/ MoveR \/ MoveZ \/ UnknownScan
         /\ SaveZ \/ MoveZ => \A p \in Path :
              disk'[p] = IF p = work.path THEN work.z ELSE disk[p]
         /\ SaveR \/ MoveR => \A p \in Path :
              disk'[p] = IF p = Unknown(work.path[2]) THEN work.r ELSE disk[p]
         /\ SaveR \/ MoveR \/ UnknownScan => \A p \in Own : disk'[p] = disk[p]
<1> USE PathFacts
<1>1. disk' = disk \/ SaveZ \/ SaveR \/ Add \/ MoveR \/ MoveZ \/ UnknownScan
  BY DEF Next, vars, Load, ScanStray, Scan, ScanEnds, AddSkips, AddEnds, Move, MoveEnds,
         UnknownEnds, Stop, Rerun
<1>2. SaveZ \/ MoveZ => \A p \in Path : disk'[p] = IF p = work.path THEN work.z ELSE disk[p]
  BY DEF SaveZ, MoveZ, Moves, TypeOK
<1>3. SaveR \/ MoveR => \A p \in Path :
        disk'[p] = IF p = Unknown(work.path[2]) THEN work.r ELSE disk[p]
  BY DEF SaveR, MoveR, Moves, TypeOK
<1>4. SaveR \/ MoveR => work.path[2] \in Name
  BY DEF SaveR, MoveR, TypeOK
<1>5. SaveR \/ MoveR => \A p \in Own : disk'[p] = disk[p]
  BY <1>3, <1>4
<1>6. UnknownScan => \A p \in Own : disk'[p] = disk[p]
  BY DEF UnknownScan, TypeOK
<1> QED BY <1>1, <1>2, <1>3, <1>5, <1>6

LEMMA NextWorkInv ==
  NewDir \in RomDir /\ CompleteInv /\ [Next]_vars => WorkInv'
<1> SUFFICES ASSUME NewDir \in RomDir, CompleteInv, [Next]_vars PROVE WorkInv'
  OBVIOUS
<1>0. TypeOK /\ TypeOK' /\ LossInv /\ IndexInv /\ WorkInv /\ MovedInv
  BY NextType DEF CompleteInv, LossInv, HeldInv
<1> USE <1>0, PathFacts DEF WorkInv, setting, Total
<1>1. CASE Scan
  <2>1. PICK p \in todo, z \in SUBSET Data, r \in SUBSET Data :
          /\ work' = [path |-> p, z |-> z, r |-> r]
          /\ todo' = todo \ {p}
          /\ p \notin readonly /\ "fix" \in oper => Roms[p[2]] \cap Total \subseteq z
          /\ p \in readonly => z = disk[p]
    BY <1>1, ScanFixes
  <2> QED BY <1>1, <2>1 DEF Scan
<1>2. CASE SaveZ
  BY <1>2 DEF SaveZ
<1>3. CASE Move
  <2>1. PICK p \in todo :
          work' = IF p \in readonly
                  THEN [path |-> p, z |-> disk[p], r |-> disk[Unknown(p[2])]]
                  ELSE [path |-> p, z |-> {}, r |-> disk[Unknown(p[2])] \cup disk[p]]
    BY <1>3 DEF Move
  <2>2. work'.path = p /\ work'.z = IF p \in readonly THEN disk[p] ELSE {}
    BY <2>1
  <2>3. p[2] \notin Required
    BY <1>3 DEF Move, MovedInv, Moving
  <2> QED BY <1>3, <2>2, <2>3 DEF Move
<1>4. CASE MoveR
  <2>1. work.path \in Own /\ disk'[work.path] = disk[work.path]
    BY <1>4, DiskSteps DEF MoveR, TypeOK
  <2> QED BY <1>4, <2>1 DEF MoveR, Moves
<1>5. CASE Load \/ ScanStray \/ SaveR \/ ScanEnds \/ AddSkips \/ Add \/ AddEnds \/ MoveZ
            \/ MoveEnds \/ UnknownScan \/ UnknownEnds \/ Stop \/ Rerun
  BY <1>5 DEF Load, ScanStray, SaveR, ScanEnds, AddSkips, Add, AddEnds, MoveZ, Moves,
              MoveEnds, UnknownScan, UnknownEnds, Stop, Rerun
<1>6. CASE UNCHANGED vars
  BY <1>6 DEF vars
<1> QED BY <1>1, <1>2, <1>3, <1>4, <1>5, <1>6 DEF Next

LEMMA NextArchiveInv ==
  NewDir \in RomDir /\ CompleteInv /\ [Next]_vars => ArchiveInv'
<1> SUFFICES ASSUME NewDir \in RomDir, CompleteInv, [Next]_vars PROVE ArchiveInv'
  OBVIOUS
<1>0. TypeOK /\ TypeOK' /\ LossInv /\ IndexInv /\ WorkInv /\ ArchiveInv
  BY NextType DEF CompleteInv, LossInv, HeldInv
<1> USE <1>0, PathFacts DEF setting, ArchiveInv
<1>1. \A p \in readonly : p \in Own /\ disk[p] # {}
  BY DEF TypeOK
<1>2. CASE SaveZ
  <2>1. work.path \in Own /\ work.path \in Path
    BY <1>2 DEF SaveZ, TypeOK
  <2>2. \A p \in Own : disk'[p] = IF p = work.path THEN work.z ELSE disk[p]
    BY <1>2, DiskSteps
  <2>3. work.path \in readonly => work.z = disk[work.path]
    BY <1>2 DEF SaveZ, WorkInv
  <2>4. \A p \in readonly' : disk'[p] # {}
    BY <1>1, <1>2, <2>1, <2>2, <2>3 DEF SaveZ
  <2>5. \A p \in Own : Past(p) => Past(p)' /\ p # work.path
    BY <1>2 DEF SaveZ, Past, Scanning
  <2>6. \A p \in Own : p = work.path => Past(p)'
    BY <1>2 DEF SaveZ, Past, Scanning, WorkInv
  <2>7. ASSUME NEW g \in usable PROVE \E p \in Own : p[2] = g /\ disk'[p] # {} /\ Past(p)'
    BY <2>2, <2>5
  <2>8. usable' \subseteq usable \cup {work.path[2]}
        /\ (usable' = usable \/ work.z # {})
    BY <1>2 DEF SaveZ
  <2>9. work.z # {} =>
          \E p \in Own : p[2] = work.path[2] /\ disk'[p] # {} /\ Past(p)'
    BY <2>1, <2>2, <2>6
  <2>10. \A g \in usable' : \E p \in Own : p[2] = g /\ disk'[p] # {} /\ Past(p)'
    BY <2>7, <2>8, <2>9
  <2> QED BY <1>2, <2>4, <2>10 DEF SaveZ
<1>3. CASE Add
  <2>1. PICK g \in todo, z \in SUBSET Data :
          /\ New(g) \in Own
          /\ disk' = [disk EXCEPT ![New(g)] = z]
          /\ \/ z = disk[New(g)] /\ usable' = usable
             \/ disk[New(g)] = {} /\ z # {} /\ usable' = usable \cup {g}
    BY <1>3, AddMakes
  <2>2. g \in Name /\ New(g)[2] = g
    BY <1>3, CollectionAssumption DEF Add, TypeOK, CollectionAssumption
  <2>3. \A p \in Own : disk[p] # {} => disk'[p] # {}
    BY <2>1 DEF TypeOK
  <2>4. z # {} => disk'[New(g)] # {}
    BY <2>1 DEF TypeOK
  <2>5. \A p \in Own : Past(p)'
    BY <1>3 DEF Add, Past, Scanning
  <2> QED BY <1>1, <1>3, <2>1, <2>2, <2>3, <2>4, <2>5 DEF Add
<1>4. CASE MoveZ
  <2>1. work.path \in Own /\ work.path \in Path
    BY <1>4 DEF MoveZ, TypeOK
  <2>2. \A p \in Own : disk'[p] = IF p = work.path THEN work.z ELSE disk[p]
    BY <1>4, DiskSteps
  <2>3. work.path[2] \notin Required
        /\ (work.path \in readonly => work.z = disk[work.path])
    BY <1>4 DEF MoveZ, WorkInv
  <2>4. \A p \in Own : Past(p)'
    BY <1>4 DEF MoveZ, Moves, Past, Scanning
  <2>5. usable \subseteq Required
    BY DEF TypeOK
  <2> QED BY <1>1, <1>4, <2>1, <2>2, <2>3, <2>4, <2>5 DEF MoveZ, Moves
<1>5. CASE SaveR \/ MoveR \/ UnknownScan
  <2>1. \A p \in Own : disk'[p] = disk[p]
    BY <1>5, DiskSteps
  <2>2. \A p \in Own : Past(p) => Past(p)'
    BY <1>5 DEF SaveR, MoveR, Moves, UnknownScan, Past, Scanning
  <2>3. readonly' = readonly /\ usable' = usable /\ pc' # "load"
    BY <1>5 DEF SaveR, MoveR, Moves, UnknownScan
  <2> QED BY <1>1, <2>1, <2>2, <2>3
<1>6. CASE Load
  <2>1. usable' = {}
    BY <1>6 DEF Load
  <2> QED BY <1>1, <1>6, <2>1 DEF Load
<1>7. CASE ScanStray
  BY <1>7 DEF ScanStray, Past, Scanning
<1>8. CASE Scan
  <2>1. PICK p \in todo : todo' = todo \ {p} /\ work'.path = p
    BY <1>8, ScanFixes
  <2>2. \A q \in Own : Past(q) => Past(q)'
    BY <1>8, <2>1 DEF Scan, Past, Scanning
  <2> QED BY <1>8, <2>2 DEF Scan
<1>9. CASE ScanEnds \/ AddSkips \/ AddEnds \/ Move \/ MoveEnds \/ UnknownEnds \/ Stop \/ Rerun
  <2>1. \A q \in Own : Past(q)'
    BY <1>9 DEF ScanEnds, AddSkips, AddEnds, Move, MoveEnds, UnknownEnds, Stop, Rerun,
                Past, Scanning, Ended
  <2> QED BY <1>9, <2>1 DEF ScanEnds, AddSkips, AddEnds, Move, MoveEnds, UnknownEnds, Stop, Rerun
<1>10. CASE UNCHANGED vars
  BY <1>10 DEF vars, Past
<1> QED BY <1>2, <1>3, <1>4, <1>5, <1>6, <1>7, <1>8, <1>9, <1>10 DEF Next

LEMMA NextFixedInv ==
  NewDir \in RomDir /\ CompleteInv /\ [Next]_vars => FixedInv'
<1> SUFFICES ASSUME NewDir \in RomDir, CompleteInv, [Next]_vars, "fix" \in oper'
             PROVE  FixedInv'
  BY DEF FixedInv
<1>0. TypeOK /\ TypeOK' /\ LossInv /\ IndexInv /\ WorkInv /\ ArchiveInv /\ FixedInv
  BY NextType DEF CompleteInv, LossInv, HeldInv
<1> USE <1>0, PathFacts DEF setting, FixedInv, After, Total, Past, Scanning, Moving
<1>1. CASE Load
  BY <1>1 DEF Load
<1>2. CASE ScanStray
  BY <1>2 DEF ScanStray
<1>3. CASE Scan
  <2>1. PICK p \in todo : todo' = todo \ {p} /\ work'.path = p
    BY <1>3, ScanFixes
  <2> QED BY <1>3, <2>1 DEF Scan
<1>4. CASE SaveZ
  <2>1. \A p \in Own : disk'[p] = IF p = work.path THEN work.z ELSE disk[p]
    BY <1>4, DiskSteps
  <2>2. work.path \notin readonly => Roms[work.path[2]] \cap Total \subseteq work.z
    BY <1>4 DEF SaveZ, WorkInv
  <2> QED BY <1>4, <2>1, <2>2 DEF SaveZ
<1>5. CASE Add
  <2>1. PICK g \in todo, z \in SUBSET Data :
          /\ New(g) \in Own
          /\ disk' = [disk EXCEPT ![New(g)] = z]
          /\ z = disk[New(g)] \/ Roms[g] \cap Total \subseteq z
    BY <1>5, AddMakes
  <2>2. g \in Name /\ New(g)[2] = g
    BY <1>5, CollectionAssumption DEF Add, CollectionAssumption, TypeOK
  <2>3. \A p \in Own : disk'[p] = IF p = New(g) THEN z ELSE disk[p]
    BY <2>1 DEF TypeOK
  <2> QED BY <1>5, <2>1, <2>2, <2>3 DEF Add
<1>6. CASE MoveZ
  <2>1. \A p \in Own : disk'[p] = IF p = work.path THEN work.z ELSE disk[p]
    BY <1>6, DiskSteps
  <2>2. work.path[2] \notin Required
    BY <1>6 DEF MoveZ, WorkInv
  <2> QED BY <1>6, <2>1, <2>2 DEF MoveZ, Moves
<1>7. CASE SaveR \/ MoveR \/ UnknownScan
  <2>1. \A p \in Own : disk'[p] = disk[p]
    BY <1>7, DiskSteps
  <2>2. ASSUME NEW p \in Own, disk[p] # {}, p[2] \in Required, p \notin readonly, Past(p)'
        PROVE  Roms[p[2]] \cap Total \subseteq disk[p]
    BY <1>7, <2>2 DEF SaveR, MoveR, Moves, UnknownScan
  <2>3. readonly' = readonly /\ stored' = stored
    BY <1>7 DEF SaveR, MoveR, Moves, UnknownScan
  <2> HIDE DEF Past
  <2> QED BY <2>1, <2>2, <2>3
<1>8. CASE ScanEnds \/ AddSkips \/ AddEnds \/ Move \/ MoveEnds \/ UnknownEnds
  BY <1>8 DEF ScanEnds, AddSkips, AddEnds, Move, MoveEnds, UnknownEnds
<1>9. CASE Stop \/ Rerun
  BY <1>9 DEF Stop, Rerun, Ended
<1>10. CASE UNCHANGED vars
  BY <1>10 DEF vars
<1> QED BY <1>1, <1>2, <1>3, <1>4, <1>5, <1>6, <1>7, <1>8, <1>9, <1>10 DEF Next

LEMMA NextAddedInv ==
  NewDir \in RomDir /\ CompleteInv /\ [Next]_vars => AddedInv'
<1> SUFFICES ASSUME NewDir \in RomDir, CompleteInv, [Next]_vars, "add" \in oper'
             PROVE  AddedInv'
  BY DEF AddedInv
<1>0. TypeOK /\ TypeOK' /\ LossInv /\ IndexInv /\ WorkInv /\ ArchiveInv /\ AddedInv
  BY NextType DEF CompleteInv, LossInv, HeldInv
<1> USE <1>0, PathFacts DEF setting, AddedInv, After, Moving
<1>1. \A p \in Own : p \in Path /\ p[1] # UnknownDir
  BY CollectionAssumption DEF CollectionAssumption
<1>2. ASSUME stored' = stored, NEW g PROVE Unavailable(g) => Unavailable(g)'
  BY <1>2 DEF Unavailable, Total, Unique, Shared
<1>3. CASE Load \/ ScanStray \/ Scan \/ SaveZ \/ SaveR \/ Stop \/ Rerun
  BY <1>3 DEF Load, ScanStray, Scan, SaveZ, SaveR, Stop, Rerun, Ended
<1>4. CASE ScanEnds
  BY <1>4 DEF ScanEnds
<1>5. CASE AddSkips
  <2>1. PICK g \in todo : g \in usable /\ todo' = todo \ {g}
    BY <1>5 DEF AddSkips
  <2>2. ~NoArchive(g)
    BY <1>1, <2>1 DEF ArchiveInv, NoArchive
  <2>3. disk' = disk /\ stored' = stored /\ pc = "add" /\ pc' = "add" /\ oper' = oper
    BY <1>5 DEF AddSkips
  <2>4. \A h : NoArchive(h)' => NoArchive(h)
    BY <2>3 DEF NoArchive
  <2> QED BY <1>2, <2>1, <2>2, <2>3, <2>4
<1>6. CASE Add
  <2>1. PICK g \in todo, z \in SUBSET Data :
          /\ New(g) \in Own
          /\ disk' = [disk EXCEPT ![New(g)] = z]
          /\ todo' = todo \ {g}
          /\ \/ /\ z = disk[New(g)]
                /\ "add" \in oper /\ disk[New(g)] = {} => Unavailable(g)
             \/ disk[New(g)] = {} /\ z # {}
    BY <1>6, AddMakes
  <2>2. New(g)[2] = g
    BY <1>6, CollectionAssumption DEF Add, CollectionAssumption, TypeOK
  <2>3. stored' = stored /\ pc = "add" /\ pc' = "add" /\ oper' = oper
    BY <1>6 DEF Add
  <2>4. \A p \in Path : disk'[p] = {} => disk[p] = {}
    BY <2>1 DEF TypeOK
  <2>5. disk'[New(g)] = z
    BY <1>1, <2>1 DEF TypeOK
  <2>6. \A h : NoArchive(h)' => NoArchive(h)
    BY <2>4 DEF NoArchive
  <2>7. NoArchive(g)' => Unavailable(g)
    BY <1>1, <2>1, <2>2, <2>3, <2>5 DEF NoArchive
  <2> QED BY <1>2, <2>1, <2>3, <2>6, <2>7
<1>7. CASE MoveZ
  <2>1. \A p \in Path : disk'[p] = IF p = work.path THEN work.z ELSE disk[p]
    BY <1>7, DiskSteps
  <2>2. work.path[2] \notin Required
    BY <1>7 DEF MoveZ, WorkInv
  <2>3. \A h \in Required : NoArchive(h)' => NoArchive(h)
    BY <2>1, <2>2 DEF NoArchive
  <2> QED BY <1>2, <1>7, <2>3 DEF MoveZ, Moves
<1>8. CASE MoveR \/ UnknownScan
  <2>1. \A p \in Path : p[1] # UnknownDir => disk'[p] = disk[p]
    <3>1. CASE MoveR
      <4>1. work.path[2] \in Name
        BY <3>1 DEF MoveR, TypeOK
      <4> QED BY <3>1, <4>1, DiskSteps
    <3>2. CASE UnknownScan
      BY <3>2 DEF UnknownScan, TypeOK
    <3> QED BY <1>8, <3>1, <3>2
  <2>2. \A h : NoArchive(h)' => NoArchive(h)
    BY <2>1 DEF NoArchive
  <2> QED BY <1>2, <1>8, <2>2 DEF MoveR, Moves, UnknownScan
<1>9. CASE AddEnds \/ Move \/ MoveEnds \/ UnknownEnds
  <2>1. disk' = disk /\ stored' = stored /\ oper' = oper
    BY <1>9 DEF AddEnds, Move, MoveEnds, UnknownEnds
  <2>2. \A h : NoArchive(h)' => NoArchive(h)
    BY <2>1 DEF NoArchive
  <2>3. pc \in {"add", "unknown"} \cup Moving /\ (pc = "add" => todo = {})
    BY <1>9 DEF AddEnds, Move, MoveEnds, UnknownEnds
  <2> QED BY <1>2, <2>1, <2>2, <2>3
<1>10. CASE UNCHANGED vars
  BY <1>10 DEF vars, NoArchive, Unavailable, Unique, Shared, Total
<1> QED BY <1>3, <1>4, <1>5, <1>6, <1>7, <1>8, <1>9, <1>10 DEF Next

LEMMA NextMovedInv ==
  NewDir \in RomDir /\ CompleteInv /\ [Next]_vars => MovedInv'
<1> SUFFICES ASSUME NewDir \in RomDir, CompleteInv, [Next]_vars PROVE MovedInv'
  OBVIOUS
<1>0. TypeOK /\ TypeOK' /\ LossInv /\ IndexInv /\ WorkInv /\ ArchiveInv /\ MovedInv
  BY NextType DEF CompleteInv, LossInv, HeldInv
<1> USE <1>0, PathFacts DEF setting, MovedInv, After, Scanning, Moving
<1>1. CASE Load
  BY <1>1 DEF Load
<1>2. CASE ScanStray
  BY <1>2 DEF ScanStray
<1>3. CASE Scan
  <2>1. PICK p \in todo : p[2] \in Required /\ todo' = todo \ {p}
    BY <1>3 DEF Scan
  <2> QED BY <1>3, <2>1 DEF Scan
<1>4. CASE SaveZ
  <2>1. \A p \in Own : disk'[p] = IF p = work.path THEN work.z ELSE disk[p]
    BY <1>4, DiskSteps
  <2>2. work.path[2] \in Required
    BY <1>4 DEF SaveZ, TypeOK
  <2> QED BY <1>4, <2>1, <2>2 DEF SaveZ
<1>5. CASE Add
  <2>1. PICK g \in todo, z \in SUBSET Data :
          g \in Required /\ disk' = [disk EXCEPT ![New(g)] = z]
    BY <1>5, AddMakes
  <2>2. New(g)[2] = g
    BY <2>1, CollectionAssumption DEF CollectionAssumption
  <2>3. \A p \in Own : p[2] \notin Required => disk'[p] = disk[p]
    BY <2>1, <2>2 DEF TypeOK
  <2> QED BY <1>5, <2>3 DEF Add
<1>6. CASE Move
  <2>1. PICK p \in todo : todo' = todo \ {p} /\ work'.path = p
    BY <1>6 DEF Move
  <2> QED BY <1>6, <2>1 DEF Move
<1>7. CASE MoveZ
  <2>1. \A p \in Own : disk'[p] = IF p = work.path THEN work.z ELSE disk[p]
    BY <1>7, DiskSteps
  <2>2. work.path \notin readonly => work.z = {}
    BY <1>7 DEF MoveZ, WorkInv
  <2> QED BY <1>7, <2>1, <2>2 DEF MoveZ, Moves
<1>8. CASE SaveR \/ MoveR \/ UnknownScan
  <2>1. \A p \in Own : disk'[p] = disk[p]
    BY <1>8, DiskSteps
  <2>2. /\ readonly' = readonly /\ strays' = strays /\ oper' = oper
        /\ ~UnknownScan => todo' = todo
        /\ \/ pc \in Scanning /\ pc' \in Scanning
           \/ pc = "mover" /\ pc' = "movez" /\ work' = work
           \/ pc = "unknown" /\ pc' = "unknown"
    BY <1>8 DEF SaveR, MoveR, Moves, UnknownScan
  <2>3. UnknownScan => pc = "unknown"
    BY DEF UnknownScan
  <2>4. \A p \in strays' : p[2] \notin Required
    BY <2>2
  <2>5. pc' \in Moving => todo' \subseteq strays'
    BY <2>2, <2>3
  <2> QED BY <2>1, <2>2, <2>3, <2>4, <2>5
<1>9. CASE ScanEnds \/ AddSkips
  BY <1>9 DEF ScanEnds, AddSkips
<1>10. CASE AddEnds
  BY <1>10 DEF AddEnds
<1>11. CASE MoveEnds \/ UnknownEnds
  BY <1>11 DEF MoveEnds, UnknownEnds
<1>12. CASE Stop \/ Rerun
  BY <1>12 DEF Stop, Rerun, Ended
<1>13. CASE UNCHANGED vars
  BY <1>13 DEF vars
<1> QED BY <1>1, <1>2, <1>3, <1>4, <1>5, <1>6, <1>7, <1>8, <1>9, <1>10, <1>11, <1>12, <1>13
        DEF Next

LEMMA NextRestInv ==
  NewDir \in RomDir /\ CompleteInv /\ [Next]_vars => RestInv'
<1> SUFFICES ASSUME NewDir \in RomDir, CompleteInv, [Next]_vars PROVE RestInv'
  OBVIOUS
<1>0. TypeOK /\ TypeOK' /\ HeldInv /\ RestInv
  BY NextType DEF CompleteInv, LossInv, HeldInv
<1> USE <1>0, PathFacts DEF setting, RestInv, After
<1>1. CASE MoveEnds
  <2>1. \A n \in Name : held[Unknown(n)] = disk[Unknown(n)]
    BY <1>1, CollectionAssumption DEF MoveEnds, HeldInv, Held, Ended, CollectionAssumption
  <2> QED BY <1>1, <2>1 DEF MoveEnds
<1>2. CASE UnknownScan
  <2>1. PICK n \in todo :
          /\ todo' = todo \ {n}
          /\ disk' = [disk EXCEPT ![Unknown(n)] = held[Unknown(n)] \ OwnHeld]
    BY <1>2 DEF UnknownScan
  <2>2. n \in Name /\ Unknown(n) \in Path
    BY <1>2 DEF UnknownScan, TypeOK
  <2>3. \A p \in Own : disk'[p] = disk[p] /\ held[p] = disk[p]
    BY <1>2, DiskSteps DEF UnknownScan, HeldInv, Held, Ended
  <2>4. \A p \in Own : held[p] \subseteq OwnHeld
    BY CollectionAssumption DEF OwnHeld, CollectionAssumption
  <2>5. disk'[Unknown(n)] \cap OwnHeld = {}
    BY <2>1, <2>2 DEF TypeOK
  <2>6. \A m \in Name : m # n => disk'[Unknown(m)] = disk[Unknown(m)]
    <3>1. \A m \in Name : m # n => Unknown(m) # Unknown(n)
      BY <2>2
    <3> QED BY <2>1, <3>1 DEF TypeOK
  <2>7. \A p \in Own : disk'[Unknown(n)] \cap disk'[p] = {}
    BY <2>3, <2>4, <2>5
  <2>8. pc = "unknown" /\ pc' = "unknown"
    BY <1>2 DEF UnknownScan
  <2> QED BY <2>1, <2>3, <2>6, <2>7, <2>8
<1>3. CASE UnknownEnds
  BY <1>3 DEF UnknownEnds
<1>4. CASE Load \/ ScanStray \/ Scan \/ SaveZ \/ SaveR \/ ScanEnds \/ AddSkips \/ Add \/ AddEnds
            \/ Move \/ MoveR \/ MoveZ \/ Stop \/ Rerun
  BY <1>4 DEF Load, ScanStray, Scan, SaveZ, SaveR, ScanEnds, AddSkips, Add, AddEnds,
              Move, MoveR, MoveZ, Moves, Stop, Rerun, Ended
<1>5. CASE UNCHANGED vars
  BY <1>5 DEF vars
<1> QED BY <1>1, <1>2, <1>3, <1>4, <1>5 DEF Next

LEMMA InitCompleteInv == Init => CompleteInv
<1> SUFFICES ASSUME Init PROVE CompleteInv
  OBVIOUS
<1>1. LossInv /\ IndexInv
  BY InitLossInv, InitIndexInv
<1>2. \A p \in readonly : disk[p] # {}
  BY CollectionAssumption DEF Init, CollectionAssumption
<1> QED BY <1>1, <1>2
        DEF Init, CompleteInv, WorkInv, ArchiveInv, FixedInv, AddedInv, MovedInv, RestInv, After,
            Scanning, Moving

LEMMA CompleteIsCompleted == CompleteInv => Completed
<1> SUFFICES ASSUME CompleteInv PROVE Completed
  OBVIOUS
<1>1. AllFixed
  BY DEF CompleteInv, FixedInv, AllFixed, After, Past, Scanning, Total
<1>2. AllAdded
  BY DEF CompleteInv, AddedInv, AllAdded, After, Unavailable, Total
<1>3. AllMoved
  BY DEF CompleteInv, MovedInv, AllMoved, After, Moving
<1>4. UnknownIsRest
  BY DEF CompleteInv, RestInv, UnknownIsRest, After
<1> QED BY <1>1, <1>2, <1>3, <1>4 DEF Completed

\* A run that is not stopped leaves an archive of a game with every rom that
\* was anywhere to be found, no game without an archive that could be made, no
\* archive of no game where it was, and in rom_unknown nothing that the
\* collection has (all_rom_scan, all_unknown_scan).
THEOREM CompleteCollection ==
  ASSUME NewDir \in RomDir
  PROVE  Spec => []Completed
<1>1. CompleteInv /\ [Next]_vars => CompleteInv'
  <2>1. CompleteInv /\ [Next]_vars => LossInv' /\ IndexInv'
    BY NextLossInv, NextIndexInv DEF CompleteInv
  <2> QED BY <2>1, NextWorkInv, NextArchiveInv, NextFixedInv, NextAddedInv, NextMovedInv,
             NextRestInv DEF CompleteInv
<1> QED BY <1>1, InitCompleteInv, CompleteIsCompleted, PTL DEF Spec

=============================================================================
