------------------------------ MODULE DiskMove ------------------------------
(***************************************************************************)
(* The disks (.chd files) of a run: set_disk_load reads every header and   *)
(* puts the damaged files aside, disk_scan compares the hash with that of  *)
(* the first game that names the disk, disk_move puts the unknown files    *)
(* into disk_unknown.  Both moves are file_move: rename, and across file   *)
(* systems a copy followed by a removal, taken apart here by system call.  *)
(* What a file holds is [of, head, size, left]: the path it was first seen *)
(* at, what disk_sha1 says of its header, how long it is, and how much of  *)
(* that is there.                                                          *)
(***************************************************************************)
EXTENDS Naturals, FiniteSets

CONSTANTS
  DiskDir,    \* the directories of the option `disk'
  DiskName,   \* names of disks (file_basename), case folded
  Device,     \* from the directories to their file systems
  Hash,       \* hashes of disks
  DiskGames,  \* the games that need disks, numbered in the order of their
              \* names: each from names to hashes
  Wrap,       \* 2^32, in units of length: file_size returns an unsigned
  DiskStart,  \* what a run may find: [files, oper]
  DiskFaults, \* the system calls that may fail; "kill"
  DiskRuns    \* bound on the runs of the program

UnknownDir == "disk_unknown"
Path == [dir : DiskDir \cup {UnknownDir}, name : DiskName, ext : {"chd", "damaged"}]
NoPath == [dir |-> UnknownDir, name |-> "", ext |-> ""]
NoChd == [of |-> NoPath, head |-> "invalid", size |-> 0, left |-> 0]
Heads == Hash \cup {"invalid"}
Contents == [of : Path \cup {NoPath}, head : Heads, size : Nat, left : Nat]

ASSUME DiskAssumption ==
  /\ UnknownDir \notin DiskDir
  /\ DiskDir \cup {UnknownDir} \subseteq DOMAIN Device
  /\ DOMAIN DiskGames \subseteq Nat
  /\ {"invalid", "short"} \cap Hash = {}
  /\ \A s \in DiskStart : s.files \in [Path -> Contents] /\ s.oper \subseteq {"move", "active"}
  /\ DiskFaults \subseteq {"rename", "read", "write", "close", "remove", "kill"}
  /\ Wrap \in Nat \ {0} /\ DiskRuns \in Nat

VARIABLES
  files,   \* the file system; NoChd where there is no file
  dpc,
  ds,      \* the paths the loop in progress has not seen: of read_dir, of
           \* set_disk_load, of the unknown ones
  dzar,    \* the paths that set_disk_load returns
  dzs,     \* for each game the infopaths of its disks: [path, good]
  mv,      \* the file_move in progress: [src, dst, back]
  doper,   \* the operations: "move", and "active" unless --print-only
  dfaults, \* history: the faults of this run
  dfirst,  \* history: the file system at the start
  cut,     \* history: the paths whose last copy fclose did not write out
  druns

diskVars == <<files, dpc, ds, dzar, dzs, mv, doper, dfaults, dfirst, cut, druns>>

NoMove == [src |-> NoPath, dst |-> NoPath, back |-> ""]
DiskEnded == {"done", "error", "killed"}
Games == DOMAIN DiskGames
Present(p) == files[p] # NoChd

NewRun ==
  /\ dpc' = "list" /\ ds' = {} /\ dzar' = {} /\ mv' = NoMove
  /\ dzs' = [g \in Games |-> {}] /\ dfaults' = {}

DiskInit ==
  /\ \E s \in DiskStart : files = s.files /\ doper = s.oper
  /\ dfirst = files /\ cut = {} /\ druns = 0
  /\ dpc = "list" /\ ds = {} /\ dzar = {} /\ mv = NoMove
  /\ dzs = [g \in Games |-> {}] /\ dfaults = {}

Fault(f) == f \in DiskFaults /\ dfaults' = dfaults \cup {f}

-----------------------------------------------------------------------------
(* file_move, for the two callers; it goes on at mv.back.                  *)

Moving(at) ==
  /\ dpc = at
  /\ UNCHANGED <<ds, dzar, dzs, doper, dfirst, druns>>

SameDevice == Device[mv.src.dir] = Device[mv.dst.dir]
\* file_size
FileSize(c) == c.size % Wrap

RenameFile ==
  /\ Moving("rename") /\ SameDevice
  /\ files' = [files EXCEPT ![mv.dst] = files[mv.src], ![mv.src] = NoChd]
  /\ dpc' = mv.back /\ UNCHANGED <<mv, dfaults, cut>>

\* Of the failures of rename only EXDEV is looked at.
RenameIgnored ==
  /\ Moving("rename") /\ Fault("rename")
  /\ dpc' = mv.back /\ UNCHANGED <<files, mv, cut>>

RenameExdev ==
  /\ Moving("rename") /\ ~SameDevice
  /\ dpc' = "copy" /\ UNCHANGED <<files, mv, dfaults, cut>>

\* file_copy: the file is read as a whole; fread of nothing is a failure.
CopyRead ==
  /\ Moving("copy") /\ FileSize(files[mv.src]) > 0
  /\ dpc' = "write"
  /\ files' = [files EXCEPT ![mv.dst] = [files[mv.src] EXCEPT !.left = 0]]
  /\ cut' = cut \ {mv.src}
  /\ UNCHANGED <<mv, dfaults>>

CopyReadFails ==
  /\ Moving("copy")
  /\ \/ FileSize(files[mv.src]) = 0 /\ UNCHANGED dfaults
     \/ Fault("read")
  /\ dpc' = "undo" /\ UNCHANGED <<files, mv, cut>>

\* file_write: fwrite has taken all of it, and has written a part.
CopyWrite ==
  /\ Moving("write")
  /\ \E n \in 0..FileSize(files[mv.src]) : files' = [files EXCEPT ![mv.dst].left = n]
  /\ dpc' = "close" /\ UNCHANGED <<mv, dfaults, cut>>

CopyWriteFails ==
  /\ Moving("write") /\ Fault("write")
  /\ \E n \in 0..(FileSize(files[mv.src]) - 1) : files' = [files EXCEPT ![mv.dst].left = n]
  /\ dpc' = "undo" /\ UNCHANGED <<mv, cut>>

\* The rest is written by fclose,
CopyClose ==
  /\ Moving("close")
  /\ files' = [files EXCEPT ![mv.dst].left = FileSize(files[mv.src])]
  /\ dpc' = "remove" /\ UNCHANGED <<mv, dfaults, cut>>

\* whose result is not looked at: the copy may stay short, and is taken as it is.
CopyCloseFails ==
  /\ Moving("close") /\ Fault("close")
  /\ cut' = cut \cup {mv.src}
  /\ dpc' = "remove" /\ UNCHANGED <<files, mv>>

\* mutant: a failure is not noticed, the source is removed though
UndoAndGoOn ==
  /\ Moving("undo")
  /\ files' = [files EXCEPT ![mv.dst] = NoChd]
  /\ dpc' = "remove" /\ UNCHANGED <<mv, dfaults, cut>>

\* The destination is removed, be it the copy or what was there before; what
\* comes of it is swallowed.
UndoCopy ==
  /\ Moving("undo")
  /\ \/ files' = [files EXCEPT ![mv.dst] = NoChd] /\ UNCHANGED dfaults
     \/ Fault("remove") /\ UNCHANGED files
  /\ dpc' = "error" /\ UNCHANGED <<mv, cut>>

RemoveSource ==
  /\ Moving("remove")
  /\ \/ files' = [files EXCEPT ![mv.src] = NoChd] /\ dpc' = mv.back /\ UNCHANGED dfaults
     \/ Fault("remove") /\ dpc' = "error" /\ UNCHANGED files
  /\ UNCHANGED <<mv, cut>>

-----------------------------------------------------------------------------
(* set_disk_load.                                                          *)

\* mutant: read_dir takes the damaged files as well
ListDamagedToo == {p \in Path : Present(p) /\ p.dir \in DiskDir}

\* read_dir over the directories, for one extension
Listed == {p \in Path : Present(p) /\ p.dir \in DiskDir /\ p.ext = "chd"}

ReadDisks ==
  /\ dpc = "list" /\ dpc' = "load" /\ ds' = Listed
  /\ UNCHANGED <<files, dzar, dzs, mv, doper, dfaults, dfirst, cut, druns>>

\* disk_sha1: an unreadable header is an error, a wrong one error_invalid.
Header(p) == IF files[p].left = 0 THEN "short" ELSE files[p].head

\* mutant: of two files of one name only the first is kept
LoadByName(p) ==
  /\ dpc = "load" /\ p \in ds /\ ds' = ds \ {p}
  /\ dzar' = IF \E q \in dzar : q.name = p.name THEN dzar ELSE dzar \cup {p}
  /\ UNCHANGED <<files, dpc, mv, dzs, doper, dfaults, dfirst, cut, druns>>

LoadDisk(p) ==
  /\ dpc = "load" /\ p \in ds /\ ds' = ds \ {p}
  /\ CASE Header(p) = "short" -> dpc' = "error" /\ UNCHANGED <<dzar, mv>>
       [] Header(p) = "invalid" ->
            /\ mv' = [src |-> p, dst |-> [p EXCEPT !.ext = "damaged"], back |-> "load"]
            /\ dpc' = "rename" /\ UNCHANGED dzar
       [] OTHER -> dzar' = dzar \cup {p} /\ UNCHANGED <<dpc, mv>>
  /\ UNCHANGED <<files, dzs, doper, dfaults, dfirst, cut, druns>>

LoadEnds ==
  /\ dpc = "load" /\ ds = {}
  /\ dpc' = "scan"
  /\ UNCHANGED <<files, ds, dzar, dzs, mv, doper, dfaults, dfirst, cut, druns>>

-----------------------------------------------------------------------------
(* all_disk_scan and set_disk_scan.                                        *)

Naming(p) == {g \in Games : p.name \in DOMAIN DiskGames[g]}

\* disk_scan, with disk_stat
Info(p, g) == [path |-> p, good |-> files[p].head = DiskGames[g][p.name]]

\* mutant: the files of games with a wrong hash are unknown
WrongHash == {p \in dzar : \A g \in Naming(p) : ~Info(p, g).good}

Unwanted == {p \in dzar : Naming(p) = {}}

\* mutant: the move goes on with --print-only
MovesAnyway == "move" \in doper

active_move == {"move", "active"} \subseteq doper

\* Each file is of the first game that names it.
ScanDisks ==
  /\ dpc = "scan"
  /\ dzs' = [g \in Games |-> {Info(p, g) : p \in {p \in dzar :
               g \in Naming(p) /\ \A h \in Naming(p) : g <= h}}]
  /\ ds' = IF active_move THEN Unwanted ELSE {}
  /\ dpc' = "move"
  /\ UNCHANGED <<files, dzar, mv, doper, dfaults, dfirst, cut, druns>>

\* disk_move
MoveDisk(p) ==
  /\ dpc = "move" /\ p \in ds /\ ds' = ds \ {p}
  /\ mv' = [src |-> p, dst |-> [p EXCEPT !.dir = UnknownDir], back |-> "move"]
  /\ dpc' = "rename"
  /\ UNCHANGED <<files, dzar, dzs, doper, dfaults, dfirst, cut, druns>>

MoveEnds ==
  /\ dpc = "move" /\ ds = {}
  /\ dpc' = "done"
  /\ UNCHANGED <<files, ds, dzar, dzs, mv, doper, dfaults, dfirst, cut, druns>>

DiskKill ==
  /\ dpc \notin DiskEnded /\ Fault("kill")
  /\ dpc' = "killed"
  /\ UNCHANGED <<files, ds, dzar, dzs, mv, doper, dfirst, cut, druns>>

DiskRerun ==
  /\ dpc \in DiskEnded /\ druns < DiskRuns
  /\ druns' = druns + 1 /\ NewRun
  /\ UNCHANGED <<files, doper, dfirst, cut>>

DiskNext ==
  \/ ReadDisks \/ LoadEnds \/ ScanDisks \/ MoveEnds
  \/ \E p \in ds : LoadDisk(p) \/ MoveDisk(p)
  \/ RenameFile \/ RenameIgnored \/ RenameExdev
  \/ CopyRead \/ CopyReadFails \/ CopyWrite \/ CopyWriteFails
  \/ CopyClose \/ CopyCloseFails \/ UndoCopy \/ RemoveSource
  \/ DiskKill \/ DiskRerun

DiskSpec == DiskInit /\ [][DiskNext]_diskVars

-----------------------------------------------------------------------------
\* The state is well formed; what is being moved is there, and moves elsewhere.
DiskTypeOK ==
  /\ files \in [Path -> Contents]
  /\ dpc \in {"list", "load", "scan", "move", "rename", "copy", "write", "close", "undo", "remove"}
             \cup DiskEnded
  /\ cut \subseteq Path
  /\ ds \subseteq Path /\ dzar \subseteq Path
  /\ \A g \in Games : dzs[g] \subseteq [path : Path, good : BOOLEAN]
  /\ {mv.src, mv.dst} \subseteq Path \cup {NoPath}
  /\ dpc \in {"rename", "copy", "write", "close", "remove"} => Present(mv.src) /\ mv.src # mv.dst
  /\ doper \subseteq {"move", "active"}
  /\ dfaults \subseteq DiskFaults /\ druns \in 0..DiskRuns

Whole(c) == c # NoChd /\ c.left = c.size

\* Where the program may put the file that was at p.
Aside(p) == {[p EXCEPT !.ext = "damaged"], [p EXCEPT !.dir = UnknownDir]}
\* Another file may take its place, there or where it is now.
InTheWay(p) ==
  \E q \in Path \ {p} : dfirst[q] # NoChd /\ q.name = p.name /\ (Aside(q) \cup {q}) \cap (Aside(p) \cup {p}) # {}
Fits(c) == c.size < Wrap

\* Wherever the run is stopped, and whichever call fails, a disk that was whole
\* has a whole copy: the source goes after the copy is written (file_move).
\* Not so for files that come to have the same name, that are too long, or whose
\* copy the fclose of file_write, that nobody looks at, did not write out.
DiskKept ==
  \A p \in Path \ cut : Whole(dfirst[p]) /\ Fits(dfirst[p]) /\ ~InTheWay(p) =>
    \E q \in Path : files[q] = dfirst[p]

\* A disk that a game needs is not moved, whatever else is (all_disk_scan), and
\* nothing is with --print-only but damaged files (set_disk_load).
WantedStays ==
  \A p \in Path :
    /\ p.dir \in DiskDir /\ dfirst[p].head \in Hash
    /\ Naming(p) # {} \/ ~({"move", "active"} \subseteq doper)
    => files[p] = dfirst[p]

\* A run without faults leaves no unknown disk and no damaged one behind, and
\* what former runs left half copied is whole; what an fclose that failed left
\* short stays so, as its source is gone.
AllInPlace ==
  dpc = "done" /\ dfaults = {} =>
    /\ \A p \in Listed : Header(p) \in Hash
    /\ {"move", "active"} \subseteq doper =>
         /\ \A p \in Listed : Naming(p) # {}
         /\ \A p \in Path : Present(p) /\ Fits(files[p]) /\ files[p].of \notin cut => Whole(files[p])

\* A run that does not abort has put every damaged file aside (doc/advscan.d,
\* Damaged Files).  It has not if rename failed: file_move goes on.
DamagedRenamed == dpc = "done" => \A p \in Listed : Header(p) # "invalid"

\* What the report is made from is still true when it is made: the files are
\* there, with the hash the game wants or another one (disk_scan, file_move).
ReportedIsThere ==
  dpc = "done" =>
    \A g \in Games : \A i \in dzs[g] :
      Present(i.path) /\ (i.good <=> files[i.path].head = DiskGames[g][i.path.name])

\* A game whose disk is there with its hash, and that no game before it names,
\* has a good one, also after a run that was stopped.
FoundIsReported ==
  dpc = "done" =>
    \A p \in Listed, g \in Games :
      Header(p) \in Hash /\ Naming(p) = {g} => Info(p, g) \in dzs[g]

\* Disks go where they belong, and the report is of where they are.
DisksInPlace == WantedStays /\ AllInPlace /\ ReportedIsThere /\ FoundIsReported
=============================================================================
