------------------------------ MODULE Command ------------------------------
(***************************************************************************)
(* A run of advscan: the options, the configuration file and the checks of *)
(* its directories, and the phases that run() goes through, each with the  *)
(* directories it reads and writes.  What a phase does to an archive is in *)
(* RomCollection, SampleScan and DiskMove.                                 *)
(***************************************************************************)
EXTENDS Naturals, Sequences, SequencesExt, FiniteSets

CONSTANTS
  Dir,      \* directories, by the name they are given
  DirFold,  \* the name with its case folded, as file_compare sees it
  Children, \* the directories in a directory
  NoPath,   \* the empty path
  RunStart  \* [opts, info, lines, exists, writable, damaged]: options, what the
            \*   information file has, lines of the configuration file, and the
            \*   directories that exist, can be written, hold a damaged archive

Options == {"r", "R", "s", "S", "k", "K", "a", "b", "d", "u", "t", "g", "l", "e", "i",
            "p", "P", "n", "h", "bad"}
Lists == {"rom", "sample", "disk", "rom_import"}
Singles == {"rom_unknown", "sample_unknown", "disk_unknown", "rom_new"}

\* A path between two separators may be empty; an option that takes one path
\* is not read if it has a separator or nothing.
ConfigLine == [tag : STRING, dirs : Seq(Dir \cup {NoPath})]

ASSUME CommandAssumption ==
  /\ NoPath \notin Dir /\ IsFiniteSet(Dir) /\ Children \in [Dir -> SUBSET Dir]
  /\ \A s \in RunStart : /\ s.opts \subseteq Options /\ s.info \in {"games", "empty", "invalid"}
                         /\ s.exists \subseteq Dir /\ s.writable \subseteq s.exists
                         /\ s.lines \in Seq(ConfigLine)
                         /\ \A l \in ToSet(s.lines) : l.tag \in Singles => l.dirs \in Seq(Dir)

VARIABLES
  in,    \* what the run is given
  phase, \* options, info, lines, check, the phases, or how the run ended
  line,  \* lines of the configuration file read
  conf,  \* class config: [list, single], rom_import with what is read at the end
  did    \* history: what was done in which directory

commandVars == <<in, phase, line, conf, did>>

-----------------------------------------------------------------------------
(* Options.                                                                *)

Has(o) == in.opts \cap o # {}

\* flag_*
flag_rom == Has({"r", "R"})
flag_sample == Has({"s", "S"})
flag_disk == Has({"k", "K"})
flag_add == Has({"a", "R", "S"})
flag_fix == Has({"b", "R", "S"})
flag_move == Has({"d", "R", "S", "K"})
flag_remove == Has({"u", "t", "g", "R", "S"})
flag_operation == flag_move \/ flag_add \/ flag_fix \/ flag_remove
flag_report == Has({"p"})
flag_report_zip == Has({"P"})
active == ~Has({"n"})

\* mutant: additions are no change
flag_change_fix == active /\ (flag_move \/ flag_fix \/ flag_remove)
\* mutant: operations that are only printed are changes
flag_change_any == flag_operation

flag_change == active /\ flag_operation

Modes == flag_rom \/ flag_sample \/ flag_disk
Work == flag_operation \/ flag_report \/ flag_report_zip

\* A help or version option returns at once and an unknown one throws, the
\* first of them; a mode without work, or work without a mode, gives the usage.
ReadOptions ==
  /\ phase = "options"
  /\ \/ Has({"h"}) /\ phase' = "done"
     \/ Has({"bad"}) /\ phase' = "error"
     \/ ~Has({"h", "bad"}) /\ phase' = IF Modes # Work THEN "usage" ELSE "info"
  /\ UNCHANGED <<in, line, conf, did>>

\* The information file is read from the standard input and filtered; ident,
\* equal and bbs look at nothing else.
ReadInfo ==
  /\ phase = "info"
  /\ phase' = CASE in.info # "games" -> "error" [] Modes -> "lines" [] OTHER -> "done"
  /\ UNCHANGED <<in, line, conf, did>>

-----------------------------------------------------------------------------
(* config::config.                                                         *)

NoConfig == [list |-> [t \in Lists |-> <<>>], single |-> [t \in Singles |-> NoPath]]

\* Double, empty or multiple specification of an option with one path.
SingleFails(l) == conf.single[l.tag] # NoPath \/ Len(l.dirs) # 1

ReadLine ==
  /\ phase = "lines" /\ line < Len(in.lines)
  /\ LET l == in.lines[line + 1]
     IN CASE l.tag \in Lists ->
               conf' = [conf EXCEPT !.list[l.tag] = @ \o l.dirs] /\ UNCHANGED phase
          [] l.tag \in Singles /\ ~SingleFails(l) ->
               conf' = [conf EXCEPT !.single[l.tag] = l.dirs[1]] /\ UNCHANGED phase
          [] OTHER -> phase' = "error" /\ UNCHANGED conf
  /\ line' = line + 1
  /\ UNCHANGED <<in, did>>

\* mutant: that a directory exists is enough
PlaceGoodThere(d) == d \in in.exists

\* A directory for what is removed or new: it is given, exists, can be written.
PlaceGood(d) == d \in in.exists /\ d \in in.writable

\* The checks of a kind of file that is needed.
KindGood(kind, places) ==
  /\ conf.list[kind] # <<>>
  /\ ToSet(conf.list[kind]) \subseteq in.exists
  /\ flag_change =>
       /\ ToSet(conf.list[kind]) \subseteq in.writable
       /\ \A t \in places : PlaceGood(conf.single[t])

\* expand_tree: the directory and those below it, no deeper than there are any;
\* it must exist
Tree(d) ==
  LET below[n \in 0..Cardinality(Dir)] ==
        IF n = 0 THEN {d} ELSE below[n - 1] \cup UNION {Children[e] : e \in below[n - 1]}
  IN below[Cardinality(Dir)]

\* mutant: only the directories that are given are compared with those of rom
romreadonlytree_given ==
  UNION {Tree(d) : d \in {d \in ToSet(conf.list["rom_import"]) : d \notin ToSet(conf.list["rom"])}}

\* romreadonlytree: the directories that are not in rom
romreadonlytree ==
  {e \in UNION {Tree(d) : d \in ToSet(conf.list["rom_import"])} :
     \A r \in ToSet(conf.list["rom"]) : DirFold[r] # DirFold[e]}

Check ==
  /\ phase = "lines" /\ line = Len(in.lines)
  /\ LET good == /\ flag_rom => KindGood("rom", {"rom_new", "rom_unknown"})
                 /\ flag_sample => KindGood("sample", {"sample_unknown"})
                 /\ flag_disk => KindGood("disk", {"disk_unknown"})
                 /\ ToSet(conf.list["rom_import"]) \subseteq in.exists
     IN phase' = IF good THEN "rom" ELSE "error"
  /\ UNCHANGED <<in, line, conf, did>>

-----------------------------------------------------------------------------
(* The phases.                                                             *)

Done(what, dirs) == {[what |-> what, dir |-> d] : d \in dirs}
Goto(p) == phase' = p /\ UNCHANGED <<in, line, conf>>
Paths(t) == ToSet(conf.list[t])
Place(t) == conf.single[t]

\* What a load does with a damaged archive: it is renamed where it is.
Loaded(dirs) == Done("read", dirs) \cup Done("rename", dirs \cap in.damaged)

\* What the scan of a kind of archive may write; the flags are those that the
\* scans ask by active_add, active_fix and the like.
Written(kind, new, unknown) ==
  IF ~active THEN {}
  ELSE Done("write", (IF flag_fix \/ flag_remove \/ flag_move THEN Paths(kind) \cup {Place(unknown)} ELSE {})
                     \cup (IF flag_add THEN new ELSE {}))

\* all_rom_load needs the directory of the unknown, set or not; a directory
\* that cannot be opened throws.
RomOperate ==
  /\ phase = "rom" /\ flag_rom /\ flag_operation
  /\ IF Place("rom_unknown") \in in.exists
     THEN /\ did' = did \cup Loaded(Paths("rom") \cup {Place("rom_unknown")})
                    \cup Done("import", romreadonlytree)
                    \cup Written("rom", {Place("rom_new")}, "rom_unknown")
          /\ Goto("unknown")
     ELSE Goto("error") /\ UNCHANGED did

RomLook ==
  /\ phase = "rom" /\ flag_rom /\ ~flag_operation
  /\ did' = did \cup Loaded(Paths("rom"))
  /\ Goto("unknown")

\* mutant: the unknown are freed of duplicates whenever there is an operation
UnknownScanAlways ==
  /\ phase = "unknown"
  /\ did' = did \cup Done("write", IF flag_operation THEN {Place("rom_unknown")} ELSE {})
  /\ Goto("sample")

\* all_unknown_scan, after the reports, which open nothing
UnknownScan ==
  /\ phase = "unknown"
  /\ did' = did \cup Done("write", IF flag_change THEN {Place("rom_unknown")} ELSE {})
  /\ Goto("sample")

NoRom == phase = "rom" /\ ~flag_rom /\ Goto("sample") /\ UNCHANGED did

\* Samples and disks are loaded alike, for an operation or for a look.
SamplePhase ==
  /\ phase = "sample"
  /\ did' = IF ~flag_sample THEN did
            ELSE did \cup Loaded(Paths("sample"))
                 \cup (IF flag_operation THEN Written("sample", {}, "sample_unknown") ELSE {})
  /\ Goto("disk")

DiskPhase ==
  /\ phase = "disk"
  /\ did' = IF ~flag_disk THEN did
            ELSE did \cup Loaded(Paths("disk"))
                 \cup (IF active /\ flag_move THEN Done("write", Paths("disk") \cup {Place("disk_unknown")}) ELSE {})
  /\ Goto("done")

-----------------------------------------------------------------------------
RunInit ==
  /\ in \in RunStart
  /\ phase = "options" /\ line = 0 /\ conf = NoConfig /\ did = {}

RunNext ==
  \/ ReadOptions \/ ReadInfo \/ ReadLine \/ Check
  \/ RomOperate \/ RomLook \/ UnknownScan \/ NoRom
  \/ SamplePhase \/ DiskPhase

RunSpec == RunInit /\ [][RunNext]_commandVars

Phases == {"rom", "unknown", "sample", "disk"}
Ends == {"done", "usage", "error"}

-----------------------------------------------------------------------------
(* Properties.                                                             *)

\* The state is well formed; no phase is given a directory that is not set.
RunTypeOK ==
  /\ line \in 0..Len(in.lines)
  /\ phase \in {"options", "info", "lines"} \cup Phases \cup Ends
  /\ did \subseteq [what : {"read", "import", "write", "rename"}, dir : Dir]

Accessed(what) == {a.dir : a \in {a \in did : a.what = what}}

\* No phase writes in a directory that the configuration did not give, or
\* that was not found to exist and to be writable before the first phase:
\* what a phase removes has its place before it is removed.
WritesChecked == Accessed("write") \subseteq in.writable

\* What is imported is not changed, and is not one of the directories of rom
\* below those of rom_import; the other directories that the configuration
\* says are written may be below them.
ImportOnlyRead ==
  Accessed("import") \cap (Accessed("write") \cup Accessed("rename"))
    \subseteq {Place(t) : t \in Singles} \cup Paths("sample") \cup Paths("disk")

\* With -n no archive is written, whatever else is asked for.
PrintOnlyWritesNothing == Has({"n"}) => Accessed("write") = {}

\* A simulation needs no permission: where the directories exist, what can be
\* run with -n is not refused for want of it.
SimulationNeedsNoPermission ==
  phase = "error" /\ Has({"n"}) /\ in.info = "games" /\ ~Has({"bad"}) =>
    \/ \E i \in DOMAIN in.lines : LET l == in.lines[i] IN
         \/ l.tag \notin Lists \cup Singles
         \/ l.tag \in Singles /\ (Len(l.dirs) # 1 \/ \E j \in 1..i - 1 : in.lines[j].tag = l.tag)
    \/ \E i \in DOMAIN in.lines : ~(ToSet(in.lines[i].dirs) \subseteq in.exists)
    \/ \E x \in {<<"rom", {"r", "R"}>>, <<"sample", {"s", "S"}>>, <<"disk", {"k", "K"}>>} :
         Has(x[2]) /\ ~\E i \in DOMAIN in.lines : in.lines[i].tag = x[1] /\ in.lines[i].dirs # <<>>
    \/ flag_rom /\ ~\E i \in DOMAIN in.lines : in.lines[i].tag = "rom_unknown"

\* The directories of the configuration are used as its check lets them be.
DirectoriesKept ==
  WritesChecked /\ ImportOnlyRead /\ PrintOnlyWritesNothing /\ SimulationNeedsNoPermission

\* "Don't modify anything, it only shows operations." (doc/advscan.d:176)
PrintOnly == Has({"n"}) => Accessed("write") \cup Accessed("rename") = {}
=============================================================================
