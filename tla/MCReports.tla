----------------------------- MODULE MCReports -----------------------------
(***************************************************************************)
(* Small instances of the parts that work on nothing of each other: the    *)
(* reports, the comparisons, and an archive whose calls fail only where    *)
(* save() handles it.                                                      *)
(***************************************************************************)
EXTENDS Report, Compare, ZipFile

MCEntry == {"rom1", "rom2", "dir"}
MCSized == {"rom1", "rom2"}
HandledFaults == {"write", "remove"}

MCGames == 1..3
NoOf == [g \in MCGames |-> RNone]
Rom(n, size) == [name |-> n, size |-> size, nodump |-> FALSE]
Info(name, good, size) == [name |-> name, good |-> good, size |-> size]
Needed == [g \in MCGames |-> {Rom("a", 1)}]
\* any parents but oneself, any filter, any games working
MCStartTree ==
  [kind : {"rom"}, all : {MCGames}, games : SUBSET MCGames,
   romof : {f \in [MCGames -> 0..3] : \A g \in MCGames : f[g] # g}, clones : {{2, 3}},
   working : SUBSET MCGames, resource : {{}, {1}},
   need : {Needed}, found : [MCGames -> {<<>>, <<Info("a", TRUE, 1)>>}]]
\* what two games may need and have
RomNeeds == {{}, {Rom("a", 0)}, {[name |-> "a", size |-> 2, nodump |-> TRUE]},
             {Rom("a", 3), Rom("b", 2)}, {Rom("a", 2)}}
RomFounds == {<<>>, <<Info("a", FALSE, 1)>>, <<Info("a", TRUE, 3)>>,
              <<Info("a", FALSE, 1), Info("a", TRUE, 3)>>, <<Info("a", TRUE, 2), Info("a", TRUE, 3)>>}
MCStartRom ==
  [kind : {"rom", "sample"}, all : {{1, 2}}, games : {{1, 2}}, romof : {NoOf}, clones : {{}, {2}},
   working : {{1, 2}}, resource : {{}},
   need : [{1, 2} -> RomNeeds], found : [{1, 2} -> RomFounds]]
DiskNeeds == {{}, {Rom("a", 1)}, {Rom("a", 1), Rom("b", 1)}}
DiskFounds == {<<>>} \cup {<<x>> : x \in [name : {"a", "b", "A"}, good : BOOLEAN, size : {3}]}
              \cup {<<x, y>> : x, y \in [name : {"a", "b"}, good : BOOLEAN, size : {3}]}
MCStartDisk ==
  [kind : {"disk"}, all : {{1, 2}}, games : {{1, 2}}, romof : {NoOf}, clones : {{}},
   working : {{1, 2}}, resource : {{}},
   need : [{1, 2} -> DiskNeeds], found : [{1, 2} -> DiskFounds]]

\* information files of up to 3 games in a line of parents, or none, with up to
\* two names in a game, also of one content
Named(n, d) == [name |-> n, crc |-> d.crc, size |-> d.size]
Contents == [crc : {0, 1}, size : {1}] \cup [crc : {0}, size : {2}]
OneName == {{}} \cup {{Named(1, c)} : c \in Contents}
TwoNames == OneName \cup {{Named(1, c), Named(2, d)} : c, d \in Contents}
OfGames(games, roms) ==
  [games : games, romof : {f \in [MCGames -> 0..3] : \A g \in MCGames : f[g] < g},
   has : [MCGames -> roms]]
NoInfo == [games |-> {}, romof |-> NoOf, has |-> [g \in MCGames |-> {}]]
NoTree == [n \in {"/"} |-> [kind |-> "dir", below |-> {}, data |-> {}]]
MCTree ==
  {[n \in {"/", "d", "z", "f", ".d"} |->
      CASE n = "/" -> [kind |-> "dir", below |-> {"d", "f", ".d"}, data |-> {}]
        [] n = "d" -> [kind |-> "dir", below |-> b, data |-> {}]
        [] n = "z" -> [kind |-> "zip", below |-> {}, data |-> {[crc |-> 0, size |-> 1], [crc |-> 0, size |-> 2]}]
        [] n = "f" -> [kind |-> "file", below |-> {}, data |-> {x}]
        [] n = ".d" -> [kind |-> "hidden", below |-> {"/"}, data |-> {}]] :
     b \in SUBSET {"z"}, x \in [crc : {0, 1}, size : {0, 1}]}
MCCompareStart ==
  [command : {"equal"}, old : {NoInfo}, new : OfGames({MCGames}, TwoNames), tree : {NoTree}]
  \cup [command : {"ident"}, old : {NoInfo},
        new : OfGames({{1, 2}}, OneName \cup {{Named(1, c), Named(2, c)} : c \in Contents}), tree : MCTree]
  \cup [command : {"diff"}, old : OfGames({{1, 2}, MCGames}, {{}, {Named(1, [crc |-> 0, size |-> 1])}}),
        new : OfGames({{1, 2}, MCGames}, {{}, {Named(2, [crc |-> 0, size |-> 1])}}), tree : {NoTree}]

MCReportStart == MCStartTree \cup MCStartRom \cup MCStartDisk

CompareIdle ==
  /\ cs = [command |-> "diff", old |-> NoInfo, new |-> NoInfo, tree |-> NoTree]
  /\ cpc = "done" /\ seq = <<>> /\ todo = {} /\ out = {}
ReportIdle ==
  /\ rs = CHOOSE s \in MCStartTree : s.games = {}
  /\ rpc = "done" /\ left = {} /\ up = RNone /\ lines = {}
  /\ listed = [l \in {"dup", "good", "bad", "miss"} |-> {}]
  /\ total = [l \in Classes |-> [p \in {"parent", "clone"} |-> NoTotal]]

ArchiveIdle ==
  /\ disk = NoFile /\ temp = NoFile /\ orphans = {} /\ committed = {}
  /\ flag = Closed /\ path = TRUE /\ map = {} /\ bit3 = {}
  /\ pc = "exit" /\ sig = Unlocked /\ runs = MaxRuns

\* A behaviour is one report, or one comparison, or the runs on one archive.
ReportsInit ==
  \/ ReportInit /\ CompareIdle /\ ArchiveIdle
  \/ ReportIdle /\ CompareInit /\ ArchiveIdle
  \/ ReportIdle /\ CompareIdle /\ Init
ReportsNext ==
  \/ ReportNext /\ UNCHANGED <<compareVars, vars>>
  \/ CompareNext /\ UNCHANGED <<reportVars, vars>>
  \/ Next /\ UNCHANGED <<reportVars, compareVars>>
ReportsSpec ==
  /\ ReportsInit
  /\ [][ReportsNext]_<<reportVars, compareVars, vars>>
  /\ WF_reportVars(ReportNext /\ UNCHANGED <<compareVars, vars>>)
  /\ WF_vars(SaveStep /\ UNCHANGED <<reportVars, compareVars>>)
=============================================================================
