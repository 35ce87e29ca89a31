------------------------------- MODULE Report -------------------------------
(***************************************************************************)
(* The reports on the games: report_rom_set, report_sample_set and         *)
(* report_disk_set (option --report) put every game into one list and add  *)
(* up counts and sizes; report_rom_set_zip (option --report-file) walks    *)
(* along romof from every game that has an archive.  One step is one game  *)
(* of one loop, in the order of names, which is that of the ranks.         *)
(***************************************************************************)
EXTENDS Naturals, Sequences, SequencesExt, FiniteSetsExt

CONSTANTS
  RGame,        \* names of games, by rank
  Word,         \* 2^32: sizes are unsigned
  ReportStart   \* what a report is made of: [kind, all, games, romof, clones,
                \*   working, resource, need, found], with sets of games but for
                \*   need: what a game is made of, [name, size, nodump], and
                \*   found: its infopaths, sequences of [name, good, size]

RNone == 0
RKind == {"rom", "sample", "disk"}
Classes == {"good", "bad", "miss"}

\* class infopath; an archive is never empty, it has at least its directory.
ReportPath == [name : STRING, good : BOOLEAN, size : Nat]

ASSUME ReportAssumption ==
  /\ RGame \subseteq Nat \ {RNone} /\ Word \in Nat \ {0}
  /\ \A s \in ReportStart :
       /\ s.kind \in RKind /\ s.games \subseteq s.all /\ s.all \subseteq RGame
       /\ IsFiniteSet(s.games) /\ s.romof \in [RGame -> RGame \cup {RNone}]
       /\ \A g \in s.games :
            /\ IsFiniteSet(s.need[g]) /\ \A r \in s.need[g] : r.size \in Nat
            /\ s.found[g] \in Seq(ReportPath)
            /\ s.kind # "disk" => \A i \in ToSet(s.found[g]) : i.size # 0

VARIABLES
  rs,      \* what the report is made of
  rpc, left, \* the loop, and the games it has not come to
  listed,  \* the games in each list
  total,   \* for each list, and for parents and clones: [count, size, zip]
  up,      \* report_rom_set_zip: the game on the walk along romof
  lines    \* report_rom_set_zip: what is printed, <<tag, game, other game>>

reportVars == <<rs, rpc, left, listed, total, up, lines>>

\* A sum kept in an unsigned.
Sum32(S, size(_)) == FoldSet(LAMBDA x, n : (n + size(x)) % Word, 0, S)

-----------------------------------------------------------------------------
(* The questions report functions ask of a game (game.cc).                 *)

Zips(g) == ToSet(rs.found[g])

required(g) ==
  IF rs.kind = "rom" THEN \E r \in rs.need[g] : r.size # 0 /\ ~r.nodump
  ELSE rs.need[g] # {}

\* has_good_rom, has_good_sample, has_good_disk
has_good(g) ==
  IF rs.kind = "disk"
  THEN \A d \in rs.need[g] : \E i \in Zips(g) : i.name = d.name /\ i.good
  ELSE \E i \in Zips(g) : i.good

has_bad(g) == \E i \in Zips(g) : ~i.good

\* mutant: zero is taken for the least size
LeastSize(S) == IF S = {} THEN 0 ELSE Min(S \cup {0})

\* good_rom_size, good_sample_size: the least of them
GoodSize(S) == IF S = {} THEN 0 ELSE Min(S)

\* good_disk_size: all of them
GoodDisks(g) ==
  {i \in DOMAIN rs.found[g] :
     rs.found[g][i].good /\ \E d \in rs.need[g] : d.name = rs.found[g][i].name}

good_size(g) ==
  IF rs.kind = "disk" THEN Sum32(GoodDisks(g), LAMBDA i : rs.found[g][i].size)
  ELSE GoodSize({i.size : i \in {i \in Zips(g) : i.good}})

size_get(g) == Sum32(rs.need[g], LAMBDA r : r.size)

-----------------------------------------------------------------------------
(* report_rom_set, report_sample_set, report_disk_set.                     *)

\* Only the report of samples does not ask whether the game needs any.
Tested(g) == rs.kind = "sample" \/ required(g)

IsGood(g) == CASE rs.kind = "rom" -> ~required(g) \/ has_good(g)
               [] rs.kind = "sample" -> has_good(g)
               [] rs.kind = "disk" -> required(g) /\ has_good(g)

\* mutant: bad is what has a bad archive
AnyBad(g) == required(g) /\ has_bad(g)

\* mutant: bad is what has no good archive
NotGood(g) == Tested(g) /\ ~has_good(g)

IsBad(g) == Tested(g) /\ ~has_good(g) /\ has_bad(g)

IsMissing(g) ==
  /\ required(g)
  /\ IF rs.kind = "disk" THEN ~has_good(g) /\ ~has_bad(g) ELSE rs.found[g] = <<>>

InList(list, g) ==
  CASE list = "good" -> IsGood(g) [] list = "bad" -> IsBad(g) [] list = "miss" -> IsMissing(g)

Part(g) == IF g \in rs.clones THEN "clone" ELSE "parent"

\* mutant: what a good game that needs nothing has is added too
AddedAll(list, g, t) ==
  [count |-> t.count + 1, size |-> t.size + size_get(g), zip |-> t.zip + good_size(g)]

AddedTo(list, g, t) ==
  [count |-> t.count + 1,
   size |-> t.size + IF rs.kind = "rom" /\ required(g) THEN size_get(g) ELSE 0,
   zip |-> t.zip + IF list = "good" /\ Tested(g) THEN good_size(g) ELSE 0]

NoTotal == [count |-> 0, size |-> 0, zip |-> 0]

ReportInit ==
  /\ rs \in ReportStart
  /\ rpc = "dup" /\ left = rs.games
  /\ listed = [l \in {"dup", "good", "bad", "miss"} |-> {}]
  /\ total = [l \in Classes |-> [p \in {"parent", "clone"} |-> NoTotal]]
  /\ up = RNone /\ lines = {}

\* The game the loop is at.
At(g) == g \in left /\ \A h \in left : g <= h

ReportDup(g) ==
  /\ rpc = "dup" /\ At(g) /\ left' = left \ {g}
  /\ listed' = IF Len(rs.found[g]) > 1 THEN [listed EXCEPT !["dup"] = @ \cup {g}] ELSE listed
  /\ UNCHANGED <<rs, rpc, total, up, lines>>

ReportGame(g) ==
  /\ rpc \in Classes /\ At(g) /\ left' = left \ {g}
  /\ IF InList(rpc, g)
     THEN /\ listed' = [listed EXCEPT ![rpc] = @ \cup {g}]
          /\ total' = [total EXCEPT ![rpc][Part(g)] = AddedTo(rpc, g, @)]
     ELSE UNCHANGED <<listed, total>>
  /\ UNCHANGED <<rs, rpc, up, lines>>

NextLoop == CASE rpc = "dup" -> "good" [] rpc = "good" -> "bad" [] rpc = "bad" -> "miss"
              [] rpc = "miss" -> IF rs.kind = "rom" THEN "zip" ELSE "done"
              [] rpc = "zip" -> "done"

ReportLoopEnds ==
  /\ rpc \in {"dup", "good", "bad", "miss", "zip"} /\ left = {} /\ up = RNone
  /\ rpc' = NextLoop /\ left' = rs.games
  /\ UNCHANGED <<rs, listed, total, up, lines>>

-----------------------------------------------------------------------------
(* report_rom_set_zip.                                                     *)

RDepth == Cardinality(rs.games)

\* gamearchive::rom_son, as it was made before the filter
Sons(g) == {h \in rs.all : rs.romof[h] = g} \cap rs.games

\* mutant: only the sons are looked at
has_working_son(g) == \E s \in Sons(g) : s \in rs.working /\ has_good(s)

has_working_clone_with_rom(g) ==
  LET has[n \in 0..RDepth] == [h \in RGame |->
        n > 0 /\ \E s \in Sons(h) : (s \in rs.working /\ has_good(s)) \/ has[n - 1][s]]
  IN has[RDepth][g]

find_working_clones(g) ==
  LET clones[n \in 0..RDepth] == [h \in RGame |->
        ({h} \cap rs.working) \cup IF n = 0 THEN {} ELSE UNION {clones[n - 1][s] : s \in Sons(h)}]
  IN clones[RDepth][g]

Preliminary(g) == g \notin rs.working \cup rs.resource /\ ~has_working_clone_with_rom(g)

ReportZip(g) ==
  /\ rpc = "zip" /\ up = RNone /\ At(g)
  /\ IF required(g) /\ rs.found[g] # <<>>
     THEN /\ lines' = lines \cup
               (IF Len(rs.found[g]) > 1 THEN {<<"duplicate", g, g>>} ELSE {})
               \cup (IF Preliminary(g)
                     THEN {<<"preliminary", g, g>>} \cup {<<"but", g, h>> : h \in find_working_clones(g)}
                     ELSE {})
               \cup (IF has_bad(g) THEN {<<"incomplete", g, g>>} ELSE {})
          /\ up' = rs.romof[g]
     ELSE UNCHANGED <<lines, up>>
  /\ left' = IF up' = RNone THEN left \ {g} ELSE left
  /\ UNCHANGED <<rs, rpc, listed, total>>

\* mutant: the walk ends at the first game that is missing
UpIfFound(g) == IF up \in rs.games /\ rs.found[up] # <<>> THEN rs.romof[up] ELSE RNone

\* mutant: the walk does not leave a game that is not in the list
UpOrStay(g) == IF up \in rs.games THEN rs.romof[up] ELSE up

UpNext(g) == IF up \in rs.games THEN rs.romof[up] ELSE RNone

\* "requires missing rom": the game above is not in the list, or has no archive.
ReportAbove(g) ==
  /\ rpc = "zip" /\ up # RNone /\ At(g)
  /\ lines' = IF up \notin rs.games \/ rs.found[up] = <<>> THEN lines \cup {<<"missing", g, up>>} ELSE lines
  /\ up' = UpNext(g)
  /\ left' = IF up' = RNone THEN left \ {g} ELSE left
  /\ UNCHANGED <<rs, rpc, listed, total>>

ReportNext ==
  \/ \E g \in left : ReportDup(g) \/ ReportGame(g) \/ ReportZip(g) \/ ReportAbove(g)
  \/ ReportLoopEnds

\* One thread that waits for nothing.
ReportSpec == ReportInit /\ [][ReportNext]_reportVars /\ WF_reportVars(ReportNext)

-----------------------------------------------------------------------------
\* The state is well formed; only roms have a size.
ReportTypeOK ==
  /\ rs \in ReportStart
  /\ rpc \in {"dup", "good", "bad", "miss", "zip", "done"}
  /\ left \subseteq rs.games
  /\ \A l \in DOMAIN listed : listed[l] \subseteq rs.games
  /\ \A l \in DOMAIN total, p \in {"parent", "clone"} :
       /\ total[l][p] \in [count : Nat, size : Nat, zip : Nat]
       /\ rs.kind # "rom" => total[l][p].size = 0
  /\ up \in RGame \cup {RNone}
  /\ lines \subseteq {"duplicate", "preliminary", "but", "incomplete", "missing"} \X RGame \X RGame

RClosed(S) == \A x \in S \cap rs.games : rs.romof[x] # RNone => rs.romof[x] \in S
\* The games above g, as far as they are in the list, and the first that is not.
UpFrom(g) == {h \in RGame : \A S \in SUBSET RGame : g \in S /\ RClosed(S) => h \in S}
RGrounded == \A g, h \in rs.games : g # h /\ h \in UpFrom(g) => g \notin UpFrom(h)

\* Every game a report is about is in exactly one of the lists good, bad and
\* missing, though each list has a condition of its own (report_*_set).
OneList ==
  rpc = "done" =>
    \A g \in rs.games : required(g) \/ rs.kind = "rom" =>
      Cardinality({l \in Classes : g \in listed[l]}) = 1

\* The sizes of the three lists add up to that of all the games with a romset,
\* as the percentage needs it (total_percentage).
SizesAddUp ==
  rpc = "done" /\ rs.kind = "rom" =>
    MapThenSumSet(LAMBDA x : total[x[1]][x[2]].size, Classes \X {"parent", "clone"})
      = MapThenSumSet(size_get, {g \in rs.games : required(g)})

\* The archives that a report of good sets counts are there: the size is no
\* larger than that of all the good ones, and none only if none is.
ZipSizeReal ==
  rpc = "done" /\ rs.kind # "disk" =>
    \A p \in {"parent", "clone"} :
      LET G == {g \in listed["good"] : Tested(g) /\ Part(g) = p} IN
      /\ \A g \in G : \A i \in Zips(g) : i.good => i.size >= good_size(g)
      /\ total["good"][p].zip = 0 <=> \A g \in G : \A i \in Zips(g) : i.good => i.size = 0

\* A game that --report calls bad, --report-file calls incomplete; if nothing
\* is incomplete, every game is good or missing.
ReportsAgree ==
  rpc = "done" /\ rs.kind = "rom" => \A g \in listed["bad"] : <<"incomplete", g, g>> \in lines

\* The lists of --report are a partition, and their sums are of what is in it.
ListsTrue == ReportTypeOK /\ OneList /\ SizesAddUp /\ ZipSizeReal

\* A game that has its archive is said to miss exactly those of the games above
\* it that have none, however far up, also beyond one that has none: nothing
\* is in its way when "All the dependencies are satisfied" (report_rom_set_zip).
MissingTrue ==
  rpc = "done" /\ rs.kind = "rom" =>
    \A g \in rs.games : required(g) /\ rs.found[g] # <<>> =>
      \A h \in UpFrom(g) \ {g} :
        <<"missing", g, h>> \in lines <=> h \notin rs.games \/ rs.found[h] = <<>>

\* A game is called preliminary if neither it nor a game below it that has its
\* roms works; if one below works, it is named (has_working_clone_with_rom).
PreliminaryTrue ==
  rpc = "done" /\ rs.kind = "rom" =>
    \A g \in rs.games : required(g) /\ rs.found[g] # <<>> /\ g \notin rs.resource =>
      LET below == {h \in rs.games : g \in UpFrom(h)} IN
      /\ <<"preliminary", g, g>> \in lines <=> ~\E h \in below \cap rs.working : has_good(h) \/ h = g
      /\ <<"preliminary", g, g>> \in lines =>
           {h \in RGame : <<"but", g, h>> \in lines} = below \cap rs.working

\* --report-file says of a game what it depends on, whether it works, and no
\* other than --report of the game itself.
Dependencies == MissingTrue /\ PreliminaryTrue /\ ReportsAgree

\* The report ends, if the parents go round in no circle.
Reported == RGrounded ~> rpc = "done"
=============================================================================
