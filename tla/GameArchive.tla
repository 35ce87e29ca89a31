---------------------------- MODULE GameArchive ----------------------------
(***************************************************************************)
(* The game database as gamearchive::load makes it from the information    *)
(* file: what a game has in common with the games above it (romof,         *)
(* sampleof) is removed from it, so that each file belongs in one archive  *)
(* of a chain; then the working games and those they need are marked, and  *)
(* the list is filtered.                                                   *)
(*                                                                         *)
(* A game is its rank in the order of names, in which the games are        *)
(* visited.  A rom is told apart by size and crc, a disk and a sample by   *)
(* name; roms and disks go together.                                       *)
(***************************************************************************)
EXTENDS Naturals, FiniteSets

CONSTANTS
  Game,  \* names of games, by rank
  Part,  \* what a game is made of
  Start  \* what the information file may say: [games, of, has, working, resource]

NoGame == 0
Kind == {"rom", "sample"}
Filters == {"", "working", "preliminary", "working_parent", "working_clone"}

ASSUME GameAssumption ==
  /\ Game \subseteq Nat \ {NoGame}
  /\ \A s \in Start : /\ s.games \subseteq Game /\ IsFiniteSet(s.games)
                      /\ s.of \in [Kind -> [Game -> Game \cup {NoGame}]]
                      /\ s.has \in [Kind -> [Game -> SUBSET Part]]
                      /\ s.working \subseteq Game /\ s.resource \subseteq Game

VARIABLES
  games,  \* gamearchive::map
  of,     \* romof and sampleof; a name that is not in games is of no game
  has,    \* the roms (rs, ds) and samples (ss) of a game
  subset, \* the games flagged working_subset and working_parent_subset
  pc,
  todo,   \* the games not reduced yet
  walk,   \* the walk in progress: the game, and the one above it that is next
  filter, \* the option --filter
  start   \* history: what the file said

vars == <<games, of, has, subset, pc, todo, walk, filter, start>>

NoWalk == [kind |-> "rom", game |-> NoGame, at |-> NoGame]

Init ==
  /\ start \in Start /\ filter = ""
  /\ games = start.games /\ of = start.of /\ has = start.has
  /\ subset = [working |-> {}, parent |-> {}]
  /\ pc = "reduce" /\ todo = games /\ walk = NoWalk

-----------------------------------------------------------------------------
(* load: the merged parts are removed.                                     *)

ReduceGame(g) ==
  /\ pc = "reduce" /\ walk = NoWalk
  /\ g \in todo /\ \A h \in todo : g <= h
  /\ todo' = todo \ {g}
  /\ walk' = [kind |-> "rom", game |-> g, at |-> of["rom"][g]]
  /\ UNCHANGED <<games, of, has, subset, pc, filter, start>>

\* mutant: a game that is its own parent is not noticed
MeetsItself == walk # NoWalk /\ walk.at \in games

\* "if itself, breaks now"
Meets == walk # NoWalk /\ walk.at \in games /\ walk.at # walk.game

\* mutant: the walk goes on at a game that is its own parent
AboveItself(k, g) == of[k][g]
\* mutant: only the parent is looked at
NoneAbove(k, g) == NoGame

Above(k, g) == IF of[k][g] = g THEN NoGame ELSE of[k][g]

ReduceStep ==
  /\ Meets
  /\ has' = [has EXCEPT ![walk.kind][walk.game] = @ \ has[walk.kind][walk.at]]
  /\ walk' = [walk EXCEPT !.at = Above(walk.kind, walk.at)]
  /\ UNCHANGED <<games, of, subset, pc, todo, filter, start>>

ReduceStops ==
  /\ walk # NoWalk /\ ~Meets
  /\ walk' = IF walk.kind = "rom"
             THEN [kind |-> "sample", game |-> walk.game, at |-> of["sample"][walk.game]]
             ELSE NoWalk
  /\ UNCHANGED <<games, of, has, subset, pc, todo, filter, start>>

\* mutant: only the missing games are looked for
Missing(k, g) == of[k][g] \notin games

Invalid(k, g) == of[k][g] \notin games \ {g}

\* Parents that are missing or the game itself are forgotten.
Adjust ==
  /\ pc = "reduce" /\ todo = {} /\ walk = NoWalk
  /\ of' = [k \in Kind |-> [g \in Game |-> IF Invalid(k, g) THEN NoGame ELSE of[k][g]]]
  /\ pc' = "subset"
  /\ UNCHANGED <<games, has, subset, todo, walk, filter, start>>

-----------------------------------------------------------------------------
(* load: the working subsets; filter.                                      *)

rom_son(g) == {h \in games : of["rom"][h] = g}

\* mutant: games below a resource are not parents
IsOrphan(g) == of["rom"][g] \notin games

is_game_parent(g) == of["rom"][g] \notin games \/ of["rom"][g] \in start.resource

Roots == {g \in games \ start.resource : is_game_parent(g)}

\* No tree is deeper than the number of games.
Depth == Cardinality(games)

\* mutant: what the sons return is not looked at
game_working_only(g) ==
  LET marks[n \in 0..Depth] == [h \in Game |->
        (IF h \in start.working THEN {h} ELSE {})
        \cup IF n = 0 THEN {} ELSE UNION {marks[n - 1][s] : s \in rom_son(h)}]
  IN marks[Depth][g]

\* What game_working_subset_compute marks from g on: the working games below
\* it, and all between them and g.
game_working_subset_compute(g) ==
  LET marks[n \in 0..Depth] == [h \in Game |->
        LET below == IF n = 0 THEN {} ELSE UNION {marks[n - 1][s] : s \in rom_son(h)}
        IN IF h \in start.working \/ below # {} THEN {h} \cup below ELSE {}]
  IN marks[Depth][g]

\* mutant: the loop is not left at the first working son
game_working_parent_unbroken(g) ==
  LET marks[n \in 0..Depth] == [h \in Game |->
        LET below == IF n = 0 THEN {} ELSE UNION {marks[n - 1][s] : s \in rom_son(h)}
        IN IF h \in start.working THEN {h} ELSE IF below # {} THEN {h} \cup below ELSE {}]
  IN marks[Depth][g]

\* What game_working_parent_subset_compute marks: the way from g to the first
\* working game, depth first, sons by name.
game_working_parent_subset_compute(g) ==
  LET marks[n \in 0..Depth] == [h \in Game |->
        LET sons == IF n = 0 THEN {} ELSE {s \in rom_son(h) : marks[n - 1][s] # {}}
        IN IF h \in start.working THEN {h}
           ELSE IF sons = {} THEN {}
           ELSE {h} \cup marks[n - 1][CHOOSE s \in sons : \A t \in sons : s <= t]]
  IN marks[Depth][g]

Subsets ==
  /\ pc = "subset"
  /\ LET resources == games \cap start.resource IN
     subset' = [working |-> resources \cup UNION {game_working_subset_compute(g) : g \in Roots},
                parent |-> resources \cup UNION {game_working_parent_subset_compute(g) : g \in Roots}]
  /\ pc' = "filter"
  /\ UNCHANGED <<games, of, has, todo, walk, filter, start>>

Filtered(f) ==
  CASE f = "" -> games
    [] f = "working" -> games \cap subset.working
    [] f = "preliminary" -> games \ subset.working
    [] f = "working_parent" -> games \cap subset.working \cap subset.parent
    [] f = "working_clone" -> (games \cap subset.working) \ subset.parent

Filter(f) ==
  /\ pc = "filter"
  /\ filter' = f /\ games' = Filtered(f)
  /\ pc' = "done"
  /\ UNCHANGED <<of, has, subset, todo, walk, start>>

Next ==
  \/ \E g \in Game : ReduceGame(g)
  \/ ReduceStep \/ ReduceStops \/ Adjust \/ Subsets
  \/ \E f \in Filters : Filter(f)

\* One thread without waiting.
Fairness == WF_vars(Next)

Spec == Init /\ [][Next]_vars
FairSpec == Spec /\ Fairness
-----------------------------------------------------------------------------
Walks == [kind : Kind, game : Game \cup {NoGame}, at : Game \cup {NoGame}]

TypeOK ==
  /\ games \subseteq Game
  /\ of \in [Kind -> [Game -> Game \cup {NoGame}]]
  /\ has \in [Kind -> [Game -> SUBSET Part]]
  /\ subset \in [working : SUBSET Game, parent : SUBSET Game]
  /\ pc \in {"reduce", "subset", "filter", "done"}
  /\ todo \subseteq start.games
  /\ walk \in Walks
  /\ filter \in Filters
  /\ pc \in {"subset", "filter"} => \A k \in Kind, g \in Game : of[k][g] \in (games \ {g}) \cup {NoGame}

\* g and the games above it in the file.
Closed(k, S) == \A x \in S : start.of[k][x] \in start.games => start.of[k][x] \in S
Chain(k, g) == {h \in Game : \A S \in SUBSET Game : g \in S /\ Closed(k, S) => h \in S}

\* Differential merging takes a file from a game only while a game above it
\* has it: at no time is there one that no archive of its chain has, in
\* whatever order the games are reduced, and though the reduction reads sets
\* that are reduced themselves (gamearchive::load).
KeptInChain ==
  \A k \in Kind, g \in start.games :
    start.has[k][g] \subseteq UNION {has[k][h] : h \in Chain(k, g)}

\* The reduction leaves what is in no game above: the order does not matter.
Merged ==
  pc # "reduce" =>
    \A k \in Kind, g \in start.games :
      LET above == Chain(k, g) \ {g} IN
      (\A h \in above : g \notin Chain(k, h)) =>
        has[k][g] = start.has[k][g] \ UNION {start.has[k][h] : h \in above}

\* The parents go round in no circle.
Grounded == \A g, h \in start.games : g # h /\ h \in Chain("rom", g) => g \notin Chain("rom", h)

\* Only resources are above a resource.
Layered ==
  \A g \in start.games \cap start.resource :
    start.of["rom"][g] \in start.games => start.of["rom"][g] \in start.resource

\* A game that one of these filters keeps finds all its roms in the archives
\* kept, though they are merged before the filter drops games.
Whole ==
  pc = "done" /\ filter \in {"", "working", "working_parent"} /\ Layered =>
    \A g \in games :
      start.has["rom"][g] \subseteq UNION {has["rom"][h] : h \in Chain("rom", g) \cap games}

\* A game is in the working subset if it is a resource, works, or is needed
\* by one that works (doc/advscan.d:344).
WorkingMeansNeeded ==
  pc = "filter" /\ Grounded =>
    subset.working = (start.resource \cap games) \cup
                     UNION {Chain("rom", g) : g \in games \cap start.working}

\* Of a family, a parent with its clones, the working_parent subset has one
\* game that works, if any does (doc/advscan.d:352).
OneOfFamily ==
  pc = "filter" /\ Layered =>
    \A g \in Roots :
      LET family == {h \in games : g \in Chain("rom", h)}
      IN family \cap start.resource = {} /\ family \cap start.working # {} =>
           Cardinality(family \cap subset.parent \cap start.working) = 1

\* A game has, in the archives kept, what it had in the file, once; and the
\* subsets keep what they say.
GamesComplete == Merged /\ Whole /\ WorkingMeansNeeded /\ OneOfFamily

\* The load ends (the walks along romof and sampleof do).
Terminates == <>(pc = "done")
=============================================================================
