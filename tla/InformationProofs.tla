-------------------------- MODULE InformationProofs -------------------------
(***************************************************************************)
(* What is said of the information that a run is given: the directories of *)
(* its configuration, the readers of the information file, and the games.  *)
(***************************************************************************)
EXTENDS Information, Iteration, SequenceTheorems

-----------------------------------------------------------------------------
(* The merge of the games, for every set of games, whatever the parents:   *)
(* with circles, missing games, and games that are their own parents.      *)

\* What is known of a walk: it is over the sets of a game of the file, and
\* the game it looks at next, if there is one, is in the chain of that game.
WalkInChain ==
  /\ walk \in Walks
  /\ walk # NoWalk =>
    /\ pc = "reduce"
    /\ walk.game \in start.games
    /\ walk.at \in start.games => walk.at \in Chain(walk.kind, walk.game)

\* While the sets are reduced, games and parents are as in the file.
AsInFile == pc = "reduce" => games = start.games /\ of = start.of /\ todo \subseteq games

HasTyped == has \in [Kind -> [Game -> SUBSET Part]]

KInv == start \in Start /\ HasTyped /\ AsInFile /\ WalkInChain /\ KeptInChain

-----------------------------------------------------------------------------
(* A chain contains its game, the parent of each of its games that is in   *)
(* the file, and the chain of each of its games.                           *)

LEMMA ChainSelf ==
  ASSUME NEW k \in Kind, NEW g \in Game
  PROVE  g \in Chain(k, g)
BY DEF Chain

LEMMA ChainUp ==
  ASSUME NEW k \in Kind, NEW g \in Game, NEW h \in Chain(k, g),
         start \in Start, start.of[k][h] \in start.games
  PROVE  start.of[k][h] \in Chain(k, g)
<1>1. start.of[k][h] \in Game BY GameAssumption
<1>2. ASSUME NEW S \in SUBSET Game, g \in S, Closed(k, S) PROVE start.of[k][h] \in S
  BY <1>2 DEF Chain, Closed
<1> QED BY <1>1, <1>2 DEF Chain

LEMMA ChainTransitive ==
  ASSUME NEW k \in Kind, NEW g \in Game, NEW h \in Chain(k, g), NEW a \in Chain(k, h)
  PROVE  a \in Chain(k, g)
BY DEF Chain

-----------------------------------------------------------------------------
LEMMA KInit == Init => KInv
<1> SUFFICES ASSUME Init PROVE KInv OBVIOUS
<1>1. start \in Start /\ HasTyped BY GameAssumption DEF Init, HasTyped
<1>2. AsInFile /\ WalkInChain BY DEF Init, AsInFile, WalkInChain, NoWalk, Walks, Kind
<1>3. KeptInChain
  <2> SUFFICES ASSUME NEW k \in Kind, NEW g \in start.games, NEW x \in start.has[k][g]
               PROVE  \E h \in Chain(k, g) : x \in has[k][h]
    BY DEF KeptInChain
  <2>1. g \in Game BY GameAssumption DEF Init
  <2> QED BY <2>1, ChainSelf DEF Init
<1> QED BY <1>1, <1>2, <1>3 DEF KInv

\* Chains are of the file, that no step changes.
LEMMA ChainStays ==
  ASSUME start' = start, NEW k, NEW g
  PROVE  Chain(k, g)' = Chain(k, g)
BY DEF Chain, Closed

\* A step that leaves the sets alone leaves KeptInChain alone.
LEMMA KeptStays ==
  ASSUME KeptInChain, UNCHANGED <<start, has>>
  PROVE  KeptInChain'
<1>1. ASSUME NEW k, NEW g PROVE Chain(k, g)' = Chain(k, g) BY ChainStays
<1> QED BY <1>1 DEF KeptInChain

\* The first game above, when a walk starts.
LEMMA WalkStarts ==
  ASSUME start \in Start, of = start.of, NEW k \in Kind, NEW g \in start.games,
         of[k][g] \in start.games
  PROVE  of[k][g] \in Chain(k, g)
<1>1. g \in Game BY GameAssumption
<1> QED BY <1>1, ChainSelf, ChainUp

LEMMA ParentTyped ==
  ASSUME start \in Start, of = start.of, NEW k \in Kind, NEW g \in Game
  PROVE  of[k][g] \in Game \cup {NoGame}
BY GameAssumption

LEMMA KReduceGame ==
  ASSUME KInv, NEW g \in Game, ReduceGame(g)
  PROVE  KInv'
<1> USE DEF KInv
<1>1. UNCHANGED <<start, games, of, has, pc>> /\ pc = "reduce" /\ g \in start.games
  BY DEF ReduceGame, AsInFile
<1>2. start' \in Start /\ HasTyped' /\ AsInFile'
  BY <1>1 DEF ReduceGame, HasTyped, AsInFile
<1>3. WalkInChain'
  <2>1. walk' = [kind |-> "rom", game |-> g, at |-> of["rom"][g]] /\ of = start.of
    BY <1>1 DEF ReduceGame, AsInFile
  <2>2. walk' \in Walks BY <2>1, ParentTyped DEF Walks, Kind
  <2>3. ASSUME of["rom"][g] \in start.games PROVE of["rom"][g] \in Chain("rom", g)
    BY <1>1, <2>1, <2>3, WalkStarts DEF Kind
  <2>4. Chain("rom", g)' = Chain("rom", g) BY <1>1, ChainStays
  <2> QED BY <1>1, <2>1, <2>2, <2>3, <2>4 DEF WalkInChain
<1>4. KeptInChain' BY <1>1, KeptStays
<1> QED BY <1>2, <1>3, <1>4

LEMMA KReduceStops ==
  ASSUME KInv, ReduceStops
  PROVE  KInv'
<1> USE DEF KInv
<1> PICK g : g = walk.game OBVIOUS
<1>1. /\ UNCHANGED <<start, games, of, has, pc, todo>>
      /\ pc = "reduce" /\ of = start.of /\ g \in start.games /\ g \in Game
  BY GameAssumption DEF ReduceStops, WalkInChain, AsInFile
<1>2. start' \in Start /\ HasTyped' /\ AsInFile'
  BY <1>1 DEF HasTyped, AsInFile
<1>3. WalkInChain'
  <2>1. CASE walk.kind = "rom"
    <3>1. walk' = [kind |-> "sample", game |-> g, at |-> of["sample"][g]]
      BY <2>1 DEF ReduceStops
    <3>2. walk' \in Walks BY <1>1, <3>1, ParentTyped DEF Walks, Kind
    <3>3. ASSUME of["sample"][g] \in start.games PROVE of["sample"][g] \in Chain("sample", g)
      BY <1>1, <3>3, WalkStarts DEF Kind
    <3>4. Chain("sample", g)' = Chain("sample", g) BY <1>1, ChainStays
    <3> QED BY <1>1, <3>1, <3>2, <3>3, <3>4 DEF WalkInChain
  <2>2. CASE walk.kind # "rom"
    BY <2>2 DEF ReduceStops, WalkInChain, Walks, NoWalk, Kind
  <2> QED BY <2>1, <2>2
<1>4. KeptInChain' BY <1>1, KeptStays
<1> QED BY <1>2, <1>3, <1>4

\* What is removed is in the set of another game of the chain.
LEMMA KReduceStep ==
  ASSUME KInv, ReduceStep
  PROVE  KInv'
<1> USE DEF KInv
<1> DEFINE c == walk.kind  w == walk.game  a == walk.at
<1>1. /\ UNCHANGED <<start, games, of, pc, todo>>
      /\ pc = "reduce" /\ games = start.games /\ of = start.of
      /\ w \in start.games /\ a \in start.games /\ a # w /\ a \in Chain(c, w)
  BY DEF ReduceStep, Meets, WalkInChain, AsInFile
<1>2. start.games \subseteq Game /\ c \in Kind BY GameAssumption DEF WalkInChain, Walks
<1>3. has' = [has EXCEPT ![c][w] = @ \ has[c][a]] BY DEF ReduceStep
<1>4. start' \in Start /\ AsInFile' BY <1>1 DEF AsInFile
<1>5. HasTyped' BY <1>1, <1>2, <1>3 DEF HasTyped
<1>6. ASSUME NEW k, NEW g PROVE Chain(k, g)' = Chain(k, g) BY <1>1, ChainStays
<1>7. WalkInChain'
  <2>1. walk' = [walk EXCEPT !.at = Above(c, a)] BY DEF ReduceStep
  <2>2. walk'.kind = c /\ walk'.game = w /\ walk'.at = Above(c, a)
    BY <2>1 DEF WalkInChain, Walks
  <2>3. walk' \in Walks
    BY <1>1, <1>2, <2>1, ParentTyped DEF Walks, Above, WalkInChain
  <2>4. ASSUME Above(c, a) \in start.games PROVE Above(c, a) \in Chain(c, w)
    <3>1. NoGame \notin start.games BY GameAssumption
    <3>2. Above(c, a) = start.of[c][a] BY <1>1, <2>4, <3>1 DEF Above
    <3> QED BY <1>1, <1>2, <2>4, <3>2, ChainUp
  <2> QED BY <1>1, <1>6, <2>2, <2>3, <2>4 DEF WalkInChain
<1>8. KeptInChain'
  <2> SUFFICES ASSUME NEW k \in Kind, NEW g \in start.games, NEW x \in start.has[k][g]
               PROVE  \E h \in Chain(k, g) : x \in has'[k][h]
    BY <1>1, <1>6 DEF KeptInChain
  <2>1. PICK h \in Chain(k, g) : x \in has[k][h] BY DEF KeptInChain
  <2>2. g \in Game /\ h \in Game /\ a \in Game /\ w \in Game BY <1>1, <1>2 DEF Chain
  <2>3. CASE x \in has'[k][h] BY <2>1, <2>3
  <2>4. CASE x \notin has'[k][h]
    <3>1. k = c /\ h = w /\ x \in has[k][a]
      BY <1>2, <1>3, <2>1, <2>2, <2>4 DEF HasTyped
    <3>2. x \in has'[k][a] BY <1>1, <1>2, <1>3, <2>2, <3>1 DEF HasTyped
    <3>3. a \in Chain(k, g) BY <1>1, <2>1, <2>2, <3>1, ChainTransitive
    <3> QED BY <3>2, <3>3
  <2> QED BY <2>3, <2>4
<1> QED BY <1>4, <1>5, <1>7, <1>8

\* From here on the sets are as they are, and no walk is in progress.
LEMMA KRest ==
  ASSUME KInv, \/ Adjust \/ Subsets \/ (\E f \in Filters : Filter(f)) \/ UNCHANGED vars
  PROVE  KInv'
<1> USE DEF KInv
<1>1. UNCHANGED <<start, has, walk>> BY DEF Adjust, Subsets, Filter, vars
<1>2. start' \in Start /\ HasTyped' BY <1>1 DEF HasTyped
<1>3. AsInFile' BY DEF Adjust, Subsets, Filter, vars, AsInFile
<1>4. walk # NoWalk => pc' = "reduce"
  BY DEF Adjust, Subsets, Filter, vars, WalkInChain
<1>5. Chain(walk.kind, walk.game)' = Chain(walk.kind, walk.game) BY <1>1, ChainStays
<1>6. WalkInChain' BY <1>1, <1>4, <1>5 DEF WalkInChain
<1>7. KeptInChain' BY <1>1, KeptStays
<1> QED BY <1>2, <1>3, <1>6, <1>7

\* At no time is there a file of a game that no archive of its chain has:
\* whatever the parents and the order (gamearchive::load).
THEOREM KeptCorrect == Spec => []KeptInChain
<1>1. ASSUME KInv, [Next]_vars PROVE KInv'
  <2>1. CASE \E g \in Game : ReduceGame(g) BY <1>1, <2>1, KReduceGame
  <2>2. CASE ReduceStep BY <1>1, <2>2, KReduceStep
  <2>3. CASE ReduceStops BY <1>1, <2>3, KReduceStops
  <2>4. CASE Adjust \/ Subsets \/ (\E f \in Filters : Filter(f)) \/ UNCHANGED vars
    BY <1>1, <2>4, KRest
  <2> QED BY <1>1, <2>1, <2>2, <2>3, <2>4 DEF Next
<1>2. KInv => KeptInChain BY DEF KInv
<1> QED BY KInit, <1>1, <1>2, PTL DEF Spec
-----------------------------------------------------------------------------
(* Merged: once a game is reduced, it has nothing that the file says of a  *)
(* game above it.  The walk takes away what the games above have left; by  *)
(* KeptInChain that is all they had, if the game is not above itself.      *)

Over(k, g) == Chain(k, g) \ {g}
Straight(k, g) == \A h \in Over(k, g) : g \notin Chain(k, h)

\* The walk over this set of g is over.
Passed(k, g) == g \notin todo /\ ~(walk.game = g /\ walk.kind \in {"rom", k})

\* The games the walk has still to meet.
Ahead == IF walk.at \in start.games THEN Chain(walk.kind, walk.at) ELSE {}

OnlyLess == \A k \in Kind, g \in Game : has[k][g] \subseteq start.has[k][g]

WalkInv ==
  /\ pc # "reduce" => todo = {}
  /\ walk # NoWalk /\ Straight(walk.kind, walk.game) =>
       /\ \A h \in Over(walk.kind, walk.game) \ Ahead :
            has[walk.kind][walk.game] \cap has[walk.kind][h] = {}
       /\ walk.at = walk.game => Over(walk.kind, walk.game) = {}
  /\ walk # NoWalk => walk.game \notin todo

Reduced(k, g) == \A h \in Over(k, g) : has[k][g] \cap start.has[k][h] = {}

ReducedInv ==
  \A k \in Kind, g \in start.games : Passed(k, g) /\ Straight(k, g) => Reduced(k, g)

MInv == KInv /\ OnlyLess /\ WalkInv /\ ReducedInv

\* The chain of a game: the game, and the chain of the game above it.
LEMMA ChainSplit ==
  ASSUME start \in Start, NEW k \in Kind, NEW g \in Game, NEW h \in Over(k, g)
  PROVE  /\ start.of[k][g] \in start.games /\ start.of[k][g] # g
         /\ h \in Chain(k, start.of[k][g])
<1> DEFINE a == start.of[k][g]
<1>1. start.games \subseteq Game
  BY GameAssumption
<1>2. ASSUME a \notin start.games \/ a = g PROVE FALSE
  <2>1. Closed(k, {g}) /\ {g} \in SUBSET Game
    BY <1>2 DEF Closed
  <2> QED BY <2>1 DEF Over, Chain
<1>3. a \in Game /\ a \in start.games
  BY <1>1, <1>2
<1>4. h \in Chain(k, a)
  <2> DEFINE S == {g} \cup Chain(k, a)
  <2>1. S \in SUBSET Game
    BY DEF Chain
  <2>2. ASSUME NEW x \in S, start.of[k][x] \in start.games PROVE start.of[k][x] \in S
    <3>1. CASE x = g
      BY <1>3, <3>1, ChainSelf
    <3>2. CASE x \in Chain(k, a)
      BY <1>3, <2>2, <3>2, ChainUp
    <3> QED BY <3>1, <3>2
  <2>3. Closed(k, S) /\ g \in S
    BY <2>2 DEF Closed
  <2>4. h \in S
    BY <2>1, <2>3 DEF Over, Chain
  <2> QED BY <2>4 DEF Over
<1> QED BY <1>2, <1>3, <1>4

\* The games that a walk meets first.
LEMMA WalkAhead ==
  ASSUME KInv, of = start.of, NEW k \in Kind, NEW g \in start.games,
         walk' = [kind |-> k, game |-> g, at |-> of[k][g]], start' = start
  PROVE  /\ Over(k, g)' \subseteq Ahead'
         /\ walk'.at = g => Over(k, g)' = {}
<1>1. g \in Game /\ start \in Start
  BY GameAssumption DEF KInv
<1>2. Over(k, g)' = Over(k, g)
  BY ChainStays DEF Over
<1>3. Ahead' = IF of[k][g] \in start.games THEN Chain(k, of[k][g]) ELSE {}
  <2>1. walk'.at = of[k][g] /\ walk'.kind = k
    OBVIOUS
  <2>2. Chain(walk.kind, walk.at)' = Chain(k, of[k][g])
    BY <2>1 DEF Chain, Closed
  <2> QED BY <2>1, <2>2 DEF Ahead
<1>4. \A h \in Over(k, g) : /\ of[k][g] \in start.games /\ of[k][g] # g
                            /\ h \in Chain(k, of[k][g])
  BY <1>1, ChainSplit
<1>5. walk'.at = of[k][g]
  OBVIOUS
<1> QED BY <1>2, <1>3, <1>4, <1>5

LEMMA MInit == Init => MInv
<1> SUFFICES ASSUME Init PROVE MInv
  OBVIOUS
<1>1. KInv
  BY KInit
<1>2. OnlyLess /\ WalkInv
  BY DEF Init, OnlyLess, WalkInv
<1>3. ReducedInv
  BY DEF Init, ReducedInv, Passed
<1> QED BY <1>1, <1>2, <1>3 DEF MInv

\* What does not change with the chains.
LEMMA OverStays ==
  ASSUME start' = start, NEW k, NEW g
  PROVE  Over(k, g)' = Over(k, g) /\ Straight(k, g)' = Straight(k, g)
BY ChainStays DEF Over, Straight

\* A set that has been reduced stays so.
LEMMA ReducedStays ==
  ASSUME start' = start, NEW k \in Kind, NEW g, has'[k][g] \subseteq has[k][g], Reduced(k, g)
  PROVE  Reduced(k, g)'
BY OverStays DEF Reduced

LEMMA ReducedInvStays ==
  ASSUME MInv, start' = start,
         \A k \in Kind, g \in start.games : has'[k][g] \subseteq has[k][g],
         \A k \in Kind, g \in start.games : Passed(k, g)' => Passed(k, g)
  PROVE  ReducedInv'
<1> SUFFICES ASSUME NEW k \in Kind, NEW g \in start.games, Passed(k, g)', Straight(k, g)
             PROVE  Reduced(k, g)'
  BY OverStays DEF ReducedInv
<1>1. Reduced(k, g)
  BY DEF MInv, ReducedInv
<1> QED BY <1>1, ReducedStays

LEMMA MReduceGame ==
  ASSUME MInv, NEW g \in Game, ReduceGame(g)
  PROVE  MInv'
<1>1. KInv /\ KInv' /\ WalkInv
  BY KReduceGame DEF MInv
<1>2. /\ UNCHANGED <<start, games, of, has, pc>> /\ pc = "reduce" /\ g \in start.games
      /\ of = start.of /\ walk = NoWalk /\ todo' = todo \ {g}
      /\ walk' = [kind |-> "rom", game |-> g, at |-> of["rom"][g]]
  BY <1>1 DEF ReduceGame, KInv, AsInFile
<1>3. OnlyLess'
  BY <1>2 DEF MInv, OnlyLess
<1>4. WalkInv'
  <2>1. walk'.kind = "rom" /\ walk'.game = g
    BY <1>2
  <2>2. Over("rom", g)' \subseteq Ahead' /\ (walk'.at = g => Over("rom", g)' = {})
    BY <1>1, <1>2, WalkAhead DEF Kind
  <2>3. Over(walk.kind, walk.game)' = Over("rom", g)'
    BY <2>1 DEF Over, Chain, Closed
  <2> QED BY <1>2, <2>1, <2>2, <2>3 DEF WalkInv
<1>5. ReducedInv'
  <2>1. walk'.game = g /\ walk'.kind = "rom" /\ walk.game = NoGame /\ NoGame \notin start.games
    BY <1>1, <1>2, GameAssumption DEF NoWalk, KInv
  <2>2. \A k \in Kind, h \in start.games : Passed(k, h)' => Passed(k, h)
    BY <1>2, <2>1 DEF Passed
  <2> QED BY <1>2, <2>2, ReducedInvStays
<1> QED BY <1>1, <1>3, <1>4, <1>5 DEF MInv

\* At the end of a walk the set of its game has nothing that is above it.
LEMMA WalkReduces ==
  ASSUME MInv, walk # NoWalk, ~Meets, Straight(walk.kind, walk.game)
  PROVE  Reduced(walk.kind, walk.game)
<1> DEFINE c == walk.kind  w == walk.game
<1>1. /\ KInv /\ WalkInv /\ games = start.games /\ c \in Kind
      /\ w \in start.games /\ start.games \subseteq Game
  BY GameAssumption DEF MInv, KInv, WalkInChain, AsInFile, Walks
<1>2. \A h \in Over(c, w) : has[c][w] \cap has[c][h] = {}
  <2>1. walk.at \notin start.games \/ walk.at = w
    BY <1>1 DEF Meets
  <2> QED BY <1>1, <2>1 DEF WalkInv, Ahead
<1>3. ASSUME NEW h \in Over(c, w), NEW x \in start.has[c][h] PROVE x \notin has[c][w]
  <2>1. h \in Chain(c, w) /\ h \in Game /\ w \in Game
    BY <1>1 DEF Over, Chain
  <2>2. h \in start.games
    <3>1. Closed(c, {y \in Game : y = w \/ y \in start.games})
      BY <1>1 DEF Closed
    <3>2. {y \in Game : y = w \/ y \in start.games} \in SUBSET Game
      OBVIOUS
    <3> QED BY <1>1, <2>1, <3>1, <3>2 DEF Chain
  <2>3. PICK a \in Chain(c, h) : x \in has[c][a]
    BY <1>1, <2>2 DEF KInv, KeptInChain
  <2>4. a \in Chain(c, w)
    BY <1>1, <2>1, ChainTransitive
  <2>5. a # w
    BY DEF Straight
  <2> QED BY <1>2, <2>3, <2>4, <2>5 DEF Over
<1> QED BY <1>3 DEF Reduced

LEMMA MReduceStops ==
  ASSUME MInv, ReduceStops
  PROVE  MInv'
<1> DEFINE c == walk.kind
<1> PICK w : w = walk.game
  OBVIOUS
<1>1. KInv /\ KInv' /\ WalkInv /\ walk # NoWalk /\ ~Meets
  BY KReduceStops DEF MInv, ReduceStops
<1>2. /\ UNCHANGED <<start, games, of, has, pc, todo>>
      /\ pc = "reduce" /\ of = start.of /\ w \in start.games /\ w \in Game /\ w # NoGame
      /\ c \in Kind /\ w \notin todo
  BY <1>1, GameAssumption DEF ReduceStops, KInv, WalkInChain, AsInFile, Walks, WalkInv
<1>3. OnlyLess'
  BY <1>2 DEF MInv, OnlyLess
<1>4. \/ c = "rom" /\ walk' = [kind |-> "sample", game |-> w, at |-> of["sample"][w]]
      \/ c = "sample" /\ walk' = NoWalk
  BY <1>2 DEF ReduceStops, Kind
<1>5. WalkInv'
  <2>1. CASE walk' = NoWalk
    BY <1>1, <1>2, <2>1 DEF WalkInv
  <2>2. CASE c = "rom" /\ walk' = [kind |-> "sample", game |-> w, at |-> of["sample"][w]]
    <3>1. walk'.kind = "sample" /\ walk'.game = w
      BY <2>2
    <3>2. Over("sample", w)' \subseteq Ahead' /\ (walk'.at = w => Over("sample", w)' = {})
      BY <1>1, <1>2, <2>2, WalkAhead DEF Kind
    <3>3. Over(walk.kind, walk.game)' = Over("sample", w)'
      BY <3>1 DEF Over, Chain, Closed
    <3> QED BY <1>2, <3>1, <3>2, <3>3 DEF WalkInv
  <2> QED BY <1>4, <2>1, <2>2
<1>6. ReducedInv'
  <2> SUFFICES ASSUME NEW k \in Kind, NEW g \in start.games, Passed(k, g)', Straight(k, g)
               PROVE  Reduced(k, g)'
    BY <1>2, OverStays DEF ReducedInv
  <2>1. has' = has /\ start' = start
    BY <1>2
  <2>2. CASE Passed(k, g)
    <3>1. Reduced(k, g)
      BY <2>2 DEF MInv, ReducedInv
    <3> QED BY <2>1, <3>1, ReducedStays
  <2>3. CASE ~Passed(k, g)
    <3>1. g = w /\ k = c
      BY <1>2, <1>4, <2>3 DEF Passed, NoWalk, Kind
    <3>2. Reduced(k, g)
      BY <1>1, <3>1, WalkReduces
    <3> QED BY <2>1, <3>2, ReducedStays
  <2> QED BY <2>2, <2>3
<1> QED BY <1>1, <1>3, <1>5, <1>6 DEF MInv

LEMMA MReduceStep ==
  ASSUME MInv, ReduceStep
  PROVE  MInv'
<1> DEFINE c == walk.kind  w == walk.game  a == walk.at
<1>1. KInv /\ KInv' /\ WalkInv /\ OnlyLess
  BY KReduceStep DEF MInv
<1>2. /\ UNCHANGED <<start, games, of, pc, todo>>
      /\ pc = "reduce" /\ games = start.games /\ of = start.of /\ walk # NoWalk
      /\ w \in start.games /\ a \in start.games /\ a # w /\ a \in Chain(c, w)
      /\ start.games \subseteq Game /\ c \in Kind
  BY <1>1, GameAssumption DEF ReduceStep, Meets, KInv, WalkInChain, AsInFile, Walks
<1>3. /\ has'[c][w] = has[c][w] \ has[c][a]
      /\ \A k \in Kind, g \in Game : k # c \/ g # w => has'[k][g] = has[k][g]
  <2>1. has' = [has EXCEPT ![c][w] = @ \ has[c][a]] /\ has \in [Kind -> [Game -> SUBSET Part]]
    BY <1>1 DEF ReduceStep, KInv, HasTyped
  <2> HIDE DEF c, w, a
  <2> QED BY <1>2, <2>1
<1>4. \A k \in Kind, g \in Game : has'[k][g] \subseteq has[k][g]
  BY <1>3
<1>5. OnlyLess'
  BY <1>1, <1>2, <1>4 DEF OnlyLess
<1>6. walk'.kind = c /\ walk'.game = w /\ walk'.at = Above(c, a) /\ walk' # NoWalk
  <2>1. walk' = [walk EXCEPT !.at = Above(c, a)] /\ walk \in Walks
    BY <1>1 DEF ReduceStep, KInv, WalkInChain
  <2>2. w # NoGame
    BY <1>1, <1>2, GameAssumption DEF KInv
  <2> QED BY <2>1, <2>2 DEF Walks, NoWalk
<1>7. WalkInv'
  <2> DEFINE b == Above(c, a)
  <2>0. a \in Game /\ w \in Game /\ start \in Start /\ NoGame \notin start.games
    BY <1>1, <1>2, GameAssumption DEF KInv
  <2>1. Ahead' = IF b \in start.games THEN Chain(c, b) ELSE {}
    BY <1>2, <1>6 DEF Ahead, Chain, Closed
  <2>2. Over(walk.kind, walk.game)' = Over(c, w)
        /\ Straight(walk.kind, walk.game)' = Straight(c, w)
    BY <1>2, <1>6 DEF Over, Straight, Chain, Closed
  <2>3. ASSUME Straight(c, w), NEW h \in Over(c, w), h \notin Ahead'
        PROVE  has'[c][w] \cap has'[c][h] = {}
    <3>1. h \in Game /\ h # w /\ has'[c][h] = has[c][h]
      BY <1>2, <1>3 DEF Over, Chain
    <3>2. CASE h = a
      BY <1>3, <3>1, <3>2
    <3>3. CASE h # a
      <4>1. h \notin Chain(c, a)
        <5> SUFFICES ASSUME h \in Chain(c, a) PROVE FALSE
          OBVIOUS
        <5>1. h \in Over(c, a)
          BY <3>3 DEF Over
        <5>2. start.of[c][a] \in start.games /\ start.of[c][a] # a /\ h \in Chain(c, start.of[c][a])
          BY <1>2, <2>0, <5>1, ChainSplit
        <5>3. b = start.of[c][a]
          BY <1>2, <5>2 DEF Above
        <5> QED BY <2>1, <2>3, <5>2, <5>3
      <4>2. h \notin Ahead
        BY <1>2, <4>1 DEF Ahead
      <4>3. has[c][w] \cap has[c][h] = {}
        BY <1>1, <1>2, <2>3, <4>2 DEF WalkInv
      <4> QED BY <1>3, <3>1, <4>3
    <3> QED BY <3>2, <3>3
  <2>4. ASSUME Straight(c, w), b = w PROVE FALSE
    <3>1. start.of[c][a] = w /\ start.of[c][a] \in start.games
      BY <1>2, <2>0, <2>4 DEF Above
    <3>2. w \in Chain(c, a)
      BY <1>2, <2>0, <3>1, ChainSelf, ChainUp
    <3>3. a \in Over(c, w)
      BY <1>2 DEF Over
    <3> QED BY <2>4, <3>2, <3>3 DEF Straight
  <2>5. walk.game \notin todo
    BY <1>1, <1>2 DEF WalkInv
  <2> HIDE DEF b
  <2>6. ASSUME Straight(walk.kind, walk.game)'
        PROVE  /\ \A h \in Over(walk.kind, walk.game)' \ Ahead' :
                    has'[walk'.kind][walk'.game] \cap has'[walk'.kind][h] = {}
               /\ walk'.at = walk'.game => Over(walk.kind, walk.game)' = {}
    BY <1>6, <2>2, <2>3, <2>4, <2>6 DEF b
  <2> QED BY <1>2, <1>6, <2>5, <2>6 DEF WalkInv
<1>8. ReducedInv'
  <2>1. \A k \in Kind, g \in start.games : Passed(k, g)' => Passed(k, g)
    BY <1>2, <1>6 DEF Passed
  <2> QED BY <1>2, <1>4, <2>1, ReducedInvStays
<1> QED BY <1>1, <1>5, <1>7, <1>8 DEF MInv

LEMMA MRest ==
  ASSUME MInv, \/ Adjust \/ Subsets \/ (\E f \in Filters : Filter(f)) \/ UNCHANGED vars
  PROVE  MInv'
<1>1. KInv /\ KInv' /\ WalkInv
  BY KRest DEF MInv
<1>2. UNCHANGED <<start, has, walk, todo>>
  BY DEF Adjust, Subsets, Filter, vars
<1>3. OnlyLess'
  BY <1>2 DEF MInv, OnlyLess
<1>4. WalkInv'
  <2>1. pc' # "reduce" => todo' = {}
    BY <1>1 DEF Adjust, Subsets, Filter, vars, WalkInv
  <2>2. /\ Over(walk.kind, walk.game)' = Over(walk.kind, walk.game)
        /\ Straight(walk.kind, walk.game)' = Straight(walk.kind, walk.game)
        /\ Ahead' = Ahead
    BY <1>2 DEF Over, Straight, Ahead, Chain, Closed
  <2> QED BY <1>1, <1>2, <2>1, <2>2 DEF WalkInv
<1>5. ReducedInv'
  <2>1. \A k \in Kind, g \in start.games : Passed(k, g)' => Passed(k, g)
    BY <1>2 DEF Passed
  <2> QED BY <1>2, <2>1, ReducedInvStays
<1> QED BY <1>1, <1>3, <1>4, <1>5 DEF MInv

LEMMA MStep ==
  ASSUME MInv, [Next]_vars
  PROVE  MInv'
<1>1. CASE \E g \in Game : ReduceGame(g)
  BY <1>1, MReduceGame
<1>2. CASE ReduceStep
  BY <1>2, MReduceStep
<1>3. CASE ReduceStops
  BY <1>3, MReduceStops
<1>4. CASE Adjust \/ Subsets \/ (\E f \in Filters : Filter(f)) \/ UNCHANGED vars
  BY <1>4, MRest
<1> QED BY <1>1, <1>2, <1>3, <1>4 DEF Next

LEMMA MergedFromInv ==
  ASSUME MInv
  PROVE  Merged
<1> SUFFICES ASSUME pc # "reduce", NEW k \in Kind, NEW g \in start.games, Straight(k, g)
             PROVE  has[k][g] = start.has[k][g] \ UNION {start.has[k][h] : h \in Over(k, g)}
  BY DEF Merged, Straight, Over
<1>1. g \in Game /\ g # NoGame /\ start.games \subseteq Game
  BY GameAssumption DEF MInv, KInv
<1>2. Passed(k, g)
  BY <1>1 DEF MInv, KInv, WalkInv, WalkInChain, Passed, NoWalk
<1>3. Reduced(k, g)
  BY <1>2 DEF MInv, ReducedInv
<1>4. has[k][g] \subseteq start.has[k][g]
  BY <1>1 DEF MInv, OnlyLess
<1>5. ASSUME NEW x \in start.has[k][g], \A h \in Over(k, g) : x \notin start.has[k][h]
      PROVE  x \in has[k][g]
  <2>1. PICK h \in Chain(k, g) : x \in has[k][h]
    BY DEF MInv, KInv, KeptInChain
  <2>2. x \in start.has[k][h]
    BY <2>1 DEF MInv, OnlyLess, Chain
  <2> QED BY <1>5, <2>1, <2>2 DEF Over
<1> QED BY <1>3, <1>4, <1>5 DEF Reduced

\* When all are reduced, a game that is not above itself has just what the file
\* says of it and of no game above it, whatever the order of the games and
\* though the reduction reads sets that are reduced themselves
\* (gamearchive::load).
THEOREM MergedCorrect == Spec => []Merged
<1> QED BY MInit, MStep, MergedFromInv, PTL DEF Spec

-----------------------------------------------------------------------------
(* GamesComplete: what the filters keep.                                   *)

\* When the subsets are made, the games are those of the file, and the parents
\* are those that are there and another game.
RomParent(g) == start.of["rom"][g]
Settled ==
  /\ start \in Start /\ games = start.games
  /\ \A g \in Game : of["rom"][g] = IF RomParent(g) \in start.games \ {g} THEN RomParent(g) ELSE NoGame

LEMMA SettledFacts ==
  ASSUME Settled
  PROVE  /\ games \subseteq Game /\ IsFiniteSet(games) /\ Depth \in Nat
         /\ Game \subseteq Nat /\ NoGame \notin Game
         /\ \A h \in Game : rom_son(h) =
              {s \in games : RomParent(s) = h /\ h \in games /\ h # s}
         /\ \A h \in Game : rom_son(h) \subseteq games
<1>1. games \subseteq Game /\ IsFiniteSet(games) /\ Game \subseteq Nat /\ NoGame \notin Game
  BY GameAssumption DEF Settled
<1>2. Depth \in Nat
  BY <1>1, FS_CardinalityType DEF Depth
<1>3. ASSUME NEW h \in Game
      PROVE  /\ rom_son(h) = {s \in games : RomParent(s) = h /\ h \in games /\ h # s}
             /\ rom_son(h) \subseteq games
  <2>1. ASSUME NEW s \in games
        PROVE  of["rom"][s] = h <=> RomParent(s) = h /\ h \in games /\ h # s
    <3>1. s \in Game /\ of["rom"][s] = IF RomParent(s) \in games \ {s} THEN RomParent(s) ELSE NoGame
      BY <1>1 DEF Settled
    <3> QED BY <1>1, <3>1
  <2> QED BY <2>1 DEF rom_son
<1> QED BY <1>1, <1>2, <1>3

\* A son is a game whose chain has its parent.
LEMMA SonChain ==
  ASSUME Settled, NEW h \in Game, NEW s \in rom_son(h)
  PROVE  /\ s \in games /\ s \in Game /\ h \in games
         /\ h = RomParent(s) /\ h \in Chain("rom", s)
<1>1. s \in games /\ s \in Game /\ h \in games /\ h = RomParent(s) /\ h # s
  BY SettledFacts
<1>2. h \in Chain("rom", s)
  BY <1>1, ChainSelf, ChainUp DEF Settled, Kind, RomParent
<1> QED BY <1>1, <1>2

\* A chain is within every set that is closed, and within the games.
LEMMA ChainWithin ==
  ASSUME NEW k \in Kind, NEW S \in SUBSET Game, Closed(k, S), NEW g \in S
  PROVE  Chain(k, g) \subseteq S
BY DEF Chain

LEMMA ChainInGames ==
  ASSUME start \in Start, NEW k \in Kind, NEW g \in start.games
  PROVE  Chain(k, g) \subseteq start.games
<1>1. start.games \in SUBSET Game /\ Closed(k, start.games)
  BY GameAssumption DEF Closed
<1> QED BY <1>1, ChainWithin

\* What is found by going up from t, as often as there are games, is all that is
\* above it.
LEMMA UpReached ==
  ASSUME Settled, NEW t \in SUBSET games, NEW L \in [0..Depth -> SUBSET games], L[0] = t,
         \A n \in 1..Depth : L[n] = t \cup {h \in games : rom_son(h) \cap L[n - 1] # {}},
         NEW w \in t
  PROVE  Chain("rom", w) \subseteq L[Depth]
<1> DEFINE F == [A \in SUBSET games |-> t \cup {h \in games : rom_son(h) \cap A # {}}]
<1>1. F \in [SUBSET games -> SUBSET games] /\ t \subseteq F[t]
      /\ \A A, B \in SUBSET games : A \subseteq B => F[A] \subseteq F[B]
  OBVIOUS
<1>2. Iterates(L, F, t, Depth)
  <2>1. \A n \in 0..Depth : n # 0 => n \in 1..Depth /\ n - 1 \in 0..Depth
    BY SettledFacts
  <2>2. \A n \in 0..Depth : L[n] = IF n = 0 THEN t ELSE F[L[n - 1]]
    BY <2>1
  <2> QED BY <2>2 DEF Iterates
<1>3. F[L[Depth]] = L[Depth]
  <2>1. IsFiniteSet(games) /\ Depth = Cardinality(games)
    BY SettledFacts DEF Depth
  <2>2. L \in [0..Cardinality(games) -> SUBSET games] /\ Iterates(L, F, t, Cardinality(games))
    BY <1>2, <2>1
  <2> HIDE DEF F
  <2>3. F[L[Cardinality(games)]] = L[Cardinality(games)]
    <3>1. /\ IsFiniteSet(games) /\ F \in [SUBSET games -> SUBSET games] /\ t \in SUBSET games
          /\ t \subseteq F[t]
      BY <1>1, <2>1
    <3>2. \A A, B \in SUBSET games : A \subseteq B => F[A] \subseteq F[B]
      BY <1>1
    <3> QED BY ONLY <2>2, <3>1, <3>2, LevelsStop
  <2> QED BY <2>1, <2>3
<1>4. L[Depth] \in SUBSET games
  BY SettledFacts
<1>5. L[Depth] = t \cup {h \in games : rom_son(h) \cap L[Depth] # {}}
  BY <1>3, <1>4
<1>6. ASSUME NEW x \in L[Depth], RomParent(x) \in start.games PROVE RomParent(x) \in L[Depth]
  <2>1. CASE RomParent(x) = x
    BY <2>1
  <2>2. CASE RomParent(x) # x
    <3>1. RomParent(x) \in Game /\ RomParent(x) \in games /\ x \in games
      BY <1>4, <1>6, SettledFacts DEF Settled
    <3>2. x \in rom_son(RomParent(x))
      BY <2>2, <3>1, SettledFacts
    <3> QED BY <1>5, <3>1, <3>2
  <2> QED BY <2>1, <2>2
<1>7. Closed("rom", L[Depth])
  BY <1>6 DEF Closed, RomParent
<1>8. L[Depth] \in SUBSET Game /\ w \in L[Depth]
  BY <1>4, <1>5, SettledFacts
<1> QED BY <1>7, <1>8, ChainWithin DEF Kind

-----------------------------------------------------------------------------
(* What the two functions mark, by levels.                                 *)

Row == [Game -> SUBSET Game]
OwnMark(h) == IF h \in start.working THEN {h} ELSE {}
BelowIn(r, h) == UNION {r[s] : s \in rom_son(h)}
WorkRow(r) ==
  [h \in Game |-> IF h \in start.working \/ BelowIn(r, h) # {} THEN {h} \cup BelowIn(r, h) ELSE {}]
SonsIn(r, h) == {s \in rom_son(h) : r[s] # {}}
FirstIn(S) == CHOOSE s \in S : \A t \in S : s <= t
ParentRow(r) ==
  [h \in Game |-> IF h \in start.working THEN {h}
                  ELSE IF SonsIn(r, h) = {} THEN {} ELSE {h} \cup r[FirstIn(SonsIn(r, h))]]

IsMarks(m, row(_)) ==
  /\ m \in [0..Depth -> Row]
  /\ m[0] = [h \in Game |-> OwnMark(h)]
  /\ \A n \in 1..Depth : m[n] = row(m[n - 1])

LEMMA FirstOf ==
  ASSUME NEW S \in SUBSET Nat, S # {}
  PROVE  FirstIn(S) \in S /\ \A t \in S : FirstIn(S) <= t
<1> DEFINE Lower == {ss \in Nat \X Nat : ss[1] < ss[2]}
<1>1. IsWellFoundedOn(Lower, Nat)
  BY NatLessThanWellFounded DEF OpToRel
<1>2. PICK m \in S : \A x \in S : ~(<<x, m>> \in Lower)
  BY <1>1, WFMin
<1>3. ASSUME NEW x \in S PROVE m <= x
  <2>1. x \in Nat /\ m \in Nat /\ ~(x < m)
    BY <1>2
  <2> QED BY <2>1
<1> QED BY <1>3 DEF FirstIn

LEMMA RowTypes ==
  ASSUME Settled, NEW r \in Row
  PROVE  WorkRow(r) \in Row /\ ParentRow(r) \in Row
<1>1. \A h \in Game : rom_son(h) \subseteq Game
  BY SettledFacts
<1>2. WorkRow(r) \in Row
  <2>1. \A h \in Game : BelowIn(r, h) \subseteq Game
    BY <1>1 DEF BelowIn, Row
  <2> QED BY <2>1 DEF WorkRow, Row
<1>3. ParentRow(r) \in Row
  <2>1. \A h \in Game : SonsIn(r, h) \in SUBSET Nat /\ SonsIn(r, h) \subseteq Game
    BY <1>1, SettledFacts DEF SonsIn
  <2>2. \A h \in Game : SonsIn(r, h) # {} => r[FirstIn(SonsIn(r, h))] \subseteq Game
    BY <2>1, FirstOf DEF Row
  <2> QED BY <2>2 DEF ParentRow, Row
<1> QED BY <1>2, <1>3

LEMMA WorkMarks ==
  ASSUME Settled
  PROVE  \E m : /\ IsMarks(m, WorkRow)
                /\ \A g \in Game : game_working_subset_compute(g) = m[Depth][g]
<1> DEFINE T == [h \in Game |-> OwnMark(h)]
           F == [r \in Row |-> WorkRow(r)]
           Body(m) == [n \in 0..Depth |-> [h \in Game |->
             LET below == IF n = 0 THEN {} ELSE UNION {m[n - 1][s] : s \in rom_son(h)}
             IN IF h \in start.working \/ below # {} THEN {h} \cup below ELSE {}]]
           M == CHOOSE m : m = Body(m)
<1>1. T \in Row /\ F \in [Row -> Row] /\ Depth \in Nat
  BY RowTypes, SettledFacts DEF Row, OwnMark
<1>2. PICK f \in [0..Depth -> Row] : Iterates(f, F, T, Depth)
  <2> HIDE DEF T, F
  <2> QED BY <1>1, IteratesExist
<1>3. \A n \in 0..Depth : n # 0 => n \in 1..Depth /\ n - 1 \in 0..Depth
  BY <1>1
<1>4. ASSUME NEW m, m = Body(m)
      PROVE  /\ m[0] = T
             /\ \A n \in 1..Depth : m[n] = WorkRow(m[n - 1])
  <2>1. 0 \in 0..Depth /\ \A n \in 1..Depth : n \in 0..Depth /\ n # 0
    BY <1>1
  <2>2. m[0] = T
    BY <1>4, <2>1 DEF OwnMark
  <2>3. \A n \in 1..Depth : m[n] = WorkRow(m[n - 1])
    BY <1>4, <2>1 DEF WorkRow, BelowIn
  <2> QED BY <2>2, <2>3
<1>5. f = Body(f)
  <2>1. ASSUME NEW n \in 0..Depth PROVE f[n] = Body(f)[n]
    <3>1. CASE n = 0
      BY <1>2, <2>1, <3>1 DEF Iterates, OwnMark
    <3>2. CASE n # 0
      <4>1. f[n] = WorkRow(f[n - 1])
        BY <1>2, <1>3, <3>2 DEF Iterates
      <4> QED BY <3>2, <4>1 DEF WorkRow, BelowIn
    <3> QED BY <3>1, <3>2
  <2> QED BY <1>2, <2>1
<1>6. M = Body(M)
  <2> HIDE DEF Body
  <2> QED BY <1>5
<1>7. \A g \in Game : game_working_subset_compute(g) = M[Depth][g]
  BY DEF game_working_subset_compute
<1>8. IsMarks(M, WorkRow)
  <2> HIDE DEF M, Body
  <2>1. M[0] = T /\ \A n \in 1..Depth : M[n] = WorkRow(M[n - 1])
    BY <1>4, <1>6
  <2> DEFINE G == {n \in 0..Depth : M[n] \in Row}
  <2>2. 0 \in G
    BY <1>1, <2>1
  <2>3. ASSUME NEW n \in 0..Depth, n \in G, n < Depth PROVE n + 1 \in G
    <3>1. n + 1 \in 1..Depth /\ n + 1 \in 0..Depth /\ (n + 1) - 1 = n
      BY <1>1, <2>3
    <3>2. M[n + 1] = WorkRow(M[n])
      BY <2>1, <3>1
    <3> QED BY <2>3, <3>1, <3>2, RowTypes
  <2>4. 0..Depth \subseteq G
    <3> HIDE DEF G
    <3> QED BY <1>1, <2>2, <2>3, CountUp
  <2>5. \A n \in 0..Depth : M[n] \in Row
    BY <2>4
  <2>6. M = [n \in 0..Depth |-> M[n]]
    BY <1>6 DEF Body
  <2>7. M \in [0..Depth -> Row]
    BY <2>5, <2>6
  <2> QED BY <2>1, <2>7 DEF IsMarks
<1> QED BY <1>7, <1>8
LEMMA ParentMarks ==
  ASSUME Settled
  PROVE  \E m : /\ IsMarks(m, ParentRow)
                /\ \A g \in Game : game_working_parent_subset_compute(g) = m[Depth][g]
<1> DEFINE T == [h \in Game |-> OwnMark(h)]
           F == [r \in Row |-> ParentRow(r)]
           Body(m) == [n \in 0..Depth |-> [h \in Game |->
             LET sons == IF n = 0 THEN {} ELSE {s \in rom_son(h) : m[n - 1][s] # {}}
             IN IF h \in start.working THEN {h}
                ELSE IF sons = {} THEN {}
                ELSE {h} \cup m[n - 1][CHOOSE s \in sons : \A t \in sons : s <= t]]]
           M == CHOOSE m : m = Body(m)
<1>1. T \in Row /\ F \in [Row -> Row] /\ Depth \in Nat
  BY RowTypes, SettledFacts DEF Row, OwnMark
<1>2. PICK f \in [0..Depth -> Row] : Iterates(f, F, T, Depth)
  <2> HIDE DEF T, F
  <2> QED BY <1>1, IteratesExist
<1>3. \A n \in 0..Depth : n # 0 => n \in 1..Depth /\ n - 1 \in 0..Depth
  BY <1>1
<1>4. ASSUME NEW m, m = Body(m)
      PROVE  /\ m[0] = T
             /\ \A n \in 1..Depth : m[n] = ParentRow(m[n - 1])
  <2>1. 0 \in 0..Depth /\ \A n \in 1..Depth : n \in 0..Depth /\ n # 0
    BY <1>1
  <2>2. m[0] = T
    BY <1>4, <2>1 DEF OwnMark
  <2>3. \A n \in 1..Depth : m[n] = ParentRow(m[n - 1])
    <3> SUFFICES ASSUME NEW n \in 1..Depth PROVE m[n] = ParentRow(m[n - 1])
      OBVIOUS
    <3>1. m[n] = Body(m)[n] /\ n \in 0..Depth /\ n # 0
      <4> HIDE DEF Body
      <4> QED BY <1>4, <2>1
    <3> HIDE <1>4
    <3>2. Body(m)[n] = ParentRow(m[n - 1])
      BY <3>1 DEF ParentRow, SonsIn, FirstIn
    <3> QED BY <3>1, <3>2
  <2> QED BY <2>2, <2>3
<1>5. f = Body(f)
  <2>1. ASSUME NEW n \in 0..Depth PROVE f[n] = Body(f)[n]
    <3>1. CASE n = 0
      BY <1>2, <2>1, <3>1 DEF Iterates, OwnMark
    <3>2. CASE n # 0
      <4>1. f[n] = ParentRow(f[n - 1])
        BY <1>2, <1>3, <3>2 DEF Iterates
      <4> QED BY <3>2, <4>1 DEF ParentRow, SonsIn, FirstIn
    <3> QED BY <3>1, <3>2
  <2> QED BY <1>2, <2>1
<1>6. M = Body(M)
  <2> HIDE DEF Body
  <2> QED BY <1>5
<1>7. \A g \in Game : game_working_parent_subset_compute(g) = M[Depth][g]
  BY DEF game_working_parent_subset_compute
<1>8. IsMarks(M, ParentRow)
  <2> HIDE DEF M, Body
  <2>1. M[0] = T /\ \A n \in 1..Depth : M[n] = ParentRow(M[n - 1])
    BY <1>4, <1>6
  <2> DEFINE G == {n \in 0..Depth : M[n] \in Row}
  <2>2. 0 \in G
    BY <1>1, <2>1
  <2>3. ASSUME NEW n \in 0..Depth, n \in G, n < Depth PROVE n + 1 \in G
    <3>1. n + 1 \in 1..Depth /\ n + 1 \in 0..Depth /\ (n + 1) - 1 = n
      BY <1>1, <2>3
    <3>2. M[n + 1] = ParentRow(M[n])
      BY <2>1, <3>1
    <3> QED BY <2>3, <3>1, <3>2, RowTypes
  <2>4. 0..Depth \subseteq G
    <3> HIDE DEF G
    <3> QED BY <1>1, <2>2, <2>3, CountUp
  <2>5. \A n \in 0..Depth : M[n] \in Row
    BY <2>4
  <2>6. M = [n \in 0..Depth |-> M[n]]
    BY <1>6 DEF Body
  <2>7. M \in [0..Depth -> Row]
    BY <2>5, <2>6
  <2> QED BY <2>1, <2>7 DEF IsMarks
<1> QED BY <1>7, <1>8

-----------------------------------------------------------------------------
(* What is marked from h on is below it, with all that is between.         *)

Upward(S, h) == \A x \in S : x # h => RomParent(x) \in S
UnderIn(S, h) == \A x \in S : x \in Game /\ h \in Chain("rom", x) /\ (h \in games => x \in games)
Leads(S) == \A x \in S : \E w \in S \cap start.working : x \in Chain("rom", w)

MarkedFrom(S, h) == Upward(S, h) /\ UnderIn(S, h) /\ (S # {} => h \in S) /\ Leads(S)

\* What h gets from one of its sons fits.
LEMMA SonMarked ==
  ASSUME Settled, NEW h \in Game, NEW s \in rom_son(h), NEW S, MarkedFrom(S, s), S # {}
  PROVE  /\ Upward({h} \cup S, h) /\ UnderIn({h} \cup S, h)
         /\ \E w \in S \cap start.working : h \in Chain("rom", w)
<1>1. s \in games /\ s \in Game /\ h \in games /\ h = RomParent(s) /\ h \in Chain("rom", s)
  BY SonChain
<1>2. s \in S
  BY DEF MarkedFrom
<1>3. Upward({h} \cup S, h)
  BY <1>1 DEF Upward, MarkedFrom
<1>4. \A x \in S : x \in Game /\ x \in games /\ h \in Chain("rom", x)
  BY <1>1, ChainTransitive DEF MarkedFrom, UnderIn, Kind
<1>5. UnderIn({h} \cup S, h)
  BY <1>1, <1>4, ChainSelf DEF UnderIn, Kind
<1>6. PICK w \in S \cap start.working : s \in Chain("rom", w)
  BY <1>2 DEF MarkedFrom, Leads
<1>7. h \in Chain("rom", w)
  BY <1>4, <1>6
<1> QED BY <1>3, <1>5, <1>6, <1>7

LEMMA OwnMarked ==
  ASSUME NEW h \in Game
  PROVE  MarkedFrom(OwnMark(h), h) /\ MarkedFrom({}, h)
BY ChainSelf DEF MarkedFrom, OwnMark, Upward, UnderIn, Leads, Kind

LEMMA WorkRowMarked ==
  ASSUME Settled, NEW r \in Row, \A h \in Game : MarkedFrom(r[h], h)
  PROVE  \A h \in Game : MarkedFrom(WorkRow(r)[h], h)
<1> SUFFICES ASSUME NEW h \in Game PROVE MarkedFrom(WorkRow(r)[h], h)
  OBVIOUS
<1> DEFINE B == BelowIn(r, h)
<1>1. WorkRow(r)[h] = IF h \in start.working \/ B # {} THEN {h} \cup B ELSE {}
  BY DEF WorkRow
<1>2. \A s \in rom_son(h) : s \in Game /\ MarkedFrom(r[s], s)
  BY SettledFacts
<1>3. \A x \in B : \E s \in rom_son(h) : x \in r[s] /\ r[s] \subseteq B
  BY DEF BelowIn
<1>4. ASSUME NEW x \in B
      PROVE  /\ x # h => RomParent(x) \in {h} \cup B
             /\ x \in Game /\ h \in Chain("rom", x) /\ (h \in games => x \in games)
             /\ \E w \in B \cap start.working : h \in Chain("rom", w)
             /\ \E w \in B \cap start.working : x \in Chain("rom", w)
  <2>1. PICK s \in rom_son(h) : x \in r[s] /\ r[s] \subseteq B
    BY <1>3
  <2> DEFINE S == r[s]
  <2> HIDE DEF S, B
  <2>2. MarkedFrom(S, s) /\ S # {} /\ x \in S /\ S \subseteq B
    BY <1>2, <2>1 DEF S
  <2>3. /\ Upward({h} \cup S, h) /\ UnderIn({h} \cup S, h)
        /\ \E w \in S \cap start.working : h \in Chain("rom", w)
    BY <2>2, SonMarked
  <2>4. \E w \in S \cap start.working : x \in Chain("rom", w)
    BY <2>2 DEF MarkedFrom, Leads
  <2> QED BY <2>2, <2>3, <2>4 DEF Upward, UnderIn
<1> HIDE DEF B
<1>5. CASE h \in start.working \/ B # {}
  <2>1. Upward({h} \cup B, h)
    BY <1>4 DEF Upward
  <2>2. UnderIn({h} \cup B, h)
    BY <1>4, ChainSelf DEF UnderIn, Kind
  <2>3. Leads({h} \cup B)
    <3>1. \E w \in ({h} \cup B) \cap start.working : h \in Chain("rom", w)
      BY <1>4, <1>5, ChainSelf DEF Kind
    <3> QED BY <1>4, <3>1 DEF Leads
  <2> QED BY <1>1, <1>5, <2>1, <2>2, <2>3 DEF MarkedFrom
<1>6. CASE ~(h \in start.working \/ B # {})
  BY <1>1, <1>6, OwnMarked
<1> QED BY <1>5, <1>6

LEMMA ParentRowMarked ==
  ASSUME Settled, NEW r \in Row, \A h \in Game : MarkedFrom(r[h], h),
         \A h \in Game : r[h] # {} => \E w : r[h] \cap start.working = {w}
  PROVE  /\ \A h \in Game : MarkedFrom(ParentRow(r)[h], h)
         /\ \A h \in Game : ParentRow(r)[h] # {} => \E w : ParentRow(r)[h] \cap start.working = {w}
<1> SUFFICES ASSUME NEW h \in Game
             PROVE  /\ MarkedFrom(ParentRow(r)[h], h)
                    /\ ParentRow(r)[h] # {} => \E w : ParentRow(r)[h] \cap start.working = {w}
  OBVIOUS
<1> DEFINE f == FirstIn(SonsIn(r, h))
<1>1. ParentRow(r)[h] = IF h \in start.working THEN {h}
                        ELSE IF SonsIn(r, h) = {} THEN {} ELSE {h} \cup r[f]
  BY DEF ParentRow
<1>2. CASE h \in start.working
  <2>1. ParentRow(r)[h] = OwnMark(h) /\ ParentRow(r)[h] \cap start.working = {h}
    BY <1>1, <1>2 DEF OwnMark
  <2> QED BY <2>1, OwnMarked
<1>3. CASE h \notin start.working /\ SonsIn(r, h) = {}
  <2>1. ParentRow(r)[h] = {}
    BY <1>1, <1>3
  <2> QED BY <2>1, OwnMarked
<1>4. CASE h \notin start.working /\ SonsIn(r, h) # {}
  <2>1. SonsIn(r, h) \in SUBSET Nat /\ SonsIn(r, h) \subseteq rom_son(h) /\ rom_son(h) \subseteq Game
    BY SettledFacts DEF SonsIn
  <2>2. f \in SonsIn(r, h)
    BY <1>4, <2>1, FirstOf
  <2> DEFINE S == r[f]
  <2>3. f \in rom_son(h) /\ f \in Game /\ S # {}
    BY <2>1, <2>2 DEF SonsIn
  <2>4. MarkedFrom(S, f) /\ \E w : S \cap start.working = {w}
    BY <2>3
  <2>5. ParentRow(r)[h] = {h} \cup S
    BY <1>1, <1>4
  <2> HIDE DEF f, S
  <2>6. /\ Upward({h} \cup S, h) /\ UnderIn({h} \cup S, h)
        /\ \E w \in S \cap start.working : h \in Chain("rom", w)
    BY <2>3, <2>4, SonMarked
  <2>7. Leads({h} \cup S)
    BY <2>4, <2>6 DEF Leads, MarkedFrom
  <2>8. \E w : ({h} \cup S) \cap start.working = {w}
    BY <1>4, <2>4
  <2> QED BY <2>5, <2>6, <2>7, <2>8 DEF MarkedFrom
<1> QED BY <1>2, <1>3, <1>4

LEMMA WorkComputed ==
  ASSUME Settled, NEW g \in Game
  PROVE  /\ MarkedFrom(game_working_subset_compute(g), g)
         /\ \A w \in games \cap start.working :
              g \in Chain("rom", w) => w \in game_working_subset_compute(g)
<1>1. PICK m : /\ IsMarks(m, WorkRow)
               /\ \A h \in Game : game_working_subset_compute(h) = m[Depth][h]
  BY WorkMarks
<1>2. /\ m \in [0..Depth -> Row] /\ m[0] = [h \in Game |-> OwnMark(h)]
      /\ \A n \in 1..Depth : m[n] = WorkRow(m[n - 1])
  BY <1>1 DEF IsMarks
<1>3. Depth \in Nat /\ 0 \in 0..Depth /\ Depth \in 0..Depth
      /\ \A n \in 1..Depth : n \in 0..Depth /\ n - 1 \in 0..Depth
  BY SettledFacts
<1>4. \A h \in Game : MarkedFrom(m[Depth][h], h)
  <2> DEFINE G == {n \in 0..Depth : \A h \in Game : MarkedFrom(m[n][h], h)}
  <2>1. 0 \in G
    BY <1>2, <1>3, OwnMarked
  <2>2. ASSUME NEW n \in 0..Depth, n \in G, n < Depth PROVE n + 1 \in G
    <3>1. n + 1 \in 1..Depth /\ n + 1 \in 0..Depth /\ (n + 1) - 1 = n
      BY <1>3, <2>2
    <3>2. m[n + 1] = WorkRow(m[n]) /\ m[n] \in Row
      BY <1>2, <3>1
    <3> QED BY <2>2, <3>1, <3>2, WorkRowMarked
  <2>3. 0..Depth \subseteq G
    <3> HIDE DEF G
    <3> QED BY <1>3, <2>1, <2>2, CountUp
  <2> QED BY <1>3, <2>3
<1>5. ASSUME NEW w \in games \cap start.working, g \in Chain("rom", w) PROVE w \in m[Depth][g]
  <2> DEFINE t == {w}
             L == [n \in 0..Depth |-> {h \in games : w \in m[n][h]}]
  <2>1. t \in SUBSET games /\ L \in [0..Depth -> SUBSET games] /\ w \in t /\ games \subseteq Game
    BY SettledFacts
  <2>2. L[0] = t
    BY <1>2, <1>3, <2>1 DEF OwnMark
  <2>3. ASSUME NEW n \in 1..Depth
        PROVE  L[n] = t \cup {h \in games : rom_son(h) \cap L[n - 1] # {}}
    <3>1. L[n] = {h \in games : w \in WorkRow(m[n - 1])[h]}
      BY <1>2, <1>3
    <3>2. ASSUME NEW h \in games
          PROVE  w \in WorkRow(m[n - 1])[h] <=> h = w \/ rom_son(h) \cap L[n - 1] # {}
      <4>1. h \in Game /\ rom_son(h) \subseteq games
        BY <2>1, SettledFacts
      <4>2. w \in BelowIn(m[n - 1], h) <=> \E s \in rom_son(h) : w \in m[n - 1][s]
        BY DEF BelowIn
      <4>3. (\E s \in rom_son(h) : w \in m[n - 1][s]) <=> rom_son(h) \cap L[n - 1] # {}
        BY <1>3, <4>1
      <4>4. w \in WorkRow(m[n - 1])[h] <=> h = w \/ w \in BelowIn(m[n - 1], h)
        BY <4>1 DEF WorkRow
      <4> QED BY <4>2, <4>3, <4>4
    <3> HIDE DEF L
    <3> QED BY <2>1, <3>1, <3>2
  <2>4. Chain("rom", w) \subseteq L[Depth]
    <3> HIDE DEF L, t
    <3> QED BY <2>1, <2>2, <2>3, UpReached
  <2> QED BY <1>3, <1>5, <2>4
<1> QED BY <1>1, <1>4, <1>5

LEMMA ParentComputed ==
  ASSUME Settled, NEW g \in Game
  PROVE  LET marked == game_working_parent_subset_compute(g) IN
         /\ MarkedFrom(marked, g)
         /\ marked # {} => \E w : marked \cap start.working = {w}
         /\ \A w \in games \cap start.working : g \in Chain("rom", w) => marked # {}
<1>1. PICK m : /\ IsMarks(m, ParentRow)
               /\ \A h \in Game : game_working_parent_subset_compute(h) = m[Depth][h]
  BY ParentMarks
<1>2. /\ m \in [0..Depth -> Row] /\ m[0] = [h \in Game |-> OwnMark(h)]
      /\ \A n \in 1..Depth : m[n] = ParentRow(m[n - 1])
  BY <1>1 DEF IsMarks
<1>3. Depth \in Nat /\ 0 \in 0..Depth /\ Depth \in 0..Depth
      /\ \A n \in 1..Depth : n \in 0..Depth /\ n - 1 \in 0..Depth
  BY SettledFacts
<1>4. \A h \in Game : /\ MarkedFrom(m[Depth][h], h)
                      /\ m[Depth][h] # {} => \E w : m[Depth][h] \cap start.working = {w}
  <2> DEFINE G == {n \in 0..Depth : \A h \in Game :
                     /\ MarkedFrom(m[n][h], h)
                     /\ m[n][h] # {} => \E w : m[n][h] \cap start.working = {w}}
  <2>1. 0 \in G
    <3>1. ASSUME NEW h \in Game
          PROVE  /\ MarkedFrom(m[0][h], h)
                 /\ m[0][h] # {} => \E w : m[0][h] \cap start.working = {w}
      <4>1. m[0][h] = OwnMark(h)
        BY <1>2
      <4>2. OwnMark(h) # {} => OwnMark(h) \cap start.working = {h}
        BY DEF OwnMark
      <4> QED BY <4>1, <4>2, OwnMarked
    <3> QED BY <1>3, <3>1
  <2>2. ASSUME NEW n \in 0..Depth, n \in G, n < Depth PROVE n + 1 \in G
    <3>1. n + 1 \in 1..Depth /\ n + 1 \in 0..Depth /\ (n + 1) - 1 = n
      BY <1>3, <2>2
    <3>2. m[n + 1] = ParentRow(m[n]) /\ m[n] \in Row
      BY <1>2, <3>1
    <3>3. /\ \A h \in Game : MarkedFrom(m[n][h], h)
          /\ \A h \in Game : m[n][h] # {} => \E w : m[n][h] \cap start.working = {w}
      BY <2>2
    <3>4. /\ \A h \in Game : MarkedFrom(m[n + 1][h], h)
          /\ \A h \in Game : m[n + 1][h] # {} => \E w : m[n + 1][h] \cap start.working = {w}
      <4> DEFINE r == m[n]
      <4>1. r \in Row /\ m[n + 1] = ParentRow(r)
        BY <3>2
      <4>2. /\ \A h \in Game : MarkedFrom(r[h], h)
            /\ \A h \in Game : r[h] # {} => \E w : r[h] \cap start.working = {w}
        BY <3>3
      <4> HIDE DEF r
      <4>3. /\ \A h \in Game : MarkedFrom(ParentRow(r)[h], h)
            /\ \A h \in Game : ParentRow(r)[h] # {} => \E w : ParentRow(r)[h] \cap start.working = {w}
        BY ONLY Settled, <4>1, <4>2, ParentRowMarked
      <4> QED BY <4>1, <4>3
    <3> QED BY <3>1, <3>4
  <2>3. 0..Depth \subseteq G
    <3> HIDE DEF G
    <3> QED BY <1>3, <2>1, <2>2, CountUp
  <2> QED BY <1>3, <2>3
<1>5. ASSUME NEW w \in games \cap start.working, g \in Chain("rom", w) PROVE m[Depth][g] # {}
  <2> DEFINE t == games \cap start.working
             L == [n \in 0..Depth |-> {h \in games : m[n][h] # {}}]
  <2>1. t \in SUBSET games /\ L \in [0..Depth -> SUBSET games] /\ w \in t /\ games \subseteq Game
    BY SettledFacts
  <2>2. L[0] = t
    BY <1>2, <1>3, <2>1 DEF OwnMark
  <2>3. ASSUME NEW n \in 1..Depth
        PROVE  L[n] = t \cup {h \in games : rom_son(h) \cap L[n - 1] # {}}
    <3>1. L[n] = {h \in games : ParentRow(m[n - 1])[h] # {}}
      BY <1>2, <1>3
    <3>2. ASSUME NEW h \in games
          PROVE  ParentRow(m[n - 1])[h] # {} <=> h \in start.working \/ rom_son(h) \cap L[n - 1] # {}
      <4>1. h \in Game /\ rom_son(h) \subseteq games
        BY <2>1, SettledFacts
      <4>2. SonsIn(m[n - 1], h) # {} <=> rom_son(h) \cap L[n - 1] # {}
        BY <1>3, <4>1 DEF SonsIn
      <4>3. ParentRow(m[n - 1])[h] # {} <=> h \in start.working \/ SonsIn(m[n - 1], h) # {}
        BY <4>1 DEF ParentRow
      <4> QED BY <4>2, <4>3
    <3> HIDE DEF L
    <3> QED BY <2>1, <3>1, <3>2
  <2>4. Chain("rom", w) \subseteq L[Depth]
    <3> HIDE DEF L, t
    <3> QED BY <2>1, <2>2, <2>3, UpReached
  <2> QED BY <1>3, <1>5, <2>4
<1> QED BY <1>1, <1>4, <1>5

-----------------------------------------------------------------------------
(* Families.                                                               *)

\* Of two games above the same game, one is above the other.
LEMMA ChainLinear ==
  ASSUME start \in Start, NEW k \in Kind, NEW y \in Game,
         NEW a \in Chain(k, y), NEW b \in Chain(k, y)
  PROVE  a \in Chain(k, b) \/ b \in Chain(k, a)
<1> DEFINE S == {z \in Game : a \in Chain(k, z) \/ z \in Chain(k, a)}
<1>1. a \in Game /\ b \in Game /\ start.games \subseteq Game
  BY GameAssumption DEF Chain
<1>2. ASSUME NEW z \in S, start.of[k][z] \in start.games PROVE start.of[k][z] \in S
  <2>1. start.of[k][z] \in Game /\ z \in Game
    BY <1>1, <1>2
  <2>2. CASE z \in Chain(k, a)
    BY <1>1, <1>2, <2>1, <2>2, ChainUp
  <2>3. CASE a \in Chain(k, z) /\ a = z
    <3>1. start.of[k][z] \in Chain(k, a)
      BY <1>1, <1>2, <2>3, ChainSelf, ChainUp
    <3> QED BY <2>1, <3>1
  <2>4. CASE a \in Chain(k, z) /\ a # z
    <3>1. a \in Over(k, z)
      BY <2>4 DEF Over
    <3>2. a \in Chain(k, start.of[k][z])
      BY <2>1, <3>1, ChainSplit
    <3> QED BY <2>1, <3>2
  <2> QED BY <2>2, <2>3, <2>4
<1>3. S \in SUBSET Game /\ Closed(k, S) /\ y \in S
  BY <1>2 DEF Closed
<1>4. b \in S
  <2> HIDE DEF S
  <2> QED BY <1>3, ChainWithin
<1> QED BY <1>4

\* If the parents go round in no circle, there is a root above every game that
\* is no resource.
LEMMA RootAbove ==
  ASSUME Settled, Grounded, NEW x \in games, x \notin start.resource
  PROVE  \E r \in Roots : r \in Chain("rom", x)
<1> DEFINE C == Chain("rom", x) \ start.resource
           size(y) == Cardinality(Chain("rom", y))
           Lower == {ss \in Nat \X Nat : ss[1] < ss[2]}
<1>1. x \in Game /\ start \in Start /\ games = start.games /\ x \in C /\ C \subseteq games
  <2>1. x \in Game /\ start \in Start /\ games = start.games
    BY SettledFacts DEF Settled
  <2> QED BY <2>1, ChainSelf, ChainInGames DEF Kind
<1>2. SUFFICES ASSUME \A r \in C : r \notin Roots PROVE FALSE
  BY <1>1
<1>3. ASSUME NEW y \in games
      PROVE  IsFiniteSet(Chain("rom", y)) /\ size(y) \in Nat /\ Chain("rom", y) \subseteq games
  <2>1. Chain("rom", y) \subseteq games
    BY <1>1, ChainInGames DEF Kind
  <2> QED BY <2>1, SettledFacts, FS_Subset, FS_CardinalityType
<1>4. ASSUME NEW y \in C
      PROVE  RomParent(y) \in C /\ size(RomParent(y)) < size(y)
  <2>1. y \in games /\ y \in Game /\ y \notin start.resource
    BY <1>1, SettledFacts
  <2>2. of["rom"][y] \in games /\ of["rom"][y] \notin start.resource
    BY <1>2, <2>1 DEF Roots, is_game_parent
  <2>3. RomParent(y) \in games /\ RomParent(y) # y /\ RomParent(y) \notin start.resource
    BY <1>1, <2>1, <2>2, SettledFacts DEF Settled
  <2>4. RomParent(y) \in Chain("rom", x) /\ RomParent(y) \in Chain("rom", y)
    BY <1>1, <2>1, <2>3, ChainSelf, ChainUp DEF RomParent, Kind
  <2>5. y \notin Chain("rom", RomParent(y)) /\ y \in Chain("rom", y)
    BY <1>1, <2>1, <2>3, <2>4, ChainSelf DEF Grounded, Kind
  <2>6. Chain("rom", RomParent(y)) \subseteq Chain("rom", y)
    BY <2>1, <2>4, ChainTransitive DEF Kind
  <2>7. IsFiniteSet(Chain("rom", y)) /\ Chain("rom", RomParent(y)) # Chain("rom", y)
    BY <1>3, <2>1, <2>5
  <2>8. size(RomParent(y)) < size(y)
    <3>1. size(y) \in Nat /\ size(RomParent(y)) \in Nat
      BY <1>3, <2>1, <2>3
    <3>2. size(RomParent(y)) <= size(y) /\ size(RomParent(y)) # size(y)
      BY <2>6, <2>7, FS_Subset
    <3> QED BY <3>1, <3>2
  <2> QED BY <2>3, <2>4, <2>8
<1>5. IsWellFoundedOn(Lower, Nat)
  BY NatLessThanWellFounded DEF OpToRel
<1> DEFINE Sizes == {size(y) : y \in C}
<1>6. Sizes \in SUBSET Nat /\ Sizes # {}
  BY <1>1, <1>3
<1>7. PICK n \in Sizes : \A k \in Sizes : ~(<<k, n>> \in Lower)
  <2> HIDE DEF Sizes, Lower
  <2> QED BY <1>5, <1>6, WFMin
<1>8. PICK y \in C : n = size(y)
  BY <1>7
<1>9. size(RomParent(y)) \in Sizes /\ size(RomParent(y)) < n
  BY <1>4, <1>8
<1>10. <<size(RomParent(y)), n>> \in Lower
  <2> HIDE DEF size, Sizes
  <2> QED BY <1>6, <1>7, <1>9
<1> QED BY <1>7, <1>9, <1>10

-----------------------------------------------------------------------------
(* The subsets.                                                            *)

WorkingSet == (games \cap start.resource) \cup UNION {game_working_subset_compute(g) : g \in Roots}
ParentSet == (games \cap start.resource) \cup UNION {game_working_parent_subset_compute(g) : g \in Roots}

\* With a game its parent is kept.
KeptUp(S) == S \subseteq start.games /\ Closed("rom", S)

LEMMA RootFacts ==
  ASSUME Settled, NEW g \in Roots
  PROVE  /\ g \in games /\ g \in Game /\ g \notin start.resource
         /\ RomParent(g) \in start.games \ {g} => RomParent(g) \in start.resource
<1>1. g \in games /\ g \in Game /\ g \notin start.resource
  BY SettledFacts DEF Roots
<1>2. of["rom"][g] \notin games \/ of["rom"][g] \in start.resource
  BY DEF Roots, is_game_parent
<1> QED BY <1>1, <1>2 DEF Settled

LEMMA SubsetKeptUp ==
  ASSUME Settled, Layered, NEW D, \A g \in Roots : MarkedFrom(D[g], g)
  PROVE  KeptUp((games \cap start.resource) \cup UNION {D[g] : g \in Roots})
<1> DEFINE S == (games \cap start.resource) \cup UNION {D[g] : g \in Roots}
<1>1. \A x \in S : x \in start.resource \/ \E g \in Roots : x \in D[g]
  OBVIOUS
<1>2. \A g \in Roots : D[g] \subseteq S
  OBVIOUS
<1>3. games \cap start.resource \subseteq S
  OBVIOUS
<1>4. S \subseteq start.games
  <2>1. ASSUME NEW g \in Roots PROVE D[g] \subseteq games
    BY <2>1, RootFacts DEF MarkedFrom, UnderIn
  <2> QED BY <2>1 DEF Settled
<1>5. ASSUME NEW x \in S, RomParent(x) \in start.games PROVE RomParent(x) \in S
  <2>1. CASE x \in start.resource
    <3>1. RomParent(x) \in start.resource
      BY <1>4, <1>5, <2>1 DEF Layered, RomParent
    <3> QED BY <1>3, <1>5, <3>1 DEF Settled
  <2>2. ASSUME NEW g \in Roots, x \in D[g] PROVE RomParent(x) \in S
    <3>1. CASE x # g
      <4>1. RomParent(x) \in D[g]
        BY <2>2, <3>1 DEF MarkedFrom, Upward
      <4> QED BY <1>2, <4>1
    <3>2. CASE x = g /\ RomParent(x) # x
      BY <1>3, <1>5, <2>2, <3>2, RootFacts DEF Settled
    <3>3. CASE RomParent(x) = x
      BY <1>5, <3>3
    <3> QED BY <3>1, <3>2, <3>3
  <2> QED BY <1>1, <2>1, <2>2
<1> HIDE DEF S
<1>6. Closed("rom", S)
  BY <1>5 DEF Closed, RomParent
<1>7. KeptUp(S)
  BY <1>4, <1>6 DEF KeptUp
<1> QED BY <1>7 DEF S

\* What is marked from the roots is what works and what that needs.
LEMMA WorkingSetIs ==
  ASSUME Settled, Grounded
  PROVE  WorkingSet = (start.resource \cap games) \cup UNION {Chain("rom", g) : g \in games \cap start.working}
<1> DEFINE N == UNION {Chain("rom", g) : g \in games \cap start.working}
           M == UNION {game_working_subset_compute(g) : g \in Roots}
<1>1. ASSUME NEW r \in Roots, NEW x \in game_working_subset_compute(r) PROVE x \in N
  <2>1. r \in games /\ r \in Game
    BY RootFacts
  <2>2. MarkedFrom(game_working_subset_compute(r), r)
    BY <2>1, WorkComputed
  <2>3. PICK w \in game_working_subset_compute(r) \cap start.working : x \in Chain("rom", w)
    BY <1>1, <2>2 DEF MarkedFrom, Leads
  <2>4. w \in games
    BY <2>1, <2>2, <2>3 DEF MarkedFrom, UnderIn
  <2> QED BY <2>3, <2>4
<1>2. ASSUME NEW w \in games \cap start.working, NEW x \in Chain("rom", w), x \notin start.resource
      PROVE  x \in M
  <2>1. /\ w \in Game /\ x \in Game /\ start \in Start /\ games = start.games
        /\ x \in games /\ games \subseteq Game
    <3>1. start \in Start /\ games = start.games /\ games \subseteq Game
      BY SettledFacts DEF Settled
    <3> QED BY <1>2, <3>1, ChainInGames DEF Kind
  <2>2. PICK r \in Roots : r \in Chain("rom", x)
    BY <1>2, <2>1, RootAbove
  <2>3. r \in games /\ r \in Game /\ r \in Chain("rom", w)
    BY <1>2, <2>1, <2>2, RootFacts, ChainTransitive DEF Kind
  <2> DEFINE D == game_working_subset_compute(r)
  <2>4. w \in D /\ MarkedFrom(D, r)
    BY <1>2, <2>3, WorkComputed
  <2> HIDE DEF D
  <2>5. r \in D /\ D \subseteq Game
    BY <2>4 DEF MarkedFrom, UnderIn
  <2>6. x \in D
    <3> DEFINE U == D \cup Chain("rom", r)
    <3>1. ASSUME NEW y \in U, RomParent(y) \in start.games PROVE RomParent(y) \in U
      <4>1. CASE y \in D /\ y # r
        BY <2>4, <4>1 DEF MarkedFrom, Upward
      <4>2. CASE y = r \/ y \in Chain("rom", r)
        BY <2>1, <2>3, <3>1, <4>2, ChainSelf, ChainUp DEF RomParent, Kind
      <4> QED BY <4>1, <4>2
    <3>2. U \in SUBSET Game /\ Closed("rom", U) /\ w \in U
      BY <2>4, <2>5, <3>1 DEF Closed, RomParent, Chain
    <3> HIDE DEF U
    <3>3. x \in U
      BY <1>2, <3>2, ChainWithin DEF Kind
    <3>4. x \in Chain("rom", r) => x = r
      BY <2>1, <2>2, <2>3 DEF Grounded
    <3> QED BY <2>5, <3>3, <3>4 DEF U
  <2> QED BY <2>6 DEF D
<1>3. N \subseteq games
  BY ChainInGames DEF Settled, Kind
<1> QED BY <1>1, <1>2, <1>3 DEF WorkingSet

\* Another root marks nothing of a family without resources.
LEMMA OtherRoot ==
  ASSUME Settled, Layered, NEW g \in Roots, NEW r \in Roots, r # g,
         NEW y \in games, g \in Chain("rom", y), r \in Chain("rom", y)
  PROVE  \E p \in games \cap start.resource : g \in Chain("rom", p)
<1>1. /\ g \in games /\ g \in Game /\ r \in games /\ r \in Game /\ y \in Game
      /\ start \in Start /\ games = start.games /\ games \subseteq Game
      /\ g \notin start.resource /\ r \notin start.resource
  BY RootFacts, SettledFacts DEF Settled
<1>2. CASE r \in Chain("rom", g)
  <2>1. r \in Over("rom", g)
    BY <1>2 DEF Over
  <2>2. /\ RomParent(g) \in start.games /\ RomParent(g) # g
        /\ r \in Chain("rom", RomParent(g))
    BY <1>1, <2>1, ChainSplit DEF RomParent, Kind
  <2>3. RomParent(g) \in start.resource
    BY <2>2, RootFacts
  <2>4. Closed("rom", games \cap start.resource)
    BY <1>1 DEF Closed, Layered
  <2>5. Chain("rom", RomParent(g)) \subseteq games \cap start.resource
    <3>1. games \cap start.resource \in SUBSET Game /\ RomParent(g) \in games \cap start.resource
      BY <1>1, <2>2, <2>3
    <3> QED BY <2>4, <3>1, ChainWithin DEF Kind
  <2> QED BY <1>1, <2>2, <2>5
<1>3. CASE g \in Chain("rom", r)
  <2>1. g \in Over("rom", r)
    BY <1>3 DEF Over
  <2>2. /\ RomParent(r) \in start.games /\ RomParent(r) # r
        /\ g \in Chain("rom", RomParent(r))
    BY <1>1, <2>1, ChainSplit DEF RomParent, Kind
  <2>3. RomParent(r) \in start.resource
    BY <2>2, RootFacts
  <2> QED BY <1>1, <2>2, <2>3
<1> QED BY <1>1, <1>2, <1>3, ChainLinear DEF Kind

LEMMA FamilyHasOne ==
  ASSUME Settled, Layered, NEW g \in Roots,
         NEW family, family = {h \in games : g \in Chain("rom", h)},
         family \cap start.resource = {}, family \cap start.working # {}
  PROVE  Cardinality(family \cap ParentSet \cap start.working) = 1
<1> DEFINE D(r) == game_working_parent_subset_compute(r)
<1>1. g \in games /\ g \in Game
  BY RootFacts
<1>2. PICK v \in family : v \in start.working
  OBVIOUS
<1>3. /\ MarkedFrom(D(g), g) /\ D(g) # {}
      /\ \E w : D(g) \cap start.working = {w}
  BY <1>1, <1>2, ParentComputed
<1>4. PICK w : D(g) \cap start.working = {w}
  BY <1>3
<1>5. D(g) \subseteq family
  BY <1>1, <1>3 DEF MarkedFrom, UnderIn
<1>6. ASSUME NEW x \in family \cap ParentSet PROVE x \in D(g)
  <2>1. x \notin start.resource /\ x \in games /\ g \in Chain("rom", x)
    BY <1>6
  <2>2. PICK r \in Roots : x \in D(r)
    BY <1>6, <2>1 DEF ParentSet
  <2>3. r \in Game /\ r \in games
    BY RootFacts
  <2>4. MarkedFrom(D(r), r)
    BY <2>3, ParentComputed
  <2>5. r \in Chain("rom", x)
    BY <2>2, <2>4 DEF MarkedFrom, UnderIn
  <2>6. CASE r # g
    <3>1. \E p \in games \cap start.resource : g \in Chain("rom", p)
      BY <2>1, <2>5, <2>6, OtherRoot
    <3> QED BY <3>1
  <2> QED BY <2>2, <2>6
<1>7. D(g) \subseteq ParentSet
  BY DEF ParentSet
<1> HIDE DEF D
<1>8. family \cap ParentSet \cap start.working = {w}
  BY <1>4, <1>5, <1>6, <1>7
<1> QED BY <1>8, FS_Singleton

-----------------------------------------------------------------------------
RomAdjusted ==
  \A g \in Game : of["rom"][g] = IF RomParent(g) \in start.games \ {g} THEN RomParent(g) ELSE NoGame

\* What the filters start from, and what they leave.
SubsetInv ==
  /\ pc \in {"subset", "filter"} => games = start.games /\ RomAdjusted
  /\ pc \in {"filter", "done"} /\ Layered =>
       KeptUp(start.games \cap subset.working) /\ KeptUp(start.games \cap subset.parent)
  /\ pc = "done" =>
       /\ filter = "" => games = start.games
       /\ filter = "working" => games = start.games \cap subset.working
       /\ filter = "working_parent" => games = start.games \cap subset.working \cap subset.parent
  /\ WorkingMeansNeeded /\ OneOfFamily

GInv == MInv /\ SubsetInv

LEMMA SubsetsInv ==
  ASSUME GInv, Subsets
  PROVE  SubsetInv'
<1>1. /\ pc = "subset" /\ pc' = "filter" /\ UNCHANGED <<games, of, has, todo, walk, filter, start>>
      /\ subset' = [working |-> WorkingSet, parent |-> ParentSet]
  BY DEF Subsets, WorkingSet, ParentSet
<1>2. Settled
  BY <1>1 DEF GInv, MInv, KInv, SubsetInv, RomAdjusted, Settled
<1>3. subset'.working = WorkingSet /\ subset'.parent = ParentSet
  BY <1>1
<1>4. \A k, g : Chain(k, g)' = Chain(k, g)
  BY <1>1, ChainStays
<1>5. Layered' = Layered /\ Grounded' = Grounded /\ Roots' = Roots /\ RomAdjusted' = RomAdjusted
  BY <1>1, <1>4 DEF Layered, Grounded, Roots, is_game_parent, RomAdjusted, RomParent
<1>6. \A S : KeptUp(S)' <=> KeptUp(S)
  BY <1>1 DEF KeptUp, Closed
<1>7. ASSUME Layered PROVE KeptUp(WorkingSet) /\ KeptUp(ParentSet)
  <2> DEFINE D == [g \in Roots |-> game_working_subset_compute(g)]
             E == [g \in Roots |-> game_working_parent_subset_compute(g)]
  <2>1. \A g \in Roots : MarkedFrom(D[g], g) /\ MarkedFrom(E[g], g)
    BY <1>2, RootFacts, WorkComputed, ParentComputed
  <2>2. /\ {game_working_subset_compute(g) : g \in Roots} = {D[g] : g \in Roots}
        /\ {game_working_parent_subset_compute(g) : g \in Roots} = {E[g] : g \in Roots}
    OBVIOUS
  <2> HIDE DEF D, E
  <2>3. /\ KeptUp((games \cap start.resource) \cup UNION {D[g] : g \in Roots})
        /\ KeptUp((games \cap start.resource) \cup UNION {E[g] : g \in Roots})
    BY <1>2, <1>7, <2>1, SubsetKeptUp
  <2> QED BY <2>2, <2>3 DEF WorkingSet, ParentSet
<1>8. ASSUME Layered
      PROVE  KeptUp(start.games \cap WorkingSet) /\ KeptUp(start.games \cap ParentSet)
  <2>1. start.games \cap WorkingSet = WorkingSet /\ start.games \cap ParentSet = ParentSet
    BY <1>7, <1>8 DEF KeptUp
  <2> QED BY <1>7, <1>8, <2>1
<1>9. WorkingMeansNeeded'
  BY <1>1, <1>2, <1>3, <1>4, <1>5, WorkingSetIs DEF WorkingMeansNeeded
<1>10. OneOfFamily'
  <2> SUFFICES ASSUME Layered, NEW g \in Roots,
                      NEW family, family = {h \in games : g \in Chain("rom", h)},
                      family \cap start.resource = {}, family \cap start.working # {}
               PROVE  Cardinality(family \cap ParentSet \cap start.working) = 1
    BY <1>1, <1>3, <1>4, <1>5, ZenonT(40) DEF OneOfFamily
  <2> QED BY <1>2, FamilyHasOne
<1>11. games = start.games /\ RomAdjusted
  BY <1>1 DEF GInv, SubsetInv
<1> QED BY <1>1, <1>3, <1>5, <1>6, <1>8, <1>9, <1>10, <1>11 DEF SubsetInv

LEMMA SubsetInvRest ==
  ASSUME GInv, [Next]_vars, ~Subsets
  PROVE  SubsetInv'
<1>1. start' = start /\ start \in Start
  BY DEF GInv, MInv, KInv, Next, vars, ReduceGame, ReduceStep, ReduceStops, Adjust, Subsets, Filter
<1>2. Layered' = Layered /\ Grounded' = Grounded /\ \A S : KeptUp(S)' <=> KeptUp(S)
  <2>1. \A k, g : Chain(k, g)' = Chain(k, g)
    BY <1>1, ChainStays
  <2> QED BY <1>1, <2>1 DEF Layered, Grounded, KeptUp, Closed
<1>3. CASE (\E g \in Game : ReduceGame(g)) \/ ReduceStep \/ ReduceStops
  <2>1. pc' = "reduce"
    BY <1>3 DEF GInv, MInv, KInv, WalkInChain, ReduceGame, ReduceStep, ReduceStops, Meets
  <2> QED BY <2>1 DEF SubsetInv, WorkingMeansNeeded, OneOfFamily
<1>4. CASE Adjust
  <2>1. /\ pc' = "subset" /\ games' = games /\ games = start.games /\ of = start.of
        /\ of' = [k \in Kind |-> [g \in Game |-> IF Invalid(k, g) THEN NoGame ELSE of[k][g]]]
    BY <1>4 DEF Adjust, GInv, MInv, KInv, AsInFile
  <2>2. RomAdjusted'
    BY <1>1, <2>1 DEF RomAdjusted, RomParent, Invalid, Kind
  <2> QED BY <1>1, <2>1, <2>2 DEF SubsetInv, WorkingMeansNeeded, OneOfFamily
<1>5. CASE \E f \in Filters : Filter(f)
  <2>1. PICK f \in Filters : Filter(f)
    BY <1>5
  <2>2. /\ pc = "filter" /\ pc' = "done" /\ filter' = f /\ games' = Filtered(f) /\ subset' = subset
        /\ games = start.games
    BY <2>1 DEF Filter, GInv, SubsetInv
  <2>3. /\ f = "" => games' = start.games
        /\ f = "working" => games' = start.games \cap subset.working
        /\ f = "working_parent" => games' = start.games \cap subset.working \cap subset.parent
    BY <2>2 DEF Filtered
  <2>4. Layered => KeptUp(start.games \cap subset.working) /\ KeptUp(start.games \cap subset.parent)
    BY <2>2 DEF GInv, SubsetInv
  <2> QED BY <1>1, <1>2, <2>2, <2>3, <2>4 DEF SubsetInv, WorkingMeansNeeded, OneOfFamily
<1>6. CASE UNCHANGED vars
  <2>1. UNCHANGED <<games, of, has, subset, pc, todo, walk, filter, start>>
    BY <1>6 DEF vars
  <2>2. RomAdjusted' = RomAdjusted /\ Roots' = Roots
    BY <2>1 DEF RomAdjusted, RomParent, Roots, is_game_parent
  <2>3. \A k, g : Chain(k, g)' = Chain(k, g)
    BY <1>1, ChainStays
  <2>4. WorkingMeansNeeded' = WorkingMeansNeeded /\ OneOfFamily' = OneOfFamily
    BY <1>2, <2>1, <2>2, <2>3 DEF WorkingMeansNeeded, OneOfFamily
  <2> QED BY <1>2, <2>1, <2>2, <2>4 DEF GInv, SubsetInv
<1> QED BY <1>3, <1>4, <1>5, <1>6 DEF Next

\* What a filter keeps is whole.
LEMMA WholeFromInv ==
  ASSUME GInv
  PROVE  Whole
<1> SUFFICES ASSUME pc = "done", filter \in {"", "working", "working_parent"}, Layered,
                    NEW g \in games, NEW x \in start.has["rom"][g]
             PROVE  \E h \in Chain("rom", g) \cap games : x \in has["rom"][h]
  BY DEF Whole
<1>1. KeptUp(games)
  <2>1. KeptUp(start.games) /\ KeptUp(start.games \cap subset.working)
        /\ KeptUp(start.games \cap subset.parent)
    BY DEF GInv, SubsetInv, KeptUp, Closed
  <2>2. KeptUp(start.games \cap subset.working \cap subset.parent)
    BY <2>1 DEF KeptUp, Closed
  <2> QED BY <2>1, <2>2 DEF GInv, SubsetInv
<1>2. games \in SUBSET Game /\ g \in start.games
  BY <1>1, GameAssumption DEF KeptUp, GInv, MInv, KInv
<1>3. Chain("rom", g) \subseteq games
  BY <1>1, <1>2, ChainWithin DEF KeptUp, Kind
<1>4. PICK h \in Chain("rom", g) : x \in has["rom"][h]
  <2>1. KeptInChain /\ "rom" \in Kind
    BY DEF GInv, MInv, KInv, Kind
  <2>2. x \in UNION {has["rom"][h] : h \in Chain("rom", g)}
    BY <1>2, <2>1, ZenonT(40) DEF KeptInChain
  <2> QED BY <2>2
<1> QED BY <1>3, <1>4

LEMMA GamesInitInv == Init => GInv
<1> QED BY MInit DEF GInv, SubsetInv, Init, WorkingMeansNeeded, OneOfFamily

LEMMA GamesStep ==
  ASSUME GInv, [Next]_vars
  PROVE  GInv'
<1>1. MInv'
  BY MStep DEF GInv
<1>2. SubsetInv'
  BY SubsetsInv, SubsetInvRest
<1> QED BY <1>1, <1>2 DEF GInv

\* When the file is read and filtered, however its games are related: each has,
\* in the archives that are kept, what it had; the working subset is what works
\* and what that needs; and of a family the parent subset has one that works
\* (gamearchive::load, game_working_subset_compute,
\* game_working_parent_subset_compute, filter).
THEOREM GamesCorrect == Spec => []GamesComplete
<1>1. GInv => GamesComplete
  BY MergedFromInv, WholeFromInv DEF GInv, SubsetInv, GamesComplete
<1> QED BY <1>1, GamesInitInv, GamesStep, PTL DEF Spec

-----------------------------------------------------------------------------
(* Directories.  What Check has found holds until the run ends, since the  *)
(* configuration does not change any more.                                 *)

Reading == {"options", "info", "lines"}

RunTyped ==
  /\ in \in RunStart
  /\ phase \in Reading \cup Phases \cup Ends
  /\ line \in 0..Len(in.lines)
  /\ conf \in [list : [Lists -> Seq(Dir \cup {NoPath})], single : [Singles -> Dir \cup {NoPath}]]

Config(j) == in.lines[j]

\* The configuration is what its lines say, as far as they have been read.
LineInv ==
  /\ phase \in {"options", "info"} => line = 0
  /\ phase \in Phases => line = Len(in.lines)
  /\ \A t \in Lists :
       /\ \A d \in ToSet(conf.list[t]) : \E j \in 1..line : d \in ToSet(Config(j).dirs)
       /\ conf.list[t] = <<>> => \A j \in 1..line : Config(j).tag = t => Config(j).dirs = <<>>
  /\ \A t \in Singles :
       /\ conf.single[t] # NoPath => \E j \in 1..line : Config(j).tag = t
       /\ phase # "error" => \A j \in 1..line : Config(j).tag = t =>
            conf.single[t] # NoPath /\ conf.single[t] \in ToSet(Config(j).dirs)

CheckDone ==
  /\ flag_rom => KindGood("rom", {"rom_new", "rom_unknown"})
  /\ flag_sample => KindGood("sample", {"sample_unknown"})
  /\ flag_disk => KindGood("disk", {"disk_unknown"})
  /\ ToSet(conf.list["rom_import"]) \subseteq in.exists

\* Where a run may write and rename.
Own == Paths("rom") \cup Paths("sample") \cup Paths("disk") \cup {Place(t) : t \in Singles}

AccessInv ==
  /\ phase \in Reading => did = {}
  /\ phase \in Phases => CheckDone
  /\ phase = "unknown" => flag_rom
  /\ Accessed("write") \subseteq in.writable
  /\ Accessed("write") \cup Accessed("rename") \subseteq Own
  /\ Accessed("import") \cap Paths("rom") = {}
  /\ ~active => Accessed("write") = {}

\* What a simulation may be refused for.
Excused ==
  \/ \E i \in DOMAIN in.lines : LET l == in.lines[i] IN
       \/ l.tag \notin Lists \cup Singles
       \/ l.tag \in Singles /\ (Len(l.dirs) # 1 \/ \E j \in 1..i - 1 : in.lines[j].tag = l.tag)
  \/ \E i \in DOMAIN in.lines : ~(ToSet(in.lines[i].dirs) \subseteq in.exists)
  \/ \E x \in {<<"rom", {"r", "R"}>>, <<"sample", {"s", "S"}>>, <<"disk", {"k", "K"}>>} :
       Has(x[2]) /\ ~\E i \in DOMAIN in.lines : in.lines[i].tag = x[1] /\ in.lines[i].dirs # <<>>
  \/ flag_rom /\ ~\E i \in DOMAIN in.lines : in.lines[i].tag = "rom_unknown"

RefusedInv ==
  phase = "error" /\ ~active /\ in.info = "games" /\ ~Has({"bad"}) => Excused

CommandInv == RunTyped /\ LineInv /\ AccessInv /\ RefusedInv

LEMMA LineFacts ==
  ASSUME RunTyped
  PROVE  /\ in.lines \in Seq(ConfigLine) /\ Len(in.lines) \in Nat
         /\ DOMAIN in.lines = 1..Len(in.lines)
         /\ \A j \in 1..Len(in.lines) :
              /\ Config(j).dirs \in Seq(Dir \cup {NoPath})
              /\ Config(j).tag \in Singles => Config(j).dirs \in Seq(Dir)
         /\ in.exists \subseteq Dir /\ in.writable \subseteq in.exists /\ NoPath \notin Dir
<1>1. in \in RunStart /\ in.lines \in Seq(ConfigLine)
  BY CommandAssumption DEF CommandAssumption, RunTyped
<1>2. Len(in.lines) \in Nat /\ DOMAIN in.lines = 1..Len(in.lines)
  BY <1>1
<1>3. ASSUME NEW j \in 1..Len(in.lines)
      PROVE  Config(j) \in ConfigLine /\ Config(j) \in ToSet(in.lines)
  BY <1>1, <1>2 DEF Config, ToSet
<1>4. ASSUME NEW j \in 1..Len(in.lines)
      PROVE  /\ Config(j).dirs \in Seq(Dir \cup {NoPath})
             /\ Config(j).tag \in Singles => Config(j).dirs \in Seq(Dir)
  BY <1>1, <1>3, CommandAssumption DEF CommandAssumption, ConfigLine
<1> QED BY <1>1, <1>2, <1>4, CommandAssumption DEF CommandAssumption

LEMMA ConcatSet ==
  ASSUME NEW S, NEW a \in Seq(S), NEW b \in Seq(S)
  PROVE  /\ a \o b \in Seq(S)
         /\ ToSet(a \o b) = ToSet(a) \cup ToSet(b)
         /\ a \o b = <<>> => a = <<>> /\ b = <<>>
<1>1. /\ a \o b \in Seq(S) /\ Len(a \o b) = Len(a) + Len(b)
      /\ \A i \in 1..Len(a) + Len(b) : (a \o b)[i] = IF i <= Len(a) THEN a[i] ELSE b[i - Len(a)]
  BY ConcatProperties
<1>2. /\ Len(a) \in Nat /\ Len(b) \in Nat
      /\ ToSet(a) = {a[i] : i \in 1..Len(a)} /\ ToSet(b) = {b[i] : i \in 1..Len(b)}
      /\ ToSet(a \o b) = {(a \o b)[i] : i \in 1..Len(a) + Len(b)}
  <2>1. DOMAIN a = 1..Len(a) /\ DOMAIN b = 1..Len(b) /\ DOMAIN (a \o b) = 1..Len(a) + Len(b)
    BY <1>1
  <2> QED BY <2>1 DEF ToSet
<1>3. ASSUME NEW x \in ToSet(a \o b) PROVE x \in ToSet(a) \cup ToSet(b)
  <2>1. PICK i \in 1..Len(a) + Len(b) : x = (a \o b)[i]
    BY <1>2
  <2>2. CASE i <= Len(a)
    BY <1>1, <1>2, <2>1, <2>2
  <2>3. CASE i > Len(a)
    <3>1. i - Len(a) \in 1..Len(b) /\ ~(i <= Len(a))
      BY <1>2, <2>3
    <3> QED BY <1>1, <1>2, <2>1, <3>1
  <2> QED BY <1>2, <2>2, <2>3
<1>4. ToSet(a) \subseteq ToSet(a \o b)
  <2> SUFFICES ASSUME NEW i \in 1..Len(a) PROVE a[i] \in ToSet(a \o b)
    BY <1>2
  <2>1. i \in 1..Len(a) + Len(b) /\ i <= Len(a)
    BY <1>2
  <2> QED BY <1>1, <1>2, <2>1
<1>5. ToSet(b) \subseteq ToSet(a \o b)
  <2> SUFFICES ASSUME NEW i \in 1..Len(b) PROVE b[i] \in ToSet(a \o b)
    BY <1>2
  <2>1. /\ Len(a) + i \in 1..Len(a) + Len(b) /\ ~(Len(a) + i <= Len(a))
        /\ Len(a) + i - Len(a) = i
    BY <1>2
  <2> QED BY <1>1, <1>2, <2>1
<1>6. a \o b = <<>> => a = <<>> /\ b = <<>>
  <2>1. a \o b = <<>> => Len(a) = 0 /\ Len(b) = 0
    BY <1>1, <1>2
  <2> QED BY <2>1, EmptySeq
<1> QED BY <1>1, <1>3, <1>4, <1>5, <1>6

-----------------------------------------------------------------------------
(* The steps.                                                              *)

LEMMA RunInitInv == RunInit => CommandInv
<1> SUFFICES ASSUME RunInit PROVE CommandInv
  OBVIOUS
<1>1. RunTyped
  <2>1. in \in RunStart /\ in.lines \in Seq(ConfigLine)
    BY CommandAssumption DEF CommandAssumption, RunInit
  <2>2. Len(in.lines) \in Nat
    BY <2>1
  <2> QED BY <2>1, <2>2 DEF RunInit, RunTyped, Reading, NoConfig
<1>2. LineInv
  BY DEF RunInit, LineInv, Phases, NoConfig, ToSet
<1>3. AccessInv
  BY DEF RunInit, AccessInv, Phases, Accessed
<1>4. RefusedInv
  BY DEF RunInit, RefusedInv
<1> QED BY <1>1, <1>2, <1>3, <1>4 DEF CommandInv

\* What was given does not change, nor do the options.
LEMMA GivenStays ==
  ASSUME in' = in
  PROVE  /\ \A S : Has(S)' <=> Has(S)
         /\ flag_rom' = flag_rom /\ flag_sample' = flag_sample /\ flag_disk' = flag_disk
         /\ flag_change' = flag_change /\ flag_operation' = flag_operation /\ active' = active
         /\ flag_move' = flag_move
         /\ Excused' = Excused
<1>1. \A S : Has(S)' <=> Has(S)
  BY DEF Has
<1>2. /\ flag_rom' = flag_rom /\ flag_sample' = flag_sample /\ flag_disk' = flag_disk
      /\ flag_change' = flag_change /\ flag_operation' = flag_operation /\ active' = active
      /\ flag_move' = flag_move
  BY DEF Has, flag_rom, flag_sample, flag_disk, flag_change, flag_operation, active,
         flag_add, flag_fix, flag_move, flag_remove
<1>3. Excused' = Excused
  BY <1>2 DEF Excused, Has, flag_rom
<1> QED BY <1>1, <1>2, <1>3

LEMMA AccessStays ==
  ASSUME UNCHANGED <<in, conf, did>>, AccessInv,
         phase \notin Reading => phase' \notin Reading,
         phase' \in Phases => CheckDone, phase' = "unknown" => flag_rom
  PROVE  AccessInv'
<1>1. CheckDone' = CheckDone
  BY GivenStays DEF CheckDone, KindGood, PlaceGood
<1>2. Accessed("write")' = Accessed("write") /\ Accessed("rename")' = Accessed("rename")
      /\ Accessed("import")' = Accessed("import") /\ Own' = Own /\ Paths("rom")' = Paths("rom")
  BY DEF Accessed, Own, Paths, Place
<1> QED BY <1>1, <1>2, GivenStays DEF AccessInv

LEMMA LinesStay ==
  ASSUME UNCHANGED <<in, line, conf>>, LineInv,
         phase' \in {"options", "info"} => phase \in {"options", "info"},
         phase' \in Phases => line = Len(in.lines), phase = "error" => phase' = "error"
  PROVE  LineInv'
BY DEF LineInv, Config

\* The steps before the configuration is read.
LEMMA EarlyInv ==
  ASSUME CommandInv, ReadOptions \/ ReadInfo
  PROVE  CommandInv'
<1> USE DEF CommandInv
<1>1. /\ UNCHANGED <<in, line, conf, did>>
      /\ phase \in {"options", "info"} /\ phase' \in {"info", "lines", "done", "error", "usage"}
      /\ phase' = "info" => phase = "options"
  BY DEF ReadOptions, ReadInfo
<1>2. RunTyped'
  BY <1>1 DEF RunTyped, Reading, Ends
<1>3. LineInv'
  BY <1>1, LinesStay DEF Phases
<1>4. AccessInv'
  BY <1>1, AccessStays DEF Reading, Phases
<1>5. RefusedInv'
  BY <1>1, GivenStays DEF RefusedInv, ReadOptions, ReadInfo
<1> QED BY <1>2, <1>3, <1>4, <1>5

LEMMA ReadLineInv ==
  ASSUME CommandInv, ReadLine
  PROVE  CommandInv'
<1> USE DEF CommandInv
<1> DEFINE l == in.lines[line + 1]  t == l.tag
<1>1. /\ phase = "lines" /\ line < Len(in.lines) /\ line' = line + 1 /\ UNCHANGED <<in, did>>
      /\ \/ t \in Lists /\ conf' = [conf EXCEPT !.list[t] = @ \o l.dirs] /\ phase' = phase
         \/ /\ t \in Singles /\ ~SingleFails(l) /\ phase' = phase
            /\ conf' = [conf EXCEPT !.single[t] = l.dirs[1]]
         \/ /\ t \notin Lists /\ (t \in Singles => SingleFails(l))
            /\ phase' = "error" /\ UNCHANGED conf
  BY DEF ReadLine
<1>2. /\ line \in Nat /\ line + 1 \in 1..Len(in.lines) /\ line + 1 \in 0..Len(in.lines)
      /\ 1..line' = 1..line \cup {line + 1}
  <2>1. Len(in.lines) \in Nat /\ line \in 0..Len(in.lines)
    BY LineFacts DEF RunTyped
  <2>2. \A m, n \in Nat : m < n => /\ m + 1 \in 1..n /\ m + 1 \in 0..n
                                  /\ 1..m + 1 = 1..m \cup {m + 1}
    OBVIOUS
  <2>3. line \in Nat /\ line < Len(in.lines)
    <3>1. \A m \in Nat : \A n \in 0..m : n \in Nat
      OBVIOUS
    <3> QED BY ONLY <1>1, <2>1, <3>1
  <2>4. /\ line + 1 \in 1..Len(in.lines) /\ line + 1 \in 0..Len(in.lines)
        /\ 1..line + 1 = 1..line \cup {line + 1}
    BY ONLY <2>1, <2>2, <2>3
  <2> QED BY <1>1, <2>3, <2>4
<1>3. /\ conf \in [list : [Lists -> Seq(Dir \cup {NoPath})], single : [Singles -> Dir \cup {NoPath}]]
      /\ l.dirs \in Seq(Dir \cup {NoPath}) /\ (t \in Singles => l.dirs \in Seq(Dir))
  BY <1>2, LineFacts DEF RunTyped, Config
<1>4. Lists \cap Singles = {}
  BY DEF Lists, Singles
<1>5. CASE t \in Lists /\ conf' = [conf EXCEPT !.list[t] = @ \o l.dirs] /\ phase' = phase
  <2>1. /\ conf.list[t] \in Seq(Dir \cup {NoPath})
        /\ conf' = [conf EXCEPT !.list = [conf.list EXCEPT ![t] = conf.list[t] \o l.dirs]]
    BY <1>3, <1>5
  <2>2. /\ conf.list[t] \o l.dirs \in Seq(Dir \cup {NoPath})
        /\ ToSet(conf.list[t] \o l.dirs) = ToSet(conf.list[t]) \cup ToSet(l.dirs)
        /\ conf.list[t] \o l.dirs = <<>> => conf.list[t] = <<>> /\ l.dirs = <<>>
    BY ONLY <1>3, <2>1, ConcatSet
  <2>3. /\ conf'.single = conf.single
        /\ conf'.list \in [Lists -> Seq(Dir \cup {NoPath})]
        /\ conf'.list[t] = conf.list[t] \o l.dirs
        /\ \A u \in Lists \ {t} : conf'.list[u] = conf.list[u]
    <3>1. conf'.single = conf.single /\ conf'.list = [conf.list EXCEPT ![t] = conf.list[t] \o l.dirs]
      BY ONLY <1>3, <2>1
    <3> QED BY ONLY <1>3, <1>5, <2>2, <3>1
  <2>4. RunTyped'
    <3>1. conf' \in [list : [Lists -> Seq(Dir \cup {NoPath})], single : [Singles -> Dir \cup {NoPath}]]
      BY <1>3, <2>1, <2>3
    <3>2. line' \in 0..Len(in'.lines) /\ in' \in RunStart /\ phase' = phase
      BY <1>1, <1>2, <1>5 DEF RunTyped
    <3> QED BY <3>1, <3>2 DEF RunTyped
  <2>5. LineInv'
    <3>1. ASSUME NEW u \in Lists
          PROVE  /\ \A d \in ToSet(conf'.list[u]) : \E j \in 1..line' : d \in ToSet(Config(j).dirs)
                 /\ conf'.list[u] = <<>> => \A j \in 1..line' : Config(j).tag = u => Config(j).dirs = <<>>
      <4>1. /\ \A d \in ToSet(conf.list[u]) : \E j \in 1..line : d \in ToSet(Config(j).dirs)
            /\ conf.list[u] = <<>> => \A j \in 1..line : Config(j).tag = u => Config(j).dirs = <<>>
        BY DEF LineInv
      <4>2. CASE u = t
        BY <1>2, <2>2, <2>3, <4>1, <4>2 DEF Config
      <4>3. CASE u # t
        BY <1>2, <2>3, <4>1, <4>3 DEF Config
      <4> QED BY <4>2, <4>3
    <3>2. ASSUME NEW u \in Singles
          PROVE  /\ conf'.single[u] # NoPath => \E j \in 1..line' : Config(j).tag = u
                 /\ \A j \in 1..line' : Config(j).tag = u =>
                      conf'.single[u] # NoPath /\ conf'.single[u] \in ToSet(Config(j).dirs)
      <4>1. /\ conf.single[u] # NoPath => \E j \in 1..line : Config(j).tag = u
            /\ \A j \in 1..line : Config(j).tag = u =>
                 conf.single[u] # NoPath /\ conf.single[u] \in ToSet(Config(j).dirs)
        BY <1>1 DEF LineInv
      <4>2. Config(line + 1).tag # u
        BY <1>4, <1>5 DEF Config
      <4> QED BY <1>2, <2>3, <4>1, <4>2
    <3>3. phase' = "lines"
      BY <1>1, <1>5 DEF Config
    <3>4. \A j : Config(j)' = Config(j)
      BY <1>1 DEF Config
    <3> QED BY <3>1, <3>2, <3>3, <3>4 DEF LineInv, Phases
  <2> QED BY <1>1, <1>5, <2>4, <2>5, GivenStays DEF AccessInv, RefusedInv, Reading, Phases, Accessed
<1>6. CASE t \in Singles /\ ~SingleFails(l) /\ phase' = phase /\ conf' = [conf EXCEPT !.single[t] = l.dirs[1]]
  <2>1. /\ conf.single[t] = NoPath /\ Len(l.dirs) = 1
        /\ conf' = [conf EXCEPT !.single = [conf.single EXCEPT ![t] = l.dirs[1]]]
    BY <1>3, <1>6 DEF SingleFails
  <2>2. l.dirs[1] \in Dir /\ l.dirs[1] # NoPath /\ l.dirs[1] \in ToSet(l.dirs)
    BY <1>3, <1>6, <2>1, CommandAssumption DEF CommandAssumption, ToSet
  <2>3. /\ conf'.list = conf.list
        /\ conf'.single \in [Singles -> Dir \cup {NoPath}]
        /\ conf'.single[t] = l.dirs[1]
        /\ \A u \in Singles \ {t} : conf'.single[u] = conf.single[u]
    BY <1>3, <1>6, <2>1, <2>2
  <2>4. RunTyped'
    <3>1. conf' \in [list : [Lists -> Seq(Dir \cup {NoPath})], single : [Singles -> Dir \cup {NoPath}]]
      BY <1>3, <2>1, <2>3
    <3>2. line' \in 0..Len(in'.lines) /\ in' \in RunStart /\ phase' = phase
      BY <1>1, <1>2, <1>6 DEF RunTyped
    <3> QED BY <3>1, <3>2 DEF RunTyped
  <2>5. LineInv'
    <3>1. ASSUME NEW u \in Lists
          PROVE  /\ \A d \in ToSet(conf'.list[u]) : \E j \in 1..line' : d \in ToSet(Config(j).dirs)
                 /\ conf'.list[u] = <<>> => \A j \in 1..line' : Config(j).tag = u => Config(j).dirs = <<>>
      <4>1. /\ \A d \in ToSet(conf.list[u]) : \E j \in 1..line : d \in ToSet(Config(j).dirs)
            /\ conf.list[u] = <<>> => \A j \in 1..line : Config(j).tag = u => Config(j).dirs = <<>>
        BY DEF LineInv
      <4>2. Config(line + 1).tag # u
        BY <1>4, <1>6 DEF Config
      <4> QED BY <1>2, <2>3, <4>1, <4>2
    <3>2. ASSUME NEW u \in Singles
          PROVE  /\ conf'.single[u] # NoPath => \E j \in 1..line' : Config(j).tag = u
                 /\ \A j \in 1..line' : Config(j).tag = u =>
                      conf'.single[u] # NoPath /\ conf'.single[u] \in ToSet(Config(j).dirs)
      <4>1. /\ conf.single[u] # NoPath => \E j \in 1..line : Config(j).tag = u
            /\ \A j \in 1..line : Config(j).tag = u =>
                 conf.single[u] # NoPath /\ conf.single[u] \in ToSet(Config(j).dirs)
        BY <1>1 DEF LineInv
      <4>2. CASE u = t
        BY <1>2, <2>1, <2>2, <2>3, <4>1, <4>2 DEF Config
      <4>3. CASE u # t
        BY <1>2, <2>3, <4>1, <4>3 DEF Config
      <4> QED BY <4>2, <4>3
    <3> QED BY <1>1, <1>6, <3>1, <3>2 DEF LineInv, Config, Phases
  <2> QED BY <1>1, <1>6, <2>4, <2>5, GivenStays DEF AccessInv, RefusedInv, Reading, Phases, Accessed
<1>7. CASE /\ t \notin Lists /\ (t \in Singles => SingleFails(l))
           /\ phase' = "error" /\ UNCHANGED conf
  <2>1. RunTyped'
    BY <1>1, <1>2, <1>7 DEF RunTyped, Ends
  <2>2. LineInv'
    BY <1>1, <1>2, <1>7 DEF LineInv, Config, Phases
  <2>3. Excused
    <3>1. line + 1 \in DOMAIN in.lines /\ (line + 1) - 1 = line
      BY <1>2, LineFacts
    <3>2. CASE t \notin Singles
      BY <1>7, <3>1, <3>2 DEF Excused
    <3>3. CASE t \in Singles
      <4>1. Len(l.dirs) # 1 \/ \E j \in 1..line : in.lines[j].tag = t
        BY <1>7, <3>3 DEF SingleFails, LineInv, Config
      <4> QED BY <3>1, <3>3, <4>1 DEF Excused
    <3> QED BY <3>2, <3>3
  <2>4. AccessInv'
    BY <1>1, <1>7, AccessStays DEF Reading, Phases
  <2> QED BY <1>1, <2>1, <2>2, <2>3, <2>4, GivenStays DEF RefusedInv
<1> QED BY <1>1, <1>5, <1>6, <1>7

\* What is checked, and what follows from its failure.
LEMMA CheckInv ==
  ASSUME CommandInv, Check
  PROVE  CommandInv'
<1> USE DEF CommandInv
<1>1. /\ phase = "lines" /\ line = Len(in.lines) /\ UNCHANGED <<in, line, conf, did>>
      /\ phase' = IF CheckDone THEN "rom" ELSE "error"
  BY DEF Check, CheckDone
<1>2. RunTyped'
  BY <1>1 DEF RunTyped, Phases, Ends
<1>3. LineInv'
  BY <1>1, LinesStay DEF LineInv
<1>4. AccessInv'
  BY <1>1, AccessStays DEF Reading, Phases
<1>5. ASSUME ~active, ~CheckDone PROVE Excused
  <2>1. ~flag_change
    BY <1>5 DEF flag_change
  <2>2. \A j \in 1..line : j \in DOMAIN in.lines
    BY <1>1, LineFacts
  <2>3. ASSUME NEW t \in Lists, conf.list[t] = <<>>
        PROVE  ~\E i \in DOMAIN in.lines : in.lines[i].tag = t /\ in.lines[i].dirs # <<>>
    BY <1>1, <2>3, LineFacts DEF LineInv, Config
  <2>4. ASSUME NEW t \in Lists, ~(ToSet(conf.list[t]) \subseteq in.exists) PROVE Excused
    <3>1. PICK d \in ToSet(conf.list[t]) : d \notin in.exists
      BY <2>4
    <3>2. PICK j \in 1..line : d \in ToSet(in.lines[j].dirs)
      BY <3>1 DEF LineInv, Config
    <3> QED BY <2>2, <3>1, <3>2 DEF Excused
  <2>5. Lists = {"rom", "sample", "disk", "rom_import"}
    BY DEF Lists
  <2>6. CASE flag_rom /\ ~KindGood("rom", {"rom_new", "rom_unknown"})
    <3>1. conf.list["rom"] = <<>> => Excused
      BY <2>3, <2>5, <2>6 DEF Excused, flag_rom
    <3> QED BY <2>1, <2>4, <2>5, <2>6, <3>1 DEF KindGood
  <2>7. CASE flag_sample /\ ~KindGood("sample", {"sample_unknown"})
    <3>1. conf.list["sample"] = <<>> => Excused
      BY <2>3, <2>5, <2>7 DEF Excused, flag_sample
    <3> QED BY <2>1, <2>4, <2>5, <2>7, <3>1 DEF KindGood
  <2>8. CASE flag_disk /\ ~KindGood("disk", {"disk_unknown"})
    <3>1. conf.list["disk"] = <<>> => Excused
      BY <2>3, <2>5, <2>8 DEF Excused, flag_disk
    <3> QED BY <2>1, <2>4, <2>5, <2>8, <3>1 DEF KindGood
  <2> QED BY <1>5, <2>4, <2>5, <2>6, <2>7, <2>8 DEF CheckDone
<1>6. RefusedInv'
  BY <1>1, <1>5, GivenStays DEF RefusedInv
<1> QED BY <1>2, <1>3, <1>4, <1>6

-----------------------------------------------------------------------------
(* The phases.                                                             *)

Of(D, what) == {a.dir : a \in {a \in D : a.what = what}}

LEMMA OfDone ==
  ASSUME NEW dirs, NEW w, NEW v
  PROVE  Of(Done(w, dirs), v) = IF v = w THEN dirs ELSE {}
<1>1. CASE v = w
  <2>1. \A d \in dirs : [what |-> w, dir |-> d].dir = d /\ [what |-> w, dir |-> d].what = w
    OBVIOUS
  <2>2. {a \in Done(w, dirs) : a.what = v} = Done(w, dirs)
    BY <1>1, <2>1 DEF Done
  <2>3. {a.dir : a \in Done(w, dirs)} = dirs
    BY <2>1 DEF Done
  <2> QED BY <1>1, <2>2, <2>3 DEF Of
<1>2. CASE v # w
  BY <1>2 DEF Of, Done
<1> QED BY <1>1, <1>2

LEMMA OfUnion == \A A, B, v : Of(A \cup B, v) = Of(A, v) \cup Of(B, v)
BY DEF Of

\* A phase keeps the invariant if what it adds fits.
LEMMA PhaseInv ==
  ASSUME CommandInv, phase \in Phases, UNCHANGED <<in, line, conf>>,
         phase' \in Phases \cup Ends, phase' = "unknown" => flag_rom,
         phase' = "error" /\ ~active => Excused,
         NEW more, did' = did \cup more,
         Of(more, "write") \cup Of(more, "rename") \subseteq Own,
         Of(more, "write") \subseteq in.writable,
         Of(more, "import") \cap Paths("rom") = {},
         ~active => Of(more, "write") = {}
  PROVE  CommandInv'
<1> USE DEF CommandInv
<1>1. RunTyped'
  BY DEF RunTyped
<1>2. LineInv'
  BY LinesStay DEF LineInv, Phases, Ends
<1>3. \A v : Accessed(v)' = Accessed(v) \cup Of(more, v)
  BY OfUnion DEF Accessed, Of
<1>4. Own' = Own /\ Paths("rom")' = Paths("rom")
  BY DEF Own, Paths, Place
<1>5. CheckDone' = CheckDone
  BY GivenStays DEF CheckDone, KindGood, PlaceGood
<1>6. AccessInv'
  BY <1>3, <1>4, <1>5, GivenStays DEF AccessInv, Reading, Phases, Ends
<1>7. RefusedInv'
  BY GivenStays DEF RefusedInv
<1> QED BY <1>1, <1>2, <1>6, <1>7

\* What a load does.
LEMMA OfLoaded ==
  ASSUME NEW dirs
  PROVE  /\ Of(Loaded(dirs), "write") = {} /\ Of(Loaded(dirs), "import") = {}
         /\ Of(Loaded(dirs), "rename") \subseteq dirs
<1>1. \A v : Of(Loaded(dirs), v) = Of(Done("read", dirs), v) \cup Of(Done("rename", dirs \cap in.damaged), v)
  BY OfUnion DEF Loaded
<1> QED BY <1>1, OfDone

\* What a scan writes has been checked.
LEMMA OfWritten ==
  ASSUME NEW kind \in Lists, NEW unknown \in Singles, NEW new, NEW places,
         new = {} \/ (new = {Place("rom_new")} /\ "rom_new" \in places),
         unknown \in places, KindGood(kind, places), flag_operation,
         kind \in {"rom", "sample", "disk"}
  PROVE  /\ Of(Written(kind, new, unknown), "write") \subseteq in.writable \cap Own
         /\ Of(Written(kind, new, unknown), "import") = {}
         /\ Of(Written(kind, new, unknown), "rename") = {}
         /\ ~active => Of(Written(kind, new, unknown), "write") = {}
<1>1. CASE ~active
  <2>1. Written(kind, new, unknown) = {}
    BY <1>1 DEF Written
  <2> QED BY <2>1 DEF Of
<1>2. CASE active
  <2>1. flag_change
    BY <1>2 DEF flag_change
  <2>2. Paths(kind) \subseteq in.writable /\ \A t \in places : Place(t) \in in.writable
    BY <2>1 DEF KindGood, PlaceGood, Paths, Place
  <2>3. /\ Paths(kind) \subseteq Own /\ Place(unknown) \in Own /\ new \subseteq Own
        /\ Place(unknown) \in in.writable /\ new \subseteq in.writable
    BY <1>2, <2>2 DEF Own, Singles
  <2>4. PICK dirs : /\ Written(kind, new, unknown) = Done("write", dirs)
                    /\ dirs \subseteq Paths(kind) \cup {Place(unknown)} \cup new
    <3>1. Written(kind, new, unknown) =
            Done("write", (IF flag_fix \/ flag_remove \/ flag_move THEN Paths(kind) \cup {Place(unknown)} ELSE {})
                          \cup (IF flag_add THEN new ELSE {}))
      BY <1>2 DEF Written
    <3> QED BY <3>1
  <2>5. \A v : Of(Done("write", dirs), v) = IF v = "write" THEN dirs ELSE {}
    BY OfDone
  <2> QED BY <1>2, <2>2, <2>3, <2>4, <2>5
<1> QED BY <1>1, <1>2

LEMMA RomOperateInv ==
  ASSUME CommandInv, RomOperate
  PROVE  CommandInv'
<1>1. /\ phase = "rom" /\ flag_rom /\ flag_operation /\ UNCHANGED <<in, line, conf>>
      /\ CheckDone /\ KindGood("rom", {"rom_new", "rom_unknown"})
  BY DEF RomOperate, Goto, CommandInv, AccessInv, CheckDone, Phases
<1>2. CASE Place("rom_unknown") \in in.exists
  <2> DEFINE load == Loaded(Paths("rom") \cup {Place("rom_unknown")})
             import == Done("import", romreadonlytree)
             write == Written("rom", {Place("rom_new")}, "rom_unknown")
             more == (load \cup import) \cup write
  <2>1. did' = did \cup more /\ phase' = "unknown"
    BY <1>2 DEF RomOperate, Goto
  <2>2. \A v : Of(more, v) = (Of(load, v) \cup Of(import, v)) \cup Of(write, v)
    <3>1. \A v : Of(load \cup import, v) = Of(load, v) \cup Of(import, v)
      BY OfUnion
    <3> DEFINE both == load \cup import
    <3> HIDE DEF both, write
    <3>2. \A v : Of(both \cup write, v) = Of(both, v) \cup Of(write, v)
      BY OfUnion
    <3> QED BY <3>1, <3>2 DEF both
  <2>3. /\ Of(load, "write") = {} /\ Of(load, "import") = {}
        /\ Of(load, "rename") \subseteq Paths("rom") \cup {Place("rom_unknown")}
    BY OfLoaded
  <2>4. /\ Of(import, "write") = {} /\ Of(import, "rename") = {}
        /\ Of(import, "import") = romreadonlytree
    BY OfDone
  <2>5. /\ Of(write, "write") \subseteq in.writable \cap Own
        /\ Of(write, "import") = {} /\ Of(write, "rename") = {}
        /\ ~active => Of(write, "write") = {}
    BY <1>1, OfWritten DEF Lists, Singles
  <2>6. romreadonlytree \cap Paths("rom") = {}
    BY DEF romreadonlytree, Paths
  <2>7. Paths("rom") \cup {Place("rom_unknown")} \subseteq Own
    BY DEF Own, Singles
  <2> HIDE DEF load, import, write
  <2>8. /\ Of(more, "write") \cup Of(more, "rename") \subseteq Own
        /\ Of(more, "write") \subseteq in.writable
        /\ Of(more, "import") \cap Paths("rom") = {}
        /\ ~active => Of(more, "write") = {}
    BY <2>2, <2>3, <2>4, <2>5, <2>6, <2>7
  <2> HIDE DEF more
  <2> QED BY <1>1, <2>1, <2>8, PhaseInv DEF Phases
<1>3. CASE Place("rom_unknown") \notin in.exists
  <2>1. did' = did \cup {} /\ phase' = "error"
    BY <1>3 DEF RomOperate, Goto
  <2>2. Excused
    <3>1. line = Len(in.lines) /\ phase # "error" /\ LineInv /\ RunTyped
      BY <1>1 DEF CommandInv, LineInv, Phases
    <3>2. CASE Place("rom_unknown") = NoPath
      <4>1. ~\E i \in DOMAIN in.lines : in.lines[i].tag = "rom_unknown"
        BY <3>1, <3>2, LineFacts DEF LineInv, Config, Place, Singles
      <4> QED BY <1>1, <4>1 DEF Excused
    <3>3. CASE Place("rom_unknown") # NoPath
      <4>1. PICK j \in 1..line : Config(j).tag = "rom_unknown"
        BY <3>1, <3>3 DEF LineInv, Place, Singles
      <4>2. Place("rom_unknown") \in ToSet(in.lines[j].dirs)
        BY <3>1, <4>1 DEF LineInv, Config, Place, Singles
      <4>3. j \in DOMAIN in.lines
        BY <3>1, LineFacts
      <4> QED BY <1>3, <4>2, <4>3 DEF Excused
    <3> QED BY <3>2, <3>3
  <2>3. \A v : Of({}, v) = {}
    BY DEF Of
  <2> QED BY <1>1, <2>1, <2>2, <2>3, PhaseInv DEF Phases, Ends
<1> QED BY <1>2, <1>3

LEMMA RomLookInv ==
  ASSUME CommandInv, RomLook
  PROVE  CommandInv'
<1>1. /\ phase = "rom" /\ flag_rom /\ UNCHANGED <<in, line, conf>> /\ phase' = "unknown"
      /\ did' = did \cup Loaded(Paths("rom"))
  BY DEF RomLook, Goto
<1>2. /\ Of(Loaded(Paths("rom")), "write") = {} /\ Of(Loaded(Paths("rom")), "import") = {}
      /\ Of(Loaded(Paths("rom")), "rename") \subseteq Own
  BY OfLoaded DEF Own
<1> DEFINE more == Loaded(Paths("rom"))
<1> HIDE DEF more
<1> QED BY <1>1, <1>2, PhaseInv DEF Phases, more

LEMMA UnknownScanInv ==
  ASSUME CommandInv, UnknownScan
  PROVE  CommandInv'
<1> DEFINE dirs == IF flag_change THEN {Place("rom_unknown")} ELSE {}
           more == Done("write", dirs)
<1>1. /\ phase = "unknown" /\ UNCHANGED <<in, line, conf>> /\ phase' = "sample"
      /\ did' = did \cup more
  BY DEF UnknownScan, Goto
<1>2. KindGood("rom", {"rom_new", "rom_unknown"})
  BY <1>1 DEF CommandInv, AccessInv, CheckDone, Phases
<1>3. dirs \subseteq in.writable \cap Own /\ (~active => dirs = {})
  BY <1>2 DEF KindGood, PlaceGood, Own, Singles, Place, flag_change
<1> HIDE DEF dirs
<1>4. \A v : Of(more, v) = IF v = "write" THEN dirs ELSE {}
  BY OfDone
<1> HIDE DEF more
<1>5. /\ Of(more, "write") \cup Of(more, "rename") \subseteq Own
      /\ Of(more, "write") \subseteq in.writable
      /\ Of(more, "import") \cap Paths("rom") = {}
      /\ ~active => Of(more, "write") = {}
  BY <1>3, <1>4
<1> QED BY <1>1, <1>5, PhaseInv DEF Phases

LEMMA NoRomInv ==
  ASSUME CommandInv, NoRom
  PROVE  CommandInv'
<1>1. phase = "rom" /\ UNCHANGED <<in, line, conf>> /\ phase' = "sample" /\ did' = did \cup {}
  BY DEF NoRom, Goto
<1>2. \A v : Of({}, v) = {}
  BY DEF Of
<1> QED BY <1>1, <1>2, PhaseInv DEF Phases

LEMMA SamplePhaseInv ==
  ASSUME CommandInv, SamplePhase
  PROVE  CommandInv'
<1> DEFINE load == Loaded(Paths("sample"))
           write == IF flag_operation THEN Written("sample", {}, "sample_unknown") ELSE {}
           more == IF flag_sample THEN load \cup write ELSE {}
<1>1. phase = "sample" /\ UNCHANGED <<in, line, conf>> /\ phase' = "disk" /\ did' = did \cup more
  BY DEF SamplePhase, Goto
<1>2. \A v : Of({}, v) = {}
  BY DEF Of
<1>3. /\ Of(load, "write") = {} /\ Of(load, "import") = {}
      /\ Of(load, "rename") \subseteq Own
  BY OfLoaded DEF Own
<1>4. ASSUME flag_sample
      PROVE  /\ Of(write, "write") \subseteq in.writable \cap Own
             /\ Of(write, "import") = {} /\ Of(write, "rename") = {}
             /\ ~active => Of(write, "write") = {}
  <2>1. KindGood("sample", {"sample_unknown"})
    BY <1>1, <1>4 DEF CommandInv, AccessInv, CheckDone, Phases
  <2>2. CASE flag_operation
    BY <2>1, <2>2, OfWritten DEF Lists, Singles
  <2>3. CASE ~flag_operation
    BY <1>2, <2>3
  <2> QED BY <2>2, <2>3
<1> HIDE DEF load, write
<1>5. /\ Of(more, "write") \cup Of(more, "rename") \subseteq Own
      /\ Of(more, "write") \subseteq in.writable
      /\ Of(more, "import") \cap Paths("rom") = {}
      /\ ~active => Of(more, "write") = {}
  <2>1. CASE flag_sample
    <3>1. \A v : Of(more, v) = Of(load, v) \cup Of(write, v)
      BY <2>1, OfUnion
    <3> QED BY <1>3, <1>4, <2>1, <3>1
  <2>2. CASE ~flag_sample
    BY <1>2, <2>2
  <2> QED BY <2>1, <2>2
<1> HIDE DEF more
<1> QED BY <1>1, <1>5, PhaseInv DEF Phases

LEMMA DiskPhaseInv ==
  ASSUME CommandInv, DiskPhase
  PROVE  CommandInv'
<1> DEFINE load == Loaded(Paths("disk"))
           dirs == IF active /\ flag_move THEN Paths("disk") \cup {Place("disk_unknown")} ELSE {}
           write == Done("write", dirs)
           more == IF flag_disk THEN load \cup write ELSE {}
<1>1. phase = "disk" /\ UNCHANGED <<in, line, conf>> /\ phase' = "done" /\ did' = did \cup more
  <2>1. Done("write", {}) = {}
    BY DEF Done
  <2> QED BY <2>1 DEF DiskPhase, Goto
<1>2. \A v : Of({}, v) = {}
  BY DEF Of
<1>3. /\ Of(load, "write") = {} /\ Of(load, "import") = {}
      /\ Of(load, "rename") \subseteq Own
  BY OfLoaded DEF Own
<1>4. ASSUME flag_disk
      PROVE  dirs \subseteq in.writable \cap Own /\ (~active => dirs = {})
  <2>1. KindGood("disk", {"disk_unknown"})
    BY <1>1, <1>4 DEF CommandInv, AccessInv, CheckDone, Phases
  <2> QED BY <2>1 DEF KindGood, PlaceGood, Own, Singles, Place, Paths, flag_change, flag_operation
<1> HIDE DEF load, dirs
<1>5. \A v : Of(write, v) = IF v = "write" THEN dirs ELSE {}
  BY OfDone
<1> HIDE DEF write
<1>6. /\ Of(more, "write") \cup Of(more, "rename") \subseteq Own
      /\ Of(more, "write") \subseteq in.writable
      /\ Of(more, "import") \cap Paths("rom") = {}
      /\ ~active => Of(more, "write") = {}
  <2>1. CASE flag_disk
    <3>1. \A v : Of(more, v) = Of(load, v) \cup Of(write, v)
      BY <2>1, OfUnion
    <3> QED BY <1>3, <1>4, <1>5, <2>1, <3>1
  <2>2. CASE ~flag_disk
    BY <1>2, <2>2
  <2> QED BY <2>1, <2>2
<1> HIDE DEF more
<1> QED BY <1>1, <1>6, PhaseInv DEF Phases, Ends

\* What the properties say follows from the invariant.
LEMMA DirectoriesFromInv ==
  ASSUME CommandInv
  PROVE  DirectoriesKept
<1> USE DEF CommandInv
<1>1. WritesChecked
  BY DEF WritesChecked, AccessInv
<1>2. ImportOnlyRead
  BY DEF ImportOnlyRead, AccessInv, Own
<1>3. active <=> ~Has({"n"})
  BY DEF active
<1>4. PrintOnlyWritesNothing
  BY <1>3 DEF PrintOnlyWritesNothing, AccessInv
<1>5. SimulationNeedsNoPermission
  BY <1>3 DEF SimulationNeedsNoPermission, RefusedInv, Excused
<1> QED BY <1>1, <1>2, <1>4, <1>5 DEF DirectoriesKept

LEMMA CommandStep ==
  ASSUME CommandInv, [RunNext]_commandVars
  PROVE  CommandInv'
<1>1. CASE ReadOptions \/ ReadInfo
  BY <1>1, EarlyInv
<1>2. CASE ReadLine
  BY <1>2, ReadLineInv
<1>3. CASE Check
  BY <1>3, CheckInv
<1>4. CASE RomOperate
  BY <1>4, RomOperateInv
<1>5. CASE RomLook
  BY <1>5, RomLookInv
<1>6. CASE UnknownScan
  BY <1>6, UnknownScanInv
<1>7. CASE NoRom
  BY <1>7, NoRomInv
<1>8. CASE SamplePhase
  BY <1>8, SamplePhaseInv
<1>9. CASE DiskPhase
  BY <1>9, DiskPhaseInv
<1>10. CASE UNCHANGED commandVars
  <2>1. UNCHANGED <<in, phase, line, conf, did>>
    BY <1>10 DEF commandVars
  <2>2. RunTyped' /\ LineInv' /\ AccessInv' /\ RefusedInv'
    <3>1. RunTyped'
      BY <2>1 DEF CommandInv, RunTyped
    <3>2. LineInv'
      BY <2>1, LinesStay DEF CommandInv, LineInv
    <3>3. AccessInv'
      BY <2>1, AccessStays DEF CommandInv, AccessInv
    <3>4. RefusedInv'
      BY <2>1, GivenStays DEF CommandInv, RefusedInv
    <3> QED BY <3>1, <3>2, <3>3, <3>4
  <2> QED BY <2>2 DEF CommandInv
<1> QED BY <1>1, <1>2, <1>3, <1>4, <1>5, <1>6, <1>7, <1>8, <1>9, <1>10 DEF RunNext

LEMMA CommandInvariant == RunSpec => []CommandInv
<1> QED BY RunInitInv, CommandStep, PTL DEF RunSpec

\* In every run, whatever the options and the configuration: what is written
\* has been found to be writable before the first phase, what is imported is
\* not changed, -n writes no archive and needs no permission (run,
\* config::config).
THEOREM DirectoriesChecked == RunSpec => []DirectoriesKept
<1> QED BY CommandInvariant, DirectoriesFromInv, PTL

-----------------------------------------------------------------------------
(* The readers.  What is in progress is there whenever something of it is  *)
(* read, for every file.                                                   *)

XmlRoots == {"mame", "mess", "raine"}
GameTags == {"game", "machine"}

\* What identify answers for the tags of k + 1 levels.
LEMMA IdentifyCases ==
  ASSUME NEW T, NEW t \in Seq(T), NEW k \in 0..4, Len(t) = k + 1
  PROVE  LET p == identify(t) IN
         /\ \/ p = NoProcess
            \/ /\ k >= 1 /\ t[1] \in XmlRoots /\ t[2] \in GameTags /\ p \in Conversions
               /\ \/ k = 1 /\ p = <<>>
                  \/ k = 2 /\ p = <<t[3]>>
                  \/ k = 3 /\ p = <<t[3], t[4]>>
         /\ k = 1 /\ t[1] \in XmlRoots /\ t[2] \in GameTags => p = <<>>
         /\ k = 2 /\ t[1] \in XmlRoots /\ t[2] \in GameTags /\ t[3] \in {"rom", "disk"} => p = <<t[3]>>
<1> DEFINE q == SubSeq(t, 3, Len(t))
           p == identify(t)
           InGame == k >= 1 /\ t[1] \in XmlRoots /\ t[2] \in GameTags
<1>1. /\ q \in Seq(T) /\ Len(q) = IF k >= 2 THEN k - 1 ELSE 0
      /\ \A i \in 1..Len(q) : q[i] = t[i + 2]
  <2>1. 3 \in Int /\ Len(t) \in Int /\ \A i \in 3..Len(t) : t[i] \in T
    OBVIOUS
  <2>2. /\ q \in Seq(T) /\ Len(q) = IF 3 <= Len(t) THEN Len(t) - 3 + 1 ELSE 0
        /\ \A i \in 1..Len(t) - 3 + 1 : q[i] = t[3 + i - 1]
    BY <2>1, SubSeqProperties
  <2> HIDE DEF q
  <2>3. Len(q) = IF k >= 2 THEN k - 1 ELSE 0
    BY <2>2
  <2>4. \A i \in 1..Len(q) : i \in 1..Len(t) - 3 + 1 /\ 3 + i - 1 = i + 2
    BY <2>3
  <2> QED BY <2>2, <2>3, <2>4
<1>2. p = IF InGame /\ q \in Conversions THEN q ELSE NoProcess
  BY DEF identify, XmlRoots, GameTags
<1>3. k = 1 => q = <<>>
  <2> HIDE DEF q
  <2> QED BY <1>1, EmptySeq
<1>4. k = 2 => q = <<t[3]>>
  <2> HIDE DEF q
  <2> QED BY <1>1
<1>5. k = 3 => q = <<t[3], t[4]>>
  <2> HIDE DEF q
  <2> QED BY <1>1
<1>6. k = 4 => q \notin Conversions
  <2> HIDE DEF q
  <2> SUFFICES ASSUME k = 4, q \in Conversions PROVE FALSE
    OBVIOUS
  <2>1. Len(q) = 3
    BY <1>1
  <2>2. \A c \in Conversions : Len(c) \in {0, 1, 2}
    BY DEF Conversions
  <2>3. Len(q) \in {0, 1, 2}
    BY <2>2
  <2> QED BY <2>1, <2>3
<1>7. <<>> \in Conversions /\ <<"rom">> \in Conversions /\ <<"disk">> \in Conversions
  BY DEF Conversions
<1> HIDE DEF q, p
<1>8. k \in {0, 1, 2, 3, 4}
  OBVIOUS
<1> QED BY <1>2, <1>3, <1>4, <1>5, <1>6, <1>7, <1>8 DEF p

-----------------------------------------------------------------------------
(* What a step of a handler does to the state.                             *)

Fields == {"depth", "level", "error", "r", "d", "g", "a"}
AtMostOne(S) == \E x : S \subseteq {x}

Shape(s) ==
  /\ DOMAIN s = Fields /\ s.depth \in Int /\ s.depth >= -1
  /\ DOMAIN s.level = 0..4 /\ \A k \in 0..4 : DOMAIN s.level[k] = {"tag", "data", "process"}
  /\ AtMostOne(s.g) /\ AtMostOne(s.r) /\ AtMostOne(s.d)
  /\ s.error \in {"none", "size", "crc"}

\* u is s after something was read of a game, a rom and a disk in progress.
Filled(u, s) ==
  /\ DOMAIN u = Fields /\ u.depth = s.depth /\ u.level = s.level
  /\ u.g = {} <=> s.g = {}
  /\ u.r = {} <=> s.r = {}
  /\ u.d = {} <=> s.d = {}
  /\ AtMostOne(u.g) /\ AtMostOne(u.r) /\ AtMostOne(u.d)
  /\ u.error \in {"none", "size", "crc"}

\* What process_data may be called with where its game, rom and disk are there.
Fit(s, p) ==
  /\ p \in Conversions /\ s.g # {}
  /\ p \in {<<"rom", x>> : x \in {"name", "size", "crc", "status"}} => s.r # {}
  /\ p \in {<<"disk", x>> : x \in {"name", "sha1"}} => s.d # {}

LEMMA DataFills ==
  ASSUME NEW s, Shape(s), NEW p, Fit(s, p), NEW v
  PROVE  Filled(process_data(s, p, v), s)
<1> DEFINE u == process_data(s, p, v)
<1>1. /\ DOMAIN s = Fields /\ AtMostOne(s.g) /\ AtMostOne(s.r) /\ AtMostOne(s.d) /\ s.g # {}
      /\ Filled(s, s)
  BY DEF Shape, Fit, Filled
<1>2. ASSUME NEW G, G # {}, AtMostOne(G) PROVE Filled([s EXCEPT !.g = G], s)
  BY <1>1, <1>2 DEF Filled, Fields
<1>3. ASSUME NEW R, R # {}, AtMostOne(R), s.r # {} PROVE Filled([s EXCEPT !.r = R], s)
  BY <1>1, <1>3 DEF Filled, Fields
<1>4. ASSUME NEW D, D # {}, AtMostOne(D), s.d # {} PROVE Filled([s EXCEPT !.d = D], s)
  BY <1>1, <1>4 DEF Filled, Fields
<1>5. ASSUME NEW e \in {"size", "crc"} PROVE Filled(process_error(s, e), s)
  BY <1>1, <1>5 DEF Filled, Fields, process_error
<1>6. CASE p = <<>> \/ p = <<"rom">> \/ p = <<"disk">>
  <2>1. u = s
    BY <1>6 DEF process_data
  <2> QED BY <1>1, <2>1
<1>7. CASE p = <<"runnable">>
  <2>1. PICK x : s.g \subseteq {x}
    BY <1>1 DEF AtMostOne
  <2> DEFINE F(g) == process_runnable(g, v)
             G == {F(g) : g \in s.g}
  <2>2. u = [s EXCEPT !.g = G]
    BY <1>1, <1>7 DEF process_data, OnGame, Fit
  <2>3. G # {} /\ G \subseteq {F(x)} /\ s.g # {}
    BY ONLY <1>1, <2>1
  <2> HIDE DEF G, F, u
  <2> QED BY <1>2, <2>2, <2>3 DEF u, AtMostOne
<1>8. CASE p = <<"isbios">>
  <2>1. PICK x : s.g \subseteq {x}
    BY <1>1 DEF AtMostOne
  <2> DEFINE F(g) == [g EXCEPT !.resource = v = <<"yes">>]
             G == {F(g) : g \in s.g}
  <2>2. u = [s EXCEPT !.g = G]
    BY <1>1, <1>8 DEF process_data, OnGame, Fit
  <2>3. G # {} /\ G \subseteq {F(x)} /\ s.g # {}
    BY ONLY <1>1, <2>1
  <2> HIDE DEF G, F, u
  <2> QED BY <1>2, <2>2, <2>3 DEF u, AtMostOne
<1>9. CASE p = <<"rom", "name">>
  <2>1. PICK x : s.r \subseteq {x}
    BY <1>1 DEF AtMostOne
  <2> DEFINE F(r) == [r EXCEPT !.name = v]
             R == {F(r) : r \in s.r}
  <2>2. u = [s EXCEPT !.r = R]
    BY <1>1, <1>9 DEF process_data, OnRom, Fit
  <2>3. R # {} /\ R \subseteq {F(x)} /\ s.r # {}
    BY <1>1, <1>9, <2>1 DEF Fit
  <2> HIDE DEF R, F, u
  <2> QED BY <1>3, <2>2, <2>3 DEF u, AtMostOne
<1>10. CASE p = <<"rom", "status">>
  <2>1. PICK x : s.r \subseteq {x}
    BY <1>1 DEF AtMostOne
  <2> DEFINE F(r) == [r EXCEPT !.nodump = @ \/ v = Nodump]
             R == {F(r) : r \in s.r}
  <2>2. u = [s EXCEPT !.r = R]
    BY <1>1, <1>10 DEF process_data, OnRom, Fit
  <2>3. R # {} /\ R \subseteq {F(x)} /\ s.r # {}
    BY <1>1, <1>10, <2>1 DEF Fit
  <2> HIDE DEF R, F, u
  <2> QED BY <1>3, <2>2, <2>3 DEF u, AtMostOne
<1>11. CASE p = <<"driver", "status">>
  <2>1. PICK x : s.g \subseteq {x}
    BY <1>1 DEF AtMostOne
  <2> DEFINE F(g) == [g EXCEPT !.working = @ /\ v # Preliminary]
             G == {F(g) : g \in s.g}
  <2>2. u = [s EXCEPT !.g = G]
    BY <1>1, <1>11 DEF process_data, OnGame, Fit
  <2>3. G # {} /\ G \subseteq {F(x)} /\ s.g # {}
    BY <1>1, <1>11, <2>1 DEF Fit
  <2> HIDE DEF G, F, u
  <2> QED BY <1>2, <2>2, <2>3 DEF u, AtMostOne
<1>12. CASE p = <<"sample", "name">>
  <2>1. PICK x : s.g \subseteq {x}
    BY <1>1 DEF AtMostOne
  <2> DEFINE F(g) == [g EXCEPT !.samples = @ \cup {SampleName(v)}]
             G == {F(g) : g \in s.g}
  <2>2. u = [s EXCEPT !.g = G]
    BY <1>1, <1>12 DEF process_data, OnGame, Fit
  <2>3. G # {} /\ G \subseteq {F(x)} /\ s.g # {}
    BY <1>1, <1>12, <2>1 DEF Fit
  <2> HIDE DEF G, F, u
  <2> QED BY <1>2, <2>2, <2>3 DEF u, AtMostOne
<1>13. CASE p = <<"disk", "name">>
  <2>1. PICK x : s.d \subseteq {x}
    BY <1>1 DEF AtMostOne
  <2> DEFINE F(d) == [d EXCEPT !.name = v]
             D == {F(d) : d \in s.d}
  <2>2. u = [s EXCEPT !.d = D]
    BY <1>1, <1>13 DEF process_data, OnDisk, Fit
  <2>3. D # {} /\ D \subseteq {F(x)} /\ s.d # {}
    BY <1>1, <1>13, <2>1 DEF Fit
  <2> HIDE DEF D, F, u
  <2> QED BY <1>4, <2>2, <2>3 DEF u, AtMostOne
<1>14. CASE p = <<"disk", "sha1">>
  <2>1. PICK x : s.d \subseteq {x}
    BY <1>1 DEF AtMostOne
  <2> DEFINE F(d) == [d EXCEPT !.sha1 = v]
             D == {F(d) : d \in s.d}
  <2>2. u = [s EXCEPT !.d = D]
    BY <1>1, <1>14 DEF process_data, OnDisk, Fit
  <2>3. D # {} /\ D \subseteq {F(x)} /\ s.d # {}
    BY <1>1, <1>14, <2>1 DEF Fit
  <2> HIDE DEF D, F, u
  <2> QED BY <1>4, <2>2, <2>3 DEF u, AtMostOne
<1>15. CASE p = <<"rom", "size">>
  <2>1. PICK x : s.r \subseteq {x}
    BY <1>1 DEF AtMostOne
  <2> DEFINE F(r) == [r EXCEPT !.size = strdec(v)]
             R == {F(r) : r \in s.r}
  <2>2. s.r # {} /\ R # {} /\ R \subseteq {F(x)}
    BY <1>1, <1>15, <2>1 DEF Fit
  <2>3. u = IF ~IsDec(v) THEN process_error(s, "size") ELSE [s EXCEPT !.r = R]
    BY <1>1, <1>15, <2>2 DEF process_data, OnRom
  <2> HIDE DEF R, F, u
  <2> QED BY <1>3, <1>5, <2>2, <2>3 DEF u, AtMostOne
<1>16. CASE p = <<"rom", "crc">>
  <2>1. PICK x : s.r \subseteq {x}
    BY <1>1 DEF AtMostOne
  <2> DEFINE F(r) == [r EXCEPT !.crc = strhex(v)]
             R == {F(r) : r \in s.r}
  <2>2. s.r # {} /\ R # {} /\ R \subseteq {F(x)}
    BY <1>1, <1>16, <2>1 DEF Fit
  <2>3. u = IF ~IsHex(v) THEN process_error(s, "crc") ELSE [s EXCEPT !.r = R]
    BY <1>1, <1>16, <2>2 DEF process_data, OnRom
  <2> HIDE DEF R, F, u
  <2> QED BY <1>3, <1>5, <2>2, <2>3 DEF u, AtMostOne
<1>17. CASE \E y \in TextField : p = <<y>>
  <2>1. PICK x : s.g \subseteq {x}
    BY <1>1 DEF AtMostOne
  <2> DEFINE F(g) == [g EXCEPT !.field[p[1]] = v]
             G == {F(g) : g \in s.g}
  <2>2. u = [s EXCEPT !.g = G]
    BY <1>1, <1>17 DEF process_data, OnGame, TextField
  <2>3. G # {} /\ G \subseteq {F(x)}
    BY <1>1, <2>1
  <2> HIDE DEF G, F, u
  <2> QED BY <1>2, <2>2, <2>3 DEF u, AtMostOne
<1> HIDE DEF u
<1> QED BY <1>6, <1>7, <1>8, <1>9, <1>10, <1>11, <1>12, <1>13, <1>14, <1>15, <1>16, <1>17 DEF Fit, Conversions, u

LEMMA OpenFacts ==
  ASSUME NEW s, Shape(s), NEW p
  PROVE  LET u == process_open(s, p) IN
         /\ Shape(u) /\ u.depth = s.depth /\ u.level = s.level /\ u.error = s.error
         /\ s.g # {} \/ p = <<>> => u.g # {}
         /\ s.r # {} \/ p = <<"rom">> => u.r # {}
         /\ s.d # {} \/ p = <<"disk">> => u.d # {}
<1> DEFINE u == process_open(s, p)
<1>1. CASE p = <<>>
  <2>1. u = [s EXCEPT !.g = {NewGame}] /\ p # <<"rom">> /\ p # <<"disk">>
    BY <1>1 DEF process_open
  <2>2. AtMostOne({NewGame})
    BY DEF AtMostOne
  <2> QED BY <2>1, <2>2 DEF Shape, Fields
<1>2. CASE p = <<"rom">>
  <2>1. u = [s EXCEPT !.r = {NewRom}] /\ p # <<>> /\ p # <<"disk">>
    BY <1>2 DEF process_open
  <2>2. AtMostOne({NewRom})
    BY DEF AtMostOne
  <2> QED BY <2>1, <2>2 DEF Shape, Fields
<1>3. CASE p = <<"disk">>
  <2>1. u = [s EXCEPT !.d = {NewDisk}] /\ p # <<>> /\ p # <<"rom">>
    BY <1>3 DEF process_open
  <2>2. AtMostOne({NewDisk})
    BY DEF AtMostOne
  <2> QED BY <2>1, <2>2 DEF Shape, Fields
<1>4. CASE p # <<>> /\ p # <<"rom">> /\ p # <<"disk">>
  <2>1. u = s
    BY <1>4 DEF process_open
  <2> QED BY <1>4, <2>1
<1> QED BY <1>1, <1>2, <1>3, <1>4

LEMMA CloseFacts ==
  ASSUME NEW s, Shape(s), NEW p, p \in {<<"rom">>, <<"disk">>} => s.g # {}
  PROVE  LET u == process_close(s, p) IN
         /\ Shape(u) /\ u.depth = s.depth /\ u.level = s.level /\ u.error = s.error
         /\ s.g # {} /\ p # <<>> => u.g # {}
         /\ s.r # {} /\ p # <<"rom">> => u.r # {}
         /\ s.d # {} /\ p # <<"disk">> => u.d # {}
<1> DEFINE u == process_close(s, p)
<1>1. AtMostOne({}) /\ DOMAIN s = Fields
  BY DEF AtMostOne, Shape
<1>2. CASE p = <<>>
  <2>1. u = [s EXCEPT !.a = InsertGame(s.a, CHOOSE g \in s.g : TRUE), !.g = {}]
        /\ p # <<"rom">> /\ p # <<"disk">>
    BY <1>2 DEF process_close
  <2> QED BY <1>1, <1>2, <2>1 DEF Shape, Fields
<1>3. CASE p = <<"rom">>
  <2>1. PICK x : s.g \subseteq {x}
    BY DEF AtMostOne, Shape
  <2> DEFINE F(g) == [g EXCEPT !.roms = InsertNamed(g.roms, CHOOSE r \in s.r : TRUE)]
             G == {F(g) : g \in s.g}
  <2>2. u = [[s EXCEPT !.g = G] EXCEPT !.r = {}] /\ p # <<>> /\ p # <<"disk">>
    BY <1>3 DEF process_close, OnGame
  <2>3. G # {} /\ G \subseteq {F(x)}
    BY <1>3, <2>1
  <2> HIDE DEF G, F, u
  <2>4. /\ DOMAIN u = Fields /\ u.g = G /\ u.r = {} /\ u.d = s.d
        /\ u.depth = s.depth /\ u.level = s.level /\ u.error = s.error
    BY <1>1, <2>2 DEF Fields
  <2>5. AtMostOne(G)
    BY <2>3 DEF AtMostOne
  <2> QED BY <1>1, <1>3, <2>2, <2>3, <2>4, <2>5 DEF u, Shape
<1>4. CASE p = <<"disk">>
  <2>1. PICK x : s.g \subseteq {x}
    BY DEF AtMostOne, Shape
  <2> DEFINE F(g) == [g EXCEPT !.disks = InsertNamed(g.disks, CHOOSE d \in s.d : TRUE)]
             G == {F(g) : g \in s.g}
  <2>2. u = [[s EXCEPT !.g = G] EXCEPT !.d = {}] /\ p # <<>> /\ p # <<"rom">>
    BY <1>4 DEF process_close, OnGame
  <2>3. G # {} /\ G \subseteq {F(x)}
    BY <1>4, <2>1
  <2> HIDE DEF G, F, u
  <2>4. /\ DOMAIN u = Fields /\ u.g = G /\ u.d = {} /\ u.r = s.r
        /\ u.depth = s.depth /\ u.level = s.level /\ u.error = s.error
    BY <1>1, <2>2 DEF Fields
  <2>5. AtMostOne(G)
    BY <2>3 DEF AtMostOne
  <2> QED BY <1>1, <1>4, <2>2, <2>3, <2>4, <2>5 DEF u, Shape
<1>5. CASE p # <<>> /\ p # <<"rom">> /\ p # <<"disk">>
  <2>1. u = s
    BY <1>5 DEF process_close
  <2> QED BY <2>1
<1> QED BY <1>2, <1>3, <1>4, <1>5

-----------------------------------------------------------------------------
(* The handlers.                                                           *)

Tags(s, k) == [i \in 1..k + 1 |-> s.level[i - 1].tag]
InGame(s) == s.depth >= 1 /\ s.level[0].tag \in XmlRoots /\ s.level[1].tag \in GameTags
Inside(s, tag) == InGame(s) /\ s.depth >= 2 /\ s.level[2].tag = tag

\* The levels know what they are, and what they are in is there.
Opened(s) ==
  s.error = "none" =>
    /\ \A k \in 0..4 : k <= s.depth => s.level[k].process = identify(Tags(s, k))
    /\ InGame(s) => s.g # {}
    /\ Inside(s, "rom") => s.r # {}
    /\ Inside(s, "disk") => s.d # {}

HandlerInv(s) == Shape(s) /\ Opened(s)

LEMMA LevelCases ==
  ASSUME NEW s, NEW k \in 0..4
  PROVE  LET p == identify(Tags(s, k))
             game == s.level[0].tag \in XmlRoots /\ s.level[1].tag \in GameTags
         IN
         /\ \/ p = NoProcess
            \/ /\ k >= 1 /\ game /\ p \in Conversions
               /\ \/ k = 1 /\ p = <<>>
                  \/ k = 2 /\ p = <<s.level[2].tag>>
                  \/ k = 3 /\ p = <<s.level[2].tag, s.level[3].tag>>
         /\ k = 1 /\ game => p = <<>>
         /\ k = 2 /\ game /\ s.level[2].tag \in {"rom", "disk"} => p = <<s.level[2].tag>>
<1> DEFINE t == Tags(s, k)
           T == {s.level[i - 1].tag : i \in 1..k + 1}
<1>1. t \in Seq(T) /\ Len(t) = k + 1
  <2>1. k + 1 \in Nat /\ t = [i \in 1..k + 1 |-> s.level[i - 1].tag]
    BY DEF Tags
  <2>2. \A i \in 1..k + 1 : s.level[i - 1].tag \in T
    OBVIOUS
  <2> HIDE DEF t, T
  <2> QED BY <2>1, <2>2
<1>2. \A i \in 1..k + 1 : t[i] = s.level[i - 1].tag
  BY DEF Tags
<1>3. /\ k >= 1 => t[1] = s.level[0].tag /\ t[2] = s.level[1].tag
      /\ k >= 2 => t[3] = s.level[2].tag
      /\ k >= 3 => t[4] = s.level[3].tag
  <2> HIDE DEF t
  <2>1. k >= 1 => 1 \in 1..k + 1 /\ 2 \in 1..k + 1
    OBVIOUS
  <2>2. k >= 2 => 3 \in 1..k + 1
    OBVIOUS
  <2>3. k >= 3 => 4 \in 1..k + 1
    OBVIOUS
  <2> QED BY <1>2, <2>1, <2>2, <2>3
<1> HIDE DEF t, T
<1> DEFINE p == identify(t)
<1>4. /\ \/ p = NoProcess
         \/ /\ k >= 1 /\ t[1] \in XmlRoots /\ t[2] \in GameTags /\ p \in Conversions
            /\ \/ k = 1 /\ p = <<>>
               \/ k = 2 /\ p = <<t[3]>>
               \/ k = 3 /\ p = <<t[3], t[4]>>
      /\ k = 1 /\ t[1] \in XmlRoots /\ t[2] \in GameTags => p = <<>>
      /\ k = 2 /\ t[1] \in XmlRoots /\ t[2] \in GameTags /\ t[3] \in {"rom", "disk"} => p = <<t[3]>>
  BY <1>1, IdentifyCases
<1> HIDE DEF p
<1> QED BY <1>3, <1>4 DEF p, t

\* The handlers of one element, whatever is read of it.
LEMMA StartElementInv ==
  ASSUME NEW s, HandlerInv(s), NEW tag
  PROVE  LET u == start_element(s, tag) IN HandlerInv(u) /\ u.depth = s.depth + 1
<1> DEFINE d == s.depth + 1
           s1 == [s EXCEPT !.depth = @ + 1]
           tags == [i \in 1..d + 1 |-> IF i = d + 1 THEN tag ELSE s1.level[i - 1].tag]
           p == IF s1.error = "none" THEN identify(tags) ELSE NoProcess
           s2 == [s1 EXCEPT !.level[d] = [tag |-> tag, data |-> <<>>, process |-> p]]
           u == start_element(s, tag)
<1>1. /\ DOMAIN s = Fields /\ s.depth \in Int /\ s.depth >= -1 /\ d \in Int /\ d >= 0
      /\ DOMAIN s.level = 0..4 /\ \A k \in 0..4 : DOMAIN s.level[k] = {"tag", "data", "process"}
  BY DEF HandlerInv, Shape
<1>2. /\ DOMAIN s1 = Fields /\ s1.depth = d /\ s1.level = s.level /\ s1.error = s.error
      /\ s1.g = s.g /\ s1.r = s.r /\ s1.d = s.d
  BY <1>1 DEF Fields
<1>3. u = IF d < 5 THEN process_open(s2, p) ELSE s1
  BY <1>2, ReaderAssumption DEF start_element, Checked
<1> HIDE DEF u
<1>4. CASE ~(d < 5)
  <2>1. u = s1
    BY <1>3, <1>4
  <2> HIDE DEF s1
  <2>2. Shape(u)
    BY <1>1, <1>2, <2>1 DEF HandlerInv, Shape
  <2>3. \A k \in 0..4 : Tags(u, k) = Tags(s, k)
    BY <1>2, <2>1 DEF Tags
  <2>4. s.depth >= 4
    BY <1>1, <1>4
  <2>5. Opened(u)
    BY <1>1, <1>2, <1>4, <2>1, <2>3, <2>4 DEF HandlerInv, Opened, InGame, Inside
  <2> QED BY <1>2, <2>1, <2>2, <2>5 DEF HandlerInv, u
<1>5. CASE d < 5
  <2>1. d \in 0..4
    BY <1>1, <1>5
  <2> HIDE DEF s1, p
  <2> DEFINE e == [tag |-> tag, data |-> <<>>, process |-> p]
  <2>2. /\ DOMAIN s2 = Fields /\ s2.depth = d /\ s2.level = [s.level EXCEPT ![d] = e]
        /\ s2.error = s.error /\ s2.g = s.g /\ s2.r = s.r /\ s2.d = s.d
    BY <1>2 DEF Fields
  <2> HIDE DEF s2
  <2>3. /\ DOMAIN s2.level = 0..4 /\ \A k \in 0..4 : k # d => s2.level[k] = s.level[k]
        /\ s2.level[d].tag = tag /\ s2.level[d].process = p /\ DOMAIN s2.level[d] = {"tag", "data", "process"}
    BY <1>1, <2>1, <2>2
  <2>4. Shape(s2)
    BY <1>1, <2>1, <2>2, <2>3 DEF HandlerInv, Shape
  <2>5. tags = Tags(s2, d)
    <3>1. ASSUME NEW i \in 1..d + 1
          PROVE  (IF i = d + 1 THEN tag ELSE s1.level[i - 1].tag) = s2.level[i - 1].tag
      <4>1. i - 1 \in 0..4 /\ (i # d + 1 => i - 1 # d) /\ (i = d + 1 => i - 1 = d)
        BY <2>1
      <4> QED BY <1>2, <2>3, <4>1
    <3> QED BY <3>1 DEF Tags
  <2>6. s.error = "none" => p = identify(Tags(s2, d))
    BY <1>2, <2>5 DEF p
  <2>7. \A k \in 0..4 : k < d => Tags(s2, k) = Tags(s, k)
    <3> TAKE k \in 0..4
    <3>1. k < d => \A i \in 1..k + 1 : i - 1 \in 0..4 /\ i - 1 # d
      BY <2>1
    <3> QED BY <2>3, <3>1 DEF Tags
  <2>8. /\ Shape(u) /\ u.depth = d /\ u.level = s2.level /\ u.error = s.error
        /\ s.g # {} \/ p = <<>> => u.g # {}
        /\ s.r # {} \/ p = <<"rom">> => u.r # {}
        /\ s.d # {} \/ p = <<"disk">> => u.d # {}
    BY <1>3, <1>5, <2>2, <2>4, OpenFacts
  <2>9. Opened(u)
    <3> SUFFICES ASSUME u.error = "none" PROVE Opened(u)
      BY DEF Opened
    <3>1. /\ \A k \in 0..4 : k <= s.depth => s.level[k].process = identify(Tags(s, k))
          /\ InGame(s) => s.g # {}
          /\ Inside(s, "rom") => s.r # {}
          /\ Inside(s, "disk") => s.d # {}
      BY <2>8 DEF HandlerInv, Opened
    <3>2. ASSUME NEW k \in 0..4, k <= u.depth PROVE u.level[k].process = identify(Tags(u, k))
      <4>1. Tags(u, k) = Tags(s2, k)
        BY <2>8 DEF Tags
      <4>2. CASE k = d
        BY <2>3, <2>6, <2>8, <4>1, <4>2
      <4>3. CASE k # d
        <5>1. k < d /\ k <= s.depth
          BY <1>1, <2>8, <3>2, <4>3
        <5> QED BY <2>3, <2>7, <2>8, <3>1, <4>1, <4>3, <5>1
      <4> QED BY <4>2, <4>3
    <3>3. /\ d = 1 /\ InGame(u) => p = <<>>
          /\ d = 2 /\ Inside(u, "rom") => p = <<"rom">>
          /\ d = 2 /\ Inside(u, "disk") => p = <<"disk">>
      BY <2>1, <2>6, <2>8, LevelCases DEF InGame, Inside
    <3>4. InGame(u) => u.g # {}
      <4>1. d # 1 /\ InGame(u) => InGame(s)
        BY <1>1, <2>1, <2>3, <2>8 DEF InGame
      <4> QED BY <2>8, <3>1, <3>3, <4>1
    <3>5. ASSUME NEW x \in {"rom", "disk"}, d # 2, Inside(u, x) PROVE Inside(s, x)
      <4>1. d > 2
        BY <2>1, <2>8, <3>5 DEF Inside
      <4> QED BY <1>1, <2>1, <2>3, <2>8, <3>5, <4>1 DEF InGame, Inside
    <3>6. (Inside(u, "rom") => u.r # {}) /\ (Inside(u, "disk") => u.d # {})
      BY <2>8, <3>1, <3>3, <3>5
    <3> QED BY <3>2, <3>4, <3>6 DEF Opened
  <2> QED BY <2>8, <2>9 DEF HandlerInv, u
<1> QED BY <1>4, <1>5

LEMMA DataHandlerInv ==
  ASSUME NEW s, HandlerInv(s), NEW v
  PROVE  LET u == data_handler(s, v) IN HandlerInv(u) /\ u.depth = s.depth
<1> DEFINE d == s.depth
           u == data_handler(s, v)
<1>1. /\ DOMAIN s = Fields /\ d \in Int /\ d >= -1
      /\ DOMAIN s.level = 0..4 /\ \A k \in 0..4 : DOMAIN s.level[k] = {"tag", "data", "process"}
  BY DEF HandlerInv, Shape
<1>2. CASE ~(d < 5) \/ s.error # "none"
  <2>1. u = s
    BY <1>2, ReaderAssumption DEF data_handler, Checked
  <2> QED BY <2>1
<1>3. CASE d < 5 /\ s.error = "none"
  <2> DEFINE e == [s.level[d] EXCEPT !.data = @ \o v]
  <2>1. u = [s EXCEPT !.level = [s.level EXCEPT ![d] = e]]
    BY <1>1, <1>3, ReaderAssumption DEF data_handler, Checked, Fields
  <2>2. d \in 0..4 =>
          e.tag = s.level[d].tag /\ e.process = s.level[d].process /\ DOMAIN e = {"tag", "data", "process"}
    BY <1>1, <1>3
  <2> HIDE DEF u, e
  <2>3. /\ DOMAIN u = Fields /\ u.depth = d /\ u.level = [s.level EXCEPT ![d] = e]
        /\ u.error = s.error /\ u.g = s.g /\ u.r = s.r /\ u.d = s.d
    BY <1>1, <2>1 DEF Fields
  <2>4. /\ DOMAIN u.level = 0..4
        /\ \A k \in 0..4 : /\ u.level[k].tag = s.level[k].tag /\ u.level[k].process = s.level[k].process
                           /\ DOMAIN u.level[k] = {"tag", "data", "process"}
    BY <1>1, <1>3, <2>2, <2>3
  <2>5. \A k \in 0..4 : Tags(u, k) = Tags(s, k)
    <3> TAKE k \in 0..4
    <3>1. \A i \in 1..k + 1 : i - 1 \in 0..4
      OBVIOUS
    <3> QED BY <2>4, <3>1 DEF Tags
  <2>6. Shape(u)
    BY <1>1, <2>3, <2>4 DEF HandlerInv, Shape
  <2>7. InGame(u) = InGame(s) /\ \A x : Inside(u, x) = Inside(s, x)
    BY <2>3, <2>4 DEF InGame, Inside
  <2>8. Opened(u)
    BY <2>3, <2>4, <2>5, <2>7 DEF HandlerInv, Opened
  <2> QED BY <2>3, <2>6, <2>8 DEF HandlerInv, u
<1> QED BY <1>2, <1>3

LEMMA EndHandlerInv ==
  ASSUME NEW s, HandlerInv(s), s.depth >= 0
  PROVE  LET u == end_handler(s) IN HandlerInv(u) /\ u.depth = s.depth - 1
<1> DEFINE d == s.depth
           p == s.level[d].process
           done == IF ~(d < 5) \/ s.error # "none" \/ p = NoProcess THEN s
                   ELSE process_close(process_data(s, p, s.level[d].data), p)
           u == [done EXCEPT !.depth = @ - 1]
<1>1. /\ Shape(s) /\ DOMAIN s = Fields /\ d \in Nat
      /\ DOMAIN s.level = 0..4 /\ \A k \in 0..4 : DOMAIN s.level[k] = {"tag", "data", "process"}
  BY DEF HandlerInv, Shape
<1>2. u = end_handler(s)
  BY ReaderAssumption DEF end_handler, Checked, Here
<1>3. ASSUME s.error = "none", d < 5, p # NoProcess
      PROVE  /\ Fit(s, p) /\ (p = <<>> => d = 1) /\ (p = <<"rom">> => d = 2) /\ (p = <<"disk">> => d = 2)
  <2>1. d \in 0..4 /\ p = identify(Tags(s, d)) /\ (InGame(s) => s.g # {})
        /\ (Inside(s, "rom") => s.r # {}) /\ (Inside(s, "disk") => s.d # {})
    BY <1>1, <1>3 DEF HandlerInv, Opened
  <2>2. /\ d >= 1 /\ InGame(s) /\ p \in Conversions
        /\ \/ d = 1 /\ p = <<>>
           \/ d = 2 /\ p = <<s.level[2].tag>>
           \/ d = 3 /\ p = <<s.level[2].tag, s.level[3].tag>>
    BY <1>3, <2>1, LevelCases DEF InGame
  <2>3. ASSUME NEW x, p = <<"rom", x>> PROVE Inside(s, "rom")
    <3> HIDE DEF p
    <3>1. d = 3 /\ <<s.level[2].tag, s.level[3].tag>> = <<"rom", x>>
      BY <2>2, <2>3
    <3> QED BY <2>2, <3>1 DEF Inside
  <2>4. ASSUME NEW x, p = <<"disk", x>> PROVE Inside(s, "disk")
    <3> HIDE DEF p
    <3>1. d = 3 /\ <<s.level[2].tag, s.level[3].tag>> = <<"disk", x>>
      BY <2>2, <2>4
    <3> QED BY <2>2, <3>1 DEF Inside
  <2> HIDE DEF p
  <2>5. p \in {<<"rom", x>> : x \in {"name", "size", "crc", "status"}} => s.r # {}
    BY <2>1, <2>3
  <2>6. p \in {<<"disk", x>> : x \in {"name", "sha1"}} => s.d # {}
    BY <2>1, <2>4
  <2>7. Fit(s, p)
    BY <2>1, <2>2, <2>5, <2>6 DEF Fit
  <2>8. (p = <<>> => d = 1) /\ (p = <<"rom">> => d = 2) /\ (p = <<"disk">> => d = 2)
    <3>1. CASE d = 1 /\ p = <<>>
      BY <3>1
    <3>2. CASE d = 2 /\ p = <<s.level[2].tag>>
      BY <3>2
    <3>3. CASE d = 3 /\ p = <<s.level[2].tag, s.level[3].tag>>
      BY <3>3
    <3> QED BY <2>2, <3>1, <3>2, <3>3
  <2> QED BY <2>7, <2>8
<1>4. /\ Shape(done) /\ done.depth = d /\ done.level = s.level
      /\ s.error # "none" => done.error # "none"
      /\ done.error = "none" =>
           /\ s.g # {} /\ d # 1 => done.g # {}
           /\ s.r # {} /\ d # 2 => done.r # {}
           /\ s.d # {} /\ d # 2 => done.d # {}
  <2>1. CASE ~(d < 5) \/ s.error # "none" \/ p = NoProcess
    <3>1. done = s
      BY <2>1
    <3> HIDE DEF done
    <3> QED BY <1>1, <3>1
  <2>2. CASE d < 5 /\ s.error = "none" /\ p # NoProcess
    <3> DEFINE f == process_data(s, p, s.level[d].data)
    <3>1. Fit(s, p) /\ (p = <<>> => d = 1) /\ (p = <<"rom">> => d = 2) /\ (p = <<"disk">> => d = 2)
      BY <1>3, <2>2
    <3>2. Filled(f, s)
      <4> HIDE DEF p
      <4> QED BY <1>1, <2>2, <3>1, DataFills
    <3> HIDE DEF f
    <3>3. Shape(f) /\ f.g # {}
      BY <1>1, <3>1, <3>2 DEF Filled, Shape, Fit
    <3>4. LET c == process_close(f, p) IN
          /\ Shape(c) /\ c.depth = f.depth /\ c.level = f.level /\ c.error = f.error
          /\ f.g # {} /\ p # <<>> => c.g # {}
          /\ f.r # {} /\ p # <<"rom">> => c.r # {}
          /\ f.d # {} /\ p # <<"disk">> => c.d # {}
      BY <3>3, CloseFacts
    <3>5. done = process_close(f, p)
      BY <2>2 DEF f
    <3> HIDE DEF done, p
    <3> QED BY <2>2, <3>1, <3>2, <3>4, <3>5 DEF Filled
  <2> QED BY <1>1, <2>1, <2>2
<1> HIDE DEF done, p
<1>5. /\ DOMAIN u = Fields /\ u.depth = d - 1 /\ u.level = s.level
      /\ u.error = done.error /\ u.g = done.g /\ u.r = done.r /\ u.d = done.d
  BY <1>4 DEF Shape, Fields
<1> HIDE DEF u
<1>6. Shape(u)
  BY <1>1, <1>4, <1>5 DEF Shape
<1>7. \A k \in 0..4 : Tags(u, k) = Tags(s, k)
  BY <1>5 DEF Tags
<1>8. ASSUME u.error = "none" PROVE Opened(u)
  <2>1. /\ \A k \in 0..4 : k <= s.depth => s.level[k].process = identify(Tags(s, k))
        /\ InGame(s) => s.g # {}
        /\ Inside(s, "rom") => s.r # {}
        /\ Inside(s, "disk") => s.d # {}
    BY <1>4, <1>5, <1>8 DEF HandlerInv, Opened
  <2>2. \A k \in 0..4 : k <= u.depth => u.level[k].process = identify(Tags(u, k))
    BY <1>1, <1>5, <1>7, <2>1
  <2>3. InGame(u) => InGame(s) /\ d # 1
    BY <1>1, <1>5 DEF InGame
  <2>4. \A x : Inside(u, x) => Inside(s, x) /\ d # 2
    BY <1>1, <1>5, <2>3 DEF Inside
  <2> QED BY <1>4, <1>5, <1>8, <2>1, <2>2, <2>3, <2>4 DEF Opened
<1> QED BY <1>2, <1>5, <1>6, <1>8 DEF HandlerInv, Opened

LEMMA StartHandlerInv ==
  ASSUME NEW s, HandlerInv(s), NEW tag, NEW atts, IsSequence(atts)
  PROVE  LET u == start_handler(s, tag, atts) IN HandlerInv(u) /\ u.depth = s.depth + 1
<1> DEFINE e == start_element(s, tag)
           N == Len(atts)
           Step(x, k) == end_handler(data_handler(start_element(x, atts[k].name), atts[k].value))
           Body(f) == [k \in 0..N |-> IF k = 0 THEN e ELSE Step(f[k - 1], k)]
           M == CHOOSE f : f = Body(f)
           Made == {n \in 0..N : \E f : f = [k \in 0..n |-> IF k = 0 THEN e ELSE Step(f[k - 1], k)]}
           Right == {n \in 0..N : HandlerInv(M[n]) /\ M[n].depth = s.depth + 1}
<1>1. start_handler(s, tag, atts) = IF ~Checked(e) \/ s.error # "none" THEN e ELSE M[N]
  BY DEF start_handler
<1>2. N \in Nat /\ HandlerInv(e) /\ e.depth = s.depth + 1 /\ s.depth \in Int /\ s.depth >= -1
  BY StartElementInv DEF IsSequence, HandlerInv, Shape
<1>3. ASSUME NEW x, HandlerInv(x), x.depth = s.depth + 1, NEW k
      PROVE  HandlerInv(Step(x, k)) /\ Step(x, k).depth = s.depth + 1
  <2> DEFINE a == start_element(x, atts[k].name)
             b == data_handler(a, atts[k].value)
  <2>1. HandlerInv(a) /\ a.depth = s.depth + 2
    BY <1>2, <1>3, StartElementInv
  <2> HIDE DEF a
  <2>2. HandlerInv(b) /\ b.depth = s.depth + 2
    BY <2>1, DataHandlerInv
  <2> HIDE DEF b
  <2>3. HandlerInv(end_handler(b)) /\ end_handler(b).depth = s.depth + 1
    BY <1>2, <2>2, EndHandlerInv
  <2> QED BY <2>3 DEF a, b
<1> HIDE DEF e, N, Step
<1>4. 0..N \subseteq Made
  <2>1. 0 \in Made
    <3> DEFINE f == [k \in 0..0 |-> e]
    <3>1. f = [k \in 0..0 |-> IF k = 0 THEN e ELSE Step(f[k - 1], k)]
      OBVIOUS
    <3> HIDE DEF f
    <3> QED BY <1>2, <3>1
  <2>2. ASSUME NEW n \in 0..N, n \in Made, n < N PROVE n + 1 \in Made
    <3>1. PICK f : f = [k \in 0..n |-> IF k = 0 THEN e ELSE Step(f[k - 1], k)]
      BY <2>2
    <3> DEFINE g == [k \in 0..n + 1 |-> IF k <= n THEN f[k] ELSE Step(f[n], n + 1)]
    <3>2. \A k \in 0..n + 1 : g[k] = IF k = 0 THEN e ELSE Step(g[k - 1], k)
      <4> TAKE k \in 0..n + 1
      <4>1. CASE k <= n
        <5>1. k \in 0..n /\ (k # 0 => k - 1 \in 0..n + 1 /\ k - 1 <= n)
          BY <4>1
        <5>2. f[k] = IF k = 0 THEN e ELSE Step(f[k - 1], k)
          BY <3>1, <5>1
        <5> QED BY <4>1, <5>1, <5>2
      <4>2. CASE ~(k <= n)
        <5>1. k = n + 1 /\ k # 0 /\ k - 1 = n /\ n \in 0..n + 1 /\ n <= n
          BY <4>2
        <5> QED BY <4>2, <5>1
      <4> QED BY <4>1, <4>2
    <3>3. g = [k \in 0..n + 1 |-> IF k = 0 THEN e ELSE Step(g[k - 1], k)]
      BY <3>2
    <3> HIDE DEF g
    <3>4. n + 1 \in 0..N
      BY <1>2, <2>2
    <3> QED BY <3>3, <3>4
  <2> HIDE DEF Made
  <2> QED BY ONLY <1>2, <2>1, <2>2, CountUp
<1>5. M = Body(M)
  <2>1. N \in 0..N
    BY <1>2
  <2>2. \E f : f = Body(f)
    BY <1>4, <2>1
  <2> HIDE DEF Body
  <2> QED BY <2>2
<1>6. \A k \in 0..N : M[k] = IF k = 0 THEN e ELSE Step(M[k - 1], k)
  <2> HIDE DEF M
  <2> TAKE k \in 0..N
  <2>1. M[k] = Body(M)[k]
    <3> HIDE DEF Body
    <3> QED BY <1>5
  <2> QED BY <2>1
<1> HIDE DEF M
<1>7. 0..N \subseteq Right
  <2>1. 0 \in Right
    BY <1>2, <1>6
  <2>2. ASSUME NEW n \in 0..N, n \in Right, n < N PROVE n + 1 \in Right
    <3>1. n + 1 \in 0..N /\ n + 1 # 0 /\ (n + 1) - 1 = n
      BY <1>2, <2>2
    <3>2. M[n + 1] = Step(M[n], n + 1)
      BY <1>6, <3>1
    <3> QED BY <1>3, <2>2, <3>1, <3>2
  <2> HIDE DEF Right
  <2> QED BY ONLY <1>2, <2>1, <2>2, CountUp
<1>8. HandlerInv(M[N]) /\ M[N].depth = s.depth + 1
  BY <1>2, <1>7
<1> QED BY <1>1, <1>2, <1>8

-----------------------------------------------------------------------------
(* The invariant.                                                          *)

Level == IF IsXml THEN Before(pos, "start") - Before(pos, "end") ELSE 0

\* What is in progress in a block of an info file.
BlockInv ==
  /\ Shape(st)
  /\ rpc # "top" => st.g # {}
  /\ rpc = "rom" => st.r # {}
  /\ await = "value" => ifield \in Read(rpc)
  /\ await = "skip" => skip.value \/ skip.blocks > 0

ReaderInv ==
  /\ doc \in XmlFiles \cup InfoFiles /\ pos \in 0..Len(doc)
  /\ rpc \in Block \cup {"xml", "done", "failed"}
  /\ await \in {"type", "open", "value", "skip"}
  /\ skip \in [blocks : Nat, value : BOOLEAN]
  /\ rpc = "xml" => doc \in XmlFiles /\ HandlerInv(st)
  /\ rpc \in Block => doc \in InfoFiles /\ BlockInv
  /\ st.depth + 1 = Level /\ st.error # "state"
  /\ AtMostOne(st.g) /\ AtMostOne(st.r) /\ AtMostOne(st.d)

LEMMA DocFacts ==
  ASSUME doc \in XmlFiles \cup InfoFiles
  PROVE  /\ Len(doc) \in Nat /\ DOMAIN doc = 1..Len(doc) /\ (Len(doc) # 0 => doc # <<>>)
         /\ doc \in XmlFiles /\ doc # <<>> => IsXml
         /\ doc \in InfoFiles => ~IsXml
<1>1. Len(doc) \in Nat /\ DOMAIN doc = 1..Len(doc)
  BY ReaderAssumption DEF IsSequence
<1>2. ASSUME doc # <<>> PROVE Len(doc) # 0
  <2>1. ASSUME NEW f \in XmlFiles \cup InfoFiles, Len(f) = 0 PROVE f = <<>>
    <3>1. f = [i \in 1..0 |-> f[i]]
      BY <2>1, ReaderAssumption DEF IsSequence
    <3> QED BY <3>1
  <2> QED BY <1>2, <2>1
<1> QED BY <1>1, <1>2, ReaderAssumption DEF IsXml

LEMMA CountNext ==
  ASSUME NEW f, NEW n \in Nat, NEW kind
  PROVE  /\ CountOf(f, n, kind) \in Nat
         /\ CountOf(f, n + 1, kind) = CountOf(f, n, kind) + (IF f[n + 1].kind = kind THEN 1 ELSE 0)
<1> DEFINE A == {i \in 1..n : f[i].kind = kind}
           B == {i \in 1..n + 1 : f[i].kind = kind}
<1>1. IsFiniteSet(1..n) /\ A \subseteq 1..n
  BY FS_Interval
<1>2. IsFiniteSet(A) /\ Cardinality(A) \in Nat /\ n + 1 \notin A
  BY <1>1, FS_Subset, FS_CardinalityType
<1>3. B = IF f[n + 1].kind = kind THEN A \cup {n + 1} ELSE A
  <2>1. \A i : i \in 1..n + 1 <=> i \in 1..n \/ i = n + 1
    OBVIOUS
  <2> QED BY <2>1
<1>4. Cardinality(A \cup {n + 1}) = Cardinality(A) + 1
  BY <1>2, FS_AddElement
<1> HIDE DEF A, B
<1>5. Cardinality(A) \in Nat /\ Cardinality(B) = Cardinality(A) + IF f[n + 1].kind = kind THEN 1 ELSE 0
  BY <1>2, <1>3, <1>4
<1> QED BY <1>5 DEF A, B, CountOf

LEMMA ReaderInitInv == ReaderInit => ReaderInv
<1> SUFFICES ASSUME ReaderInit PROVE ReaderInv
  OBVIOUS
<1>1. /\ doc \in XmlFiles \cup InfoFiles /\ pos = 0 /\ st = StartState /\ await = "type"
      /\ skip = [blocks |-> 0, value |-> FALSE]
      /\ (rpc = "xml" /\ doc \in XmlFiles) \/ (rpc = "top" /\ doc \in InfoFiles)
  BY DEF ReaderInit
<1>2. pos \in 0..Len(doc)
  BY <1>1, DocFacts
<1>3. Level = 0
  <2>1. {i \in 1..0 : doc[i].kind = "start"} = {} /\ {i \in 1..0 : doc[i].kind = "end"} = {}
    OBVIOUS
  <2>2. CountOf(doc, 0, "start") = 0 /\ CountOf(doc, 0, "end") = 0
    BY <2>1, FS_EmptySet DEF CountOf
  <2> QED BY <1>1, <2>2 DEF Level, Before
<1>4. AtMostOne({})
  BY DEF AtMostOne
<1>5. /\ st.depth = -1 /\ st.error = "none" /\ st.g = {} /\ st.r = {} /\ st.d = {}
      /\ DOMAIN st = Fields
      /\ DOMAIN st.level = 0..4 /\ \A k \in 0..4 : DOMAIN st.level[k] = {"tag", "data", "process"}
  <2>1. /\ st.depth = -1 /\ st.error = "none" /\ st.g = {} /\ st.r = {} /\ st.d = {}
        /\ DOMAIN st = Fields /\ st.level = [k \in 0..DepthMax - 1 |-> NoLevel]
    BY <1>1 DEF StartState, Fields
  <2>2. DepthMax - 1 = 4 /\ DOMAIN NoLevel = {"tag", "data", "process"}
    BY ReaderAssumption DEF NoLevel
  <2> QED BY <2>1, <2>2
<1>6. Shape(st)
  BY <1>4, <1>5 DEF Shape
<1>7. Opened(st)
  BY <1>5 DEF Opened, InGame, Inside
<1>8. rpc = "top" => BlockInv
  BY <1>1, <1>5, <1>6 DEF BlockInv
<1> QED BY <1>1, <1>2, <1>3, <1>4, <1>5, <1>6, <1>7, <1>8 DEF ReaderInv, HandlerInv, Block

LEMMA XmlEventInv ==
  ASSUME ReaderInv, XmlEvent
  PROVE  ReaderInv'
<1> DEFINE ev == doc[pos + 1]
<1>1. /\ rpc = "xml" /\ pos < Len(doc) /\ pos' = pos + 1 /\ doc' = doc /\ rpc' = rpc
      /\ await' = await /\ ifield' = ifield /\ skip' = skip
      /\ st' = CASE ev.kind = "start" -> start_handler(st, ev.tag, ev.atts)
                 [] ev.kind = "data" -> data_handler(st, ev.text)
                 [] ev.kind = "end" -> end_handler(st)
  BY DEF XmlEvent, infoVars
<1>2. /\ doc \in XmlFiles /\ HandlerInv(st) /\ pos \in 0..Len(doc) /\ Len(doc) \in Nat /\ DOMAIN doc = 1..Len(doc)
      /\ st.depth + 1 = Level /\ st.depth \in Int
  BY <1>1, DocFacts DEF ReaderInv, HandlerInv, Shape
<1>3. IsXml /\ IsXml'
  <2>1. doc # <<>>
    <3>1. Len(doc) # 0 /\ Len(<<>>) = 0
      BY <1>1, <1>2
    <3> QED BY <3>1
  <2>2. IsXml
    BY <1>2, <2>1, DocFacts
  <2> QED BY <1>1, <2>2 DEF IsXml
<1>4. /\ pos \in Nat /\ pos + 1 \in 1..Len(doc) /\ ev.kind \in {"start", "data", "end"}
      /\ ev.kind = "start" => IsSequence(ev.atts)
      /\ ev.kind = "end" => CountOf(doc, pos + 1, "end") <= CountOf(doc, pos + 1, "start")
  <2>1. pos \in Nat /\ pos + 1 \in 1..Len(doc)
    BY <1>1, <1>2
  <2> QED BY <1>2, <2>1, ReaderAssumption
<1> HIDE DEF ev
<1>5. /\ CountOf(doc, pos, "start") \in Nat /\ CountOf(doc, pos, "end") \in Nat
      /\ CountOf(doc, pos + 1, "start") = CountOf(doc, pos, "start") + (IF ev.kind = "start" THEN 1 ELSE 0)
      /\ CountOf(doc, pos + 1, "end") = CountOf(doc, pos, "end") + (IF ev.kind = "end" THEN 1 ELSE 0)
  BY <1>4, CountNext DEF ev
<1>6. st.depth + 1 = CountOf(doc, pos, "start") - CountOf(doc, pos, "end")
      /\ Level' = CountOf(doc, pos + 1, "start") - CountOf(doc, pos + 1, "end")
  BY <1>1, <1>2, <1>3 DEF Level, Before, CountOf
<1>7. HandlerInv(st') /\ st'.depth + 1 = Level'
  <2>1. CASE ev.kind = "start"
    <3>1. HandlerInv(st') /\ st'.depth = st.depth + 1
      BY <1>1, <1>2, <1>4, <2>1, StartHandlerInv
    <3> QED BY <1>2, <1>5, <1>6, <2>1, <3>1
  <2>2. CASE ev.kind = "data"
    <3>1. HandlerInv(st') /\ st'.depth = st.depth
      BY <1>1, <1>2, <2>2, DataHandlerInv
    <3> QED BY <1>2, <1>5, <1>6, <2>2, <3>1
  <2>3. CASE ev.kind = "end"
    <3>1. st.depth >= 0
      BY <1>2, <1>4, <1>5, <1>6, <2>3
    <3>2. HandlerInv(st') /\ st'.depth = st.depth - 1
      BY <1>1, <1>2, <2>3, <3>1, EndHandlerInv
    <3> QED BY <1>2, <1>5, <1>6, <2>3, <3>2
  <2> QED BY <1>4, <2>1, <2>2, <2>3
<1>8. HandlerInv(st)' = HandlerInv(st')
  BY DEF HandlerInv, Shape, Opened, InGame, Inside, Tags, AtMostOne
<1>9. /\ st'.error # "state" /\ AtMostOne(st'.g) /\ AtMostOne(st'.r) /\ AtMostOne(st'.d)
  BY <1>7 DEF HandlerInv, Shape
<1>10. pos' \in 0..Len(doc)
  BY <1>1, <1>2
<1>11. AtMostOne(st.g)' = AtMostOne(st'.g) /\ AtMostOne(st.r)' = AtMostOne(st'.r) /\ AtMostOne(st.d)' = AtMostOne(st'.d)
  BY DEF AtMostOne
<1>12. rpc' \notin Block
  BY <1>1 DEF Block
<1> QED BY <1>1, <1>2, <1>7, <1>8, <1>9, <1>10, <1>11, <1>12 DEF ReaderInv

LEMMA XmlEndsInv ==
  ASSUME ReaderInv, XmlEnds
  PROVE  ReaderInv'
<1>1. /\ rpc = "xml" /\ HandlerInv(st) /\ rpc' \in {"done", "failed"} /\ doc' = doc /\ pos' = pos
      /\ await' = await /\ ifield' = ifield /\ skip' = skip /\ doc \in XmlFiles
      /\ st' = IF st.depth # -1 THEN process_error(st, "xml") ELSE st
  BY DEF XmlEnds, ReaderInv, infoVars
<1>2. /\ st'.error # "state" /\ st'.depth = st.depth /\ st'.g = st.g /\ st'.r = st.r /\ st'.d = st.d
  BY <1>1 DEF HandlerInv, Shape, Fields, process_error
<1>3. Level' = Level
  BY <1>1 DEF Level, Before, CountOf, IsXml
<1>4. rpc' # "xml" /\ rpc' \notin Block
  BY <1>1 DEF Block
<1> QED BY <1>1, <1>2, <1>3, <1>4 DEF ReaderInv, AtMostOne

LEMMA BlockFacts ==
  ASSUME ReaderInv, rpc \in Block
  PROVE  /\ doc \in InfoFiles /\ ~IsXml /\ st.depth = -1 /\ BlockInv /\ Shape(st) /\ rpc # "xml"
         /\ pos \in 0..Len(doc) /\ (pos < Len(doc) => pos + 1 \in 0..Len(doc))
         /\ Token.t # "eof" => pos < Len(doc)
<1>1. doc \in InfoFiles /\ BlockInv /\ pos \in 0..Len(doc) /\ st.depth + 1 = Level
  BY DEF ReaderInv
<1>2. ~IsXml /\ Len(doc) \in Nat
  BY <1>1, DocFacts
<1>3. st.depth = -1
  BY <1>1, <1>2 DEF Level, BlockInv, Shape
<1>4. Token.t # "eof" => pos < Len(doc)
  BY DEF Token, Eof
<1> QED BY <1>1, <1>2, <1>3, <1>4 DEF Block, BlockInv

\* A step of load_info that stays in a block.
LEMMA BlockNext ==
  ASSUME ReaderInv, rpc \in Block, doc' = doc, pos' \in 0..Len(doc), rpc' \in Block,
         await' \in {"type", "open", "value", "skip"}, skip' \in [blocks : Nat, value : BOOLEAN],
         BlockInv', st'.depth = -1
  PROVE  ReaderInv'
<1>1. ~IsXml' /\ doc' \in InfoFiles
  BY BlockFacts DEF IsXml
<1>2. st'.depth + 1 = Level'
  BY <1>1 DEF Level
<1>3. st'.error # "state" /\ AtMostOne(st.g)' /\ AtMostOne(st.r)' /\ AtMostOne(st.d)'
  BY DEF BlockInv, Shape
<1>4. rpc' # "xml"
  BY DEF Block
<1> QED BY <1>1, <1>2, <1>3, <1>4 DEF ReaderInv

LEMMA ShapePrime == Shape(st)' = Shape(st')
BY DEF Shape, AtMostOne

LEMMA InfoTypeInv ==
  ASSUME ReaderInv, InfoType
  PROVE  ReaderInv'
<1> DEFINE text == Token.text
<1>1. /\ rpc \in Block /\ await = "type" /\ Token.t = "symbol" /\ doc' = doc /\ pos' = pos + 1
  BY DEF InfoType, Awaiting, Take
<1>2. /\ Shape(st) /\ st.depth = -1 /\ BlockInv /\ pos' \in 0..Len(doc) /\ skip \in [blocks : Nat, value : BOOLEAN]
  BY <1>1, BlockFacts DEF ReaderInv
<1>3. CASE text \in Read(rpc)
  <2>1. await' = "value" /\ ifield' = text /\ rpc' = rpc /\ st' = st /\ skip' = skip
    <3>1. text \notin Blocks(rpc)
      BY <1>1, <1>3 DEF Read, Blocks, Block, TextField
    <3> QED BY <1>3, <3>1 DEF InfoType
  <2>2. BlockInv'
    BY <1>2, <1>3, <2>1, ShapePrime DEF BlockInv
  <2> QED BY <1>1, <1>2, <2>1, <2>2, BlockNext
<1>4. CASE text \notin Read(rpc) /\ text \in Blocks(rpc)
  <2>1. /\ rpc' = Inner(text) /\ await' = "open" /\ ifield' = ifield /\ skip' = skip
        /\ st' = CASE rpc' = "game" -> [st EXCEPT !.g = {[NewGame EXCEPT !.resource = text = <<"resource">>]}]
                   [] rpc' = "rom" -> [st EXCEPT !.r = {NewRom}]
                   [] OTHER -> st
    BY <1>4 DEF InfoType
  <2>2. \/ rpc = "top" /\ rpc' = "game"
        \/ rpc = "game" /\ rpc' \in {"rom", "driver"}
    BY <1>1, <1>4, <2>1 DEF Blocks, Inner, Block
  <2>3. DOMAIN st = Fields
    BY <1>2 DEF Shape
  <2>4. Shape(st') /\ st'.depth = -1 /\ st'.g # {} /\ (rpc' = "rom" => st'.r # {})
    <3>1. CASE rpc' = "game"
      <4> DEFINE x == [NewGame EXCEPT !.resource = text = <<"resource">>]
      <4>1. st' = [st EXCEPT !.g = {x}]
        BY <2>1, <3>1
      <4>2. AtMostOne({x})
        BY DEF AtMostOne
      <4> HIDE DEF x
      <4> QED BY <1>2, <2>3, <3>1, <4>1, <4>2 DEF Shape, Fields
    <3>2. CASE rpc' = "rom"
      <4>1. st' = [st EXCEPT !.r = {NewRom}] /\ st.g # {}
        BY <1>2, <2>1, <2>2, <3>2 DEF BlockInv
      <4>2. AtMostOne({NewRom})
        BY DEF AtMostOne
      <4> QED BY <1>2, <2>3, <4>1, <4>2 DEF Shape, Fields
    <3>3. CASE rpc' = "driver"
      <4>1. st' = st /\ st.g # {}
        BY <1>2, <2>1, <2>2, <3>3 DEF BlockInv
      <4> QED BY <1>2, <3>3, <4>1
    <3> QED BY <2>2, <3>1, <3>2, <3>3
  <2>5. BlockInv' /\ rpc' \in Block
    BY <2>1, <2>2, <2>4, ShapePrime DEF BlockInv, Block
  <2> QED BY <1>1, <1>2, <2>1, <2>4, <2>5, BlockNext
<1>5. CASE text \notin Read(rpc) /\ text \notin Blocks(rpc)
  <2>1. await' = "skip" /\ skip' = [blocks |-> 0, value |-> TRUE] /\ rpc' = rpc /\ st' = st /\ ifield' = ifield
    BY <1>5 DEF InfoType
  <2>2. BlockInv'
    BY <1>2, <2>1, ShapePrime DEF BlockInv
  <2> QED BY <1>1, <1>2, <2>1, <2>2, BlockNext
<1> QED BY <1>3, <1>4, <1>5

LEMMA InfoOpenInv ==
  ASSUME ReaderInv, InfoOpen
  PROVE  ReaderInv'
<1>1. /\ rpc \in Block /\ Token.t = "open" /\ doc' = doc /\ pos' = pos + 1
      /\ rpc' = rpc /\ await' = "type" /\ st' = st /\ ifield' = ifield /\ skip' = skip
  BY DEF InfoOpen, Awaiting, Take, Type
<1>2. /\ st.depth = -1 /\ BlockInv /\ pos' \in 0..Len(doc) /\ skip \in [blocks : Nat, value : BOOLEAN]
  BY <1>1, BlockFacts DEF ReaderInv
<1>3. BlockInv'
  BY <1>1, <1>2, ShapePrime DEF BlockInv
<1> QED BY <1>1, <1>2, <1>3, BlockNext

LEMMA InfoCloseInv ==
  ASSUME ReaderInv, InfoClose
  PROVE  ReaderInv'
<1>1. /\ rpc \in Block \ {"top"} /\ Token.t = "close" /\ doc' = doc /\ pos' = pos + 1
  BY DEF InfoClose, Awaiting, Take
<1>2. /\ Shape(st) /\ st.depth = -1 /\ BlockInv /\ pos' \in 0..Len(doc) /\ skip \in [blocks : Nat, value : BOOLEAN]
      /\ st.g # {}
  BY <1>1, BlockFacts DEF ReaderInv, BlockInv
<1>3. CASE rpc = "game"
  <2>1. st' = process_close(st, <<>>) /\ rpc' = "top" /\ await' = "type" /\ ifield' = ifield /\ skip' = skip
    BY <1>3 DEF InfoClose, Type
  <2>2. Shape(st') /\ st'.depth = -1
    BY <1>2, <2>1, CloseFacts
  <2>3. BlockInv' /\ rpc' \in Block
    BY <2>1, <2>2, ShapePrime DEF BlockInv, Block
  <2> QED BY <1>1, <1>2, <2>1, <2>2, <2>3, BlockNext
<1>4. CASE rpc = "rom"
  <2>1. st' = process_close(st, <<"rom">>) /\ rpc' = "game" /\ await' = "type" /\ ifield' = ifield /\ skip' = skip
    BY <1>4 DEF InfoClose, Type
  <2>2. Shape(st') /\ st'.depth = -1 /\ st'.g # {}
    <3>1. <<"rom">> # <<>>
      OBVIOUS
    <3> QED BY <1>2, <2>1, <3>1, CloseFacts
  <2>3. BlockInv' /\ rpc' \in Block
    BY <2>1, <2>2, ShapePrime DEF BlockInv, Block
  <2> QED BY <1>1, <1>2, <2>1, <2>2, <2>3, BlockNext
<1>5. CASE rpc = "driver"
  <2>1. st' = st /\ rpc' = "game" /\ await' = "type" /\ ifield' = ifield /\ skip' = skip
    BY <1>5 DEF InfoClose, Type
  <2>2. BlockInv' /\ rpc' \in Block
    BY <1>2, <2>1, ShapePrime DEF BlockInv, Block
  <2> QED BY <1>1, <1>2, <2>1, <2>2, BlockNext
<1> QED BY <1>1, <1>3, <1>4, <1>5 DEF Block

LEMMA InfoValueInv ==
  ASSUME ReaderInv, InfoValue
  PROVE  ReaderInv'
<1> DEFINE v == Token.text
<1>1. /\ rpc \in Block /\ await = "value" /\ Token.t \in {"symbol", "string"} /\ doc' = doc /\ pos' = pos + 1
  BY DEF InfoValue, Awaiting, Take, ValueKind
<1>2. /\ Shape(st) /\ st.depth = -1 /\ BlockInv /\ pos' \in 0..Len(doc) /\ skip \in [blocks : Nat, value : BOOLEAN]
      /\ ifield \in Read(rpc)
  BY <1>1, BlockFacts DEF ReaderInv, BlockInv
<1>3. rpc \in {"game", "rom", "driver"} /\ st.g # {} /\ (rpc = "rom" => st.r # {})
  BY <1>1, <1>2 DEF BlockInv, Read, Block
<1>4. ASSUME Filled(st', st), rpc' = rpc, await' = "type", ifield' = ifield, skip' = skip PROVE ReaderInv'
  <2>1. Shape(st') /\ st'.depth = -1
    BY <1>2, <1>4 DEF Shape, Filled
  <2>2. BlockInv'
    BY <1>2, <1>3, <1>4, <2>1, ShapePrime DEF BlockInv, Filled
  <2> QED BY <1>1, <1>2, <1>4, <2>1, <2>2, BlockNext
<1> DEFINE Same == rpc' = rpc /\ await' = "type" /\ ifield' = ifield /\ skip' = skip
<1>5. CASE rpc = "rom" /\ ifield = <<"size">>
  <2>1. IsDec(v) /\ Same /\ st' = OnRom(st, LAMBDA r : [r EXCEPT !.size = strdec(v)])
    BY <1>5 DEF InfoValue, Type
  <2>2. st' = process_data(st, <<"rom", "size">>, v)
    BY <2>1 DEF process_data
  <2>3. Fit(st, <<"rom", "size">>)
    BY <1>3, <1>5 DEF Fit, Conversions
  <2>4. Filled(st', st)
    BY <1>2, <2>2, <2>3, DataFills
  <2> QED BY <1>4, <2>1, <2>4
<1>6. CASE rpc = "rom" /\ ifield = <<"crc">>
  <2>1. IsHex(Crc(v)) /\ Same /\ st' = OnRom(st, LAMBDA r : [r EXCEPT !.crc = strhex(Crc(v))])
    BY <1>6 DEF InfoValue, Type
  <2>2. st' = process_data(st, <<"rom", "crc">>, Crc(v))
    BY <2>1 DEF process_data
  <2>3. Fit(st, <<"rom", "crc">>)
    BY <1>3, <1>6 DEF Fit, Conversions
  <2>4. Filled(st', st)
    BY <1>2, <2>2, <2>3, DataFills
  <2> QED BY <1>4, <2>1, <2>4
<1>7. CASE rpc = "rom" /\ ifield = <<"name">>
  <2>1. Same /\ st' = process_data(st, <<"rom", "name">>, v)
    BY <1>3, <1>7 DEF InfoValue, Type
  <2>2. Fit(st, <<"rom", "name">>)
    BY <1>2, <1>3, <1>7 DEF Fit, Conversions, Read, TextField
  <2>3. Filled(st', st)
    BY <1>2, <2>1, <2>2, DataFills
  <2> QED BY <1>4, <2>1, <2>3
<1>8. CASE rpc = "rom" /\ ifield = <<"flags">>
  <2>1. Same /\ st' = process_data(st, <<"rom", "status">>, v)
    BY <1>3, <1>8 DEF InfoValue, Type
  <2>2. Fit(st, <<"rom", "status">>)
    BY <1>2, <1>3, <1>8 DEF Fit, Conversions, Read, TextField
  <2>3. Filled(st', st)
    BY <1>2, <2>1, <2>2, DataFills
  <2> QED BY <1>4, <2>1, <2>3
<1>9. CASE rpc = "driver"
  <2>1. Same /\ st' = process_data(st, <<"driver", "status">>, v)
    BY <1>3, <1>9 DEF InfoValue, Type
  <2>2. Fit(st, <<"driver", "status">>)
    BY <1>2, <1>3, <1>9 DEF Fit, Conversions, Read, TextField
  <2>3. Filled(st', st)
    BY <1>2, <2>1, <2>2, DataFills
  <2> QED BY <1>4, <2>1, <2>3
<1>10. CASE rpc = "game" /\ ifield = <<"sample">>
  <2> DEFINE F(g) == [g EXCEPT !.samples = @ \cup {v}]
             G == {F(g) : g \in st.g}
  <2>1. Same /\ st' = [st EXCEPT !.g = G]
    BY <1>3, <1>10 DEF InfoValue, Type, OnGame
  <2>2. PICK x : st.g \subseteq {x}
    BY <1>2 DEF Shape, AtMostOne
  <2>3. G # {} /\ G \subseteq {F(x)}
    BY <1>3, <2>2
  <2> HIDE DEF G, F
  <2>4. Filled(st', st)
    BY <1>2, <1>3, <2>1, <2>3 DEF Filled, Shape, AtMostOne, Fields
  <2> QED BY <1>4, <2>1, <2>4
<1>11. CASE rpc = "game" /\ ifield # <<"sample">>
  <2>1. Same /\ st' = process_data(st, ifield, v)
    BY <1>3, <1>11 DEF InfoValue, Type
  <2>2. Fit(st, ifield)
    BY <1>2, <1>3, <1>11 DEF Fit, Conversions, Read, TextField
  <2>3. Filled(st', st)
    BY <1>2, <2>1, <2>2, DataFills
  <2> QED BY <1>4, <2>1, <2>3
<1> QED
  <2>1. rpc = "rom" => ifield \in {<<"name">>, <<"size">>, <<"crc">>, <<"flags">>}
    BY <1>2 DEF Read
  <2> QED BY <1>3, <1>5, <1>6, <1>7, <1>8, <1>9, <1>10, <1>11, <2>1

LEMMA InfoSkipInv ==
  ASSUME ReaderInv, InfoSkip
  PROVE  ReaderInv'
<1>1. /\ rpc \in Block /\ await = "skip" /\ doc' = doc /\ pos' = pos + 1
      /\ rpc' = rpc /\ st' = st /\ ifield' = ifield /\ Token.t \in {"symbol", "string", "open", "close"}
      /\ await' = IF skip'.blocks = 0 /\ ~skip'.value THEN "type" ELSE "skip"
  BY DEF InfoSkip, Take
<1>2. /\ st.depth = -1 /\ BlockInv /\ pos' \in 0..Len(doc) /\ skip \in [blocks : Nat, value : BOOLEAN]
      /\ skip.value \/ skip.blocks > 0
  BY <1>1, BlockFacts DEF ReaderInv, BlockInv
<1>0. skip.blocks \in Nat /\ skip.value \in BOOLEAN
  BY <1>2
<1>3. skip' \in [blocks : Nat, value : BOOLEAN]
  <2>1. CASE skip' = [skip EXCEPT !.value = FALSE]
    BY <2>1, <1>2
  <2>2. CASE skip' = [blocks |-> skip.blocks + 1, value |-> FALSE]
    BY <2>2, <1>0
  <2>3. CASE skip' = [skip EXCEPT !.value = TRUE]
    BY <2>3, <1>2
  <2>4. CASE ~skip.value /\ skip' = [skip EXCEPT !.blocks = @ - 1]
    <3>1. skip.blocks - 1 \in Nat
      BY <1>0, <1>2, <2>4
    <3> QED BY <1>2, <2>4, <3>1
  <2> QED BY <2>1, <2>2, <2>3, <2>4 DEF InfoSkip
<1>4. await' = "skip" => skip'.value \/ skip'.blocks > 0
  BY <1>1, <1>3
<1>5. BlockInv'
  BY <1>1, <1>2, <1>4, ShapePrime DEF BlockInv
<1> QED BY <1>1, <1>2, <1>3, <1>5, BlockNext

LEMMA ReaderStep ==
  ASSUME ReaderInv, [ReaderNext]_readerVars
  PROVE  ReaderInv'
<1>1. CASE InfoEnds \/ InfoFails
  <2>1. /\ rpc \in Block /\ rpc' \in {"done", "failed"} /\ doc' = doc /\ pos' = pos /\ st' = st
        /\ await' = await /\ skip' = skip
    BY <1>1 DEF InfoEnds, InfoFails, Awaiting, Fails, infoVars
  <2>2. Level' = Level /\ rpc' # "xml" /\ rpc' \notin Block
    BY <2>1 DEF Level, Before, CountOf, IsXml, Block
  <2> QED BY <2>1, <2>2 DEF ReaderInv, AtMostOne
<1>2. CASE UNCHANGED readerVars
  <2>1. /\ doc' = doc /\ pos' = pos /\ st' = st /\ rpc' = rpc /\ await' = await /\ ifield' = ifield
        /\ skip' = skip
    BY <1>2 DEF readerVars
  <2>2. Level' = Level /\ HandlerInv(st)' = HandlerInv(st) /\ BlockInv' = BlockInv
    BY <2>1 DEF Level, Before, CountOf, IsXml, HandlerInv, Shape, Opened, InGame, Inside, Tags, AtMostOne, BlockInv
  <2> QED BY <2>1, <2>2 DEF ReaderInv, AtMostOne
<1> QED BY <1>1, <1>2, XmlEventInv, XmlEndsInv, InfoTypeInv, InfoOpenInv, InfoCloseInv, InfoValueInv, InfoSkipInv
        DEF ReaderNext

LEMMA ReaderInvariant == ReaderSpec => []ReaderInv
<1> QED BY ReaderInitInv, ReaderStep, PTL DEF ReaderSpec

LEMMA ReaderTypesFromInv == ReaderInv => ReaderTypeOK
<1>1. ASSUME NEW S, AtMostOne(S) PROVE Cardinality(S) <= 1
  <2>1. PICK x : S \subseteq {x}
    BY <1>1 DEF AtMostOne
  <2>2. S = {} \/ S = {x}
    BY <2>1
  <2>3. Cardinality({}) = 0 /\ Cardinality({x}) = 1
    BY FS_EmptySet, FS_Singleton
  <2> QED BY <2>2, <2>3
<1> SUFFICES ASSUME ReaderInv PROVE ReaderTypeOK
  OBVIOUS
<1>2. Cardinality(st.g) <= 1 /\ Cardinality(st.r) <= 1 /\ Cardinality(st.d) <= 1
  BY <1>1 DEF ReaderInv
<1> QED BY <1>2 DEF ReaderTypeOK, ReaderInv, Level

\* The level of the reader is the number of the elements that are open, deeper
\* ones than its table has included, and it has at most one game, rom and disk
\* in progress, for every file (start_handler, end_handler, load_info).
THEOREM ReaderWellFormed == ReaderSpec => []ReaderTypeOK
<1> QED BY ReaderTypesFromInv, ReaderInvariant, PTL

\* A rom, a disk and a game are there whenever something of theirs is read: the
\* errors "invalid state" never come, whatever the file (process_*).
THEOREM ReaderNeverLost == ReaderSpec => []NoInvalidState
<1>1. ReaderInv => NoInvalidState
  BY DEF ReaderInv, NoInvalidState
<1> QED BY <1>1, ReaderInvariant, PTL

-----------------------------------------------------------------------------
(* The three together.  Each part has its invariant while the others rest, *)
(* and the state of each is well formed.                                   *)

\* The directories below one that is known are known.
LEMMA TreeIn ==
  ASSUME NEW d \in Dir
  PROVE  Tree(d) \subseteq Dir
<1> DEFINE N == Cardinality(Dir)
           T == SUBSET Dir
           F == [A \in T |-> A \cup UNION {Children[e] : e \in A}]
           Body(s) == [n \in 0..N |->
             IF n = 0 THEN {d} ELSE s[n - 1] \cup UNION {Children[e] : e \in s[n - 1]}]
           M == CHOOSE s : s = Body(s)
<1>1. N \in Nat /\ F \in [T -> T] /\ {d} \in T
  BY CommandAssumption, FS_CardinalityType DEF CommandAssumption
<1>2. PICK f \in [0..N -> T] : Iterates(f, F, {d}, N)
  <2> HIDE DEF N, T, F
  <2> QED BY <1>1, IteratesExist
<1>3. f = Body(f)
  <2>1. ASSUME NEW n \in 0..N PROVE f[n] = Body(f)[n]
    <3>1. CASE n = 0
      BY <1>2, <3>1 DEF Iterates
    <3>2. CASE n # 0
      <4>1. n - 1 \in 0..N /\ f[n - 1] \in T
        BY <1>1, <1>2, <3>2
      <4>2. f[n] = F[f[n - 1]]
        BY <1>2, <3>2 DEF Iterates
      <4> QED BY <3>2, <4>1, <4>2
    <3> QED BY <3>1, <3>2
  <2> QED BY <1>2, <2>1
<1>4. M = Body(M)
  <2> HIDE DEF Body
  <2> QED BY <1>3
<1>5. Tree(d) = M[N]
  BY DEF Tree
<1> HIDE DEF M
<1>6. \A n \in 0..N : M[n] =
        IF n = 0 THEN {d} ELSE M[n - 1] \cup UNION {Children[e] : e \in M[n - 1]}
  <2> TAKE n \in 0..N
  <2>1. M[n] = Body(M)[n]
    <3> HIDE DEF Body
    <3> QED BY <1>4
  <2> QED BY <2>1
<1> DEFINE G == {n \in 0..N : M[n] \subseteq Dir}
<1>7. 0 \in G
  <2>1. 0 \in 0..N
    BY <1>1
  <2> QED BY <1>6, <2>1
<1>8. ASSUME NEW n \in 0..N, n \in G, n < N PROVE n + 1 \in G
  <2>1. n + 1 \in 0..N /\ n + 1 # 0 /\ (n + 1) - 1 = n
    BY <1>1, <1>8
  <2>2. M[n + 1] = M[n] \cup UNION {Children[e] : e \in M[n]}
    BY <1>6, <2>1
  <2>3. \A e \in M[n] : Children[e] \subseteq Dir
    BY <1>8, CommandAssumption DEF CommandAssumption
  <2> QED BY <1>8, <2>1, <2>2, <2>3
<1>9. N \in G
  <2> HIDE DEF G, N
  <2>1. 0..N \subseteq G
    BY ONLY <1>1, <1>7, <1>8, CountUp
  <2> QED BY <1>1, <2>1
<1> QED BY <1>5, <1>9

Accesses == [what : {"read", "import", "write", "rename"}, dir : Dir]

LEMMA DoneIn ==
  ASSUME NEW w \in {"read", "import", "write", "rename"}, NEW dirs \in SUBSET Dir
  PROVE  Done(w, dirs) \subseteq Accesses
BY DEF Done, Accesses

LEMMA LoadedIn ==
  ASSUME NEW dirs \in SUBSET Dir
  PROVE  Loaded(dirs) \subseteq Accesses
BY DoneIn DEF Loaded

LEMMA WrittenIn ==
  ASSUME CommandInv, NEW kind \in Lists, NEW unknown \in Singles, NEW new, NEW places,
         new = {} \/ (new = {Place("rom_new")} /\ "rom_new" \in places),
         unknown \in places, KindGood(kind, places), flag_operation,
         kind \in {"rom", "sample", "disk"}
  PROVE  Written(kind, new, unknown) \subseteq Accesses
<1> DEFINE W == Written(kind, new, unknown)
<1>1. Of(W, "write") \subseteq in.writable
  BY OfWritten
<1>2. in.writable \subseteq Dir
  BY LineFacts DEF CommandInv
<1>3. \A a \in W : a.what = "write"
  BY DEF Written, Done
<1>4. \A a \in W : a = [what |-> a.what, dir |-> a.dir]
  BY DEF Written, Done
<1>5. \A a \in W : a.dir \in Of(W, "write")
  BY <1>3 DEF Of
<1> HIDE DEF W
<1>6. \A a \in W : a \in Accesses
  BY <1>1, <1>2, <1>3, <1>4, <1>5 DEF Accesses
<1> QED BY <1>6 DEF W

\* What is done is done in directories that are set.
LEMMA AccessesStep ==
  ASSUME CommandInv, did \subseteq Accesses, [RunNext]_commandVars
  PROVE  did' \subseteq Accesses
<1>1. in.exists \subseteq Dir /\ in.writable \subseteq Dir
  BY LineFacts DEF CommandInv
<1>2. phase \in Phases => CheckDone
  BY DEF CommandInv, AccessInv
<1>3. CASE ReadOptions \/ ReadInfo \/ ReadLine \/ Check \/ NoRom \/ UNCHANGED commandVars
  BY <1>3 DEF ReadOptions, ReadInfo, ReadLine, Check, NoRom, commandVars
<1>4. CASE RomOperate
  <2>1. /\ phase = "rom" /\ flag_rom /\ flag_operation /\ KindGood("rom", {"rom_new", "rom_unknown"})
        /\ ToSet(conf.list["rom_import"]) \subseteq in.exists
    BY <1>2, <1>4 DEF RomOperate, Phases, CheckDone
  <2>2. CASE Place("rom_unknown") \notin in.exists
    BY <1>4, <2>2 DEF RomOperate
  <2>3. CASE Place("rom_unknown") \in in.exists
    <3>1. Paths("rom") \cup {Place("rom_unknown")} \in SUBSET Dir
      BY <1>1, <2>1, <2>3 DEF KindGood, Paths
    <3>2. Loaded(Paths("rom") \cup {Place("rom_unknown")}) \subseteq Accesses
      BY <3>1, LoadedIn
    <3>3. romreadonlytree \in SUBSET Dir
      BY <1>1, <2>1, TreeIn DEF romreadonlytree
    <3>4. Done("import", romreadonlytree) \subseteq Accesses
      BY <3>3, DoneIn
    <3>5. Written("rom", {Place("rom_new")}, "rom_unknown") \subseteq Accesses
      BY <2>1, WrittenIn DEF Lists, Singles
    <3>6. did' = did \cup Loaded(Paths("rom") \cup {Place("rom_unknown")})
                    \cup Done("import", romreadonlytree)
                    \cup Written("rom", {Place("rom_new")}, "rom_unknown")
      BY <1>4, <2>3 DEF RomOperate
    <3> QED BY <3>2, <3>4, <3>5, <3>6
  <2> QED BY <2>2, <2>3
<1>5. CASE RomLook
  <2>1. Paths("rom") \in SUBSET Dir
    BY <1>1, <1>2, <1>5 DEF RomLook, Phases, CheckDone, KindGood, Paths
  <2> QED BY <1>5, <2>1, LoadedIn DEF RomLook
<1>6. CASE UnknownScan
  <2>1. flag_rom /\ CheckDone
    BY <1>2, <1>6 DEF UnknownScan, CommandInv, AccessInv, Phases
  <2>2. flag_change => Place("rom_unknown") \in Dir
    BY <1>1, <2>1 DEF CheckDone, KindGood, PlaceGood, Place
  <2>3. (IF flag_change THEN {Place("rom_unknown")} ELSE {}) \in SUBSET Dir
    BY <2>2
  <2> QED BY <1>6, <2>3, DoneIn DEF UnknownScan
<1>7. CASE SamplePhase
  <2>1. CASE ~flag_sample
    BY <1>7, <2>1 DEF SamplePhase
  <2>2. CASE flag_sample
    <3>1. KindGood("sample", {"sample_unknown"})
      BY <1>2, <1>7, <2>2 DEF SamplePhase, Phases, CheckDone
    <3>2. Paths("sample") \in SUBSET Dir
      BY <1>1, <3>1 DEF KindGood, Paths
    <3>3. Loaded(Paths("sample")) \subseteq Accesses
      BY <3>2, LoadedIn
    <3>4. flag_operation => Written("sample", {}, "sample_unknown") \subseteq Accesses
      BY <3>1, WrittenIn DEF Lists, Singles
    <3> QED BY <1>7, <2>2, <3>3, <3>4 DEF SamplePhase
  <2> QED BY <2>1, <2>2
<1>8. CASE DiskPhase
  <2>1. CASE ~flag_disk
    BY <1>8, <2>1 DEF DiskPhase
  <2>2. CASE flag_disk
    <3>1. KindGood("disk", {"disk_unknown"})
      BY <1>2, <1>8, <2>2 DEF DiskPhase, Phases, CheckDone
    <3>2. Paths("disk") \in SUBSET Dir
      BY <1>1, <3>1 DEF KindGood, Paths
    <3>3. Loaded(Paths("disk")) \subseteq Accesses
      BY <3>2, LoadedIn
    <3>4. active /\ flag_move => Paths("disk") \cup {Place("disk_unknown")} \in SUBSET Dir
      BY <1>1, <3>1, <3>2 DEF KindGood, PlaceGood, Place, flag_change, flag_operation
    <3>5. active /\ flag_move => Done("write", Paths("disk") \cup {Place("disk_unknown")}) \subseteq Accesses
      BY <3>4, DoneIn
    <3> QED BY <1>8, <2>2, <3>3, <3>5 DEF DiskPhase
  <2> QED BY <2>1, <2>2
<1> QED BY <1>3, <1>4, <1>5, <1>6, <1>7, <1>8 DEF RunNext

RunInv == CommandInv /\ did \subseteq Accesses

LEMMA RunInvInit == RunInit => RunInv
<1>1. RunInit => did \subseteq Accesses
  BY DEF RunInit
<1> QED BY <1>1, RunInitInv DEF RunInv

LEMMA RunInvStep == RunInv /\ [RunNext]_commandVars => RunInv'
<1> SUFFICES ASSUME RunInv, [RunNext]_commandVars PROVE RunInv'
  OBVIOUS
<1> QED BY CommandStep, AccessesStep DEF RunInv, Accesses

LEMMA RunTypesFromInv == RunInv => RunTypeOK
<1> QED BY DEF RunInv, CommandInv, RunTyped, RunTypeOK, Reading, Accesses

-----------------------------------------------------------------------------
\* The games.
LEMMA SubsetsIn ==
  ASSUME Settled
  PROVE  WorkingSet \subseteq Game /\ ParentSet \subseteq Game
<1>1. games \subseteq Game
  BY SettledFacts
<1>2. ASSUME NEW g \in Roots
      PROVE  game_working_subset_compute(g) \subseteq Game /\ game_working_parent_subset_compute(g) \subseteq Game
  BY <1>2, RootFacts, WorkComputed, ParentComputed DEF MarkedFrom, UnderIn
<1> QED BY <1>1, <1>2 DEF WorkingSet, ParentSet

LEMMA GamesTypedInit == Init => TypeOK
<1> SUFFICES ASSUME Init PROVE TypeOK
  OBVIOUS
<1>1. /\ start.games \subseteq Game /\ start.of \in [Kind -> [Game -> Game \cup {NoGame}]]
      /\ start.has \in [Kind -> [Game -> SUBSET Part]]
  BY GameAssumption DEF Init, GameAssumption
<1>2. NoWalk \in Walks
  BY DEF NoWalk, Walks, Kind
<1> QED BY <1>1, <1>2 DEF Init, TypeOK, Filters

LEMMA GamesTypedStep ==
  ASSUME GInv, TypeOK, [Next]_vars
  PROVE  TypeOK'
<1>1. GInv'
  BY GamesStep
<1>2. walk' \in Walks /\ has' \in [Kind -> [Game -> SUBSET Part]]
  BY <1>1 DEF GInv, MInv, KInv, WalkInChain, HasTyped
<1>3. CASE (\E g \in Game : ReduceGame(g)) \/ ReduceStep \/ ReduceStops \/ UNCHANGED vars
  <2>1. UNCHANGED <<games, of, subset, pc, filter, start>> /\ todo' \subseteq todo
    BY <1>3 DEF ReduceGame, ReduceStep, ReduceStops, vars
  <2> QED BY <1>2, <2>1 DEF TypeOK
<1>4. CASE Adjust
  <2>1. /\ UNCHANGED <<games, has, subset, todo, walk, filter, start>> /\ pc' = "subset"
        /\ of' = [k \in Kind |-> [g \in Game |-> IF Invalid(k, g) THEN NoGame ELSE of[k][g]]]
    BY <1>4 DEF Adjust
  <2>2. games \subseteq Game
    BY DEF TypeOK
  <2>3. \A k \in Kind, g \in Game :
          (IF Invalid(k, g) THEN NoGame ELSE of[k][g]) \in (games \ {g}) \cup {NoGame}
    BY DEF Invalid
  <2>4. of' \in [Kind -> [Game -> Game \cup {NoGame}]]
    BY <2>1, <2>2, <2>3
  <2>5. \A k \in Kind, g \in Game : of'[k][g] \in (games' \ {g}) \cup {NoGame}
    BY <2>1, <2>3
  <2> QED BY <1>2, <2>1, <2>4, <2>5 DEF TypeOK
<1>5. CASE Subsets
  <2>1. /\ pc = "subset" /\ pc' = "filter" /\ UNCHANGED <<games, of, has, todo, walk, filter, start>>
        /\ subset' = [working |-> WorkingSet, parent |-> ParentSet]
    BY <1>5 DEF Subsets, WorkingSet, ParentSet
  <2>2. Settled
    BY <2>1 DEF GInv, MInv, KInv, SubsetInv, RomAdjusted, Settled
  <2>3. subset' \in [working : SUBSET Game, parent : SUBSET Game]
    BY <2>1, <2>2, SubsetsIn
  <2> QED BY <2>1, <2>3 DEF TypeOK
<1>6. CASE \E f \in Filters : Filter(f)
  <2>1. PICK f \in Filters : Filter(f)
    BY <1>6
  <2>2. Filtered(f) \subseteq games
    BY DEF Filtered, Filters
  <2> QED BY <2>1, <2>2 DEF Filter, TypeOK
<1> QED BY <1>3, <1>4, <1>5, <1>6 DEF Next

GamesInv == GInv /\ TypeOK

LEMMA GamesInvStep == GamesInv /\ [Next]_vars => GamesInv'
<1> SUFFICES ASSUME GamesInv, [Next]_vars PROVE GamesInv'
  OBVIOUS
<1>1. GInv' /\ TypeOK'
  BY GamesStep, GamesTypedStep DEF GamesInv
<1> QED BY <1>1 DEF GamesInv

-----------------------------------------------------------------------------
\* A part that rests does nothing, and its state is well formed.
LEMMA RunRests == RunIdle => RunTypeOK /\ ~RunNext
<1> SUFFICES ASSUME RunIdle PROVE RunTypeOK /\ ~RunNext
  OBVIOUS
<1>1. phase = "done" /\ line = 0 /\ did = {} /\ in.lines = <<>> /\ Len(<<>>) = 0
  BY DEF RunIdle
<1>2. RunTypeOK
  BY <1>1 DEF RunTypeOK, Phases, Ends
<1>3. ~RunNext
  BY <1>1 DEF RunNext, ReadOptions, ReadInfo, ReadLine, Check, RomOperate, RomLook, UnknownScan,
              NoRom, SamplePhase, DiskPhase
<1> QED BY <1>2, <1>3

LEMMA ReaderRests == ReaderIdle => ReaderTypeOK /\ NoInvalidState /\ ~ReaderNext
<1> SUFFICES ASSUME ReaderIdle PROVE ReaderTypeOK /\ NoInvalidState /\ ~ReaderNext
  OBVIOUS
<1>1. /\ doc = <<>> /\ pos = 0 /\ rpc = "done" /\ await = "type" /\ skip.blocks = 0
      /\ st.depth = -1 /\ st.error = "none" /\ st.g = {} /\ st.r = {} /\ st.d = {} /\ Len(<<>>) = 0
  BY DEF ReaderIdle, StartState
<1>2. ReaderTypeOK
  <2>1. Cardinality({}) = 0
    BY FS_EmptySet
  <2>2. ~IsXml
    BY <1>1 DEF IsXml
  <2> QED BY <1>1, <2>1, <2>2 DEF ReaderTypeOK
<1>3. ~ReaderNext
  BY <1>1 DEF ReaderNext, XmlEvent, XmlEnds, InfoType, InfoOpen, InfoClose, InfoValue, InfoSkip,
              InfoEnds, InfoFails, Awaiting, Block
<1> QED BY <1>1, <1>2, <1>3 DEF NoInvalidState

LEMMA GamesRest == GamesIdle => TypeOK /\ ~Next
<1> SUFFICES ASSUME GamesIdle PROVE TypeOK /\ ~Next
  OBVIOUS
<1>1. /\ pc = "done" /\ walk = NoWalk /\ games = {} /\ todo = {} /\ start.games = {} /\ filter = ""
      /\ of = [k \in Kind |-> [g \in Game |-> NoGame]] /\ has = [k \in Kind |-> [g \in Game |-> {}]]
      /\ subset = [working |-> {}, parent |-> {}]
  BY DEF GamesIdle
<1>2. NoWalk \in Walks
  BY DEF NoWalk, Walks, Kind
<1>3. TypeOK
  BY <1>1, <1>2 DEF TypeOK, Filters
<1>4. ~Next
  BY <1>1 DEF Next, ReduceGame, ReduceStep, Meets, ReduceStops, Adjust, Subsets, Filter
<1> QED BY <1>3, <1>4

InformationInv ==
  \/ RunInv /\ ReaderIdle /\ GamesIdle
  \/ RunIdle /\ ReaderInv /\ GamesIdle
  \/ RunIdle /\ ReaderIdle /\ GamesInv

LEMMA IdleStay ==
  /\ UNCHANGED commandVars /\ RunIdle => RunIdle'
  /\ UNCHANGED readerVars /\ ReaderIdle => ReaderIdle'
  /\ UNCHANGED vars /\ GamesIdle => GamesIdle'
BY DEF commandVars, readerVars, vars, RunIdle, ReaderIdle, GamesIdle, StartState, NoLevel, NoWalk, NoConfig

LEMMA InformationStep ==
  ASSUME InformationInv, [InformationNext]_<<commandVars, readerVars, vars>>
  PROVE  InformationInv'
<1>1. \/ RunNext /\ UNCHANGED readerVars /\ UNCHANGED vars
      \/ ReaderNext /\ UNCHANGED commandVars /\ UNCHANGED vars
      \/ Next /\ UNCHANGED commandVars /\ UNCHANGED readerVars
      \/ UNCHANGED commandVars /\ UNCHANGED readerVars /\ UNCHANGED vars
  BY DEF InformationNext
<1>2. CASE RunInv /\ ReaderIdle /\ GamesIdle
  <2>1. ~ReaderNext /\ ~Next
    BY <1>2, ReaderRests, GamesRest
  <2>2. [RunNext]_commandVars /\ UNCHANGED readerVars /\ UNCHANGED vars
    BY <1>1, <2>1
  <2> QED BY <1>2, <2>2, RunInvStep, IdleStay DEF InformationInv
<1>3. CASE RunIdle /\ ReaderInv /\ GamesIdle
  <2>1. ~RunNext /\ ~Next
    BY <1>3, RunRests, GamesRest
  <2>2. [ReaderNext]_readerVars /\ UNCHANGED commandVars /\ UNCHANGED vars
    BY <1>1, <2>1
  <2>3. ReaderInv'
    BY <1>3, <2>2, ReaderStep
  <2> QED BY <1>3, <2>2, <2>3, IdleStay DEF InformationInv
<1>4. CASE RunIdle /\ ReaderIdle /\ GamesInv
  <2>1. ~RunNext /\ ~ReaderNext
    BY <1>4, RunRests, ReaderRests
  <2>2. [Next]_vars /\ UNCHANGED commandVars /\ UNCHANGED readerVars
    BY <1>1, <2>1
  <2> QED BY <1>4, <2>2, GamesInvStep, IdleStay DEF InformationInv
<1> QED BY <1>2, <1>3, <1>4 DEF InformationInv

LEMMA InformationStart == InformationInit => InformationInv
<1> SUFFICES ASSUME InformationInit PROVE InformationInv
  OBVIOUS
<1>1. Init => GamesInv
  BY GamesInitInv, GamesTypedInit DEF GamesInv
<1> QED BY <1>1, RunInvInit, ReaderInitInv DEF InformationInit, InformationInv

\* In every run, of whichever part, the state is well formed: what is done is
\* done in directories that are set, the level of the reader is the number of
\* the elements that are open, links are between games (run, start_handler,
\* gamearchive::load).
THEOREM InformationWellFormed == InformationSpec => []InformationTypeOK
<1>1. InformationInv => InformationTypeOK
  <2>1. GamesInv => TypeOK
    BY DEF GamesInv
  <2> QED BY <2>1, RunTypesFromInv, ReaderTypesFromInv, RunRests, ReaderRests, GamesRest
          DEF InformationInv, InformationTypeOK
<1> QED BY <1>1, InformationStart, InformationStep, PTL DEF InformationSpec
=============================================================================
