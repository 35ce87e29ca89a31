---------------------------- MODULE Information ----------------------------
(***************************************************************************)
(* What the program is given: the command line with the configuration, the *)
(* information file, and the games read from it.  run() has one of them    *)
(* after the other, and hands over results only, so a behaviour has one of *)
(* the three, while the others rest.                                       *)
(***************************************************************************)
EXTENDS Command, GameReader, GameArchive

RunIdle ==
  /\ in = [opts |-> {"h"}, info |-> "games", lines |-> <<>>, exists |-> {}, writable |-> {}, damaged |-> {}]
  /\ phase = "done" /\ line = 0 /\ conf = NoConfig /\ did = {}

ReaderIdle ==
  /\ doc = <<>> /\ pos = 0 /\ st = StartState /\ rpc = "done"
  /\ await = "type" /\ ifield = <<>> /\ skip = [blocks |-> 0, value |-> FALSE]

GamesIdle ==
  /\ start = [games |-> {}, of |-> [k \in Kind |-> [g \in Game |-> NoGame]],
              has |-> [k \in Kind |-> [g \in Game |-> {}]], working |-> {}, resource |-> {}]
  /\ games = {} /\ of = start.of /\ has = start.has
  /\ subset = [working |-> {}, parent |-> {}]
  /\ pc = "done" /\ todo = {} /\ walk = NoWalk /\ filter = ""

-----------------------------------------------------------------------------
InformationInit ==
  \/ RunInit /\ ReaderIdle /\ GamesIdle
  \/ RunIdle /\ ReaderInit /\ GamesIdle
  \/ RunIdle /\ ReaderIdle /\ Init

InformationNext ==
  \/ RunNext /\ UNCHANGED <<readerVars, vars>>
  \/ ReaderNext /\ UNCHANGED <<commandVars, vars>>
  \/ Next /\ UNCHANGED <<commandVars, readerVars>>

\* Loading the games is straight-line code of one thread.
InformationSpec ==
  /\ InformationInit /\ [][InformationNext]_<<commandVars, readerVars, vars>>
  /\ WF_vars(Next /\ UNCHANGED <<commandVars, readerVars>>)

\* The state of the three parts is well formed: directories that were given,
\* a level of the reader that is the number of open elements, links to games.
InformationTypeOK == RunTypeOK /\ ReaderTypeOK /\ TypeOK
=============================================================================
