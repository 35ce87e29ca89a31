--------------------------- MODULE MCInformation ---------------------------
(* What the program is given, in small instances: the command line with    *)
(* the configuration file, the information file, and the games read from   *)
(* it.                                                                     *)
EXTENDS Information

(* Games: up to four, one rom or sample.                                   *)
MCGame == 1..4
MCPart == {"x"}

NoParents == [g \in MCGame |-> NoGame]
NoOne == [g \in MCGame |-> {}]
On(f, g) == IF g = NoGame THEN NoGame ELSE f[g]

\* The walk from a game that is on no circle of two or more games meets none.
Walkable(f) ==
  \A g \in 1..4 : LET a == On(f, g) b == On(f, a) c == On(f, b) d == On(f, c)
                  IN \/ g \in {a, b, c, d} \/ NoGame \in {a, b, c, d}
                     \/ a = b \/ b = c \/ c = d

\* A forest, in which only resources are above resources.
Forest(f, res) ==
  \A g \in 1..4 : /\ On(f, On(f, On(f, f[g]))) = NoGame
                  /\ g \in res => f[g] \in res \cup {NoGame}

\* any parents, one of them perhaps missing, any distribution of the part
MCStartMerge ==
  {[games |-> 1..3, of |-> [rom |-> IF k = "rom" THEN f ELSE NoParents,
                            sample |-> IF k = "sample" THEN f ELSE NoParents],
    has |-> [rom |-> h, sample |-> h],
    working |-> {1}, resource |-> {}] :
      k \in Kind, f \in {f \in [MCGame -> 0..4] : f[4] = NoGame /\ Walkable(f)},
      h \in {h \in [MCGame -> SUBSET MCPart] : h[4] = {}}}

\* any forest, any games working; any resources among three games, one among four
Families == {p \in [MCGame -> 0..4] \X SUBSET MCGame : Forest(p[1], p[2])}
FilterStart(gs, f, res, w) ==
  [games |-> gs, of |-> [rom |-> f, sample |-> NoParents],
   has |-> [rom |-> [g \in MCGame |-> IF g \in gs THEN MCPart ELSE {}], sample |-> NoOne],
   working |-> w, resource |-> res]
MCStartFilter ==
  {FilterStart(1..3, p[1], p[2], w) :
     p \in {p \in Families : p[1][4] = NoGame /\ 4 \notin p[2]}, w \in SUBSET (1..3)}
  \cup {FilterStart(MCGame, p[1], p[2], w) :
          p \in {p \in Families : Cardinality(p[2]) <= 1}, w \in SUBSET MCGame}

MCStart == MCStartMerge \cup MCStartFilter

-----------------------------------------------------------------------------
(* Files.                                                                  *)
XOpen(tag, atts) == [kind |-> "start", tag |-> tag, atts |-> atts, text |-> <<>>]
XData(v) == [kind |-> "data", tag |-> "", atts |-> <<>>, text |-> v]
XClose == [kind |-> "end", tag |-> "", atts |-> <<>>, text |-> <<>>]
Att(name, v) == [name |-> name, value |-> v]
\* an element with its data in one piece and in two
El(tag, v) == IF Len(v) < 2 THEN <<XOpen(tag, <<>>), XData(v), XClose>>
              ELSE <<XOpen(tag, <<>>), XData(SubSeq(v, 1, 1)), XData(SubSeq(v, 2, Len(v))), XClose>>
\* what may be in a game
GameParts ==
  {<<>>, El("isbios", <<"yes">>), El("isbios", <<"n", "o">>), El("runnable", <<"n", "o">>), El("runnable", <<"yes">>),
   El("year", <<"1", "9">>), El("name", <<"f">>),
   <<XOpen("rom", <<Att("name", <<"a">>), Att("size", <<"1", "9">>), Att("crc", <<"f">>)>>), XClose>>,
   <<XOpen("rom", <<Att("name", <<"a">>), Att("status", Nodump)>>), XClose>>,
   <<XOpen("rom", <<>>)>> \o El("size", <<"1", "f">>) \o <<XClose>>,
   <<XOpen("driver", <<Att("status", Preliminary)>>), XClose>>,
   <<XOpen("disk", <<Att("name", <<"d">>), Att("sha1", <<"1">>)>>), XClose>>,
   <<XOpen("video", <<>>), XOpen("rom", <<Att("name", <<"x">>)>>),
     XOpen("rom", <<Att("name", <<"x">>), Att("y", <<"y">>)>>), XOpen("rom", <<>>),
     XData(<<"q">>), XClose, XClose, XClose, XClose>>,
   <<XOpen("sample", <<>>)>> \o El("name", <<"s", ".", "x">>) \o <<XClose>>}
Open(root, atts) == <<XOpen(root, <<>>), XOpen("game", atts)>>
Plainly == <<Att("name", <<"g">>)>>
Twice == <<Att("name", <<"g">>), Att("isbios", <<"yes">>), Att("runnable", <<"n", "o">>)>>
Again == <<XOpen("machine", <<Att("name", <<"g">>), Att("rom", <<"r">>)>>), XClose>>
Clone == <<XOpen("machine", <<Att("name", <<"f">>), Att("romof", <<"g">>)>>), XClose>>
\* two parts of which the second may change what the first did, or one and
\* another game; a part of what is no game, or in a file that is cut off
Changing == {p \in GameParts : p # <<>> /\ p[1].tag \in {"isbios", "runnable", "name", "rom"}}
MCXml ==
  {Open("mame", Plainly) \o a \o b \o <<XClose, XClose>> : a, b \in Changing}
  \cup {Open("mess", n) \o a \o <<XClose>> \o c \o <<XClose>> :
          n \in {Plainly, Twice}, a \in GameParts, c \in {Again, Clone}}
  \cup {Open("html", Plainly) \o a \o <<XClose, XClose>> : a \in GameParts}
  \cup {Open("raine", Plainly) \o a : a \in GameParts}
Sym(x) == [t |-> "symbol", text |-> <<x>>]
Symv(x) == [t |-> "symbol", text |-> x]
Str(x) == [t |-> "string", text |-> <<x>>]
BOpen == [t |-> "open", text |-> <<>>]
BClose == [t |-> "close", text |-> <<>>]
BError == [t |-> "error", text |-> <<>>]
InfoParts ==
  {<<>>, <<Sym("name"), Sym("g")>>, <<Sym("name"), Str("g")>>, <<Sym("year"), Sym("h")>>,
   <<Sym("description"), Str("x")>>, <<Sym("sample"), Sym("s")>>,
   <<Sym("rom"), BOpen, Sym("name"), Sym("a"), Sym("size"), Symv(<<"1", "9">>), Sym("crc"),
     Symv(<<"0", "x", "f">>), BClose>>,
   <<Sym("rom"), BOpen, Sym("name"), Sym("a"), Sym("merge"), Sym("b"), Sym("flags"),
     Symv(Nodump), BClose>>,
   <<Sym("rom"), BOpen, Sym("size"), Sym("f"), BClose>>,
   <<Sym("driver"), BOpen, Sym("status"), Symv(Preliminary), Sym("color"), Sym("x"), BClose>>,
   <<Sym("disk"), BOpen, Sym("name"), BOpen, Sym("x"), BOpen, BClose, Sym("y"), Str("z"), BClose,
     Sym("index"), Sym("1"), BClose>>,
   <<Sym("video"), BOpen, Sym("x"), BClose>>, <<Sym("x"), BOpen>>, <<BClose>>,
   <<Sym("driver"), BOpen, BOpen, BClose, BClose>>, <<BError>>}
Heads == {<<Sym("game"), BOpen>>, <<Sym("resource"), BOpen>>, <<Sym("emulator"), BOpen>>,
          <<Sym("machine"), Sym("x")>>}
Tails == {<<Sym("game"), BOpen, Sym("name"), Sym("g"), BClose>>,
          <<Sym("game"), BOpen, Sym("romof"), Sym("g"), Sym("name"), Sym("i"), BClose>>,
          <<Sym("x"), Sym("y")>>, <<Sym("x")>>}
\* two parts of a game, or one part of a block with something after it
MCInfo ==
  {<<Sym("game"), BOpen>> \o a \o b \o <<BClose>> :
     a \in InfoParts, b \in {p \in InfoParts : p # <<>> /\ p[1].text \in {<<"name">>, <<"rom">>}}}
  \cup {h \o a \o <<BClose>> \o t : h \in Heads \ {<<Sym("resource"), BOpen>>}, a \in InfoParts, t \in Tails}
  \cup {<<Sym("resource"), BOpen, Sym("name"), Sym("g"), BClose>>}
MCHex == [x \in {"0", "1", "9", "f"} |-> CASE x = "0" -> 0 [] x = "1" -> 1 [] x = "9" -> 9 [] x = "f" -> 15]

-----------------------------------------------------------------------------
(* Runs.                                                                   *)
MCDirs == {"rom", "i", "i/rom", "I/ROM", "i/b", "unk", "new", "smp", "sunk"}
MCDirFold == [d \in MCDirs |-> IF d = "I/ROM" THEN "i/rom" ELSE d]
MCChildren == [d \in MCDirs |-> IF d = "i" THEN {"i/rom", "i/b"} ELSE {}]
ConfLine(tag, dirs) == [tag |-> tag, dirs |-> dirs]
RomLines(rom, unknown, import) ==
  <<ConfLine("rom", rom), ConfLine("rom_unknown", <<unknown>>), ConfLine("rom_new", <<"new">>),
    ConfLine("rom_import", import)>>
SampleLines == <<ConfLine("sample", <<"smp">>), ConfLine("sample_unknown", <<"sunk">>)>>
DiskLines == <<ConfLine("disk", <<"smp">>), ConfLine("disk_unknown", <<"sunk">>)>>
\* whole configurations, and some with a line missing, twice or wrong
MCLines ==
  {RomLines(r, u, i) : r \in {<<"rom">>, <<"i/rom", "rom">>, <<"I/ROM">>}, u \in {"unk", "i/b"},
                       i \in {<<>>, <<"i">>, <<"i/b">>}}
  \cup {RomLines(<<"rom">>, "unk", <<>>) \o SampleLines \o DiskLines,
        <<ConfLine("rom", <<"rom">>), ConfLine("rom", <<"i/rom">>)>> \o SampleLines,
        <<ConfLine("rom", <<"rom">>), ConfLine("rom_unknown", <<"unk">>), ConfLine("rom_unknown", <<"unk">>)>>,
        <<ConfLine("rom", <<"rom">>), ConfLine("rom_unknown", <<"unk">>)>>,
        <<ConfLine("rom", <<>>), ConfLine("rom_unknown", <<"unk", "new">>)>>,
        <<ConfLine("rooms", <<"rom">>)>>, <<>>}
MCOpts ==
  {{"R"}, {"R", "n"}, {"r", "a"}, {"r", "g"}, {"r", "d", "p"}, {"r", "a", "n"}, {"r", "p"}, {"S", "n"},
   {"s", "p"}, {"R", "S", "K"}, {"R", "S", "K", "n"}, {"K"}, {"k", "P"}}
MCNoWork == {{"h", "R"}, {"bad", "h"}, {"r"}, {"a"}, {"e"}, {"i", "l"}, {"R"}}
Without == {MCDirs} \cup {MCDirs \ {d} : d \in {"rom", "i/b", "unk", "sunk"}}
MCRunStart ==
  [opts : MCOpts, info : {"games"}, lines : MCLines, exists : {MCDirs}, writable : Without,
   damaged : {{"rom", "i/b", "smp"}}]
  \cup {[opts |-> o, info |-> "games", lines |-> l, exists |-> e, writable |-> {"rom"} \cap e,
         damaged |-> {}] : o \in MCOpts, l \in MCLines, e \in Without}
  \cup [opts : MCNoWork, info : {"games", "empty", "invalid"}, lines : {<<>>}, exists : {{}},
        writable : {{}}, damaged : {{}}]
=============================================================================
