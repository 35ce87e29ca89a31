----------------------------- MODULE GameReader -----------------------------
(***************************************************************************)
(* The two readers of the information file.  load_xml gets the elements    *)
(* from expat, one call of a handler after the other, and knows where it   *)
(* is by the tags of its levels; load_info gets the tokens of readinfo and *)
(* goes down with them.  Both fill the same games, or refuse the file.     *)
(***************************************************************************)
EXTENDS Integers, Sequences, SequencesExt, FiniteSets

CONSTANTS
  XmlFiles,  \* files as expat reports them, sequences of events
  InfoFiles, \* files as readinfo cuts them, sequences of tokens
  HexOf,     \* the value of every digit, ten of them decimal
  RWord,     \* 2^32: sizes and crcs are unsigned
  DepthMax   \* DEPTH_MAX

\* A text is a sequence of pieces: expat may report it in several.
Nodump == <<"nodump">>
Preliminary == <<"preliminary">>

IsSequence(s) == Len(s) \in Nat /\ s = [i \in 1..Len(s) |-> s[i]]
CountOf(f, n, kind) == Cardinality({i \in 1..n : f[i].kind = kind})

\* Expat reports the end of an element after its start (EventsNested of module
\* MCXml).
ASSUME ReaderAssumption ==
  /\ \A f \in XmlFiles :
       /\ IsSequence(f)
       /\ \A i \in DOMAIN f :
            /\ "kind" \in DOMAIN f[i] /\ f[i].kind \in {"start", "data", "end"}
            /\ f[i].kind = "start" => IsSequence(f[i].atts)
            /\ f[i].kind = "end" => CountOf(f, i, "end") <= CountOf(f, i, "start")
  /\ \A f \in InfoFiles :
       /\ IsSequence(f)
       /\ \A i \in DOMAIN f :
            /\ "kind" \notin DOMAIN f[i]
            /\ f[i].t \in {"symbol", "string", "open", "close", "error"}
  /\ RWord \in Nat \ {0} /\ DepthMax = 5

VARIABLES
  doc,    \* the file
  pos,    \* how much of it is read
  st,     \* [depth, level, error, r, d, g, a]: struct state_t of gamexml.cc
  rpc,    \* xml, done, failed; or the block that load_info is in
  await,  \* load_info: type, open, value or skip
  ifield, \* load_info: what the value is for
  skip    \* load_info: the blocks info_skip_value is in, and whether a value is due

readerVars == <<doc, pos, st, rpc, await, ifield, skip>>

-----------------------------------------------------------------------------
(* Games as they are read.  A pointer is a set of at most one.             *)

TextField == {"name", "description", "manufacturer", "year", "cloneof", "romof", "sampleof"}
NewGame == [field |-> [x \in TextField |-> <<>>], working |-> TRUE, resource |-> FALSE,
            roms |-> {}, samples |-> {}, disks |-> {}]
NewRom == [name |-> <<>>, size |-> 0, crc |-> 0, nodump |-> FALSE]
NewDisk == [name |-> <<>>, sha1 |-> <<>>]

\* set::insert: of two of one name the first stays
InsertNamed(S, x) == IF \E y \in S : y.name = x.name THEN S ELSE S \cup {x}
InsertGame(S, g) ==
  IF \E h \in S : h.field["name"] = g.field["name"] THEN S ELSE S \cup {g}

\* strdec and strhex: the value, and whether all of the text is a number
IsHex(v) == \A i \in DOMAIN v : v[i] \in DOMAIN HexOf
IsDec(v) == IsHex(v) /\ \A i \in DOMAIN v : HexOf[v[i]] < 10
strdec(v) == FoldLeft(LAMBDA n, c : (10 * n + HexOf[c]) % RWord, 0, v)
strhex(v) == FoldLeft(LAMBDA n, c : (16 * n + HexOf[c]) % RWord, 0, v)

-----------------------------------------------------------------------------
(* load_xml.                                                               *)

\* The tables CONV1, CONV2 and CONV3, below the element of the game.
Conversions ==
  {<<>>} \cup {<<x>> : x \in TextField \cup {"runnable", "isbios", "rom", "disk"}}
  \cup {<<"rom", x>> : x \in {"name", "size", "crc", "status"}}
  \cup {<<"disk", x>> : x \in {"name", "sha1"}}
  \cup {<<"driver", "status">>, <<"sample", "name">>}
NoProcess == <<"none">>

\* identify: the tags of the levels down to this one
identify(tags) ==
  IF /\ Len(tags) >= 2
     /\ tags[1] \in {"mame", "mess", "raine"} /\ tags[2] \in {"game", "machine"}
     /\ SubSeq(tags, 3, Len(tags)) \in Conversions
  THEN SubSeq(tags, 3, Len(tags)) ELSE NoProcess

process_error(s, e) == [s EXCEPT !.error = e]
OnGame(s, F(_)) == IF s.g = {} THEN process_error(s, "state") ELSE [s EXCEPT !.g = {F(g) : g \in s.g}]
OnRom(s, F(_)) == IF s.r = {} THEN process_error(s, "state") ELSE [s EXCEPT !.r = {F(r) : r \in s.r}]
OnDisk(s, F(_)) == IF s.d = {} THEN process_error(s, "state") ELSE [s EXCEPT !.d = {F(d) : d \in s.d}]

\* mutant: a disk is not opened
process_open_rom(s, p) ==
  CASE p = <<>> -> [s EXCEPT !.g = {NewGame}]
    [] p = <<"rom">> -> [s EXCEPT !.r = {NewRom}]
    [] OTHER -> s

process_open(s, p) ==
  CASE p = <<>> -> [s EXCEPT !.g = {NewGame}]
    [] p = <<"rom">> -> [s EXCEPT !.r = {NewRom}]
    [] p = <<"disk">> -> [s EXCEPT !.d = {NewDisk}]
    [] OTHER -> s

process_close(s, p) ==
  CASE p = <<>> -> [s EXCEPT !.a = InsertGame(s.a, CHOOSE g \in s.g : TRUE), !.g = {}]
    [] p = <<"rom">> ->
         [OnGame(s, LAMBDA g : [g EXCEPT !.roms = InsertNamed(g.roms, CHOOSE r \in s.r : TRUE)])
           EXCEPT !.r = {}]
    [] p = <<"disk">> ->
         [OnGame(s, LAMBDA g : [g EXCEPT !.disks = InsertNamed(g.disks, CHOOSE d \in s.d : TRUE)])
           EXCEPT !.d = {}]
    [] OTHER -> s

\* the name of a sample without a dot gets the extension
SampleName(v) == IF \E i \in DOMAIN v : v[i] = "." THEN v ELSE v \o <<".", "wav">>

\* mutant: the later of runnable and isbios decides
process_runnable_last(g, v) == [g EXCEPT !.resource = v = <<"n", "o">>]

process_runnable(g, v) == IF g.resource THEN g ELSE [g EXCEPT !.resource = v = <<"n", "o">>]

\* The functions process_* on the data of an element or an attribute.
process_data(s, p, v) ==
  CASE p \in {<<>>, <<"rom">>, <<"disk">>} -> s
    [] p = <<"runnable">> -> OnGame(s, LAMBDA g : process_runnable(g, v))
    [] p = <<"isbios">> -> OnGame(s, LAMBDA g : [g EXCEPT !.resource = v = <<"yes">>])
    [] p = <<"rom", "name">> -> OnRom(s, LAMBDA r : [r EXCEPT !.name = v])
    [] p = <<"rom", "size">> ->
         IF s.r # {} /\ ~IsDec(v) THEN process_error(s, "size")
         ELSE OnRom(s, LAMBDA r : [r EXCEPT !.size = strdec(v)])
    [] p = <<"rom", "crc">> ->
         IF s.r # {} /\ ~IsHex(v) THEN process_error(s, "crc")
         ELSE OnRom(s, LAMBDA r : [r EXCEPT !.crc = strhex(v)])
    [] p = <<"rom", "status">> -> OnRom(s, LAMBDA r : [r EXCEPT !.nodump = @ \/ v = Nodump])
    [] p = <<"driver", "status">> -> OnGame(s, LAMBDA g : [g EXCEPT !.working = @ /\ v # Preliminary])
    [] p = <<"sample", "name">> -> OnGame(s, LAMBDA g : [g EXCEPT !.samples = @ \cup {SampleName(v)}])
    [] p = <<"disk", "name">> -> OnDisk(s, LAMBDA d : [d EXCEPT !.name = v])
    [] p = <<"disk", "sha1">> -> OnDisk(s, LAMBDA d : [d EXCEPT !.sha1 = v])
    [] OTHER -> OnGame(s, LAMBDA g : [g EXCEPT !.field[p[1]] = v])

Checked(s) == s.depth < DepthMax
Here(s) == s.level[s.depth]

\* start_handler for the element alone
start_element(s0, tag) ==
  LET s == [s0 EXCEPT !.depth = @ + 1]
      tags == [i \in 1..s.depth + 1 |-> IF i = s.depth + 1 THEN tag ELSE s.level[i - 1].tag]
      p == IF s.error = "none" THEN identify(tags) ELSE NoProcess
  IN IF ~Checked(s) THEN s
     ELSE process_open([s EXCEPT !.level[s.depth] = [tag |-> tag, data |-> <<>>, process |-> p]], p)

\* mutant: the last piece of the data is the data
data_handler_last(s, v) ==
  IF Checked(s) /\ s.error = "none" THEN [s EXCEPT !.level[s.depth].data = v] ELSE s

data_handler(s, v) ==
  IF Checked(s) /\ s.error = "none" THEN [s EXCEPT !.level[s.depth].data = @ \o v] ELSE s

\* mutant: the level is left only where it was checked
end_handler_checked(s) ==
  LET p == Here(s).process
      done == IF s.error # "none" \/ p = NoProcess THEN s
              ELSE process_close(process_data(s, p, Here(s).data), p)
  IN IF Checked(s) THEN [done EXCEPT !.depth = @ - 1] ELSE s

end_handler(s) ==
  LET p == Here(s).process
      done == IF ~Checked(s) \/ s.error # "none" \/ p = NoProcess THEN s
              ELSE process_close(process_data(s, p, Here(s).data), p)
  IN [done EXCEPT !.depth = @ - 1]

\* An attribute is an element of its own for the handlers.
start_handler(s, tag, atts) ==
  LET e == start_element(s, tag)
      after[k \in 0..Len(atts)] ==
        IF k = 0 THEN e
        ELSE end_handler(data_handler(start_element(after[k - 1], atts[k].name), atts[k].value))
  IN IF ~Checked(e) \/ s.error # "none" THEN e ELSE after[Len(atts)]

infoVars == <<await, ifield, skip>>

XmlEvent ==
  /\ rpc = "xml" /\ pos < Len(doc)
  /\ LET ev == doc[pos + 1]
     IN st' = CASE ev.kind = "start" -> start_handler(st, ev.tag, ev.atts)
                [] ev.kind = "data" -> data_handler(st, ev.text)
                [] ev.kind = "end" -> end_handler(st)
  /\ pos' = pos + 1
  /\ UNCHANGED <<doc, rpc, infoVars>>

\* The file is over: inside an element expat reports an error.  Any error is
\* thrown only here.
XmlEnds ==
  /\ rpc = "xml" /\ pos = Len(doc)
  /\ LET s == IF st.depth # -1 THEN process_error(st, "xml") ELSE st
     IN /\ st' = s
        /\ rpc' = IF s.error = "none" THEN "done" ELSE "failed"
  /\ UNCHANGED <<doc, pos, infoVars>>

-----------------------------------------------------------------------------
(* load_info: in a block it awaits a type, then its value.                 *)

Block == {"top", "game", "rom", "driver"}
Eof == [t |-> "eof", text |-> <<>>]
Token == IF pos < Len(doc) THEN doc[pos + 1] ELSE Eof
Take == pos' = pos + 1 /\ UNCHANGED doc
Fails == rpc' = "failed" /\ UNCHANGED <<doc, pos, st, infoVars>>
Type(block, s) == rpc' = block /\ await' = "type" /\ st' = s /\ UNCHANGED <<ifield, skip>>

\* The types of a block with a value that is read, and those with a block.
Read(block) ==
  CASE block = "game" -> {<<x>> : x \in TextField \cup {"sample"}}
    [] block = "rom" -> {<<x>> : x \in {"name", "size", "crc", "flags"}}
    [] block = "driver" -> {<<"status">>}
    [] OTHER -> {}
Blocks(block) ==
  CASE block = "top" -> {<<"game">>, <<"resource">>, <<"machine">>}
    [] block = "game" -> {<<"rom">>, <<"driver">>}
    [] OTHER -> {}
Inner(text) == IF text[1] \in {"rom", "driver"} THEN text[1] ELSE "game"

Awaiting(what, kinds) == rpc \in Block /\ await = what /\ Token.t \in kinds

InfoType ==
  /\ Awaiting("type", {"symbol"}) /\ Take
  /\ LET text == Token.text
     IN CASE text \in Read(rpc) ->
               await' = "value" /\ ifield' = text /\ UNCHANGED <<rpc, st, skip>>
          [] text \in Blocks(rpc) ->
               /\ rpc' = Inner(text) /\ await' = "open"
               /\ st' = CASE rpc' = "game" ->
                               [st EXCEPT !.g = {[NewGame EXCEPT !.resource = text = <<"resource">>]}]
                          [] rpc' = "rom" -> [st EXCEPT !.r = {NewRom}]
                          [] OTHER -> st
               /\ UNCHANGED <<ifield, skip>>
          [] OTHER ->
               await' = "skip" /\ skip' = [blocks |-> 0, value |-> TRUE] /\ UNCHANGED <<rpc, st, ifield>>

InfoOpen == Awaiting("open", {"open"}) /\ Take /\ Type(rpc, st)

\* The end of a block.
InfoClose ==
  /\ Awaiting("type", {"close"}) /\ rpc # "top" /\ Take
  /\ CASE rpc = "game" -> Type("top", process_close(st, <<>>))
       [] rpc = "rom" -> Type("game", process_close(st, <<"rom">>))
       [] OTHER -> Type("game", st)

ValueKind(text) == IF text \in {<<"description">>, <<"manufacturer">>} THEN {"string"} ELSE {"symbol"}

\* 0x before a crc is dropped
Crc(v) == IF Len(v) >= 2 /\ v[1] = "0" /\ v[2] = "x" THEN SubSeq(v, 3, Len(v)) ELSE v

InfoValue ==
  /\ Awaiting("value", ValueKind(ifield)) /\ Take
  /\ LET v == Token.text
     IN CASE rpc = "rom" /\ ifield = <<"size">> ->
               IsDec(v) /\ Type("rom", OnRom(st, LAMBDA r : [r EXCEPT !.size = strdec(v)]))
          [] rpc = "rom" /\ ifield = <<"crc">> ->
               IsHex(Crc(v)) /\ Type("rom", OnRom(st, LAMBDA r : [r EXCEPT !.crc = strhex(Crc(v))]))
          [] rpc = "rom" /\ ifield = <<"name">> ->
               Type("rom", process_data(st, <<"rom", "name">>, v))
          [] rpc = "rom" /\ ifield = <<"flags">> ->
               Type("rom", process_data(st, <<"rom", "status">>, v))
          [] rpc = "driver" -> Type("driver", process_data(st, <<"driver", "status">>, v))
          [] rpc = "game" /\ ifield = <<"sample">> ->
               Type("game", OnGame(st, LAMBDA g : [g EXCEPT !.samples = @ \cup {v}]))
          [] OTHER -> Type("game", process_data(st, ifield, v))

\* mutant: a block is skipped to its first end
SkipToClose ==
  /\ rpc \in Block /\ await = "skip" /\ Take
  /\ skip' = [skip EXCEPT !.value = FALSE]
  /\ await' = IF Token.t = "close" \/ (skip.value /\ Token.t # "open") THEN "type" ELSE "skip"
  /\ UNCHANGED <<rpc, st, ifield>>

\* info_skip_value: a value is a symbol, a string or a block of types and
\* values; after a value that is not in a block the reader goes on.
InfoSkip ==
  /\ rpc \in Block /\ await = "skip" /\ Take
  /\ \/ /\ skip.value /\ Token.t \in {"symbol", "string"}
        /\ skip' = [skip EXCEPT !.value = FALSE]
     \/ /\ skip.value /\ Token.t = "open"
        /\ skip' = [blocks |-> skip.blocks + 1, value |-> FALSE]
     \/ /\ ~skip.value /\ Token.t = "symbol"
        /\ skip' = [skip EXCEPT !.value = TRUE]
     \/ /\ ~skip.value /\ Token.t = "close"
        /\ skip' = [skip EXCEPT !.blocks = @ - 1]
  /\ await' = IF skip'.blocks = 0 /\ ~skip'.value THEN "type" ELSE "skip"
  /\ UNCHANGED <<rpc, st, ifield>>

InfoEnds ==
  /\ Awaiting("type", {"eof"}) /\ rpc = "top"
  /\ rpc' = "done"
  /\ UNCHANGED <<doc, pos, st, infoVars>>

\* What load_info_internal returns false for.
InfoFails ==
  /\ rpc \in Block /\ Fails
  /\ CASE await = "type" -> Token.t \notin (IF rpc = "top" THEN {"symbol", "eof"} ELSE {"symbol", "close"})
       [] await = "open" -> Token.t # "open"
       [] await = "value" ->
            \/ Token.t \notin ValueKind(ifield)
            \/ rpc = "rom" /\ ifield = <<"size">> /\ ~IsDec(Token.text)
            \/ rpc = "rom" /\ ifield = <<"crc">> /\ ~IsHex(Crc(Token.text))
       [] await = "skip" ->
            Token.t \notin (IF skip.value THEN {"symbol", "string", "open"} ELSE {"symbol", "close"})

-----------------------------------------------------------------------------
NoLevel == [tag |-> "", data |-> <<>>, process |-> NoProcess]

\* gamearchive::load looks at the first character of the file.
StartState == [depth |-> -1, level |-> [k \in 0..DepthMax - 1 |-> NoLevel], error |-> "none",
               r |-> {}, d |-> {}, g |-> {}, a |-> {}]

ReaderInit ==
  /\ \/ doc \in XmlFiles /\ rpc = "xml"
     \/ doc \in InfoFiles /\ rpc = "top"
  /\ pos = 0
  /\ st = StartState
  /\ await = "type" /\ ifield = <<>> /\ skip = [blocks |-> 0, value |-> FALSE]

ReaderNext ==
  \/ XmlEvent \/ XmlEnds
  \/ InfoType \/ InfoOpen \/ InfoClose \/ InfoValue \/ InfoSkip \/ InfoEnds \/ InfoFails

ReaderSpec == ReaderInit /\ [][ReaderNext]_readerVars

-----------------------------------------------------------------------------
(* Properties.  What a file says is told by counting where its elements,   *)
(* or its blocks, begin and end; no level and no stack is needed for that. *)

IsXml == doc # <<>> /\ "kind" \in DOMAIN doc[1]
Before(n, kind) == CountOf(doc, n, kind)

\* The state is well formed; the level is the number of the elements open.
ReaderTypeOK ==
  /\ pos \in 0..Len(doc)
  /\ rpc \in Block \cup {"xml", "done", "failed"}
  /\ await \in {"type", "open", "value", "skip"}
  /\ st.depth + 1 = IF IsXml THEN Before(pos, "start") - Before(pos, "end") ELSE 0
  /\ skip.blocks \in Nat
  /\ Cardinality(st.g) <= 1 /\ Cardinality(st.r) <= 1 /\ Cardinality(st.d) <= 1

\* The errors "invalid state" of the handlers never come: a rom, a disk and a
\* game are there whenever something of theirs is read.
NoInvalidState == st.error # "state"

Foremost(S) == CHOOSE x \in S : \A y \in S : x <= y
Hindmost(S) == CHOOSE x \in S : \A y \in S : y <= x

\* The attributes as elements, in their place.
Event(kind, tag, text) == [kind |-> kind, tag |-> tag, atts |-> <<>>, text |-> text]
Expanded ==
  FlattenSeq([i \in DOMAIN doc |->
    IF doc[i].kind # "start" THEN <<doc[i]>>
    ELSE <<Event("start", doc[i].tag, <<>>)>>
         \o FlattenSeq([k \in DOMAIN doc[i].atts |->
              <<Event("start", doc[i].atts[k].name, <<>>), Event("data", "", doc[i].atts[k].value),
                Event("end", "", <<>>)>>])])

\* The sums of the beginnings of a sequence.
Running(s) == FoldLeft(LAMBDA sums, n : Append(sums, n + (IF sums = <<>> THEN 0 ELSE sums[Len(sums)])), <<>>, s)

\* The games of a sequence of events.
XmlGames(ev) ==
  LET level == Running([i \in DOMAIN ev |-> CASE ev[i].kind = "start" -> 1 [] ev[i].kind = "end" -> -1
                                              [] OTHER -> 0])
      EndOf(i) == Foremost({j \in DOMAIN ev : j > i /\ level[j] = level[i] - 1})
      Below(i, tags) == {j \in i + 1..EndOf(i) : /\ ev[j].kind = "start" /\ ev[j].tag \in tags
                                                 /\ level[j] = level[i] + 1}
      Text(i) == FlattenSeq([j \in 1..EndOf(i) |->
                   IF j > i /\ ev[j].kind = "data" /\ level[j] = level[i] THEN ev[j].text ELSE <<>>])
      Value(i, tag) == IF Below(i, {tag}) = {} THEN <<>> ELSE Text(Hindmost(Below(i, {tag})))
      Deep(i, tag, sub) == UNION {Below(j, {sub}) : j \in Below(i, {tag})}
      Rom(i) == [name |-> Value(i, "name"), size |-> strdec(Value(i, "size")),
                 crc |-> strhex(Value(i, "crc")),
                 nodump |-> \E j \in Below(i, {"status"}) : Text(j) = Nodump]
      Disk(i) == [name |-> Value(i, "name"), sha1 |-> Value(i, "sha1")]
      Firsts(S) == {i \in S : ~\E j \in S : j < i /\ Value(j, "name") = Value(i, "name")}
      \* resource: said by an isbios or by a runnable, and no later isbios denies it
      Resource(i) ==
        \E j \in Below(i, {"isbios", "runnable"}) :
          /\ Text(j) = IF ev[j].tag = "isbios" THEN <<"yes">> ELSE <<"n", "o">>
          /\ \A k \in Below(i, {"isbios"}) : k > j => Text(k) = <<"yes">>
      GameSaid(i) == [field |-> [x \in TextField |-> Value(i, x)],
                  working |-> ~\E j \in Deep(i, "driver", "status") : Text(j) = Preliminary,
                  resource |-> Resource(i),
                  roms |-> {Rom(j) : j \in Firsts(Below(i, {"rom"}))},
                  samples |-> {SampleName(Text(j)) : j \in Deep(i, "sample", "name")},
                  disks |-> {Disk(j) : j \in Firsts(Below(i, {"disk"}))}]
      games == IF ev[1].tag \in {"mame", "mess", "raine"} THEN Below(1, {"game", "machine"}) ELSE {}
  IN [games |-> {GameSaid(i) : i \in Firsts(games)},
      valid |-> \A i \in games : /\ \A j \in Deep(i, "rom", "size") : IsDec(Text(j))
                                 /\ \A j \in Deep(i, "rom", "crc") : IsHex(Text(j))]

Balanced(kinds) ==
  Cardinality({i \in DOMAIN doc : doc[i].kind = kinds[1]})
    = Cardinality({i \in DOMAIN doc : doc[i].kind = kinds[2]})

\* load_xml gets from a file the games it says, with the data that expat
\* reports in pieces put together and what it does not know at any depth left
\* out; it refuses a file that is cut off or has a number that is none.
XmlRead ==
  rpc \in {"done", "failed"} /\ IsXml =>
    IF Balanced(<<"start", "end">>) /\ XmlGames(Expanded).valid
    THEN rpc = "done" /\ st.a = XmlGames(Expanded).games
    ELSE rpc = "failed"

\* The blocks of a sequence of tokens.  The members of a block, each with the
\* block that it opens, are types and values in turn.
InfoGames ==
  LET opened == Running([i \in DOMAIN doc |-> IF doc[i].t = "open" THEN 1 ELSE 0])
      closed == Running([i \in DOMAIN doc |-> IF doc[i].t = "close" THEN 1 ELSE 0])
      \* the blocks around a token, one that opens or closes a block not in it
      level == Running([i \in DOMAIN doc |-> (IF doc[i].t = "close" THEN -1 ELSE 0)
                                             + (IF i > 1 /\ doc[i - 1].t = "open" THEN 1 ELSE 0)])
      EndOf(o) == IF o = 0 THEN Len(doc) + 1
                  ELSE Foremost({j \in DOMAIN doc : j > o /\ doc[j].t = "close" /\ level[j] = level[o]})
      Inside(o) == IF o = 0 THEN 0 ELSE level[o] + 1
      Members(o) == {i \in o + 1..EndOf(o) - 1 : doc[i].t # "close" /\ level[i] = Inside(o)}
      Types(o) == LET m == Members(o) IN {i \in m : Cardinality({j \in m : j <= i}) % 2 = 1}
      ValueOf(o, i) == Foremost({j \in Members(o) : j > i})
      Said(o, texts) == {i \in Types(o) : doc[i].text \in texts}
      Values(o, text) == {ValueOf(o, i) : i \in Said(o, {text})}
      Value(o, text) == IF Values(o, text) = {} THEN <<>> ELSE doc[Hindmost(Values(o, text))].text
      Rom(o) == [name |-> Value(o, <<"name">>), size |-> strdec(Value(o, <<"size">>)),
                 crc |-> strhex(Crc(Value(o, <<"crc">>))),
                 nodump |-> \E i \in Values(o, <<"flags">>) : doc[i].text = Nodump]
      Firsts(S) == {o \in S : ~\E p \in S : p < o /\ Value(p, <<"name">>) = Value(o, <<"name">>)}
      GameSaid(i) ==
        LET o == ValueOf(0, i)
        IN [field |-> [x \in TextField |-> Value(o, <<x>>)],
            working |-> ~\E d \in Values(o, <<"driver">>) :
                           \E s \in Values(d, <<"status">>) : doc[s].text = Preliminary,
            resource |-> doc[i].text = <<"resource">>,
            roms |-> {Rom(r) : r \in Firsts(Values(o, <<"rom">>))},
            samples |-> {doc[s].text : s \in Values(o, <<"sample">>)}, disks |-> {}]
      games == {ValueOf(0, i) : i \in Said(0, Blocks("top"))}
      \* blocks begin and end in pairs, types are symbols and have a value
      nested == /\ \A i \in DOMAIN doc : doc[i].t # "error"
                /\ \A i \in DOMAIN doc : opened[i] >= closed[i]
                /\ doc # <<>> => opened[Len(doc)] = closed[Len(doc)]
                /\ \A o \in {0} \cup {i \in DOMAIN doc : doc[i].t = "open"} :
                     /\ Cardinality(Members(o)) % 2 = 0
                     /\ \A i \in Types(o) : doc[i].t = "symbol"
      known == /\ \A o \in games : doc[o].t = "open"
               /\ \A o \in games, x \in {"rom", "driver"} : \A b \in Values(o, <<x>>) : doc[b].t = "open"
               /\ \A o \in games : \A x \in Read("game") : \A v \in Values(o, x) : doc[v].t \in ValueKind(x)
               /\ \A o \in games : \A b \in Values(o, <<"driver">>) :
                    \A v \in Values(b, <<"status">>) : doc[v].t = "symbol"
               /\ \A o \in games : \A b \in Values(o, <<"rom">>) : \A x \in Read("rom") :
                    \A v \in Values(b, x) : /\ doc[v].t = "symbol"
                                            /\ x = <<"size">> => IsDec(doc[v].text)
                                            /\ x = <<"crc">> => IsHex(Crc(doc[v].text))
  IN IF nested /\ known
     THEN [valid |-> TRUE,
           games |-> {GameSaid(i) : i \in {i \in Said(0, Blocks("top")) : ValueOf(0, i) \in Firsts(games)}}]
     ELSE [valid |-> FALSE, games |-> {}]

\* load_info gets from a file the games it says, blocks it does not know
\* skipped whole, and refuses a file with a value of the wrong kind, a block
\* that does not end, or a type without a value.
InfoRead ==
  rpc \in {"done", "failed"} /\ ~IsXml =>
    LET said == InfoGames
    IN IF said.valid THEN rpc = "done" /\ st.a = said.games ELSE rpc = "failed"

\* Either reader gives the games that the file says, or an error that is its own.
GamesRead == NoInvalidState /\ XmlRead /\ InfoRead
=============================================================================
