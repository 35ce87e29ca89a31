------------------------------- MODULE MCXml --------------------------------
(***************************************************************************)
(* The XML parser in small instances.  A behaviour has one of three parts: *)
(* a file that load_xml reads in pieces; a text that grows a character at  *)
(* a time, as the buffer of the tokenizer does; a declaration, given to    *)
(* the role machine token by token.                                        *)
(***************************************************************************)
EXTENDS XmlParse, FiniteSets

CONSTANTS Pieces,        \* how many characters a read may give, the rest apart
          TextBound,     \* length of the texts
          SentenceBound  \* tokens of a declaration
VARIABLES once, meant,           \* what the file is when read at once, and what its author meant
          text, scanner,         \* a text and the scanner that reads it
          sentence, declarer     \* the tokens of a declaration and the parser that has them
fileVars == <<document, offset, parser, once, meant>>
textVars == <<text, scanner>>
sentenceVars == <<sentence, declarer>>

MCWord == {"x", "xml", "XML", "CDATA", "Lt", "DOCTYPE", "ATTLIST", "ENTITY", "ELEMENT", "NOTATION",
           "IMPLIED", "FIXED", "PCDATA", "EMPTY", "SYSTEM", "PUBLIC", "NMTOKEN", "version", "encoding",
           "standalone", "yes", "no", "UTF-8", "g", "r", "n", "e", "f"}

-----------------------------------------------------------------------------
(* Files. *)

Quoted(v) == <<"quot">> \o v \o <<"quot">>
Decl(body) == <<"lt", "excl">> \o body \o <<"gt">>
Entity(name, v) == Decl(<<"ENTITY", "s", name, "s">> \o Quoted(v))
Doctype(subset) == <<"lt", "excl", "DOCTYPE", "s", "g", "lsqb">> \o subset \o <<"rsqb", "gt">>
Game(body) == <<"lt", "g", "gt">> \o body \o <<"lt", "sol", "g", "gt">>

(* The declarations of attributes of the element r, and the tags it may have; the reference to
   a parameter entity hides from a parser that does not read it what is declared after it. *)
AttDecl == [att : {"n"}, type : {"CDATA", "NMTOKEN"}, default : {<<>>, <<"s", "digit", "s", "lf", "x">>}]
             \cup [att : {"x"}, type : {"CDATA"}, default : {<<"no">>}]
Hidden == [att |-> "none", type |-> "CDATA", default |-> <<>>]
Subsets == {<<>>} \cup {<<d>> : d \in AttDecl} \cup {<<d, c>> : d, c \in AttDecl \cup {Hidden}}
GivenAtts == {<<>>, <<"s", "lf", "no", "cr", "lf">>, <<"yes">>}
WrittenDecl(d) ==
  IF d = Hidden THEN <<"percnt", "e", "semi">>
  ELSE Decl(<<"ATTLIST", "s", "r", "s", d.att, "s", d.type, "s">>
            \o (IF d.default = <<>> THEN <<"num", "IMPLIED">> ELSE Quoted(d.default)))
Concat(parts) ==
  LET upTo[k \in 0 .. Len(parts)] == IF k = 0 THEN <<>> ELSE upTo[k - 1] \o parts[k] IN upTo[Len(parts)]
WrittenFile(decls, n) ==
  Doctype(Concat([k \in DOMAIN decls |-> WrittenDecl(decls[k])]))
    \o Game(<<"lt", "r">> \o (IF n = <<>> THEN <<>> ELSE <<"s", "n", "equals">> \o Quoted(n)) \o <<"sol", "gt">>)
WithAttributes == [decls : Subsets, n : GivenAtts]

(* Files with something of everything, and the same with one character replaced. *)
Header == <<"lt", "quest", "xml", "s", "version", "equals", "quot", "digit", "quot", "s",
            "standalone", "equals", "quot", "yes", "quot", "quest", "gt">>
Nested == Doctype(Entity("e", <<"lt", "r", "gt", "amp", "f", "semi", "lt", "sol", "r", "gt">>)
                    \o Entity("f", <<"lt", "sol", "r", "gt", "lt", "r", "gt">>)) \o Game(<<"amp", "e", "semi">>)
Expanded == Doctype(Entity("e", <<"lt", "r", "gt", "amp", "f", "semi", "lt", "sol", "r", "gt">>)
                      \o Entity("f", <<"digit", "lt", "r", "sol", "gt">>))
              \o Game(<<"amp", "e", "semi", "amp", "f", "semi">>)
Sections == Game(<<"lt", "excl", "lsqb", "CDATA", "lsqb", "rsqb", "rsqb", "rsqb", "gt", "rsqb", "cr", "lf",
                   "lead2", "trail", "cr">>) \o <<"lt", "quest", "x", "quest", "gt", "cr", "lf">>
Comments == <<"lt", "excl", "minus", "minus", "minus", "x", "minus", "minus", "gt", "cr">>
              \o Game(<<"lt", "r", "s", "n", "equals", "apos", "gt", "apos", "sol", "gt", "amp", "Lt", "semi",
                        "amp", "num", "x", "digit", "digit", "semi">>)
Originals == {Nested, Expanded, Sections, Comments, Header \o Doctype(Decl(<<"ELEMENT", "s", "g", "lpar", "r", "ast",
                "verbar", "x", "rpar">>)) \o Game(<<>>)}
Others == {"lt", "gt", "amp", "semi", "rsqb", "cr", "sol", "g", "e", "quot", "minus", "trail"}
Changed == Originals \cup UNION {{[d EXCEPT ![k] = c] : k \in DOMAIN d, c \in Others} : d \in Originals}
MCDocuments == {WrittenFile(a.decls, a.n) : a \in WithAttributes} \cup Changed

(* Attribute values as the recommendation has them. *)
Lines(v) ==
  LET kept == {k \in DOMAIN v : ~(v[k] = "cr" /\ k < Len(v) /\ v[k + 1] = "lf")}
      nth(j) == CHOOSE k \in kept : Cardinality({i \in kept : i <= k}) = j
  IN [j \in 1 .. Cardinality(kept) |-> IF v[nth(j)] \in S THEN "s" ELSE v[nth(j)]]
Words(v) ==
  LET between(k) == k > 1 /\ v[k - 1] # "s" /\ \E j \in DOMAIN v : j > k /\ v[j] # "s"
      kept == {k \in DOMAIN v : v[k] # "s" \/ between(k)}
      nth(j) == CHOOSE k \in kept : Cardinality({i \in kept : i <= k}) = j
  IN [j \in 1 .. Cardinality(kept) |-> v[nth(j)]]
FirstDecls(decls) ==
  {decls[k] : k \in {k \in DOMAIN decls : \A j \in 1 .. k : decls[j] # Hidden /\ (j < k => decls[j].att # decls[k].att)}}
Normal(decls, name, v) ==
  IF \E d \in FirstDecls(decls) : d.att = name /\ d.type = "NMTOKEN" THEN Words(Lines(v)) ELSE Lines(v)
Expected(decls, n) ==
  (IF n = <<>> THEN {} ELSE {[name |-> <<"n">>, value |-> Normal(decls, "n", n)]})
    \cup {[name |-> <<d.att>>, value |-> Normal(decls, d.att, d.default)] :
            d \in {d \in FirstDecls(decls) : d.default # <<>> /\ (d.att = "n" => n = <<>>)}}
-----------------------------------------------------------------------------
(* Texts. *)
TextChars == {"lt", "gt", "excl", "minus", "quest", "sol", "amp", "semi", "quot", "equals", "s", "cr", "lf",
              "lsqb", "rsqb", "rpar", "percnt", "ast", "lead2", "trail", "CDATA", "g"}
Token(t, s) == Scan(t, 1, s)
Prefixes == {<<>>, <<"lt", "excl">>, <<"lt", "g", "s", "g", "equals", "quot">>, <<"lt", "quest", "g">>,
             <<"lt", "excl", "lsqb", "CDATA">>, <<"lt", "excl", "minus", "minus">>, <<"lt", "quest", "xml">>}
IsPrefix(q, t) == Len(q) <= Len(t) /\ q = SubSeq(t, 1, Len(q))
Within(t) == \E q \in Prefixes : IsPrefix(q, t) /\ Len(t) <= Len(q) + TextBound
(* Two characters after its end no token changes, brackets in data apart. *)
Growing ==
  LET t == Token(text, scanner)
  IN t.tok # "INVALID" /\ t.next >= Len(text) - (IF t.tok \in {"DATA_CHARS", "LITERAL"} THEN 1 ELSE 0)
Grow(c) == Growing /\ text' = Append(text, c) /\ Within(text') /\ UNCHANGED scanner

-----------------------------------------------------------------------------
(* Declarations: the tokens by what they spell. *)
Spelled == [n |-> <<"NAME", <<"n">> >>, EMPTY |-> <<"NAME", <<"EMPTY">> >>, CDATA |-> <<"NAME", <<"CDATA">> >>,
            SYSTEM |-> <<"NAME", <<"SYSTEM">> >>, PUBLIC |-> <<"NAME", <<"PUBLIC">> >>,
            ELEMENT |-> <<"DECL_OPEN", <<"lt", "excl", "ELEMENT">> >>,
            ATTLIST |-> <<"DECL_OPEN", <<"lt", "excl", "ATTLIST">> >>,
            ENTITY |-> <<"DECL_OPEN", <<"lt", "excl", "ENTITY">> >>,
            NOTATION |-> <<"DECL_OPEN", <<"lt", "excl", "NOTATION">> >>,
            number |-> <<"NMTOKEN", <<"digit">> >>, literal |-> <<"LITERAL", <<"quot", "digit", "quot">> >>,
            pcdata |-> <<"POUND_NAME", <<"num", "PCDATA">> >>,
            implied |-> <<"POUND_NAME", <<"num", "IMPLIED">> >>, fixed |-> <<"POUND_NAME", <<"num", "FIXED">> >>,
            open |-> <<"OPEN_PAREN", <<"lpar">> >>, close |-> <<"CLOSE_PAREN", <<"rpar">> >>,
            closeRep |-> <<"CLOSE_PAREN_ASTERISK", <<"rpar", "ast">> >>, comma |-> <<"COMMA", <<"comma">> >>,
            bar |-> <<"OR", <<"verbar">> >>, percent |-> <<"PERCENT", <<"percnt">> >>,
            end |-> <<"DECL_CLOSE", <<"gt">> >>]
Vocabulary ==
  [ELEMENT |-> {"n", "EMPTY", "pcdata", "open", "close", "closeRep", "comma", "bar", "end"},
   ATTLIST |-> {"n", "CDATA", "number", "literal", "implied", "fixed", "open", "close", "bar", "end"},
   ENTITY |-> {"n", "SYSTEM", "PUBLIC", "literal", "percent", "end"},
   NOTATION |-> {"n", "SYSTEM", "PUBLIC", "literal", "end"}]
Declaring == sentence # <<>> /\ ~Failed(declarer) /\ declarer.prologState.handler # "internalSubset"
Declared == sentence # <<>> /\ ~Failed(declarer) /\ declarer.prologState.handler = "internalSubset"
Say(w) ==
  LET tok == Spelled[w][1]
      raw == Spelled[w][2]
      r == Role!XmlTokenRole(declarer.prologState, tok, Keyword(tok, raw))
  IN /\ Len(sentence) < SentenceBound
     /\ sentence' = Append(sentence, w)
     /\ declarer' = PrologRole([declarer EXCEPT !.prologState = r.st], r.role, tok, raw)
Begin(w) == sentence = <<>> /\ Say(w)
Continue(w) == Declaring /\ w \in Vocabulary[sentence[1]] /\ Say(w)

(* The grammar of XML, as far as the vocabulary goes: the phrases of each kind by their length. *)
Kinds == {"particle", "sequence", "choice", "names", "tokens", "attribute", "attributes"}
Phrase[kind \in Kinds, len \in 0 .. SentenceBound] ==
  LET name == {"n", "EMPTY"}
      joined(first, sep, rest) ==
        UNION {{a \o <<sep>> \o b : a \in Phrase[first, j], b \in Phrase[rest, len - 1 - j]} : j \in 1 .. len - 2}
      bracketed(k, ends) == IF len < 3 THEN {} ELSE {<<"open">> \o a \o <<e>> : a \in Phrase[k, len - 2], e \in ends}
  IN CASE kind = "particle" -> IF len = 1 THEN {<<w>> : w \in name}
                               ELSE bracketed("sequence", {"close", "closeRep"})
                                      \cup bracketed("choice", {"close", "closeRep"})
       [] kind = "sequence" -> Phrase["particle", len] \cup joined("particle", "comma", "sequence")
       [] kind = "choice" -> joined("particle", "bar", "choice") \cup joined("particle", "bar", "particle")
       [] kind = "names" -> IF len = 0 THEN {<<>>}      \* | name | name ..., of mixed content
                            ELSE IF len = 1 THEN {} ELSE {<<"bar", w>> \o a : w \in name, a \in Phrase["names", len - 2]}
       [] kind = "tokens" -> IF len = 1 THEN {<<w>> : w \in {"n", "CDATA", "number"}}
                             ELSE joined("tokens", "bar", "tokens")
       [] kind = "attribute" ->                          \* name, type, default
            {<<w, "CDATA">> \o d : w \in {"n", "CDATA"},
               d \in {q \in {<<"implied">>, <<"literal">>, <<"fixed", "literal">>} : Len(q) = len - 2}}
            \cup UNION {{<<w, "open">> \o t \o <<"close">> \o d : w \in {"n", "CDATA"},
                           t \in IF len - 3 - Len(d) > 0 THEN Phrase["tokens", len - 3 - Len(d)] ELSE {}} :
                          d \in {<<"implied">>, <<"literal">>, <<"fixed", "literal">>}}
       [] kind = "attributes" -> IF len = 0 THEN {<<>>}
            ELSE UNION {{a \o b : a \in Phrase["attribute", j], b \in Phrase["attributes", len - j]} : j \in 1 .. len}
UpTo(kind, bound) == UNION {Phrase[kind, len] : len \in 0 .. bound}
ExternalId == {<<"SYSTEM", "literal">>, <<"PUBLIC", "literal", "literal">>}
Contents ==
  {<<"EMPTY">>, <<"open", "pcdata", "close">>}
    \cup {c \in UpTo("particle", SentenceBound - 3) : c[1] = "open"}
    \cup {<<"open", "pcdata">> \o a \o <<"closeRep">> : a \in UpTo("names", SentenceBound - 6)}
Sentences ==
  {<<"ELEMENT", w>> \o c \o <<"end">> : w \in {"n", "EMPTY"}, c \in Contents}
  \cup {<<"ATTLIST", w>> \o a \o <<"end">> : w \in {"n", "CDATA"}, a \in UpTo("attributes", SentenceBound - 3)}
  \cup {<<"ENTITY">> \o p \o <<w>> \o v \o <<"end">> : p \in {<<>>, <<"percent">>},
          w \in {"n", "SYSTEM", "PUBLIC"}, v \in ExternalId \cup {<<"literal">>}}
  \cup {<<"NOTATION", w>> \o v \o <<"end">> : w \in {"n", "SYSTEM", "PUBLIC"},
          v \in ExternalId \cup {<<"PUBLIC", "literal">>}}
Beginnings == UNION {{SubSeq(x, 1, k) : k \in 0 .. Len(x)} : x \in Sentences}

-----------------------------------------------------------------------------
FileIdle ==
  document = <<>> /\ offset = 0 /\ parser = XML_ParserCreate /\ once = XML_ParserCreate /\ meant = {}
FileInit ==
  /\ \/ \E a \in WithAttributes : document = WrittenFile(a.decls, a.n) /\ meant = Expected(a.decls, a.n)
     \/ document \in Changed /\ meant = {}
  /\ ParseInit /\ once = XML_Parse(XML_ParserCreate, document, TRUE)
TextIdle == text = <<"nonxml">> /\ scanner = "content"
SentenceIdle == sentence = <<"n">> /\ declarer = Fail(XML_ParserCreate, "SYNTAX")
Declarer == [XML_ParserCreate EXCEPT !.prologState.handler = "internalSubset"]
XmlInit ==
  \/ FileInit /\ TextIdle /\ SentenceIdle
  \/ FileIdle /\ scanner \in Starts /\ SentenceIdle
     /\ text \in IF scanner \in {"content", "prolog"} THEN Prefixes ELSE {<<>>}
  \/ FileIdle /\ TextIdle /\ sentence = <<>> /\ declarer = Declarer
ReadPiece ==
  /\ document # <<>> /\ UNCHANGED <<once, meant, textVars, sentenceVars>>
  /\ \E n \in Pieces \cup {Len(document) - offset}, eof \in BOOLEAN : load_xml(n, eof)
GrowText == (\E c \in TextChars : Grow(c)) /\ UNCHANGED <<fileVars, sentenceVars>>
SayToken ==
  /\ (\E w \in DOMAIN Vocabulary : Begin(w)) \/ (\E w \in DOMAIN Spelled : Continue(w))
  /\ UNCHANGED <<fileVars, textVars>>
XmlNext == ReadPiece \/ GrowText \/ SayToken
XmlSpec == XmlInit /\ [][XmlNext]_<<fileVars, textVars, sentenceVars>>

-----------------------------------------------------------------------------
(* What is left unread is the end of what has been read, and the open elements, entities and
   references of the parser are of their types. *)
XmlTypeOK ==
  /\ parser.processor \in {"prolog", "content", "cdata", "epilog", "error"}
  /\ parser.parsing \in {"INITIALIZED", "PARSING", "FINISHED"}
  /\ Len(parser.left) <= offset
  /\ parser.left = SubSeq(document, offset - Len(parser.left) + 1, offset)
  /\ parser.openEntities = {} \/ Failed(parser)
  /\ scanner \in Starts /\ Within(text) /\ Len(sentence) <= SentenceBound

Elements(events) == SelectSeq(events, LAMBDA e : e.ev # "data")
Begins(a, b) == Len(a) <= Len(b) /\ a = SubSeq(b, 1, Len(a))
(* Up to the last call of the data handler, which may have had a part of the text so far. *)
EventsBegin(a, b) ==
  LET n == Len(a)
  IN \/ Begins(a, b)
     \/ /\ n > 0 /\ n <= Len(b) /\ Begins(SubSeq(a, 1, n - 1), b)
        /\ a[n].ev = "data" /\ b[n].ev = "data" /\ Begins(a[n].text, b[n].text)

(* Where the file is cut does not matter: load_xml reads 16384 bytes at a time, and any token,
   character or line end may fall on the border.  The handlers are given what they are given when
   the file comes in one piece, and it is refused when it is refused in one piece. *)
ChunksDoNotMatter ==
  document # <<>> =>
    /\ ~Failed(once) => ~Failed(parser) /\ EventsBegin(parser.events, once.events)
    /\ Failed(once) => Begins(Elements(parser.events), Elements(once.events))
    /\ parser.parsing = "FINISHED" => ~Failed(once) /\ parser.events = once.events

(* The elements that are open after a sequence of events; <<"bad">> when an end matches none. *)
OpenAfter(events) ==
  LET open[k \in 0 .. Len(events)] ==
        IF k = 0 THEN <<>>
        ELSE LET o == open[k - 1]
                 e == events[k]
             IN CASE e.ev = "data" -> o
                  [] e.ev = "start" -> Append(o, e.name)
                  [] e.ev = "end" -> IF o # <<>> /\ o[Len(o)] = e.name THEN SubSeq(o, 1, Len(o) - 1)
                                     ELSE <<"bad">>
  IN open[Len(events)]
(* The entities a text reaches, and the text of the file up to the document element. *)
Referred(t) == {<<t[k + 1]>> : k \in {k \in 1 .. Len(t) - 2 : t[k] = "amp" /\ t[k + 2] = "semi"}}
Reached(entities, t) ==
  LET first == Referred(t) \cap DOMAIN entities
  IN first \cup (UNION {Referred(entities[n].text) : n \in first} \cap DOMAIN entities)
RootAt(t) == CHOOSE k \in 3 .. Len(t) : SubSeq(t, k - 2, k) = <<"rsqb", "gt", "lt">>
(* The buffer is moved or overwritten by the next call: no open element may still have its name in it. *)
RawNamesStored == ~Failed(parser) => \A k \in DOMAIN parser.tagStack : parser.tagStack[k].stored

(* start_handler and end_handler of gamexml.cc keep a stack of their own and never look at the
   name of an end: whatever the file, and whatever the entities in it, the calls they get are
   nested, and the elements open between two calls are those the parser holds.  An element ends in
   the entity it begins in: the text of any entity that has been read makes a document. *)
EventsNested ==
  /\ RawNamesStored
  /\ OpenAfter(parser.events) # <<"bad">>
  /\ ~Failed(parser) => OpenAfter(parser.events) = [k \in DOMAIN parser.tagStack |-> parser.tagStack[k].name]
  /\ parser.parsing = "FINISHED" => OpenAfter(parser.events) = <<>> /\ parser.events # <<>>
  /\ parser.parsing = "FINISHED" /\ parser.generalEntities # <<>> =>
       LET root == RootAt(document)
       IN \A n \in Reached(parser.generalEntities, SubSeq(document, root, Len(document))) :
            ~Failed(XML_Parse(XML_ParserCreate, SubSeq(document, 1, root - 1) \o Game(parser.generalEntities[n].text), TRUE))

(* The attributes of an element are those given and the defaults of the others; the first
   declaration of an attribute holds, and one that comes after a reference that has not been
   followed does not count; the value is normalized as its type says. *)
AttributesAsDeclared ==
  parser.parsing = "FINISHED" /\ meant # {} =>
    LET atts == parser.events[2].atts
    IN {atts[k] : k \in DOMAIN atts} = meant /\ Len(atts) = Cardinality(meant)

(* More input never changes a token that has been answered without a doubt: it cannot, for the
   parser has acted on it.  Data and white space may only grow, or turn out to be wrong.  And every
   token but the one before the document element has a character: the loops of the parser move on. *)
Grows == {"DATA_CHARS", "PROLOG_S"}
TokensStable ==
  [][LET t == Token(text, scanner)
         u == Token(text', scanner')
     IN /\ Sure(t) /\ t.tok \notin Grows => u = t
        /\ Sure(t) /\ t.tok \in Grows => (u.tok = t.tok /\ u.next >= t.next) \/ u.tok = "INVALID"
        /\ Sure(u) => u.next > 1 \/ u.tok = "INSTANCE_START"]_textVars

(* A declaration is accepted when the grammar of XML has it, and refused at the first token with
   which no declaration of the grammar begins. *)
GrammarKept ==
  /\ Declared => sentence \in Sentences
  /\ sentence \in Sentences => Declared
  /\ Failed(declarer) => sentence \notin Beginnings

(* The declarations are those of the grammar, and mean what the author meant. *)
DeclarationsKept == GrammarKept /\ AttributesAsDeclared
=============================================================================
