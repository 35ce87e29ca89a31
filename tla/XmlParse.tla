------------------------------ MODULE XmlParse ------------------------------
(***************************************************************************)
(* The parser of expat as load_xml of gamexml.cc drives it                 *)
(* (src/expat/xmlparse.c): the file is read in pieces, each piece is given *)
(* to XML_Parse, what a processor leaves unread is kept for the next call, *)
(* and the start, end and data handlers are called on the way.  The state  *)
(* of a parser is one record; a processor is a function from a parser and  *)
(* a text to the parser after it.  The tokens are those of XmlTok, the     *)
(* roles of the tokens of a prolog those of XmlRole.  Handlers other than  *)
(* the three, namespaces, external entities and suspension are not used by *)
(* the program.                                                            *)
(***************************************************************************)
EXTENDS XmlTok

Role == INSTANCE XmlRole

CONSTANT Documents      \* the texts a file may hold
VARIABLES document,     \* the text of the file
          offset,       \* how much of it has been read
          parser        \* state.parser

NoDecl == [element |-> <<>>, att |-> <<>>, isCdata |-> FALSE, isId |-> FALSE]
XML_ParserCreate ==
  [processor |-> "prolog", errorCode |-> "NONE", parsing |-> "INITIALIZED", haveMore |-> TRUE,
   left |-> <<>>, next |-> 1, events |-> <<>>, tagStack |-> <<>>, prologState |-> Role!XmlPrologStateInit,
   hasParamEntityRefs |-> FALSE, standalone |-> FALSE, keepProcessing |-> TRUE,
   generalEntities |-> <<>>, openEntities |-> {}, declEntity |-> <<>>,
   defaultAtts |-> <<>>, decl |-> NoDecl, groupConnector |-> <<>>]

Fail(p, e) == [p EXCEPT !.errorCode = e]
Stop(p, at) == [p EXCEPT !.next = at]       \* *nextPtr = at; return XML_ERROR_NONE
Failed(p) == p.errorCode # "NONE"
tagLevel(p) == Len(p.tagStack)

StartOf(name, atts) == [ev |-> "start", name |-> name, atts |-> atts]
EndOf(name) == [ev |-> "end", name |-> name]
Call1(p, event) == [p EXCEPT !.events = Append(@, event)]
(* The data handler may be called any number of times in a row: its calls are joined. *)
Data(p, text) ==
  LET n == Len(p.events)
  IN IF n > 0 /\ p.events[n].ev = "data" THEN [p EXCEPT !.events[n].text = @ \o text]
     ELSE Call1(p, [ev |-> "data", text |-> text])

(* XmlEncode: the numbers the digits of the model can spell are letters. *)
XmlEncode(n) == IF n < 128 THEN <<"hex">> ELSE <<"lead2", "trail">>
Inside(text) == SubSeq(text, 2, Len(text) - 1)     \* without the first and the last character

----------------------------------------------------------------------------
(* Attributes. *)

Defaults(p, element) == IF element \in DOMAIN p.defaultAtts THEN p.defaultAtts[element] ELSE <<>>

(* Whether a reference to an entity that has not been declared is an error. *)
MustBeDeclared(p, inProlog) ==
  IF inProlog THEN (IF p.standalone THEN p.openEntities = {} ELSE ~p.hasParamEntityRefs)
  ELSE ~p.hasParamEntityRefs \/ p.standalone

Text(v) == [value |-> v, error |-> "NONE"]
Wrong(e) == [value |-> <<>>, error |-> e]
(* A reference in a value, when it is not to one of the five predefined entities: the text to
   expand, nothing when the entity is skipped, or an error. *)
ValueEntity(p, name, inProlog, open) ==
  LET known == name \in DOMAIN p.generalEntities
      e == p.generalEntities[name]
  IN CASE ~known -> IF MustBeDeclared(p, inProlog) THEN Wrong("UNDEFINED_ENTITY") ELSE Text(<<>>)
       [] known /\ name \in open -> Wrong("RECURSIVE_ENTITY_REF")
       [] known /\ name \notin open /\ e.notation -> Wrong("BINARY_ENTITY_REF")
       [] known /\ name \notin open /\ ~e.notation /\ ~e.hasText -> Wrong("ATTRIBUTE_EXTERNAL_ENTITY_REF")
       [] OTHER -> Text(e.text)

OneSpace(value, isCdata) ==
  IF ~isCdata /\ (value = <<>> \/ value[Len(value)] = "s") THEN value ELSE Append(value, "s")

(* `how` says whether the attribute is of type CDATA, whether its value is a default, and which
   entities are open. *)
RECURSIVE appendAttributeValue(_, _, _, _, _), ValueToken(_, _, _, _, _, _), ValueGoesOn(_, _, _, _, _)
appendAttributeValue(p, how, text, from, value) ==
  ValueToken(p, how, text, from, value, Scan(text, from, "value"))
ValueGoesOn(p, how, text, from, v) ==
  IF v.error # "NONE" THEN v ELSE appendAttributeValue(p, how, text, from, v.value)
ValueChar(value, n) == IF n < 0 THEN Wrong("BAD_CHAR_REF") ELSE Text(value \o XmlEncode(n))
ValueExpanded(p, how, name, value, entity) ==
  IF entity.error # "NONE" THEN entity
  ELSE appendAttributeValue(p, [how EXCEPT !.open = @ \cup {name}], entity.value, 1, value)
ValueRef(p, how, value, name, ch) ==
  IF ch # "none" THEN Text(Append(value, ch))
  ELSE ValueExpanded(p, how, name, value, ValueEntity(p, name, how.inProlog, how.open))
ValueToken(p, how, text, from, value, t) ==
  LET raw == SubSeq(text, from, t.next - 1)
  IN CASE t.tok = "NONE" -> Text(value)
       [] t.tok \in {"INVALID", "PARTIAL"} -> Wrong("INVALID_TOKEN")
       [] t.tok = "DATA_CHARS" -> ValueGoesOn(p, how, text, t.next, Text(value \o raw))
       [] t.tok = "TRAILING_CR" -> ValueGoesOn(p, how, text, from + 1, Text(OneSpace(value, how.isCdata)))
       [] t.tok \in {"ATTRIBUTE_VALUE_S", "DATA_NEWLINE"} ->
            ValueGoesOn(p, how, text, t.next, Text(OneSpace(value, how.isCdata)))
       [] t.tok = "CHAR_REF" -> ValueGoesOn(p, how, text, t.next, ValueChar(value, charRefNumber(raw)))
       [] t.tok = "ENTITY_REF" -> ValueGoesOn(p, how, text, t.next,
            ValueRef(p, how, value, Inside(raw), predefinedEntityName(Inside(raw))))
       [] OTHER -> Wrong("UNEXPECTED_STATE")

Trimmed(v, isCdata) ==
  LET n == Len(v.value)
  IN IF v.error = "NONE" /\ ~isCdata /\ n > 0 /\ v.value[n] = "s" THEN Text(SubSeq(v.value, 1, n - 1)) ELSE v
storeAttributeValue(p, isCdata, text, inProlog) ==
  Trimmed(appendAttributeValue(p, [isCdata |-> isCdata, inProlog |-> inProlog, open |-> p.openEntities],
                               text, 1, <<>>), isCdata)

\* mutant: a later declaration takes the place of the first
defineAttributeAgain(p, isId, value) ==
  LET att == [name |-> p.decl.att, isCdata |-> p.decl.isCdata, value |-> value]
      others == SelectSeq(Defaults(p, p.decl.element), LAMBDA d : d.name # att.name)
  IN [p EXCEPT !.defaultAtts = (p.decl.element :> Append(others, att)) @@ @]

(* Without a value, or once per attribute: the first declaration of an attribute holds. *)
defineAttribute(p, isId, value) ==
  LET defs == Defaults(p, p.decl.element)
      present == \E k \in DOMAIN defs : defs[k].name = p.decl.att
      att == [name |-> p.decl.att, isCdata |-> p.decl.isCdata, value |-> value]
  IN IF (value # <<"none">> \/ isId) /\ present THEN p
     ELSE [p EXCEPT !.defaultAtts = (p.decl.element :> Append(defs, att)) @@ @]

(* The first declaration that names the attribute says whether it is of another type than CDATA. *)
IsCdata(defs, name) ==
  LET at == {k \in DOMAIN defs : defs[k].name = name}
  IN at = {} \/ defs[CHOOSE k \in at : \A j \in at : k <= j].isCdata

Given(atts, name) == \E k \in DOMAIN atts : atts[k].name = name

(* The attributes of a tag: those given, then the defaults of those that are not. *)
Put(r, name, v) ==
  IF v.error # "NONE" THEN v ELSE Text(Append(r.value, [name |-> name, value |-> v.value]))
StoreGiven(p, defs, r, a) ==
  IF r.error # "NONE" THEN r
  ELSE IF Given(r.value, a.name) THEN Wrong("DUPLICATE_ATTRIBUTE")
  ELSE Put(r, a.name, IF a.normalized THEN Text(a.value)
                      ELSE storeAttributeValue(p, IsCdata(defs, a.name), a.value, FALSE))
StoredAtts(p, defs, atts) ==
  LET upTo[k \in 0 .. Len(atts)] == IF k = 0 THEN Text(<<>>) ELSE StoreGiven(p, defs, upTo[k - 1], atts[k])
  IN upTo[Len(atts)]
StoreDefault(r, d) ==
  IF r.error # "NONE" \/ Given(r.value, d.name) \/ d.value = <<"none">> THEN r ELSE Put(r, d.name, Text(d.value))
WithDefaults(r, defs) ==
  LET upTo[k \in 0 .. Len(defs)] == IF k = 0 THEN r ELSE StoreDefault(upTo[k - 1], defs[k])
  IN upTo[Len(defs)]
storeAtts(p, element, tag) ==
  WithDefaults(StoredAtts(p, Defaults(p, element), getAtts(tag)), Defaults(p, element))

----------------------------------------------------------------------------
(* What comes after the document element: comments, instructions and white space. *)
RECURSIVE epilog(_, _, _)
epilog(p, text, s) ==
  LET on(t) ==
        CASE t.tok = "NONE" -> Stop(p, s)
          [] t.tok = "PROLOG_S" /\ t.minus -> Stop(p, t.next)
          [] t.tok \in {"PROLOG_S", "PI", "COMMENT"} /\ ~t.minus -> epilog(p, text, t.next)
          [] t.tok = "INVALID" -> Fail(p, "INVALID_TOKEN")
          [] t.tok = "PARTIAL" -> IF p.haveMore THEN Stop(p, s) ELSE Fail(p, "UNCLOSED_TOKEN")
          [] t.tok = "PARTIAL_CHAR" -> IF p.haveMore THEN Stop(p, s) ELSE Fail(p, "PARTIAL_CHAR")
          [] OTHER -> Fail(p, "JUNK_AFTER_DOC_ELEMENT")
  IN on(Scan(text, s, "prolog"))

\* mutant: the processor is not set
EpilogUnset(p, text, s) == epilog(p, text, s)
epilogProcessor(p, text, s) == epilog([p EXCEPT !.processor = "epilog"], text, s)

(* A CDATA section, from s on: processor "content" when it has been closed before `next`. *)
RECURSIVE doCdataSection(_, _, _, _)
doCdataSection(p, text, s, haveMore) ==
  LET on(t) ==
        CASE t.tok = "CDATA_SECT_CLOSE" -> [p EXCEPT !.processor = "content", !.next = t.next]
          [] t.tok = "DATA_NEWLINE" -> doCdataSection(Data(p, <<"lf">>), text, t.next, haveMore)
          [] t.tok = "DATA_CHARS" ->
               doCdataSection(Data(p, SubSeq(text, s, t.next - 1)), text, t.next, haveMore)
          [] t.tok = "INVALID" -> Fail(p, "INVALID_TOKEN")
          [] haveMore /\ t.tok \in Undecided -> [p EXCEPT !.processor = "cdata", !.next = s]
          [] OTHER -> Fail(p, IF t.tok = "PARTIAL_CHAR" THEN "PARTIAL_CHAR" ELSE "UNCLOSED_CDATA_SECTION")
  IN on(Scan(text, s, "cdataSection"))

----------------------------------------------------------------------------
(* Content. *)

(* The end of the last text: nothing may be open. *)
ContentEnds(p, startTagLevel, at) ==
  CASE startTagLevel = 0 -> Fail(p, "NO_ELEMENTS")
    [] startTagLevel > 0 /\ tagLevel(p) # startTagLevel -> Fail(p, "ASYNC_ENTITY")
    [] OTHER -> Stop(p, at)

(* A token that needs more input, which may come or not. *)
ContentWaits(p, startTagLevel, text, s, tok, haveMore) ==
  CASE haveMore -> Stop(p, s)
    [] ~haveMore /\ tok = "NONE" -> ContentEnds(p, startTagLevel, s)
    [] ~haveMore /\ tok = "TRAILING_CR" -> ContentEnds(Data(p, <<"lf">>), startTagLevel, Len(text) + 1)
    [] ~haveMore /\ tok = "TRAILING_RSQB" ->
         ContentEnds(Data(p, SubSeq(text, s, Len(text))), startTagLevel, Len(text) + 1)
    [] OTHER -> Fail(p, IF tok = "PARTIAL" THEN "UNCLOSED_TOKEN" ELSE "PARTIAL_CHAR")

NameAt(text, i) == SubSeq(text, i, i + nameLength(text, i) - 1)

(* XML_TOK_START_TAG: the name is kept as it is in the buffer, to be compared with the end tag. *)
StartCalled(p, name, atts) ==
  IF atts.error # "NONE" THEN Fail(p, atts.error) ELSE Call1(p, StartOf(name, atts.value))
StartTag(p, raw) ==
  LET name == NameAt(raw, 2)
      pushed == [p EXCEPT !.tagStack = Append(@, [name |-> name, stored |-> FALSE])]
  IN StartCalled(pushed, name, storeAtts(p, name, raw))

EmptyElement(p, raw) ==
  LET name == NameAt(raw, 2)
      ends(q) == IF Failed(q) THEN q ELSE Call1(q, EndOf(name))
  IN ends(StartCalled(p, name, storeAtts(p, name, raw)))

\* mutant: an entity may close elements it has not opened
EndTagAnyLevel(p, raw, startTagLevel) ==
  LET tag == p.tagStack[tagLevel(p)]
  IN IF tagLevel(p) = 0 THEN Fail(p, "ASYNC_ENTITY")
     ELSE IF tag.name # NameAt(raw, 3) THEN Fail(p, "TAG_MISMATCH")
     ELSE Call1([p EXCEPT !.tagStack = SubSeq(@, 1, Len(@) - 1)], EndOf(tag.name))
EndTag(p, raw, startTagLevel) ==
  LET tag == p.tagStack[tagLevel(p)]
      popped == [p EXCEPT !.tagStack = SubSeq(@, 1, Len(@) - 1)]
  IN IF tagLevel(p) = startTagLevel THEN Fail(p, "ASYNC_ENTITY")
     ELSE IF tag.name # NameAt(raw, 3) THEN Fail(popped, "TAG_MISMATCH")
     ELSE Call1(popped, EndOf(tag.name))

CharRef(p, raw) ==
  IF charRefNumber(raw) < 0 THEN Fail(p, "BAD_CHAR_REF") ELSE Data(p, XmlEncode(charRefNumber(raw)))

(* The reference to an entity whose text is parsed in its place; the others are decided here. *)
Expands(p, name) ==
  /\ predefinedEntityName(name) = "none" /\ name \in DOMAIN p.generalEntities
  /\ p.generalEntities[name].hasText /\ ~p.generalEntities[name].notation /\ name \notin p.openEntities
OtherRef(p, name) ==
  LET ch == predefinedEntityName(name)
      known == name \in DOMAIN p.generalEntities
  IN CASE ch # "none" -> Data(p, <<ch>>)
       [] ch = "none" /\ ~known -> IF MustBeDeclared(p, FALSE) THEN Fail(p, "UNDEFINED_ENTITY") ELSE p
       [] ch = "none" /\ known /\ name \in p.openEntities -> Fail(p, "RECURSIVE_ENTITY_REF")
       [] OTHER -> IF p.generalEntities[name].notation THEN Fail(p, "BINARY_ENTITY_REF") ELSE p

(* The tokens that say all there is to do; the rest is left to doContent. *)
ContentToken(p, tok, raw, startTagLevel) ==
  CASE tok \in {"START_TAG_NO_ATTS", "START_TAG_WITH_ATTS"} -> StartTag(p, raw)
    [] tok \in {"EMPTY_ELEMENT_NO_ATTS", "EMPTY_ELEMENT_WITH_ATTS"} -> EmptyElement(p, raw)
    [] tok = "END_TAG" -> EndTag(p, raw, startTagLevel)
    [] tok = "CHAR_REF" -> CharRef(p, raw)
    [] tok = "ENTITY_REF" -> OtherRef(p, Inside(raw))
    [] tok = "XML_DECL" -> Fail(p, "MISPLACED_XML_PI")
    [] tok = "DATA_NEWLINE" -> Data(p, <<"lf">>)
    [] tok = "DATA_CHARS" -> Data(p, raw)
    [] OTHER -> p
Closes == {"END_TAG", "EMPTY_ELEMENT_NO_ATTS", "EMPTY_ELEMENT_WITH_ATTS"}

RECURSIVE doContent(_, _, _, _, _), processInternalEntity(_, _), ContentScanned(_, _, _, _, _, _)
doContent(p, startTagLevel, text, s, haveMore) ==
  ContentScanned(p, startTagLevel, text, s, haveMore, Scan(text, s, "content"))
AfterToken(p, startTagLevel, text, t, haveMore) ==
  IF Failed(p) THEN p
  ELSE IF t.tok \in Closes /\ tagLevel(p) = 0 THEN epilogProcessor(p, text, t.next)
  ELSE doContent(p, startTagLevel, text, t.next, haveMore)
AfterCdata(p, startTagLevel, text, haveMore) ==
  IF Failed(p) \/ p.processor = "cdata" THEN p ELSE doContent(p, startTagLevel, text, p.next, haveMore)
ContentScanned(p, startTagLevel, text, s, haveMore, t) ==
  LET raw == SubSeq(text, s, t.next - 1)
  IN CASE t.tok = "INVALID" -> Fail(p, "INVALID_TOKEN")
       [] t.tok \in Undecided -> ContentWaits(p, startTagLevel, text, s, t.tok, haveMore)
       [] t.tok = "CDATA_SECT_OPEN" ->
            AfterCdata(doCdataSection(p, text, t.next, haveMore), startTagLevel, text, haveMore)
       [] OTHER ->
            AfterToken(IF t.tok = "ENTITY_REF" /\ Expands(p, Inside(raw)) THEN processInternalEntity(p, Inside(raw))
                       ELSE ContentToken(p, t.tok, raw, startTagLevel), startTagLevel, text, t, haveMore)
EntityLeft(p, name) == IF Failed(p) THEN p ELSE [p EXCEPT !.openEntities = @ \ {name}]
processInternalEntity(p, name) ==
  EntityLeft(doContent([p EXCEPT !.openEntities = @ \cup {name}], tagLevel(p), p.generalEntities[name].text, 1, FALSE),
             name)

\* mutant: only the innermost name is copied
InnermostStored(p) == [p EXCEPT !.tagStack = [k \in DOMAIN @ |-> [@[k] EXCEPT !.stored = @ \/ k = tagLevel(p)]]]
(* The names of the elements left open are copied out of the buffer, from the innermost one up
   to the first that has been copied before. *)
storeRawNames(p) ==
  LET n == tagLevel(p)
      before == {k \in 1 .. n : p.tagStack[k].stored}
      last == IF before = {} THEN 0 ELSE CHOOSE k \in before : \A j \in before : j <= k
  IN [p EXCEPT !.tagStack = [k \in 1 .. n |-> IF k > last THEN [@[k] EXCEPT !.stored = TRUE] ELSE @[k]]]

Kept(p) == IF Failed(p) THEN p ELSE storeRawNames(p)
contentProcessor(p, text, s) ==
  Kept(doContent([p EXCEPT !.processor = "content"], 0, text, s, p.haveMore))
AfterSection(p, text) ==
  IF Failed(p) \/ p.processor = "cdata" THEN p ELSE contentProcessor(p, text, p.next)
cdataSectionProcessor(p, text, s) == AfterSection(doCdataSection(p, text, s, p.haveMore), text)

----------------------------------------------------------------------------
(* The XML declaration. *)
CharAt(text, i) == IF i \in 1 .. Len(text) THEN text[i] ELSE "end"
isSpace(c) == c \in S
NoAttribute == [ok |-> TRUE, name |-> <<>>, value |-> <<>>, next |-> 0]
BadAttribute == [NoAttribute EXCEPT !.ok = FALSE]
(* White space, or white space and name="value" from position i on. *)
parsePseudoAttribute(text, i) ==
  LET past(k) == k + Leading(text, k, S)
      start == past(i)
      nameEnd == CHOOSE k \in start .. Len(text) + 1 :
                   /\ CharAt(text, k) \in S \cup {"equals", "lead2", "trail", "end"}
                   /\ \A j \in start .. k - 1 : text[j] \notin S \cup {"equals", "lead2", "trail"}
      equals == past(nameEnd)
      open == past(equals + 1)
      close == CHOOSE k \in open + 1 .. Len(text) + 1 :
                 /\ Type(CharAt(text, k)) \notin {"nmstrt", "hex", "digit", "name", "minus"}
                 /\ \A j \in open + 1 .. k - 1 : Type(text[j]) \in {"nmstrt", "hex", "digit", "name", "minus"}
  IN IF i > Len(text) THEN NoAttribute
     ELSE IF ~isSpace(text[i]) THEN BadAttribute
     ELSE IF start > Len(text) THEN NoAttribute
     ELSE IF nameEnd = start \/ CharAt(text, nameEnd) \in {"lead2", "trail", "end"} THEN BadAttribute
     ELSE IF CharAt(text, equals) # "equals" THEN BadAttribute
     ELSE IF CharAt(text, open) \notin {"quot", "apos"} THEN BadAttribute
     ELSE IF CharAt(text, close) # text[open] THEN BadAttribute
     ELSE [ok |-> TRUE, name |-> SubSeq(text, start, nameEnd - 1),
           value |-> SubSeq(text, open + 1, close - 1), next |-> close + 1]

(* version, then encoding and standalone, which may be left out. *)
DeclOf(ok, encoding, standalone) == [ok |-> ok, encoding |-> encoding, standalone |-> standalone]
BadDecl == DeclOf(FALSE, <<>>, FALSE)
StandaloneDecl(text, encoding, a) ==
  LET yes == nameMatchesAscii(a.value, "yes")
  IN IF ~a.ok THEN BadDecl
     ELSE IF a.name = <<>> THEN DeclOf(TRUE, encoding, FALSE)
     ELSE IF ~nameMatchesAscii(a.name, "standalone") THEN BadDecl
     ELSE IF ~yes /\ ~nameMatchesAscii(a.value, "no") THEN BadDecl
     ELSE IF \E k \in a.next .. Len(text) : ~isSpace(text[k]) THEN BadDecl
     ELSE DeclOf(TRUE, encoding, yes)
EncodingDecl(text, a) ==
  LET letter == a.value # <<>> /\ Type(a.value[1]) \in {"nmstrt", "hex"}
  IN IF ~a.ok THEN BadDecl
     ELSE IF ~nameMatchesAscii(a.name, "encoding") THEN StandaloneDecl(text, <<>>, a)
     ELSE IF ~letter THEN BadDecl
     ELSE StandaloneDecl(text, a.value, parsePseudoAttribute(text, a.next))
VersionDecl(text, a) ==
  IF ~a.ok \/ ~nameMatchesAscii(a.name, "version") THEN BadDecl
  ELSE EncodingDecl(text, parsePseudoAttribute(text, a.next))
doParseXmlDecl(text) == VersionDecl(text, parsePseudoAttribute(text, 1))

(* The names of the encodings expat has; those of two bytes do not fit a text read as UTF-8. *)
Narrow == {<<"UTF-8">>, <<"US-ASCII">>, <<"ISO-8859-1">>}
Wide == {<<"UTF-16">>}
XmlDeclared(p, d) ==
  LET q == [p EXCEPT !.standalone = @ \/ d.standalone]
  IN CASE ~d.ok -> Fail(p, "XML_DECL")
       [] d.ok /\ d.encoding \in Wide -> Fail(q, "INCORRECT_ENCODING")
       [] d.ok /\ d.encoding \notin Wide \cup Narrow \cup {<<>>} -> Fail(q, "UNKNOWN_ENCODING")
       [] OTHER -> q
processXmlDecl(p, raw) == XmlDeclared(p, doParseXmlDecl(SubSeq(raw, 4, Len(raw) - 2)))

----------------------------------------------------------------------------
(* The document type declaration. *)

(* The text of an entity: references to entities are kept, those to characters are replaced. *)
RECURSIVE storeEntityValue(_, _, _), EntityToken(_, _, _, _)
storeEntityValue(text, from, value) ==
  EntityToken(text, from, value, Scan(text, from, "entity"))
EntityToken(text, from, value, t) ==
  LET wrong(e) == [value |-> value, error |-> e]
      raw == SubSeq(text, from, t.next - 1)
  IN CASE t.tok = "NONE" -> Text(value)
       [] t.tok = "PARAM_ENTITY_REF" -> wrong("PARAM_ENTITY_REF")
       [] t.tok \in {"ENTITY_REF", "DATA_CHARS"} -> storeEntityValue(text, t.next, value \o raw)
       [] t.tok = "TRAILING_CR" -> storeEntityValue(text, from + 1, Append(value, "lf"))
       [] t.tok = "DATA_NEWLINE" -> storeEntityValue(text, t.next, Append(value, "lf"))
       [] t.tok = "CHAR_REF" -> IF charRefNumber(raw) < 0 THEN wrong("BAD_CHAR_REF")
                                ELSE storeEntityValue(text, t.next, value \o XmlEncode(charRefNumber(raw)))
       [] OTHER -> wrong(IF t.tok \in {"PARTIAL", "INVALID"} THEN "INVALID_TOKEN" ELSE "UNEXPECTED_STATE")

(* declEntity: the general entity being declared, if it is the first declaration of its name.
   The entities of parameters are never expanded, and a foreign entity has no text. *)
NewEntity == [hasText |-> FALSE, text |-> <<>>, notation |-> FALSE]
EntityRole(p, role, raw) ==
  LET named == p.declEntity # <<>>
      value == storeEntityValue(Inside(raw), 1, <<>>)
      literal == IF named THEN [p EXCEPT !.generalEntities[p.declEntity].hasText = TRUE,
                                         !.generalEntities[p.declEntity].text = value.value] ELSE p
  IN CASE role = "GENERAL_ENTITY_NAME" ->
            IF predefinedEntityName(raw) # "none" \/ ~p.keepProcessing \/ raw \in DOMAIN p.generalEntities
            THEN [p EXCEPT !.declEntity = <<>>]
            ELSE [p EXCEPT !.declEntity = raw, !.generalEntities = (raw :> NewEntity) @@ @]
       [] role = "PARAM_ENTITY_NAME" -> [p EXCEPT !.declEntity = <<>>]
       [] role = "ENTITY_VALUE" /\ p.keepProcessing ->
            IF value.error # "NONE" THEN Fail(literal, value.error) ELSE literal
       [] role = "ENTITY_NOTATION_NAME" /\ p.keepProcessing /\ named ->
            [p EXCEPT !.generalEntities[p.declEntity].notation = TRUE]
       [] OTHER -> p

AttributeRole(p, role, raw) ==
  LET value == storeAttributeValue(p, p.decl.isCdata, Inside(raw), TRUE)
  IN CASE role = "ATTLIST_ELEMENT_NAME" -> [p EXCEPT !.decl.element = raw]
       [] role = "ATTRIBUTE_NAME" -> [p EXCEPT !.decl = [@ EXCEPT !.att = raw, !.isCdata = FALSE, !.isId = FALSE]]
       [] role = "ATTRIBUTE_TYPE_CDATA" -> [p EXCEPT !.decl.isCdata = TRUE]
       [] role = "ATTRIBUTE_TYPE_ID" -> [p EXCEPT !.decl.isId = TRUE]
       [] role \in {"IMPLIED_ATTRIBUTE_VALUE", "REQUIRED_ATTRIBUTE_VALUE"} /\ p.keepProcessing ->
            defineAttribute(p, p.decl.isId, <<"none">>)
       [] role \in {"DEFAULT_ATTRIBUTE_VALUE", "FIXED_ATTRIBUTE_VALUE"} /\ p.keepProcessing ->
            IF value.error # "NONE" THEN Fail(p, value.error)
            ELSE defineAttribute(p, FALSE, value.value)
       [] OTHER -> p

\* mutant: one connector is kept for all the levels
OneConnector(p, role) ==
  LET other == IF role = "GROUP_SEQUENCE" THEN "|" ELSE ","
      mine == IF role = "GROUP_SEQUENCE" THEN "," ELSE "|"
  IN CASE role = "GROUP_OPEN" -> [p EXCEPT !.groupConnector = (0 :> "none") @@ @]
       [] role \in {"GROUP_SEQUENCE", "GROUP_CHOICE"} ->
            IF p.groupConnector[0] = other THEN Fail(p, "SYNTAX")
            ELSE [p EXCEPT !.groupConnector[0] = mine]
       [] OTHER -> p

(* A group may not mix commas and bars; the connector is kept for each level. *)
GroupRole(p, role) ==
  LET level == p.prologState.level
      other == IF role = "GROUP_SEQUENCE" THEN "|" ELSE ","
      mine == IF role = "GROUP_SEQUENCE" THEN "," ELSE "|"
  IN CASE role = "GROUP_OPEN" -> [p EXCEPT !.groupConnector = (level :> "none") @@ @]
       [] role \in {"GROUP_SEQUENCE", "GROUP_CHOICE"} ->
            IF p.groupConnector[level] = other THEN Fail(p, "SYNTAX")
            ELSE [p EXCEPT !.groupConnector[level] = mine]
       [] OTHER -> p

DoctypeRole(p, role, raw) ==
  CASE role \in {"DOCTYPE_PUBLIC_ID", "ENTITY_PUBLIC_ID", "NOTATION_PUBLIC_ID"} /\ ~isPublicId(raw) ->
         Fail(p, "PUBLICID")
    [] role \in {"DOCTYPE_PUBLIC_ID", "DOCTYPE_SYSTEM_ID"} -> [p EXCEPT !.hasParamEntityRefs = TRUE]
    [] role = "PARAM_ENTITY_REF" -> [p EXCEPT !.hasParamEntityRefs = TRUE, !.keepProcessing = p.standalone]
    [] OTHER -> p

RoleError(tok) ==
  CASE tok = "PARAM_ENTITY_REF" -> "PARAM_ENTITY_REF"
    [] tok = "XML_DECL" -> "MISPLACED_XML_PI"
    [] OTHER -> "SYNTAX"

(* What a role does; a role belongs to one of the four groups, or does nothing. *)
PrologRole(p, role, tok, raw) ==
  CASE role = "ERROR" -> Fail(p, RoleError(tok))
    [] role = "XML_DECL" -> processXmlDecl(p, raw)
    [] OTHER -> GroupRole(AttributeRole(EntityRole(DoctypeRole(p, role, raw), role, raw), role, raw), role)

(* The keyword XmlTokenRole may look for in a token. *)
Keyword(tok, raw) ==
  CASE tok = "DECL_OPEN" /\ Len(raw) = 3 -> raw[3]
    [] tok = "POUND_NAME" /\ Len(raw) = 2 -> raw[2]
    [] tok = "NAME" /\ Len(raw) = 1 -> raw[1]
    [] OTHER -> ""

RECURSIVE doProlog(_, _, _), PrologScanned(_, _, _, _)
GoesOn(q, text, next) == IF Failed(q) THEN q ELSE doProlog(q, text, next)
PrologToken(p, text, s, next, tok, r) ==
  LET q == [p EXCEPT !.prologState = r.st]
  IN IF r.role = "INSTANCE_START" THEN contentProcessor(q, text, s)
     ELSE GoesOn(PrologRole(q, r.role, tok, SubSeq(text, s, next - 1)), text, next)
PrologScanned(p, text, s, t) ==
  LET next == IF t.minus THEN Len(text) + 1 ELSE t.next
      word == Keyword(t.tok, SubSeq(text, s, next - 1))
  IN CASE t.tok = "INVALID" -> Fail(p, "INVALID_TOKEN")
       [] p.haveMore /\ (t.tok \in Undecided \/ t.minus) -> Stop(p, s)
       [] t.tok = "PARTIAL" /\ ~p.haveMore -> Fail(p, "UNCLOSED_TOKEN")
       [] t.tok = "PARTIAL_CHAR" /\ ~p.haveMore -> Fail(p, "PARTIAL_CHAR")
       [] t.tok = "NONE" /\ ~p.haveMore -> Fail(p, "NO_ELEMENTS")
       [] OTHER -> PrologToken(p, text, s, next, t.tok, Role!XmlTokenRole(p.prologState, t.tok, word))
doProlog(p, text, s) ==
  PrologScanned(p, text, s, Scan(text, s, "prolog"))
prologProcessor(p, text, s) == doProlog(p, text, s)

----------------------------------------------------------------------------
(* One call: the processor goes over what was left and the new piece. *)
Process(p, text) ==
  CASE p.processor = "prolog" -> prologProcessor(p, text, 1)
    [] p.processor = "content" -> contentProcessor(p, text, 1)
    [] p.processor = "cdata" -> cdataSectionProcessor(p, text, 1)
    [] p.processor = "epilog" -> epilogProcessor(p, text, 1)
    [] p.processor = "error" -> p

\* mutant: the last character left is lost
KeptFromSecond(p, text, isFinal) ==
  LET leave(q) ==
        IF Failed(q) THEN [q EXCEPT !.processor = "error", !.left = <<>>]
        ELSE [q EXCEPT !.left = SubSeq(text, q.next, Len(text) - 1), !.next = 1,
                       !.parsing = IF isFinal THEN "FINISHED" ELSE "PARSING"]
  IN leave(Process([p EXCEPT !.haveMore = ~isFinal, !.parsing = "PARSING"], text))
(* XML_ParseBuffer; XML_GetBuffer keeps the unread end of the buffer and makes room after it. *)
XML_ParseBuffer(p, text, isFinal) ==
  LET leave(q) ==
        IF Failed(q) THEN [q EXCEPT !.processor = "error", !.left = <<>>]
        ELSE [q EXCEPT !.left = SubSeq(text, q.next, Len(text)), !.next = 1,
                       !.parsing = IF isFinal THEN "FINISHED" ELSE "PARSING"]
  IN leave(Process([p EXCEPT !.haveMore = ~isFinal, !.parsing = "PARSING"], text))

XML_Parse(p, piece, isFinal) ==
  IF p.parsing = "FINISHED" THEN Fail(p, "FINISHED")
  ELSE IF piece = <<>> /\ ~isFinal THEN [p EXCEPT !.parsing = "PARSING", !.haveMore = TRUE]
  ELSE XML_ParseBuffer(p, p.left \o piece, isFinal)

(* load_xml: read(n, eof) is one turn of its loop; eof is set by the read that comes short. *)
Ended == Failed(parser) \/ parser.parsing = "FINISHED"
ParseInit == document \in Documents /\ offset = 0 /\ parser = XML_ParserCreate
load_xml(n, eof) ==
  /\ ~Ended
  /\ n <= Len(document) - offset
  /\ eof => n = Len(document) - offset
  /\ ~eof => n > 0
  /\ parser' = XML_Parse(parser, SubSeq(document, offset + 1, offset + n), eof)
  /\ offset' = offset + n
  /\ UNCHANGED document
=============================================================================
