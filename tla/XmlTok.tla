------------------------------- MODULE XmlTok -------------------------------
(***************************************************************************)
(* The tokenizer of expat (src/expat/xmltok_impl.c), which load_xml of     *)
(* gamexml.cc reaches through XML_Parse.  Every scanning function of the   *)
(* code is a set of states; a state says for each type of character        *)
(* (BYTE_TYPE) what comes next, and what the scan answers when the input   *)
(* ends in it.  A character is named after its byte type; the keywords and *)
(* names of a document are single characters of type "nmstrt".  A two byte *)
(* character is "lead2" followed by "trail": the end of a buffer may fall  *)
(* between the two.  The program reads without namespaces: a colon is a    *)
(* letter, as in the table of the encoding it uses.                        *)
(***************************************************************************)
EXTENDS Integers, Sequences, TLC

CONSTANT Word   \* the keywords and names, each standing for its letters

Plain == {"lt", "gt", "amp", "quot", "apos", "equals", "quest", "excl", "sol", "semi", "num",
          "lsqb", "rsqb", "s", "cr", "lf", "hex", "digit", "name", "minus", "other",
          "percnt", "lpar", "rpar", "ast", "plus", "comma", "verbar", "nonxml", "lead2", "trail"}
Char == Plain \cup Word

Type(c) == IF c \in Word THEN "nmstrt" ELSE c

S == {"s", "cr", "lf"}
NameStart == {"nmstrt", "hex"}                      \* CHECK_NMSTRT_CASES
NameChar == NameStart \cup {"digit", "name", "minus"}   \* CHECK_NAME_CASES
Bad == {"nonxml", "trail"}                          \* INVALID_CASES

(* What a state does with a character: consume it and go on in a state, answer a token
   that ends `at` characters after it, treat it in another state (the code falls through or
   breaks out of a switch without moving on), or scan a reference that starts at it and go on. *)
Go(s) == [go |-> s]
Tok(t, at) == [tok |-> t, at |-> at, minus |-> FALSE]
\* mutant: the token is decided before the input goes on
AtOnce(t) == Tok(t, 0)
Minus(t) == [tok |-> t, at |-> 0, minus |-> TRUE]    \* -XML_TOK_t: more input might change it
As(s) == [as |-> s]
Call(s, then) == [call |-> s, then |-> then]
Invalid == Tok("INVALID", 0)
Partial == Tok("PARTIAL", 0)

State(on, other, eof) == [on |-> on, other |-> other, eof |-> eof]

scanComment ==
  [comment0 |-> State({<<{"minus"}, Go("comment")>>}, Invalid, Partial),
   comment  |-> State({<<Bad, Invalid>>, <<{"minus"}, Go("comment1")>>}, Go("comment"), Partial),
   comment1 |-> State({<<{"minus"}, Go("comment2")>>}, As("comment"), Partial),
   comment2 |-> State({<<{"gt"}, Tok("COMMENT", 1)>>}, Invalid, Partial)]

scanDecl ==
  [decl |-> State({<<{"minus"}, Go("comment0")>>, <<{"lsqb"}, Tok("COND_SECT_OPEN", 1)>>,
                   <<NameStart, Go("declName")>>, <<{"lead2"}, Invalid>>}, Invalid, Partial),
   declName |-> State({<<{"percnt"}, Go("declPercent")>>, <<S, Tok("DECL_OPEN", 0)>>,
                       <<NameStart, Go("declName")>>, <<{"lead2"}, Invalid>>}, Invalid, Partial),
   declPercent |-> State({<<S \cup {"percnt"}, Tok("INVALID", -1)>>}, Tok("DECL_OPEN", -1), Partial)]

(* The target "xml" in small letters makes a declaration, in other letters it is refused. *)
checkPiTarget ==
  [piXml |-> State({<<NameChar, Go("piName")>>, <<S, Go("xmlDecl")>>, <<{"quest"}, Go("xmlDeclClose")>>},
                   Invalid, Partial),
   piXML |-> State({<<NameChar, Go("piName")>>}, Invalid, Partial)]

scanPi ==
  [pi |-> State({<<{"xml"}, Go("piXml")>>, <<{"XML"}, Go("piXML")>>, <<NameStart, Go("piName")>>},
                Invalid, Partial),
   piName |-> State({<<NameChar, Go("piName")>>, <<S, Go("piText")>>, <<{"quest"}, Go("piClose")>>},
                    Invalid, Partial),
   piText |-> State({<<Bad, Invalid>>, <<{"quest"}, Go("piQuest")>>}, Go("piText"), Partial),
   piQuest |-> State({<<{"gt"}, Tok("PI", 1)>>}, As("piText"), Partial),
   piClose |-> State({<<{"gt"}, Tok("PI", 1)>>}, Invalid, Partial),
   xmlDecl |-> State({<<Bad, Invalid>>, <<{"quest"}, Go("xmlDeclQuest")>>}, Go("xmlDecl"), Partial),
   xmlDeclQuest |-> State({<<{"gt"}, Tok("XML_DECL", 1)>>}, As("xmlDecl"), Partial),
   xmlDeclClose |-> State({<<{"gt"}, Tok("XML_DECL", 1)>>}, Invalid, Partial)]

(* "CDATA[" is compared only when all of it is there. *)
scanCdataSection ==
  [cdata0 |-> State({<<{"CDATA"}, Go("cdata1")>>, <<{"lead2"}, Go("cdataOther")>>}, Go("cdataOther"), Partial),
   cdata1 |-> State({<<{"lsqb"}, Tok("CDATA_SECT_OPEN", 1)>>, <<{"lead2"}, Invalid>>}, Invalid, Partial),
   cdataOther |-> State({<<{"lead2"}, Tok("INVALID", -1)>>}, Tok("INVALID", -1), Partial)]

cdataSectionTok ==
  [cdataSection |-> State({<<{"rsqb"}, Go("section1")>>, <<{"cr"}, Go("sectionCr")>>,
                           <<{"lf"}, Tok("DATA_NEWLINE", 1)>>, <<Bad, Invalid>>},
                          Go("sectionData"), Tok("NONE", 0)),
   section1 |-> State({<<{"rsqb"}, Go("section2")>>}, As("sectionData"), Partial),
   section2 |-> State({<<{"gt"}, Tok("CDATA_SECT_CLOSE", 1)>>, <<{"lead2"}, Tok("DATA_CHARS", -1)>>},
                      Tok("DATA_CHARS", -1), Partial),
   sectionCr |-> State({<<{"lf"}, Tok("DATA_NEWLINE", 1)>>, <<{"lead2"}, Tok("DATA_NEWLINE", 0)>>},
                       Tok("DATA_NEWLINE", 0), Partial),
   sectionData |-> State({<<Bad \cup {"cr", "lf", "rsqb"}, Tok("DATA_CHARS", 0)>>},
                         Go("sectionData"), Tok("DATA_CHARS", 0))]

scanEndTag ==
  [endTag |-> State({<<NameStart, Go("endName")>>}, Invalid, Partial),
   endName |-> State({<<NameChar, Go("endName")>>, <<S, Go("endSpace")>>,
                      <<{"gt"}, Tok("END_TAG", 1)>>}, Invalid, Partial),
   endSpace |-> State({<<S, Go("endSpace")>>, <<{"gt"}, Tok("END_TAG", 1)>>}, Invalid, Partial)]

scanHexCharRef ==
  [hexRef0 |-> State({<<{"digit", "hex"}, Go("hexRef")>>}, Invalid, Partial),
   hexRef  |-> State({<<{"digit", "hex"}, Go("hexRef")>>, <<{"semi"}, Tok("CHAR_REF", 1)>>}, Invalid, Partial)]

scanCharRef ==
  [charRef0 |-> State({<<{"x"}, Go("hexRef0")>>, <<{"digit"}, Go("charRef")>>}, Invalid, Partial),
   charRef  |-> State({<<{"digit"}, Go("charRef")>>, <<{"semi"}, Tok("CHAR_REF", 1)>>}, Invalid, Partial)]

scanRef ==
  [ref0 |-> State({<<NameStart, Go("ref")>>, <<{"num"}, Go("charRef0")>>}, Invalid, Partial),
   ref  |-> State({<<NameChar, Go("ref")>>, <<{"semi"}, Tok("ENTITY_REF", 1)>>}, Invalid, Partial)]

scanAtts ==
  [att |-> State({<<NameChar, Go("att")>>, <<S, Go("attSpace")>>, <<{"equals"}, Go("attEquals")>>},
                 Invalid, Partial),
   attSpace |-> State({<<S, Go("attSpace")>>, <<{"equals"}, Go("attEquals")>>}, Invalid, Partial),
   attEquals |-> State({<<S, Go("attEquals")>>, <<{"quot"}, Go("valueQuot")>>, <<{"apos"}, Go("valueApos")>>},
                       Invalid, Partial),
   valueQuot |-> State({<<{"quot"}, Go("attEnd")>>, <<Bad \cup {"lt"}, Invalid>>,
                        <<{"amp"}, Call("ref0", "valueQuot")>>}, Go("valueQuot"), Partial),
   valueApos |-> State({<<{"apos"}, Go("attEnd")>>, <<Bad \cup {"lt"}, Invalid>>,
                        <<{"amp"}, Call("ref0", "valueApos")>>}, Go("valueApos"), Partial),
   attEnd |-> State({<<S, Go("attNext")>>, <<{"gt"}, Tok("START_TAG_WITH_ATTS", 1)>>,
                     <<{"sol"}, Go("emptyAtts")>>}, Invalid, Partial),
   attNext |-> State({<<S, Go("attNext")>>, <<NameStart, Go("att")>>,
                      <<{"gt"}, Tok("START_TAG_WITH_ATTS", 1)>>, <<{"sol"}, Go("emptyAtts")>>}, Invalid, Partial),
   emptyAtts |-> State({<<{"gt"}, Tok("EMPTY_ELEMENT_WITH_ATTS", 1)>>}, Invalid, Partial)]

TagEnd == {<<{"gt"}, Tok("START_TAG_NO_ATTS", 1)>>, <<{"sol"}, Go("emptyTag")>>}
scanLt ==
  [lt |-> State({<<NameStart, Go("tag")>>, <<{"excl"}, Go("ltExcl")>>, <<{"quest"}, Go("pi")>>,
                 <<{"sol"}, Go("endTag")>>}, Invalid, Partial),
   ltExcl |-> State({<<{"minus"}, Go("comment0")>>, <<{"lsqb"}, Go("cdata0")>>}, Invalid, Partial),
   tag |-> State(TagEnd \cup {<<NameChar, Go("tag")>>, <<S, Go("tagSpace")>>}, Invalid, Partial),
   tagSpace |-> State(TagEnd \cup {<<S, Go("tagSpace")>>, <<NameStart, Go("att")>>}, Invalid, Partial),
   emptyTag |-> State({<<{"gt"}, Tok("EMPTY_ELEMENT_NO_ATTS", 1)>>}, Invalid, Partial)]

(* "]]>" is not allowed in content: a "]" is data only when what follows is known. *)
contentTok ==
  [content |-> State({<<{"lt"}, Go("lt")>>, <<{"amp"}, Go("ref0")>>, <<{"cr"}, Go("contentCr")>>,
                      <<{"lf"}, Tok("DATA_NEWLINE", 1)>>, <<{"rsqb"}, Go("content1")>>, <<Bad, Invalid>>},
                     Go("data"), Tok("NONE", 0)),
   contentCr |-> State({<<{"lf"}, Tok("DATA_NEWLINE", 1)>>, <<{"lead2"}, Tok("DATA_NEWLINE", 0)>>},
                       Tok("DATA_NEWLINE", 0), Tok("TRAILING_CR", 0)),
   content1 |-> State({<<{"rsqb"}, Go("content2")>>}, As("data"), Tok("TRAILING_RSQB", 0)),
   content2 |-> State({<<{"gt"}, Invalid>>, <<{"rsqb"}, Go("data2")>>}, As("data"), Tok("TRAILING_RSQB", 0)),
   data |-> State({<<Bad \cup {"amp", "lt", "cr", "lf"}, Tok("DATA_CHARS", 0)>>, <<{"rsqb"}, Go("data1")>>},
                  Go("data"), Tok("DATA_CHARS", 0)),
   data1 |-> State({<<{"rsqb"}, Go("data2")>>}, As("data"), Tok("DATA_CHARS", -1)),
   data2 |-> State({<<{"gt"}, Invalid>>, <<{"rsqb"}, Go("data2")>>}, As("data"), Tok("DATA_CHARS", -2))]

scanPercent ==
  [percent0 |-> State({<<NameStart, Go("percent")>>, <<S \cup {"percnt"}, Tok("PERCENT", 0)>>},
                      Invalid, Minus("PERCENT")),
   percent |-> State({<<NameChar, Go("percent")>>, <<{"semi"}, Tok("PARAM_ENTITY_REF", 1)>>}, Invalid, Partial)]

scanPoundName ==
  [pound0 |-> State({<<NameStart, Go("pound")>>}, Invalid, Partial),
   pound |-> State({<<NameChar, Go("pound")>>,
                    <<S \cup {"rpar", "gt", "percnt", "verbar"}, Tok("POUND_NAME", 0)>>},
                   Invalid, Minus("POUND_NAME"))]

scanLit ==
  [litQuot |-> State({<<Bad, Invalid>>, <<{"quot"}, Go("litEnd")>>}, Go("litQuot"), Partial),
   litApos |-> State({<<Bad, Invalid>>, <<{"apos"}, Go("litEnd")>>}, Go("litApos"), Partial),
   litEnd |-> State({<<S \cup {"gt", "percnt", "lsqb"}, Tok("LITERAL", 0)>>}, Invalid, Minus("LITERAL"))]

NameEnd == S \cup {"gt", "rpar", "comma", "verbar", "lsqb", "percnt"}
Quantified == {<<{"plus"}, Tok("NAME_PLUS", 1)>>, <<{"ast"}, Tok("NAME_ASTERISK", 1)>>,
               <<{"quest"}, Tok("NAME_QUESTION", 1)>>}
prologTok ==
  [prolog |-> State({<<{"quot"}, Go("litQuot")>>, <<{"apos"}, Go("litApos")>>, <<{"lt"}, Go("prologLt")>>,
                     <<{"cr"}, Go("prologCr")>>, <<{"s", "lf"}, Go("prologS")>>, <<{"percnt"}, Go("percent0")>>,
                     <<{"comma"}, Tok("COMMA", 1)>>, <<{"lsqb"}, Tok("OPEN_BRACKET", 1)>>,
                     <<{"rsqb"}, Go("closeBracket")>>, <<{"lpar"}, Tok("OPEN_PAREN", 1)>>,
                     <<{"rpar"}, Go("closeParen")>>, <<{"verbar"}, Tok("OR", 1)>>, <<{"gt"}, Tok("DECL_CLOSE", 1)>>,
                     <<{"num"}, Go("pound0")>>, <<NameStart, Go("name")>>,
                     <<{"digit", "name", "minus"}, Go("nmtoken")>>}, Invalid, Tok("NONE", 0)),
   prologLt |-> State({<<{"excl"}, Go("decl")>>, <<{"quest"}, Go("pi")>>,
                       <<NameStart, Tok("INSTANCE_START", -1)>>}, Invalid, Partial),
   prologCr |-> State({}, As("prologS"), Minus("PROLOG_S")),
   prologS |-> State({<<{"s", "lf"}, Go("prologS")>>, <<{"cr"}, Go("prologSCr")>>},
                     Tok("PROLOG_S", 0), Tok("PROLOG_S", 0)),
   prologSCr |-> State({}, As("prologS"), Tok("PROLOG_S", -1)),
   closeBracket |-> State({<<{"rsqb"}, Go("closeBracket2")>>}, Tok("CLOSE_BRACKET", 0), Minus("CLOSE_BRACKET")),
   closeBracket2 |-> State({<<{"gt"}, Tok("COND_SECT_CLOSE", 1)>>}, Tok("CLOSE_BRACKET", -1), Partial),
   closeParen |-> State({<<{"ast"}, Tok("CLOSE_PAREN_ASTERISK", 1)>>, <<{"quest"}, Tok("CLOSE_PAREN_QUESTION", 1)>>,
                         <<{"plus"}, Tok("CLOSE_PAREN_PLUS", 1)>>,
                         <<S \cup {"gt", "comma", "verbar", "rpar"}, Tok("CLOSE_PAREN", 0)>>},
                        Invalid, Minus("CLOSE_PAREN"))]

nameTok ==
  [name |-> State(Quantified \cup {<<NameChar, Go("name")>>, <<NameEnd, Tok("NAME", 0)>>},
                 Invalid, Minus("NAME")),
   nmtoken |-> State({<<NameChar, Go("nmtoken")>>, <<NameEnd, Tok("NMTOKEN", 0)>>},
                     Invalid, Minus("NMTOKEN"))]

attributeValueTok ==
  [value |-> State({<<{"amp"}, Go("ref0")>>, <<{"lt"}, Invalid>>, <<{"lf"}, Tok("DATA_NEWLINE", 1)>>,
                    <<{"cr"}, Go("contentCr")>>, <<{"s"}, Tok("ATTRIBUTE_VALUE_S", 1)>>},
                   Go("valueData"), Tok("NONE", 0)),
   valueData |-> State({<<{"lt"}, Invalid>>, <<{"amp", "lf", "cr", "s"}, Tok("DATA_CHARS", 0)>>},
                       Go("valueData"), Tok("DATA_CHARS", 0))]

entityValueTok ==
  [entity |-> State({<<{"amp"}, Go("ref0")>>, <<{"percnt"}, Go("entityPercent")>>,
                     <<{"lf"}, Tok("DATA_NEWLINE", 1)>>, <<{"cr"}, Go("contentCr")>>},
                    Go("entityData"), Tok("NONE", 0)),
   entityPercent |-> State({<<S \cup {"percnt"}, Invalid>>}, As("percent0"), Minus("PERCENT")),
   entityData |-> State({<<{"amp", "percnt", "lf", "cr"}, Tok("DATA_CHARS", 0)>>},
                        Go("entityData"), Tok("DATA_CHARS", 0))]

Automaton ==
  scanComment @@ scanDecl @@ checkPiTarget @@ scanPi @@ scanCdataSection @@ cdataSectionTok @@ scanEndTag
    @@ scanHexCharRef @@ scanCharRef @@ scanRef @@ scanAtts @@ scanLt @@ contentTok @@ scanPercent
    @@ scanPoundName @@ scanLit @@ prologTok @@ nameTok @@ attributeValueTok @@ entityValueTok

(* What a state does with a character: the row of the character itself (the letters that
   CHAR_MATCHES looks for), else the row of its type, else the default of the switch. *)
Row(state, c) ==
  LET of(k) == {r \in state.on : k \in r[1]}
      type == IF Type(c) = "lead2" /\ of("lead2") = {} THEN "nmstrt" ELSE Type(c)
      hits == IF of(c) # {} THEN of(c) ELSE of(type)
  IN IF hits = {} THEN state.other ELSE (CHOOSE r \in hits : TRUE)[2]

(* LEAD_CASE: a character that is not complete ends the data of the loops over data, and is
   waited for elsewhere.  Its second half is checked in data, not in names. *)
DataLoop == {"sectionData", "data", "valueData", "entityData"}
CutChar(s, i, whole) ==
  [tok |-> IF s \in DataLoop THEN "DATA_CHARS" ELSE IF whole THEN "INVALID" ELSE "PARTIAL_CHAR",
   next |-> i, minus |-> FALSE]
Lead(state) ==
  IF \E r \in state.on : "lead2" \in r[1] THEN "none"
  ELSE IF \E r \in state.on : "nmstrt" \in r[1] THEN "name" ELSE "data"

(* For every state and character: the state whose switch decides, what it does, and what it
   makes of the first half of a character. *)
Delta ==
  LET decides(s, r) == IF "as" \in DOMAIN r THEN r.as ELSE s
      at(a, s, c) == [at |-> s, do |-> Row(a[s], c), lead |-> IF c = "lead2" THEN Lead(a[s]) ELSE "none"]
      of(a) == [s \in DOMAIN a |-> [c \in Char |-> at(a, decides(s, Row(a[s], c)), c)]]
  IN of(Automaton)

(* The token that goes on at character i in state s: its name, the position after it, and
   whether its name is negated. *)
Answer(t, i) == [tok |-> t.tok, next |-> i + t.at, minus |-> t.minus]
RECURSIVE Scan(_, _, _), Move(_, _, _), GoOn(_, _, _)
Scan(text, i, s) ==
  IF i > Len(text) THEN Answer(Automaton[s].eof, i) ELSE Move(text, i, Delta[s][text[i]])
Move(text, i, d) ==
  CASE "tok" \in DOMAIN d.do -> Answer(d.do, i)
    [] "call" \in DOMAIN d.do -> GoOn(text, Scan(text, i + 1, d.do.call), d.do.then)
    [] "go" \in DOMAIN d.do ->
         CASE d.lead = "none" -> Scan(text, i + 1, d.do.go)
           [] d.lead # "none" /\ i = Len(text) -> CutChar(d.at, i, FALSE)
           [] d.lead = "data" /\ i < Len(text) /\ text[i + 1] # "trail" -> CutChar(d.at, i, TRUE)
           [] OTHER -> Scan(text, i + 2, d.do.go)
(* After a reference in the value of an attribute. *)
GoOn(text, ref, s) ==
  IF ref.tok \in {"ENTITY_REF", "CHAR_REF"} THEN Scan(text, ref.next, s) ELSE ref

Starts == {"content", "cdataSection", "prolog", "value", "entity"}   \* the scanners of an encoding
Undecided == {"NONE", "PARTIAL", "PARTIAL_CHAR", "TRAILING_CR", "TRAILING_RSQB"}
(* Whether a token is positive: more input is not needed to know it. *)
Sure(t) == t.tok \notin Undecided \cup {"INVALID"} /\ ~t.minus

----------------------------------------------------------------------------
(* Helpers of the parser on the text of a token. *)

(* How many characters from position i on have a type of the set. *)
Leading(text, i, types) ==
  CHOOSE n \in 0 .. Len(text) - i + 1 :
    /\ \A k \in i .. i + n - 1 : Type(text[k]) \in types
    /\ i + n > Len(text) \/ Type(text[i + n]) \notin types
nameLength(text, i) ==
  LET end[k \in i .. Len(text) + 2] ==
        IF k > Len(text) \/ Type(text[k]) \notin NameChar \cup {"lead2"} THEN k
        ELSE end[k + (IF text[k] = "lead2" THEN 2 ELSE 1)]
  IN end[i] - i
nameMatchesAscii(text, word) == text = <<word>>

predefinedEntityName(name) ==
  LET names == [Lt |-> "lt", Gt |-> "gt", Amp |-> "amp", Quot |-> "quot", Apos |-> "apos"]
  IN IF Len(name) = 1 /\ name[1] \in DOMAIN names THEN names[name[1]] ELSE "none"

(* The number of a reference; the digits of the model are "6" and the letters "F". *)
checkCharRefNumber(n) ==
  IF (n < 32 /\ n \notin {9, 10, 13}) \/ n \in 55296 .. 57343 \/ n \in {65534, 65535} THEN -1 ELSE n
charRefNumber(text) ==
  LET hex == text[3] = "x"
      digits == SubSeq(text, IF hex THEN 4 ELSE 3, Len(text) - 1)
      value[k \in 0 .. Len(digits)] ==
        IF k = 0 THEN 0
        ELSE IF value[k - 1] < 0 THEN -1
        ELSE LET n == value[k - 1] * (IF hex THEN 16 ELSE 10) + (IF digits[k] = "digit" THEN 6 ELSE 15)
             IN IF n >= 1114112 THEN -1 ELSE n
  IN IF value[Len(digits)] < 0 THEN -1 ELSE checkCharRefNumber(value[Len(digits)])

(* The attributes of a tag that the tokenizer has accepted: name, value, and whether the value
   is normalized as it stands.  The first name is that of the element. *)
getAtts(tag) ==
  LET step(a, i) ==
        LET c == tag[i]
            type == IF Type(c) \in NameStart \cup {"lead2"} THEN "start" ELSE Type(c)
            opens == [a EXCEPT !.state = "inValue", !.from = i + 1, !.open = c]
            closed == [a EXCEPT !.state = "other",
                                !.atts = Append(@, [name |-> a.name, value |-> SubSeq(tag, a.from, i - 1),
                                                    normalized |-> a.normalized])]
            lone == i # a.from /\ Type(tag[i + 1]) \notin {"s", a.open}
        IN CASE a.state = "done" -> a
             [] a.state # "done" /\ type = "start" /\ a.state = "other" ->
                  [a EXCEPT !.state = "inName", !.normalized = TRUE,
                            !.name = SubSeq(tag, i, i + nameLength(tag, i) - 1)]
             [] a.state \in {"inName", "other"} /\ c \in {"quot", "apos"} -> opens
             [] a.state = "inValue" /\ c = a.open -> closed
             [] a.state # "done" /\ c = "amp" -> [a EXCEPT !.normalized = FALSE]
             [] a.state = "inName" /\ c \in S -> [a EXCEPT !.state = "other"]
             [] a.state = "inValue" /\ c = "s" -> [a EXCEPT !.normalized = @ /\ lone]
             [] a.state = "inValue" /\ c \in {"cr", "lf"} -> [a EXCEPT !.normalized = FALSE]
             [] a.state \in {"inName", "other"} /\ c \in {"gt", "sol"} -> [a EXCEPT !.state = "done"]
             [] OTHER -> a
      second[i \in 1 .. Len(tag)] == i > 1 /\ tag[i - 1] = "lead2" /\ ~second[i - 1]
      after[i \in 1 .. Len(tag)] ==
        IF i = 1 THEN [state |-> "inName", atts |-> <<>>, name |-> <<>>, from |-> 0,
                       open |-> "quot", normalized |-> TRUE]
        ELSE IF second[i] THEN after[i - 1] ELSE step(after[i - 1], i)
  IN after[Len(tag)].atts

(* A public identifier: what may stand between its quotes. *)
isPublicId(literal) ==
  \A k \in 2 .. Len(literal) - 1 :
    Type(literal[k]) \in {"nmstrt", "digit", "hex", "minus", "apos", "lpar", "rpar", "plus", "comma", "sol",
                         "equals", "quest", "cr", "lf", "semi", "excl", "ast", "percnt", "num", "s", "name"}
=============================================================================
