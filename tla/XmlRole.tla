------------------------------ MODULE XmlRole -------------------------------
(***************************************************************************)
(* The state machine of expat that gives each token of a prolog its role   *)
(* (src/expat/xmlrole.c).  A handler of the code is a row of the table:    *)
(* for each token it accepts, with the keyword it must spell if any, the   *)
(* next handler and the role.  Every other token ends in `common`.  The    *)
(* handlers of the external subset, which the program never reads, are     *)
(* left out.                                                               *)
(***************************************************************************)
EXTENDS Integers, Sequences, TLC

On(tok, to, role) == [tok |-> tok, word |-> "", to |-> to, role |-> role]
OnWord(tok, word, to, role) == [tok |-> tok, word |-> word, to |-> to, role |-> role]
(* White space keeps the handler and has the role `none`, unless a row says otherwise. *)
Handler(none, rows) == [none |-> none, rows |-> rows]

Names(to, role) == {On("NAME", to, role), On("PREFIXED_NAME", to, role)}
Misc(to) == {On("PI", to, "PI"), On("COMMENT", to, "COMMENT")}
Instance == On("INSTANCE_START", "error", "INSTANCE_START")
Doctype == OnWord("DECL_OPEN", "DOCTYPE", "doctype0", "DOCTYPE_NONE")

prolog ==
  [prolog0 |-> Handler("NONE", Misc("prolog1") \cup
                 {On("PROLOG_S", "prolog1", "NONE"), On("XML_DECL", "prolog1", "XML_DECL"),
                  On("BOM", "prolog0", "NONE"), Doctype, Instance}),
   prolog1 |-> Handler("NONE", Misc("prolog1") \cup {On("BOM", "prolog1", "NONE"), Doctype, Instance}),
   prolog2 |-> Handler("NONE", Misc("prolog2") \cup {Instance})]

Subset == On("OPEN_BRACKET", "internalSubset", "DOCTYPE_INTERNAL_SUBSET")
doctype ==
  [doctype0 |-> Handler("DOCTYPE_NONE", Names("doctype1", "DOCTYPE_NAME")),
   doctype1 |-> Handler("DOCTYPE_NONE",
                  {Subset, On("DECL_CLOSE", "prolog2", "DOCTYPE_CLOSE"),
                   OnWord("NAME", "SYSTEM", "doctype3", "DOCTYPE_NONE"),
                   OnWord("NAME", "PUBLIC", "doctype2", "DOCTYPE_NONE")}),
   doctype2 |-> Handler("DOCTYPE_NONE", {On("LITERAL", "doctype3", "DOCTYPE_PUBLIC_ID")}),
   doctype3 |-> Handler("DOCTYPE_NONE", {On("LITERAL", "doctype4", "DOCTYPE_SYSTEM_ID")}),
   doctype4 |-> Handler("DOCTYPE_NONE", {Subset, On("DECL_CLOSE", "prolog2", "DOCTYPE_CLOSE")}),
   doctype5 |-> Handler("DOCTYPE_NONE", {On("DECL_CLOSE", "prolog2", "DOCTYPE_CLOSE")})]

internalSubset ==
  [internalSubset |-> Handler("NONE", Misc("internalSubset") \cup
     {OnWord("DECL_OPEN", "ENTITY", "entity0", "ENTITY_NONE"),
      OnWord("DECL_OPEN", "ATTLIST", "attlist0", "ATTLIST_NONE"),
      OnWord("DECL_OPEN", "ELEMENT", "element0", "ELEMENT_NONE"),
      OnWord("DECL_OPEN", "NOTATION", "notation0", "NOTATION_NONE"),
      On("PARAM_ENTITY_REF", "internalSubset", "PARAM_ENTITY_REF"),
      On("CLOSE_BRACKET", "doctype5", "DOCTYPE_NONE"),
      On("NONE", "internalSubset", "NONE")})]

(* `close` is declClose with the role_none of the declaration; `top` is setTopLevel. *)
Value == On("LITERAL", "close", "ENTITY_VALUE")
Id(system, public) == {OnWord("NAME", "SYSTEM", system, "ENTITY_NONE"),
                       OnWord("NAME", "PUBLIC", public, "ENTITY_NONE")}
entity ==
  [entity0 |-> Handler("ENTITY_NONE", {On("PERCENT", "entity1", "ENTITY_NONE"),
                                       On("NAME", "entity2", "GENERAL_ENTITY_NAME")}),
   entity1 |-> Handler("ENTITY_NONE", {On("NAME", "entity7", "PARAM_ENTITY_NAME")}),
   entity2 |-> Handler("ENTITY_NONE", Id("entity4", "entity3") \cup {Value}),
   entity3 |-> Handler("ENTITY_NONE", {On("LITERAL", "entity4", "ENTITY_PUBLIC_ID")}),
   entity4 |-> Handler("ENTITY_NONE", {On("LITERAL", "entity5", "ENTITY_SYSTEM_ID")}),
   entity5 |-> Handler("ENTITY_NONE", {On("DECL_CLOSE", "top", "ENTITY_COMPLETE"),
                                       OnWord("NAME", "NDATA", "entity6", "ENTITY_NONE")}),
   entity6 |-> Handler("ENTITY_NONE", {On("NAME", "close", "ENTITY_NOTATION_NAME")})]
parameterEntity ==
  [entity7 |-> Handler("ENTITY_NONE", Id("entity9", "entity8") \cup {Value}),
   entity8 |-> Handler("ENTITY_NONE", {On("LITERAL", "entity9", "ENTITY_PUBLIC_ID")}),
   entity9 |-> Handler("ENTITY_NONE", {On("LITERAL", "entity10", "ENTITY_SYSTEM_ID")}),
   entity10 |-> Handler("ENTITY_NONE", {On("DECL_CLOSE", "top", "ENTITY_COMPLETE")})]

notation ==
  [notation0 |-> Handler("NOTATION_NONE", {On("NAME", "notation1", "NOTATION_NAME")}),
   notation1 |-> Handler("NOTATION_NONE", {OnWord("NAME", "SYSTEM", "notation3", "NOTATION_NONE"),
                                           OnWord("NAME", "PUBLIC", "notation2", "NOTATION_NONE")}),
   notation2 |-> Handler("NOTATION_NONE", {On("LITERAL", "notation4", "NOTATION_PUBLIC_ID")}),
   notation3 |-> Handler("NOTATION_NONE", {On("LITERAL", "close", "NOTATION_SYSTEM_ID")}),
   notation4 |-> Handler("NOTATION_NONE", {On("LITERAL", "close", "NOTATION_SYSTEM_ID"),
                                           On("DECL_CLOSE", "top", "NOTATION_NO_SYSTEM_ID")})]

AttTypes == {"CDATA", "ID", "IDREF", "IDREFS", "ENTITY", "ENTITIES", "NMTOKEN", "NMTOKENS"}
TypeRole == [CDATA |-> "ATTRIBUTE_TYPE_CDATA", ID |-> "ATTRIBUTE_TYPE_ID", IDREF |-> "ATTRIBUTE_TYPE_IDREF",
             IDREFS |-> "ATTRIBUTE_TYPE_IDREFS", ENTITY |-> "ATTRIBUTE_TYPE_ENTITY",
             ENTITIES |-> "ATTRIBUTE_TYPE_ENTITIES", NMTOKEN |-> "ATTRIBUTE_TYPE_NMTOKEN",
             NMTOKENS |-> "ATTRIBUTE_TYPE_NMTOKENS"]
attlist ==
  [attlist0 |-> Handler("ATTLIST_NONE", Names("attlist1", "ATTLIST_ELEMENT_NAME")),
   attlist1 |-> Handler("ATTLIST_NONE", Names("attlist2", "ATTRIBUTE_NAME") \cup
                  {On("DECL_CLOSE", "top", "ATTLIST_NONE")}),
   attlist2 |-> Handler("ATTLIST_NONE", {OnWord("NAME", w, "attlist8", TypeRole[w]) : w \in AttTypes} \cup
                  {OnWord("NAME", "NOTATION", "attlist5", "ATTLIST_NONE"),
                   On("OPEN_PAREN", "attlist3", "ATTLIST_NONE")}),
   attlist3 |-> Handler("ATTLIST_NONE", Names("attlist4", "ATTRIBUTE_ENUM_VALUE") \cup
                  {On("NMTOKEN", "attlist4", "ATTRIBUTE_ENUM_VALUE")}),
   attlist4 |-> Handler("ATTLIST_NONE", {On("CLOSE_PAREN", "attlist8", "ATTLIST_NONE"),
                                         On("OR", "attlist3", "ATTLIST_NONE")})]
attDefault ==
  [attlist5 |-> Handler("ATTLIST_NONE", {On("OPEN_PAREN", "attlist6", "ATTLIST_NONE")}),
   attlist6 |-> Handler("ATTLIST_NONE", {On("NAME", "attlist7", "ATTRIBUTE_NOTATION_VALUE")}),
   attlist7 |-> Handler("ATTLIST_NONE", {On("CLOSE_PAREN", "attlist8", "ATTLIST_NONE"),
                                         On("OR", "attlist6", "ATTLIST_NONE")}),
   attlist8 |-> Handler("ATTLIST_NONE",
                  {OnWord("POUND_NAME", "IMPLIED", "attlist1", "IMPLIED_ATTRIBUTE_VALUE"),
                   OnWord("POUND_NAME", "REQUIRED", "attlist1", "REQUIRED_ATTRIBUTE_VALUE"),
                   OnWord("POUND_NAME", "FIXED", "attlist9", "ATTLIST_NONE"),
                   On("LITERAL", "attlist1", "DEFAULT_ATTRIBUTE_VALUE")}),
   attlist9 |-> Handler("ATTLIST_NONE", {On("LITERAL", "attlist1", "FIXED_ATTRIBUTE_VALUE")})]

Particles == Names("element7", "CONTENT_ELEMENT") \cup
  {On("NAME_QUESTION", "element7", "CONTENT_ELEMENT_OPT"), On("NAME_ASTERISK", "element7", "CONTENT_ELEMENT_REP"),
   On("NAME_PLUS", "element7", "CONTENT_ELEMENT_PLUS")}
element ==
  [element0 |-> Handler("ELEMENT_NONE", Names("element1", "ELEMENT_NAME")),
   element1 |-> Handler("ELEMENT_NONE", {OnWord("NAME", "EMPTY", "close", "CONTENT_EMPTY"),
                                         OnWord("NAME", "ANY", "close", "CONTENT_ANY"),
                                         On("OPEN_PAREN", "element2", "GROUP_OPEN")}),
   element2 |-> Handler("ELEMENT_NONE", Particles \cup
                  {OnWord("POUND_NAME", "PCDATA", "element3", "CONTENT_PCDATA"),
                   On("OPEN_PAREN", "element6", "GROUP_OPEN")}),
   element3 |-> Handler("ELEMENT_NONE", {On("CLOSE_PAREN", "close", "GROUP_CLOSE"),
                                         On("CLOSE_PAREN_ASTERISK", "close", "GROUP_CLOSE_REP"),
                                         On("OR", "element4", "ELEMENT_NONE")}),
   element4 |-> Handler("ELEMENT_NONE", Names("element5", "CONTENT_ELEMENT")),
   element5 |-> Handler("ELEMENT_NONE", {On("CLOSE_PAREN_ASTERISK", "close", "GROUP_CLOSE_REP"),
                                         On("OR", "element4", "ELEMENT_NONE")})]
children ==
  [element6 |-> Handler("ELEMENT_NONE", Particles \cup {On("OPEN_PAREN", "element6", "GROUP_OPEN")}),
   element7 |-> Handler("ELEMENT_NONE",
                  {On("CLOSE_PAREN", "element7", "GROUP_CLOSE"),
                   On("CLOSE_PAREN_ASTERISK", "element7", "GROUP_CLOSE_REP"),
                   On("CLOSE_PAREN_QUESTION", "element7", "GROUP_CLOSE_OPT"),
                   On("CLOSE_PAREN_PLUS", "element7", "GROUP_CLOSE_PLUS"),
                   On("COMMA", "element6", "GROUP_SEQUENCE"), On("OR", "element6", "GROUP_CHOICE")})]

Table == prolog @@ doctype @@ internalSubset @@ entity @@ parameterEntity @@ notation
           @@ attlist @@ attDefault @@ element @@ children

declClose(st, tok) ==
  IF tok \in {"PROLOG_S", "DECL_CLOSE"}
  THEN {On(tok, IF tok = "PROLOG_S" THEN "declClose" ELSE "top", st.roleNone)} ELSE {}

(* The rows a handler has for a token, before the keyword is looked at. *)
Listed(h, st, tok) ==
  LET mine == {r \in h.rows : r.tok = tok}
  IN IF tok = "PROLOG_S" /\ mine = {} THEN {On(tok, st.handler, h.none)} ELSE mine
RowsOf(st, tok) ==
  IF st.handler = "declClose" THEN declClose(st, tok) ELSE Listed(Table[st.handler], st, tok)

setTopLevel(st) == [st EXCEPT !.handler = "internalSubset"]

(* How deep the groups of a content model are nested; only the children models count it. *)
Closing == {"CLOSE_PAREN", "CLOSE_PAREN_ASTERISK", "CLOSE_PAREN_QUESTION", "CLOSE_PAREN_PLUS"}
LevelAfter(st, tok) ==
  CASE st.handler = "element1" /\ tok = "OPEN_PAREN" -> 1
    [] st.handler = "element2" /\ tok = "OPEN_PAREN" -> 2
    [] st.handler = "element6" /\ tok = "OPEN_PAREN" -> st.level + 1
    [] st.handler = "element7" /\ tok \in Closing -> st.level - 1
    [] OTHER -> st.level

common(st) == [st |-> [st EXCEPT !.handler = "error"], role |-> "ERROR"]

(* The state that a row leads to. *)
Follow(st, tok, row) ==
  LET level == LevelAfter(st, tok)
      closes == row.to = "close" \/ (st.handler = "element7" /\ tok \in Closing /\ level = 0)
      counted == [st EXCEPT !.level = level]
  IN IF closes THEN [counted EXCEPT !.handler = "declClose", !.roleNone = Table[st.handler].none]
     ELSE IF row.to = "top" THEN setTopLevel(counted) ELSE [counted EXCEPT !.handler = row.to]
RoleOf(st, tok, rows) ==
  LET row == CHOOSE r \in rows : TRUE
  IN IF rows = {} THEN common(st) ELSE [role |-> row.role, st |-> Follow(st, tok, row)]

(* XmlTokenRole: the token with the word it spells ("" when it spells no keyword). *)
XmlTokenRole(st, tok, word) ==
  IF st.handler = "error" THEN [st |-> st, role |-> "NONE"]
  ELSE RoleOf(st, tok, {r \in RowsOf(st, tok) : r.word \in {"", word}})

XmlPrologStateInit == [handler |-> "prolog0", level |-> 0, roleNone |-> "NONE"]
=============================================================================
