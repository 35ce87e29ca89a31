------------------------------ MODULE Compare ------------------------------
(***************************************************************************)
(* What the programs say of roms without looking at the collection: the    *)
(* roms that several games have (option --equal), the roms that a file is  *)
(* (--ident), and the games that differ between two information files      *)
(* (program advdiff).  A rom has a name in its game, and what the two      *)
(* orders by crc tell apart, its content: a crc and a size.  Games and     *)
(* names of roms are their ranks by file_compare.                          *)
(***************************************************************************)
EXTENDS Naturals, Sequences, SequencesExt, FiniteSetsExt

CONSTANTS
  CGame,        \* names of games, by rank
  RomName,      \* names of roms, by rank
  Crc, CSize,   \* parts of a content
  CompareStart  \* [command, old, new, tree]: old and new are information files,
                \*   [games, romof, has]; tree is the file system ident looks at,
                \*   from nodes to [kind, below, data]; its root is "/"

CNone == 0
CData == [crc : Crc, size : CSize]
CRom == [name : RomName, crc : Crc, size : CSize]

\* mutant: the size is not compared
CrcSame(a, b) == a.crc = b.crc

SameRom(a, b) == a.crc = b.crc /\ a.size = b.size

ASSUME CompareAssumption ==
  /\ CGame \subseteq Nat \ {CNone} /\ RomName \subseteq Nat /\ Crc \subseteq Nat /\ CSize \subseteq Nat
  /\ \A s \in CompareStart :
       /\ s.command \in {"equal", "ident", "diff"}
       /\ \A f \in {s.old, s.new} :
            /\ IsFiniteSet(f.games) /\ f.games \subseteq CGame
            /\ f.romof \in [CGame -> CGame \cup {CNone}]
            /\ \A g \in f.games : IsFiniteSet(f.has[g]) /\ f.has[g] \subseteq CRom
       /\ "/" \in DOMAIN s.tree /\ s.tree["/"].kind = "dir" /\ IsFiniteSet(DOMAIN s.tree)
       /\ \A n \in DOMAIN s.tree :
            /\ s.tree[n].below \subseteq DOMAIN s.tree
            /\ s.tree[n].kind \in {"dir", "zip", "file", "hidden"}
            /\ s.tree[n].kind \in {"zip", "file"} => s.tree[n].below = {}

VARIABLES
  cs,   \* the command and its input
  cpc,
  seq,  \* equal: the rest of the multiset rcb, as <<game, rom>>
  todo, \* ident: the nodes to look at; diff: the games to come
  out   \* what is printed: groups of <<game, rom>>, <<node, game, rom>>, games

compareVars == <<cs, cpc, seq, todo, out>>

-----------------------------------------------------------------------------
(* gamearchive::load takes from a game the roms of a content that a game   *)
(* above it has, whatever their names (rs_remove_crc).  The order of the   *)
(* games counts only where parents go round in a circle; see Merged of     *)
(* module GameArchive.                                                     *)

CClosed(f, S) == \A x \in S \cap f.games : f.romof[x] # CNone => f.romof[x] \in S
CChain(f, g) == {h \in f.games : \A S \in SUBSET CGame : g \in S /\ CClosed(f, S) => h \in S}
rs_get(f, g) ==
  {r \in f.has[g] : ~\E h \in CChain(f, g) \ {g} : \E s \in f.has[h] : SameRom(r, s)}

-----------------------------------------------------------------------------
(* equal.                                                                  *)

\* rom_by_crc_less, gamerom_by_crc_less
rom_by_crc_less(a, b) == a.crc < b.crc \/ (a.crc = b.crc /\ a.size < b.size)

\* mutant: a set, which keeps one rom of a game and a content
FirstNamed(f, g) ==
  {r \in rs_get(f, g) : \A s \in rs_get(f, g) : SameRom(r, s) => r.name <= s.name}
rcb_set(f) ==
  LET S == {x \in CGame \X CRom : x[1] \in f.games /\ x[2] \in FirstNamed(f, x[1])}
      Before(x) == {y \in S : \/ rom_by_crc_less(y[2], x[2])
                              \/ ~rom_by_crc_less(x[2], y[2]) /\ y[1] < x[1]}
  IN [i \in 1..Cardinality(S) |-> CHOOSE x \in S : Cardinality(Before(x)) = i - 1]

\* The multiset has every named rom of every game; what its order does not tell
\* apart stays as it was put in, by game and by name.
rcb(f) ==
  LET S == {x \in CGame \X CRom : x[1] \in f.games /\ x[2] \in rs_get(f, x[1])}
      Before(x) == {y \in S : \/ rom_by_crc_less(y[2], x[2])
                              \/ /\ ~rom_by_crc_less(x[2], y[2])
                                 /\ y[1] < x[1] \/ (y[1] = x[1] /\ y[2].name < x[2].name)}
  IN [i \in 1..Cardinality(S) |-> CHOOSE x \in S : Cardinality(Before(x)) = i - 1]

CompareInit ==
  /\ cs \in CompareStart
  /\ cpc = "run"
  /\ seq = IF cs.command = "equal" THEN rcb(cs.new) ELSE <<>>
  /\ todo = CASE cs.command = "ident" -> {"/"} [] cs.command = "diff" -> cs.new.games [] OTHER -> {}
  /\ out = {}

\* The roms that follow the first and equal it are of its group.
GroupLength ==
  LET n == SelectInSeq(seq, LAMBDA x : ~SameRom(x[2], seq[1][2])) IN IF n = 0 THEN Len(seq) ELSE n - 1

EqualGroup ==
  /\ cpc = "run" /\ seq # <<>>
  /\ LET n == GroupLength IN
     /\ out' = IF n > 1 THEN out \cup {ToSet(SubSeq(seq, 1, n))} ELSE out
     /\ seq' = SubSeq(seq, n + 1, Len(seq))
  /\ UNCHANGED <<cs, cpc, todo>>

-----------------------------------------------------------------------------
(* ident_file, ident_zip, ident_data.                                      *)

\* ident_data: the roms of all games that the data may be
ident_data(d) ==
  {x \in CGame \X CRom : x[1] \in cs.new.games /\ x[2] \in rs_get(cs.new, x[1]) /\ SameRom(x[2], d)}

\* mutant: a directory is entered for its archives only
ArchivesBelow(n) == {m \in cs.tree[n].below : cs.tree[m].kind = "zip"}

\* What readdir gives, but for the names that begin with a dot.
Below(n) == cs.tree[n].below \ {m \in cs.tree[n].below : cs.tree[m].kind = "hidden"}

\* A file that is empty cannot be read (file_read), which ends the program.
IdentFile(n) ==
  /\ cpc = "run" /\ cs.command = "ident" /\ n \in todo
  /\ IF cs.tree[n].kind = "dir"
     THEN todo' = (todo \ {n}) \cup Below(n) /\ UNCHANGED <<out, cpc>>
     ELSE IF cs.tree[n].kind = "file" /\ \E d \in cs.tree[n].data : d.size = 0
     THEN cpc' = "error" /\ UNCHANGED <<out, todo>>
     ELSE /\ out' = out \cup {<<n, x[1], x[2]>> : x \in UNION {ident_data(d) : d \in cs.tree[n].data}}
          /\ todo' = todo \ {n} /\ UNCHANGED cpc
  /\ UNCHANGED <<cs, seq>>

-----------------------------------------------------------------------------
(* process of advdiff.                                                     *)

\* mutant: the other way round
include_back(A, B) == \A r \in A : \E s \in B : SameRom(s, r)

\* A has every content of B, by whatever names.
include(A, B) == \A r \in B : \E s \in A : SameRom(s, r)

DiffGame(g) ==
  /\ cpc = "run" /\ cs.command = "diff" /\ g \in todo /\ \A h \in todo : g <= h
  /\ out' = IF g \notin cs.old.games \/ ~include(rs_get(cs.old, g), rs_get(cs.new, g))
            THEN out \cup {g} ELSE out
  /\ todo' = todo \ {g}
  /\ UNCHANGED <<cs, cpc, seq>>

CompareEnds ==
  /\ cpc = "run" /\ seq = <<>> /\ todo = {}
  /\ cpc' = "done"
  /\ UNCHANGED <<cs, seq, todo, out>>

CompareNext ==
  \/ EqualGroup \/ CompareEnds
  \/ \E n \in DOMAIN cs.tree : IdentFile(n)
  \/ \E g \in CGame : DiffGame(g)

CompareSpec == CompareInit /\ [][CompareNext]_compareVars

-----------------------------------------------------------------------------
Content(r) == [crc |-> r.crc, size |-> r.size]

\* All roms of a content, as <<game, rom>>.
Owners(d) ==
  {x \in CGame \X CRom : x[1] \in cs.new.games /\ x[2] \in rs_get(cs.new, x[1]) /\ Content(x[2]) = d}

\* The groups printed are the contents that two roms or more have, of two games
\* or of one under two names, each group whole and once, though they are found in
\* one pass over the multiset (equal).
GroupsComplete ==
  cpc = "done" /\ cs.command = "equal" =>
    out = {Owners(d) : d \in {d \in CData : Cardinality(Owners(d)) > 1}}

\* The nodes below n, but for those whose names begin with a dot.
Visible == {m \in DOMAIN cs.tree : cs.tree[m].kind # "hidden"}
Reach(n) ==
  LET sub[k \in 0..Cardinality(DOMAIN cs.tree)] ==
        IF k = 0 THEN {n}
        ELSE sub[k - 1] \cup UNION {cs.tree[m].below \cap Visible : m \in sub[k - 1]}
  IN sub[Cardinality(DOMAIN cs.tree)]

\* Every file in a directory that is given, however deep, is identified as all
\* the roms it is, and as no other (ident_file).
IdentComplete ==
  cpc = "done" /\ cs.command = "ident" =>
    \A n \in Reach("/"), d \in CData :
      cs.tree[n].kind \in {"zip", "file"} /\ d \in cs.tree[n].data =>
        {x \in out : x[1] = n /\ Content(x[3]) = d} = {<<n, x[1], x[2]>> : x \in Owners(d)}

\* Whoever has all that the old file asks for, and gets the games that advdiff
\* prints, has all that the new file asks for, though the merge of parents
\* differs between the files, unless parents go round in a circle (process,
\* include).
CGrounded(f) == \A g, h \in f.games : h \in CChain(f, g) /\ g \in CChain(f, h) => g = h
DiffCovers ==
  cpc = "done" /\ cs.command = "diff" /\ CGrounded(cs.new) =>
    \A g \in cs.new.games : \A r \in cs.new.has[g] :
      \E h \in CChain(cs.new, g) :
        /\ \E s \in cs.new.has[h] : Content(s) = Content(r)
        /\ h \in out \/ (h \in cs.old.games /\ \E s \in cs.old.has[h] : Content(s) = Content(r))

\* Nothing is left out, by the three that look for what is the same.
NothingLeftOut == GroupsComplete /\ IdentComplete /\ DiffCovers
=============================================================================
