------------------------------ MODULE MCFiles ------------------------------
(* Samples, disks and the layout of a zip file in small instances.         *)
EXTENDS Files

MCName == {"a", "A", "d/a", "e/a", "b"}
MCFold == [n \in MCName |-> IF n = "A" THEN "a" ELSE n]
MCFileName == [n \in MCName |-> IF n \in {"d/a", "e/a"} THEN "a" ELSE n]
MCData == {"da", "db", "dc", "txt", "jnk"}

Lists(names, data, n) ==
  {s \in UNION {[1..k -> [name : names, data : data]] : k \in 0..n} : Distinct(s)}

\* any archive of up to 2 files and reject archive of one; all operations, or
\* all but one, or none
MCSampleStart ==
  [z : Lists(MCName, {"da", "db", "txt", "jnk"}, 2) \ {<<>>}, r : Lists({"a", "d/a"}, {"dc"}, 1),
   known : {TRUE}, readonly : {FALSE},
   oper : {{}} \cup {SampleOper \ X : X \in {{}, {"fix"}, {"binary"}, {"text"}, {"garbage"}}}]
  \cup
  [z : Lists(MCName, {"da", "db"}, 2) \ {<<>>}, r : Lists({"a", "d/a"}, {"dc"}, 1),
   known : BOOLEAN, readonly : BOOLEAN, oper : {{}, {"move"}, SampleOper}]

MCDevice == [d1 |-> "A", d2 |-> "B", disk_unknown |-> "A"]
\* two games share the disk m, and want different ones
MCDiskGames == <<[m |-> "h1"], [m |-> "h2", k |-> "h1"]>>
AllDiskFaults == {"rename", "read", "write", "close", "remove", "kill"}

\* sound, damaged, too long for an unsigned, empty
Kinds ==
  {[head |-> h, size |-> n] : h \in {"h1", "h2"}, n \in {2}}
  \cup [head : {"h1"}, size : {0, 3, 4}] \cup [head : {"invalid"}, size : {1}]
Holding(f) ==
  [p \in Path |-> IF p \in DOMAIN f
                  THEN [of |-> p, head |-> f[p].head, size |-> f[p].size, left |-> f[p].size]
                  ELSE NoChd]
Places == [dir : DiskDir \cup {UnknownDir}, name : DiskName, ext : {"chd"}]

\* up to two files anywhere, three of one name
MCDiskStart ==
  [files : {Holding(f) : f \in UNION {[S -> Kinds] : S \in {S \in SUBSET Places : Cardinality(S) <= 2}}}
           \cup {Holding(f) : f \in [{p \in Places : p.name = "x"} -> [head : {"h1"}, size : {1}]]},
   oper : {{"active"}, {"move"}, {"move", "active"}}]

-----------------------------------------------------------------------------
(* Zip files of two entries, in either order in the directory, one of them *)
(* or both listed twice or not at all, with or without holes.              *)
Cont(n, size, m, bits) == [csize |-> n, size |-> size, method |-> m, bits |-> bits]
MCContent == {Cont(2, 2, "store", 0), Cont(3, 4, "implode", 1), Cont(1, 0, "deflate", 3),
              Cont(1, 2, "other", 0), Cont(4, 2, "store", 0), Cont(30, 30, "store", 0)}
\* those in the files of other programs; the others cannot be copied, or take
\* the directory over the end of the unsigned
SmallContent == {c \in MCContent : c.csize < 4}
\* an entry as other programs write it: a hole before it, an extra field in
\* the header and in the directory, a data descriptor with or without signature
Laid == [content : SmallContent, gap : {0, 1}, extra : {0, 1}, cextra : {0, 1}, tail : {0, 2, 3}]
LaidLength(l) == LoFixed + l.extra + l.content.csize + l.tail
PlaceAt(s, i) == Sum([j \in 1..i - 1 |-> s[j].gap + LaidLength(s[j])]) + s[i].gap
Layout(s, order, hole, comment, junk, shift) ==
  LET start == Sum([j \in DOMAIN s |-> s[j].gap + LaidLength(s[j])]) + hole
      eo == start + Sum([j \in DOMAIN order |-> CoFixed + s[order[j]].cextra])
  IN [length |-> eo + EoFixed + comment + junk,
      loc |-> [o \in {PlaceAt(s, i) : i \in DOMAIN s} |->
                 LET l == s[CHOOSE i \in DOMAIN s : PlaceAt(s, i) = o]
                 IN [content |-> l.content, desc |-> l.tail > 0, bits |-> l.content.bits,
                     extra |-> l.extra, tail |-> l.tail]],
      dir |-> [j \in DOMAIN order |->
                 LET l == s[order[j]]
                 IN [content |-> l.content, desc |-> l.tail > 0, bits |-> l.content.bits,
                     extra |-> l.cextra, offset |-> PlaceAt(s, order[j]) + shift, data |-> NoData]],
      start |-> start, eo |-> eo, comment |-> comment]
PlainEntry(c) == [content |-> c, gap |-> 0, extra |-> 0, cextra |-> 0, tail |-> 0]
MCDirStart ==
  {Layout(<<l, PlainEntry(Cont(2, 2, "store", 0))>>, o, h, 0, j, 0) :
     l \in Laid, o \in {<<1, 2>>, <<2, 1>>, <<1, 1>>, <<1>>, <<1, 2, 2>>}, h \in {0, 1}, j \in {0, 1}}
  \cup {Layout(<<PlainEntry(Cont(3, 4, "implode", 1)), l>>, <<2, 1>>, 0, c, 0, 0) : l \in Laid, c \in {0, 6, 8}}
  \cup {Layout(<<PlainEntry(Cont(3, 4, "implode", 1)), l>>, <<1, 2>>, 0, 0, 0, 1) : l \in Laid}
=============================================================================
