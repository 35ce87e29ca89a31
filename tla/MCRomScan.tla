----------------------------- MODULE MCRomScan -----------------------------
(* Small instances of RomScan: a game of two roms, archives of few files. *)
EXTENDS RomScan, Functions

MCName == {"a", "A", "b", "x", "y"}
MCFold == [n \in MCName |-> IF n = "A" THEN "a" ELSE n]
MCData == {"da", "db", "bin", "txt", "jnk"}
MCGood == [a |-> "da", b |-> "db"]

Lists(names, data, n) ==
  UNION {[1..k -> [name : names, data : data]] : k \in 0..n}
DistinctLists(names, data, n) == {s \in Lists(names, data, n) : Distinct(s)}

Disks(zs, rs, others, opers) ==
  {d \in [z : zs, r : rs, other : others, readonly : BOOLEAN, oper : opers] : d.z # <<>>}

\* every operation active, archives without two files of the same name
MCStart ==
  {d \in Disks(DistinctLists({"a", "b", "x"}, {"da", "db", "bin"}, 3),
        DistinctLists({"a", "x"}, {"da", "db", "bin"}, 2), {{}, {"da"}}, {Oper})
     : ~d.readonly}

\* the sets of operations, with text and garbage
MCStartOper ==
  Disks(DistinctLists({"a", "x", "y"}, {"da", "bin", "txt", "jnk"}, 2),
        DistinctLists({"a", "b"}, {"da", "db"}, 1), {{}, {"da"}}, SUBSET Oper)

MCStartAll == MCStart \cup MCStartOper

\* names that differ by case, or are the same
MCStartDup ==
  Disks(Lists({"a", "A", "x"}, {"da", "bin", "txt"}, 2), Lists({"a", "A"}, {"da", "bin"}, 1),
        {{"db"}}, {Oper})
=============================================================================
