-------------------------- MODULE MCRomCollection --------------------------
(* Small instances of RomCollection: two games that share a rom.          *)
EXTENDS RomCollection, FiniteSets

MCName == {"g", "h", "s"}
MCRequired == {"g", "h"}
MCData == {"dg", "dh", "dgh", "x"}
MCRoms == [g |-> {"dg", "dgh"}, h |-> {"dh", "dgh"}]

\* The disks with at most n files at the given places.
Disks(places, n) ==
  {[p \in Path |-> {f[2] : f \in {f \in F : f[1] = p}}] :
     F \in {F \in SUBSET (places \X MCData) : Cardinality(F) <= n}}

Settings == {Oper, {"fix", "binary"}, {"add", "move"}}

MCStart ==
  {s \in [disk : Disks({<<"rom", "g">>, <<"rom", "s">>, <<"unknown", "g">>, <<"unknown", "s">>}, 3),
          readonly : {{}, {<<"rom", "g">>}, {<<"rom", "s">>}}, oper : Settings] :
     \A p \in s.readonly : s.disk[p] # {}}
=============================================================================
