------------------------------- MODULE RomZip -------------------------------
(***************************************************************************)
(* The operations of class ziprom on the entry lists of two archives, the  *)
(* one being worked on and the reject archive that saves what leaves it.   *)
(* An archive is the sequence of its entries, in the order of zip::map.    *)
(* A pair [z, r] holds the two lists; everything here happens in memory.   *)
(***************************************************************************)
EXTENDS Naturals, Sequences, SequencesExt

CONSTANTS
  Name,   \* names of the files in the archives, as spelled
  Data,   \* contents of the files, told apart by size and crc
  Fold    \* the spelling of a name without case: what file_compare compares

ASSUME RomZipAssumption == \A n \in Name : n \in DOMAIN Fold

Entry == [name : Name, data : Data]

SameName(n, m) == Fold[n] = Fold[m]

\* ziprom::find: the first entry of the name in any case, 0 when there is none
FindName(s, n) == SelectInSeq(s, LAMBDA e : SameName(e.name, n))
\* the first entry with the size and crc of d, as the loops over zip::map do
FindData(s, d) == SelectInSeq(s, LAMBDA e : e.data = d)

DataOf(s) == {e.data : e \in ToSet(s)}
HasData(s, n, d) == \E e \in ToSet(s) : SameName(e.name, n) /\ e.data = d

\* No two entries of the list have the same name.
Distinct(s) == \A i, j \in DOMAIN s : SameName(s[i].name, s[j].name) => i = j

\* zip::erase
Erased(s, i) == RemoveAt(s, i)
\* zip::insert, at the end of the list
Inserted(s, n, d) == Append(s, [name |-> n, data |-> d])

\* ziprom::remove without a reject archive: the data is lost
Removed(s, n) == IF FindName(s, n) = 0 THEN s ELSE Erased(s, FindName(s, n))

\* mutant: what has the name in the reject archive stays beside it
MovedBeside(p, src, dst) ==
  LET i == FindName(p.z, src) IN
  [z |-> Erased(p.z, i), r |-> Inserted(p.r, dst, p.z[i].data)]

\* ziprom::move: what has the name in the reject archive is erased first
Moved(p, src, dst) ==
  LET i == FindName(p.z, src) IN
  [z |-> Erased(p.z, i), r |-> Inserted(Removed(p.r, dst), dst, p.z[i].data)]

\* mutant: the overwritten file is not saved
RejectedNowhere(p, n) == [p EXCEPT !.z = Removed(@, n)]

\* ziprom::remove with a reject archive
Rejected(p, n) == IF FindName(p.z, n) = 0 THEN p ELSE Moved(p, n, n)

\* mutant: the file of the same name stays
AddedBeside(p, n, d) == [p EXCEPT !.z = Inserted(@, n, d)]

\* ziprom::add with a reject archive
Added(p, n, d) ==
  LET q == Rejected(p, n) IN [q EXCEPT !.z = Inserted(@, n, d)]

\* ziprom::rename
Renamed(p, src, dst) ==
  LET q == Rejected(p, dst) IN
  [q EXCEPT !.z[FindName(q.z, src)].name = dst]

\* ziprom::swap of the entry named n with entry j of the reject archive
Swapped(p, n, j) ==
  LET i == FindName(p.z, n)
      z == Append(p.z, p.r[j])
  IN IF i = 0 THEN [z |-> z, r |-> Erased(p.r, j)]
     ELSE [z |-> Erased(z, i), r |-> Erased(Append(p.r, p.z[i]), j)]
=============================================================================
