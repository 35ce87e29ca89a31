--------------------------- MODULE RomSetContract ---------------------------
(***************************************************************************)
(* What the scan of one romset archive does to the data in it and in its   *)
(* reject archive, names apart.  RomScan is checked to keep this promise   *)
(* and RomCollection, the run over all the archives, relies on it.         *)
(***************************************************************************)

\* The active operations ops take the archive z and the reject archive r to
\* z2 and r2; offered is what all the archives have and lost what is garbage.
Scanned(ops, roms, offered, lost, z, r, z2, r2) ==
  /\ (z \cup r) \ lost \subseteq z2 \cup r2
  /\ r2 \subseteq r \cup z
  /\ z2 \subseteq z \cup (roms \cap (offered \cup r))
  /\ "fix" \in ops => roms \cap (z \cup r \cup offered) \subseteq z2
  /\ ops = {} => z2 = z /\ r2 = r
=============================================================================
