----------------------------- MODULE MCZipFile -----------------------------
(* Small instances of ZipFile: two roms, one directory. *)
EXTENDS ZipFile

MCEntry == {"rom1", "rom2", "dir"}
MCSized == {"rom1", "rom2"}
AllFaults == {"write", "remove", "rename", "kill"}
=============================================================================
