----------------------------- MODULE SampleScan -----------------------------
(***************************************************************************)
(* One archive of samples: sample_scan when a game of its name needs       *)
(* samples, sample_move when none does.  Samples are told by their names   *)
(* only.  A missing sample is looked for among the unknown files of the    *)
(* same archive, by name without directory, and copied there; then the     *)
(* unknown files go to the reject archive.                                 *)
(*                                                                         *)
(* As in RomScan the sets are visited in any order, and a save is atomic.  *)
(***************************************************************************)
EXTENDS RomZip, FiniteSets

CONSTANTS
  FileName,      \* names without their directories: file_name
  Sample,        \* the samples of the game
  SampleText,    \* data that analyze takes for text
  SampleGarbage, \* ... and for garbage; the rest is binary
  SampleStart,   \* what a run may find: [z, r, known, readonly, oper]
  SampleRuns     \* bound on the runs of the program

SampleOper == {"fix", "move", "binary", "text", "garbage"}

ASSUME SampleAssumption ==
  /\ Sample \subseteq Name
  /\ \A n \in Name : n \in DOMAIN FileName /\ FileName[n] \in Name
  /\ \A n, m \in Sample : SameName(n, m) => n = m
  /\ \A s \in SampleStart :
       /\ s.z \in Seq(Entry) /\ s.r \in Seq(Entry)
       /\ s.known \in BOOLEAN /\ s.readonly \in BOOLEAN /\ s.oper \subseteq SampleOper
  /\ SampleRuns \in Nat

VARIABLES
  sz, sr,         \* zip::map of the archive and of the reject archive
  sdiskz, sdiskr, \* the archives on the disk; <<>> when there is none
  known,          \* a game of the name of the archive needs samples
  sreadonly, soper,
  spc,
  sstat,          \* sample_stat_t: [miss, binary, text, garbage]
  szs,            \* what szs_add reported: "none", "good" or "bad"
  sstart,         \* history: the disk as this run found it, and whether a
                  \* complete run left it
  sruns

sdisks == <<sdiskz, sdiskr>>
ssetting == <<known, sreadonly, soper>>
sampleVars == <<sz, sr, sdiskz, sdiskr, known, sreadonly, soper, spc, sstat, szs, sstart, sruns>>

SampleEnded == {"done", "error", "crash"}
NoSampleStat == [miss |-> {}, binary |-> {}, text |-> {}, garbage |-> {}]

SampleInit ==
  \E s \in SampleStart :
    /\ sdiskz = s.z /\ sdiskr = s.r
    /\ known = s.known /\ sreadonly = s.readonly /\ soper = s.oper
    /\ sz = sdiskz /\ sr = sdiskr
    /\ spc = "stat" /\ sstat = NoSampleStat /\ szs = "none"
    /\ sstart = [z |-> sdiskz, r |-> sdiskr, complete |-> FALSE] /\ sruns = 0

SampleActive(op) == op \in soper /\ ~sreadonly

SampleTo(pc) == spc' = pc /\ UNCHANGED <<ssetting, sstart, sruns>>

-----------------------------------------------------------------------------
(* sample_stat.                                                            *)

\* The first entry with the name of a sample is the sample.
IsSample(i) ==
  /\ \E g \in Sample : SameName(g, sz[i].name)
  /\ ~\E j \in 1..(i - 1) : SameName(sz[j].name, sz[i].name)

\* A set by name keeps the first of the entries with the same name.
UnknownSamples(D) ==
  LET U == {i \in DOMAIN sz : ~IsSample(i) /\ sz[i].data \in D}
  IN {sz[i].name : i \in {i \in U : ~\E j \in U : j < i /\ SameName(sz[j].name, sz[i].name)}}

\* mutant: a name with a directory is not unknown
sample_stat_basename ==
  [miss |-> {g \in Sample : FindName(sz, g) = 0},
   binary |-> {n \in UnknownSamples(Data \ (SampleText \cup SampleGarbage)) : FileName[n] \notin Sample},
   text |-> UnknownSamples(SampleText \ SampleGarbage),
   garbage |-> UnknownSamples(SampleGarbage)]

sample_stat ==
  [miss |-> {g \in Sample : FindName(sz, g) = 0},
   binary |-> UnknownSamples(Data \ (SampleText \cup SampleGarbage)),
   text |-> UnknownSamples(SampleText \ SampleGarbage),
   garbage |-> UnknownSamples(SampleGarbage)]

SampleStat ==
  /\ spc = "stat" /\ known
  /\ sstat' = sample_stat
  /\ SampleTo("miss") /\ UNCHANGED <<sz, sr, sdisks, szs>>

-----------------------------------------------------------------------------
(* sample_scan.                                                            *)

\* The unknown files that may be the sample g: the name without directory.
Candidates(g) == {n \in sstat.binary : SameName(g, FileName[n])}

\* ziprom::add without a reject archive
AddedAlone(s, src, dst) ==
  LET t == Removed(s, dst) IN Inserted(t, dst, s[FindName(s, src)].data)

\* mutant: the unknown file is taken for added and is left out
SampleAddForgets(g) ==
  /\ spc = "miss" /\ g \in sstat.miss /\ SampleActive("fix")
  /\ \E n \in Candidates(g) :
       /\ sz' = AddedAlone(sz, n, g)
       /\ sstat' = [sstat EXCEPT !.miss = @ \ {g}, !.binary = @ \ {n}]
  /\ SampleTo("miss") /\ UNCHANGED <<sr, sdisks, szs>>

SampleAdd(g) ==
  /\ spc = "miss" /\ g \in sstat.miss /\ SampleActive("fix")
  /\ \E n \in Candidates(g) : sz' = AddedAlone(sz, n, g)
  /\ sstat' = [sstat EXCEPT !.miss = @ \ {g}]
  /\ SampleTo("miss") /\ UNCHANGED <<sr, sdisks, szs>>

\* mutant: what is found is not missing, though it is not to be fixed
SampleAddEndsFound ==
  /\ spc = "miss"
  /\ \A g \in sstat.miss : ~(SampleActive("fix") /\ Candidates(g) # {})
  /\ sstat' = [sstat EXCEPT !.miss = {g \in @ : Candidates(g) = {}}]
  /\ SampleTo("binary") /\ UNCHANGED <<sz, sr, sdisks, szs>>

SampleAddEnds ==
  /\ spc = "miss"
  /\ \A g \in sstat.miss : ~(SampleActive("fix") /\ Candidates(g) # {})
  /\ SampleTo("binary") /\ UNCHANGED <<sz, sr, sdisks, sstat, szs>>

\* mutant: the file is looked for by its base name
SampleRemoveBase ==
  /\ spc \in {"binary", "text"} /\ SampleActive(spc)
  /\ \E n \in sstat[spc] :
       LET p == Rejected([z |-> sz, r |-> sr], FileName[n]) IN
       /\ sz' = p.z /\ sr' = p.r
       /\ sstat' = [sstat EXCEPT ![spc] = @ \ {n}]
  /\ SampleTo(spc) /\ UNCHANGED <<sdisks, szs>>

SampleRemove ==
  /\ spc \in {"binary", "text"} /\ SampleActive(spc)
  /\ \E n \in sstat[spc] :
       LET p == Rejected([z |-> sz, r |-> sr], n) IN
       /\ sz' = p.z /\ sr' = p.r
       /\ sstat' = [sstat EXCEPT ![spc] = @ \ {n}]
  /\ SampleTo(spc) /\ UNCHANGED <<sdisks, szs>>

SampleGarbageRemove ==
  /\ spc = "garbage" /\ SampleActive("garbage")
  /\ \E n \in sstat.garbage :
       /\ sz' = Removed(sz, n)
       /\ sstat' = [sstat EXCEPT !.garbage = @ \ {n}]
  /\ SampleTo("garbage") /\ UNCHANGED <<sr, sdisks, szs>>

SampleRemoveEnds ==
  /\ spc \in {"binary", "text", "garbage"}
  /\ SampleActive(spc) => sstat[spc] = {}
  /\ SampleTo(CASE spc = "binary" -> "text" [] spc = "text" -> "garbage" [] OTHER -> "savez")
  /\ UNCHANGED <<sz, sr, sdisks, sstat, szs>>

SampleSaveZ ==
  /\ spc = "savez"
  /\ sdiskz' = sz
  /\ szs' = IF sz = <<>> THEN "none" ELSE IF sstat.miss = {} THEN "good" ELSE "bad"
  /\ SampleTo("saver") /\ UNCHANGED <<sz, sr, sdiskr, sstat>>

SampleSaveR ==
  /\ spc = "saver"
  /\ sdiskr' = sr
  /\ SampleTo("done") /\ UNCHANGED <<sz, sr, sdiskz, sstat, szs>>

-----------------------------------------------------------------------------
(* sample_move, with --del-zip or its report: "First save and only after   *)
(* delete the data."                                                       *)

SampleMove ==
  /\ spc = "stat" /\ ~known /\ SampleActive("move")
  /\ \E e \in ToSet(sz) :
       LET p == Rejected([z |-> sz, r |-> sr], e.name) IN sz' = p.z /\ sr' = p.r
  /\ SampleTo("stat") /\ UNCHANGED <<sdisks, sstat, szs>>

\* mutant: the archive is saved before the reject archive
SampleMoveEndsDeleting ==
  /\ spc = "stat" /\ ~known
  /\ SampleActive("move") => sz = <<>>
  /\ sdiskz' = sz
  /\ SampleTo("saver") /\ UNCHANGED <<sz, sr, sdiskr, sstat, szs>>

SampleMoveEnds ==
  /\ spc = "stat" /\ ~known
  /\ SampleActive("move") => sz = <<>>
  /\ sdiskr' = sr
  /\ SampleTo("delete") /\ UNCHANGED <<sz, sr, sdiskz, sstat, szs>>

SampleDelete ==
  /\ spc = "delete"
  /\ sdiskz' = sz
  /\ SampleTo("done") /\ UNCHANGED <<sz, sr, sdiskr, sstat, szs>>

SampleStops ==
  /\ \/ spc \in {"savez", "saver", "delete"} /\ SampleTo("error")
     \/ spc \notin SampleEnded /\ SampleTo("crash")
  /\ UNCHANGED <<sz, sr, sdisks, sstat, szs>>

SampleRerun ==
  /\ spc \in SampleEnded /\ sruns < SampleRuns /\ sdiskz # <<>>
  /\ sruns' = sruns + 1
  /\ sz' = sdiskz /\ sr' = sdiskr
  /\ spc' = "stat" /\ sstat' = NoSampleStat /\ szs' = "none"
  /\ sstart' = [z |-> sdiskz, r |-> sdiskr, complete |-> spc = "done"]
  /\ UNCHANGED <<sdisks, ssetting>>

SampleNext ==
  \/ SampleStat \/ SampleAddEnds \/ SampleRemove \/ SampleGarbageRemove \/ SampleRemoveEnds
  \/ \E g \in Sample : SampleAdd(g)
  \/ SampleSaveZ \/ SampleSaveR
  \/ SampleMove \/ SampleMoveEnds \/ SampleDelete
  \/ SampleStops \/ SampleRerun

SampleSpec == SampleInit /\ [][SampleNext]_sampleVars

-----------------------------------------------------------------------------
\* The state is well formed; no archive comes to have two entries of one name.
SampleTypeOK ==
  /\ \A s \in {sz, sr, sdiskz, sdiskr, sstart.z, sstart.r} : s \in Seq(Entry) /\ Distinct(s)
  /\ known \in BOOLEAN /\ sreadonly \in BOOLEAN /\ soper \subseteq SampleOper
  /\ spc \in {"stat", "miss", "binary", "text", "garbage", "savez", "saver", "delete"} \cup SampleEnded
  /\ sstat \in [miss : SUBSET Sample, binary : SUBSET Name, text : SUBSET Name, garbage : SUBSET Name]
  /\ szs \in {"none", "good", "bad"}
  /\ sruns \in 0..SampleRuns

Stored == DataOf(sdiskz) \cup DataOf(sdiskr)
KeepSample(d) == ~(d \in SampleGarbage /\ known /\ SampleActive("garbage"))
\* A file of the reject archive whose place another of the same name may take
Displaced(e) == \E f \in ToSet(sstart.z) : SameName(e.name, f.name)

\* A complete run keeps every file but garbage, and every file of the reject
\* archive whose name does not come again.
KeptAtEnd ==
  spc = "done" =>
    /\ \A d \in DataOf(sstart.z) : KeepSample(d) => d \in Stored
    /\ \A e \in ToSet(sstart.r) : ~Displaced(e) => e.data \in Stored

\* An unknown archive of samples is moved in an order in which a stop loses
\* nothing (sample_move: first save, then delete).
MovedSafely ==
  ~known => \A d \in DataOf(sstart.z) : d \in Stored

\* sample_scan adds without a reject archive: what has the name of a sample
\* when the scan starts, whatever it is, still has it, wherever the scan stops.
SamplesStay ==
  known => \A e \in ToSet(sstart.z) :
    (\E g \in Sample : SameName(g, e.name)) =>
      HasData(sz, e.name, e.data) /\ HasData(sdiskz, e.name, e.data)

\* The archive is reported good exactly if every sample is in what is saved.
SampleReportTrue ==
  szs # "none" => (szs = "good" <=> \A g \in Sample : FindName(sdiskz, g) # 0)

\* A sample that is there in a directory, by any spelling of its name, is put
\* into its place, unless it is there as another sample.
SampleFound ==
  spc = "done" /\ known /\ SampleActive("fix") =>
    \A g \in Sample, e \in ToSet(sstart.z) :
      /\ SameName(FileName[e.name], g) /\ e.data \notin SampleText \cup SampleGarbage
      /\ \A h \in Sample : SameName(h, e.name) => h = g
      => FindName(sdiskz, g) # 0

\* Without --del-unknown a copied sample stays where it was, and a second run
\* has nothing to do, with it or without.
SampleSettled == sstart.complete => sdiskz = sstart.z /\ sdiskr = sstart.r

\* No file is lost by a run that ends, none of a sample or of an unknown
\* archive by one that stops.
SamplesKept == KeptAtEnd /\ MovedSafely /\ SamplesStay

\* A scan that ends has used what there is, says so, and has left nothing to do.
SamplesDone == SampleReportTrue /\ SampleFound /\ SampleSettled
=============================================================================
