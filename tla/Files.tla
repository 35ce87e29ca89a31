------------------------------- MODULE Files -------------------------------
(***************************************************************************)
(* Samples, disks and the layout of a zip file.  run() comes to samples    *)
(* and disks one after the other, and a file is read and written for       *)
(* itself, so a behaviour has one of the three, while the others rest.     *)
(***************************************************************************)
EXTENDS SampleScan, DiskMove, ZipDirectory

SampleIdle ==
  /\ sz = <<>> /\ sr = <<>> /\ sdiskz = <<>> /\ sdiskr = <<>>
  /\ known = FALSE /\ sreadonly = FALSE /\ soper = {}
  /\ spc = "done" /\ sstat = NoSampleStat /\ szs = "none"
  /\ sstart = [z |-> <<>>, r |-> <<>>, complete |-> FALSE] /\ sruns = SampleRuns

DiskIdle ==
  /\ files = [p \in Path |-> NoChd] /\ dfirst = files /\ cut = {} /\ doper = {}
  /\ dpc = "done" /\ ds = {} /\ dzar = {} /\ mv = NoMove
  /\ dzs = [g \in Games |-> {}] /\ dfaults = {} /\ druns = DiskRuns

DirIdle ==
  /\ zf = [length |-> EoFixed, loc |-> [o \in {} |-> NoData], dir |-> <<>>, start |-> 0, eo |-> 0,
           comment |-> 0]
  /\ zpc = "error" /\ zmap = <<>> /\ zcent = 0 /\ zcomment = 0
  /\ zoffset = 0 /\ zcount = 0 /\ changed = FALSE
  /\ fetched = NoData /\ promise = <<>> /\ saves = 0

-----------------------------------------------------------------------------
FilesInit ==
  \/ SampleInit /\ DiskIdle /\ DirIdle
  \/ SampleIdle /\ DiskInit /\ DirIdle
  \/ SampleIdle /\ DiskIdle /\ DirInit

FilesNext ==
  \/ SampleNext /\ UNCHANGED <<diskVars, dirVars>>
  \/ DiskNext /\ UNCHANGED <<sampleVars, dirVars>>
  \/ DirNext /\ UNCHANGED <<sampleVars, diskVars>>

FilesSpec == FilesInit /\ [][FilesNext]_<<sampleVars, diskVars, dirVars>>

\* The state of the three parts is well formed: samples with distinct names, a
\* disk in motion that is there, a directory that is where it is looked for.
FilesTypeOK == SampleTypeOK /\ DiskTypeOK /\ DirTypeOK
=============================================================================
