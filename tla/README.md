# AdvanceSCAN: a verification of the rom manager

AdvanceSCAN keeps a collection of zip archives in order: it reads the romsets of
all the games from an information file, looks at the archives it finds in the
directories of its configuration, renames, copies and moves files between them,
and reports what is missing. One process, one thread; what makes it hard is that
it rewrites and deletes the user's files, and that it may be stopped, or fail,
between any two system calls. What it promises (`doc/advscan.d`): *"It's safe. In
all the zip operations any file removed or overwritten is saved in the
`rom_unknown` ..."* and *"AdvanceSCAN never deletes roms for safety"*.

## The system

| part | state | operations | hard behaviour | what makes it correct |
|---|---|---|---|---|
| zip archive (`zip.cc`) | flags open, read, modify; path; list of entries, each with its header and perhaps its data; the files on the disk | open, load, unload, reopen, insert, erase, rename, save | a save is write, close, delete, rename; every call may fail, a signal or a kill may come anywhere; headers read by open are compared later | what was saved is complete in some file at all times; a clean archive in memory is that of the disk |
| signal lock (`siglock.cc`) | handlers, the signal held back | lock, ignore, unlock | signals at any step | held back during a save, delivered after it |
| rom archive (`ziprom.cc`, class ziprom) | a zip, type, readonly | find, remove, move, add, rename, swap, each with a reject archive | names are compared without case, data by size and crc; each operation may overwrite in two archives | nothing overwritten is lost |
| set of archives (class ziparchive) | list of open archives, index by size and crc | open_and_insert, update, find, find_exclude | the index is filled once and never rebuilt; reject archives are changed in objects of their own | index and list cover what is on the disk |
| scan of a romset (`scan.cc` rom_scan) | rom_stat_t, archive, reject archive | search in four places, rename, copy, swap, remove, two saves | sets computed first, used while the archives change; two saves | no good rom is lost; the report is true; a second scan has nothing to do |
| whole run (`scan.cc` run, all_rom_*) | all of the above, containers of strays and usable games | load, scan, add, move, clean rom_unknown | phases rely on what former phases left in memory and on the disk | nothing is lost; what is found is used; a run may be repeated |
| samples (`scan.cc`, `sample.cc`) | an archive and its reject archive, sets of names | sample_scan, sample_move | by name only, and without a reject archive for what is overwritten | as for roms |
| disks (`disk.cc`, `file.cc`) | files by name and hash | disk_scan, disk_move, file_move | a move over devices is copy and remove; most failures of rename are ignored | one complete copy at any time |
| game database (`game.cc`, `rom.cc`) | games with sets of roms, samples, disks, links romof, sampleof, cloneof | load, merge of parents, filters, working subset | chains of parents, cycles, order of the merges | a rom belongs to one archive of a chain |
| reports (`scan.cc`, `game.cc`) | lists, counts and sums while they are made | --report, --report-file | three lists with a condition each; walks along romof through games without an archive | each game in one list, the sums agree, what a game depends on is named |
| equal, ident, advdiff (`scan.cc`, `diff.cc`, `gamediff.cc`) | a multiset of roms by crc and size; the part of a file tree still to visit | groups, identification, inclusion of romsets | groups cut out of one pass; files in directories in archives | nothing is left out |
| analysis (`analyze.cc`) | lists of words and crcs | text, garbage or binary | - | depends on the data only |
| options, configuration, phases (`scan.cc` run, `conf.cc`) | the options, the directories, the phase | read options and lines, check, go through the phases | what is checked depends on the options, what is written too | nothing is written that was not checked before the first removal |
| readers of the information file (`gamexml.cc`, `gameinfo.cc`, `lib/readinfo.c`) | the level, the game, rom and disk in progress | start, data and end handlers; a descent over tokens | text in pieces, elements of any depth, files cut off | the games are those the file says |
| expat | the unread end of a buffer, stacks of tags and groups, tables of entities and attributes | tokenize, give roles, call the handlers | a token over the end of a piece; entities in entities; a buffer that moves | the calls are nested, and do not depend on the pieces |
| output, getopt, snprintf | - | format | - | - |

`run()` in `scan.cc` builds the game database, loads every archive into a
`ziparchive`, scans, adds and moves them, reports, and cleans `rom_unknown`.
`rom_scan` works on one archive and its reject archive through `ziprom`, which
calls `zip`; `zip::save` takes the signal lock. An exception anywhere ends the
program in `main()`, without saving what is in memory.

## The modules

**`ZipFile`** is one archive object and its files (`zip.cc`, `siglock.cc`,
`ziprom::save`, `unload`). An operation in memory is one action; a save is one
action per system call (`SaveBegin` = fopen, `SaveWrite`, `SaveClose`,
`SaveRemove`, `SaveRename`, and each one's failure). `Signal` and `Kill` come
between any two of them, `Restart` is a new run. A file is its set of entries,
those with a data descriptor, and whether it is whole. `committed` is a history
variable: what the last save that deleted the old file promised. The signal lock
is not nested, as the code never nests it; a save of an empty archive is one
system call and takes no lock. That `unload()` is called with unsaved changes
never happens in `scan.cc` (every unload follows a save); `ReopenModified` lets it
happen, and shows what `reopen()` does: `close()` forgets the path.

**`AtomicArchive`** is what an archive promises: a content on the disk that
changes in one step at a save, and a view in memory.

**`RomZip`** has the operations of `ziprom` on two sequences of entries, archive
and reject archive, with names in several spellings and `file_compare` as
equality of the folded spelling.

**`RomScan`** is `rom_scan`: `Stat` computes `rom_stat_t`; one action for each
place where `rom_scan_add` finds a rom (`RenameFromBag`, `CopyFromSame`,
`TakeFromReject`, `CopyFromOther`), in the priority of the code; the removals;
`SaveZ` with the report, `SaveR`; failures, crashes, and a second run. The code
visits its sets by name, the model in any order. Undefined behaviour (an entry
used after `remove()` erased it) and the internal check are ends of their own.
What `analyze` says is a constant set of data.

**`RomSetContract`** has one operator: what a scan does to the data of the two
archives, names apart. `RomScan` is checked to keep it and `RomCollection` uses it
as its scan action, so that the two fit.

**`RomCollection`** is a whole run (`all_rom_load`, `all_rom_scan` with `rom_add`
and `rom_move`, `all_unknown_scan`, and `ziparchive`), an archive being the set of
its data. `disk` is the file system, `held` is `ziparchive::data`, `index` its
index; `work` is the archive and reject archive in progress, that reach disk and
`held` at different steps, as in the code. Assumed: `rom_unknown` is none of the
rom directories (the configuration does not check it; otherwise `update()` would
erase the archive in progress), its archives are writable, saves are atomic
(`ZipFile`), and files of the same name in `rom_unknown` do not occur (`RomScan` is
where they do). A rom twice in one game counts as not shared.

**`GameArchive`** is `gamearchive::load` once the file is parsed, and the filters.
The merge is one action per step of a walk along `romof` (roms and disks) or
`sampleof`, as its outcome must not depend on what has been merged already; games
are visited in the order of their names. The working subsets are recursive
functions over the tree of sons, in its order. `start` is what the file said, by
which the result is judged: `Chain` is the smallest set with a game that is
closed under parents.

**`SampleScan`** is `sample_scan` and `sample_move` on one archive and its reject
archive, with the operations of `RomZip`. `SampleStat` computes the sets,
`SampleAdd` copies a missing sample from an unknown file of the same base name,
`SampleRemove` and `SampleGarbageRemove` are the three loops of removals, then come
the two saves. An unknown archive is moved file by file, its reject archive saved
before it is deleted. `SampleStops` is a failure or a stop, `SampleRerun` the next run
on what it left.

**`DiskMove`** is `set_disk_load`, `all_disk_scan` and `file_move`. What a file holds
is the path it was first seen at, the hash of its header, its length, and how much
of that is there, so that a partial copy can be told from the file. `file_move` is
one action per system call: `RenameFile`, `RenameExdev`, or a failure that
is ignored; then `CopyRead`, `CopyWrite`, `CopyClose`, `RemoveSource`, and the undoing of a
copy. The `fclose` of `file_write` writes what is still buffered, and nobody looks at its result:
after `CopyCloseFails` the copy may be short and its source is removed all the same. `cut` is a
history variable, the paths of the files whose last copy ended so. `file_size` is an unsigned
(`Wrap`).

**`ZipDirectory`** is what `ZipFile` takes for granted: the layout. `cent_read`
searches the end of the file through aligned buffers, `ZipOpen` trusts what it
says only if the directory is there, `LoadEntry` walks from local header to local
header whatever the order of the directory, `check_local` and `load_local` compare
and measure; `compressed_read` is the other way to the data, used when an entry is
copied from an archive that is only open. `SavedFile` is what `save()` writes.
Offsets and lengths are kept modulo `Word`. A name, the crc and the sizes of an
entry are one `Content`; comments hold no signature.

**`Report`** is `report_rom_set`, `report_sample_set` and `report_disk_set`, one
action per game and list, and `report_rom_set_zip`, one action per step of the walk
upwards. **`Compare`** is `equal` (one pass over the multiset), `ident` (a walk
over a tree with directories, archives and files) and the inclusion by which
advdiff chooses. A rom is a name with a content, the crc and size that all three go by; the
multiset `rcb` has every named rom of every game, so that two names of one content in one game
are a group.

**`Command`** is the run as `main` sees it: `ReadOptions`, `ReadInfo`, `ReadLine` of the
configuration, `Check`, and a phase of `run()` each, which adds to `did` what it
reads, imports, writes or renames in which directory. What a phase does in there is
in the modules above.

**`GameReader`** has both readers. `XmlEvent` is a call of a handler of `gamexml.cc`
with its table of levels (`identify` is the tables `CONV1` to `CONV3`); the `Info` actions
are a token of `load_info` each, the calls of its functions being the pair of the
block it is in and what it awaits. Numbers wrap at `RWord`.

**`XmlTok`**, **`XmlRole`** and **`XmlParse`** are expat, as `load_xml` uses it. The
tokenizer is a table: each scanning function is a set of states that say what to do
with each type of character and what to answer when the text ends; `Scan` runs it.
A character is named by its byte type, and a keyword or a name is one character. The
roles are a table too, of the rows that can be reached without an external subset.
`XmlParse` is the parser, a record, and a function for each processor from a
parser and a text to the parser after it: `contentProcessor` with its entities, which are
parsed in their place, CDATA, attributes with defaults and normalization, the
prolog with declarations, the epilog, and `XML_Parse` with the rest of the buffer.
The one action is `load_xml`: read a piece, parse it.

**`Files`** has `SampleScan`, `DiskMove` and `ZipDirectory` in it, **`Information`** has
`Command`, `GameReader` and `GameArchive`: a behaviour is one of one part, while the others
rest, for these parts hand over results and never run at the same time.

`MCZipFile`, `MCRomScan`, `MCRomCollection`, `MCFiles` and `MCInformation` are the small instances
of their modules; `MCReports` has `Report` and `Compare` in it, and an instance of `ZipFile` where
calls fail only as `save()` handles it: a behaviour is one of one of the three. `MCXml` has the parser, and
beside it the tokenizer on texts and the role machine on declarations.

`ZipFileProofs`, `RomScanProofs` and `RomCollectionProofs` hold the proofs about the modules they
are named after, `FilesProofs` and `InformationProofs` those about the parts of `Files` and
`Information`, and about the parts together, `ReportsProofs` those about `Report` and `Compare`.
`RomZipProofs` has the lemmas about the operators of `RomZip`, which both `RomScanProofs` and
`FilesProofs` use; `Iteration` those about functions that are defined by recursion: sets found
step by step, and sums over a set.

In the modules, the operators marked *mutant* are plausible bugs, never used by the
specifications; substituted for the definition after them they violate the
property they are listed with in `PROJECT.json`.

## The runs

Deadlock is not checked: a program ends, and runs are bounded (`MaxRuns`).

| run | bounds | what it shows |
|---|---|---|
| `ZipFileFaults` | two roms and a directory, 2 runs; writes, deletions and renames may fail, kills, signals | `Recoverable`: what was saved is complete in the archive, the temporary file or an orphan at any moment. `NothingHalfSaved`: without orphans it is in the archive. `CleanIsOnDisk`: an archive without changes is what the disk holds. `FilesReplacedWhole`: a file gives way to a complete one only |
| `RomScan` | archives of up to 3 entries over three names and data with reject archives of up to 2, all operations; archives of up to 2 with text, garbage and an undumped rom, every set of operations and read-only ones; 2 runs | `FilesKept`: a scan that ends has lost no file (`KeptWhenDone`), and one that stops anywhere no good rom (`GoodKept`). `ReportTrue`, `KeepsContract`, `Settled` (a second scan changes nothing). `TypeOK`: names stay distinct, as they are in all these archives at the start, and the internal check then never fails |
| `RomCollection` | two games sharing a rom, one stray archive, up to 3 files on the disk, an import, 3 sets of operations, read-only archives, 2 runs | `NothingLost`, `IndexComplete`, `HeldIsDisk`. `Completed`, what a whole run brings about: `AllFixed`, `AllAdded`, `AllMoved`, and `UnknownIsRest` |
| `Files` (samples) | archives of up to 2 files with reject archives of one, seven sets of operations, known and unknown, read-only; 2 runs | `SamplesKept`: a finished run has every file somewhere, but garbage (`KeptAtEnd`), no sample that was there is lost even midway (`SamplesStay`), an unknown archive is deleted only once its files are saved (`MovedSafely`). `SamplesDone`: the report is true (`SampleReportTrue`), what the archive has under another directory is used (`SampleFound`), a second run changes nothing (`SampleSettled`) |
| `Files` (disks) | two directories on two file systems and `disk_unknown`, up to 2 files anywhere or one name in all of them, sound, damaged, empty or too long; every call may fail, `fclose` unnoticed, kills; 2 runs | `DiskKept`: a file that fits the unsigned, that no other comes to overwrite and whose copy no `fclose` cut short, is whole somewhere at any moment. `DisksInPlace`: without failures unknown and damaged files are away, and nothing is there in part but what an `fclose` of the run before cut (`AllInPlace`), wanted ones are not (`WantedStays`), and the report names those that are there (`ReportedIsThere`, `FoundIsReported`) |
| `Files` (zip) | files of other programs with two entries in any order, listed twice or not at all, holes, extra fields, descriptors with and without signature, trailing bytes, comments; 2 saves of up to 3 entries; `Word` 36, buffers of 4 | `SavedIsRead`: what save wrote, open and load accept (`SavedIsReadable`) and read as it was saved (`RoundTrip`, `MethodKept`). `LoadedSound`: of what load accepts each entry has its data (`EveryEntryLoaded`), no two share a byte (`LoadedDisjoint`), and both ways to the data agree (`SeekAgreesWithLoad`). In `FilesTypeOK`, `DirTypeOK`: the directory is read from where it begins, and the walk counts no more headers than it has entries |
| `Reports` | three games with any parents (but themselves), filters, archives; two games with every combination of needs and archives that matter, sums modulo 4; files of up to three games of up to two names over three contents; a tree with a directory, an archive, a file, a hidden directory | `ListsTrue`: each game that needs something is in one list (`OneList`), and the sums are over exactly those (`SizesAddUp`, `ZipSizeReal`). `Dependencies`: the parents named are those that are missing or preliminary (`MissingTrue`, `PreliminaryTrue`), and --report-file says what --report does (`ReportsAgree`). `NothingLeftOut`: nor do equal, ident and advdiff leave anything out (`GroupsComplete`, `IdentComplete`, `DiffCovers`). `Reported`: the walk ends unless parents go in a circle |
| `Reports` (archive) | two roms and a directory, no data descriptors, 3 runs; only writes and deletions fail, signals; fair saves | `SavesAtomically`: the refinement of `AtomicArchive`. `SignalDelivered`. `NoFalseDamage`: no sound archive is refused |
| `Information` (options) | 25 configurations, with lines missing, twice or wrong; 19 combinations of options; directories missing or not writable; rom directories below an import | `DirectoriesKept`: only directories that were given and can be written are written (`WritesChecked`), rom directories that are imports are only read (`ImportOnlyRead`), --print-only writes no archive (`PrintOnlyWritesNothing`) and needs no permission (`SimulationNeedsNoPermission`) |
| `Information` (readers) | games of two parts of each kind in any order, followed by a second game; other root elements; files cut off anywhere; widths of 4 bits | `GamesRead`: the errors "invalid state" never come (`NoInvalidState`); the games, and the refusals, are what the file says by the positions of its elements (`XmlRead`) or brackets (`InfoRead`) |
| `Information` (games) | up to 3 games with any parents, also missing ones, themselves, or circles, and any distribution of one file; for the filters every forest of 3 games with any tops of trees resources, and of 4 games with at most one, any of them working | `KeptInChain`: merging never leaves a file in no archive of the chain. `GamesComplete`: it leaves exactly what no game above has (`Merged`), a game kept by a filter finds its roms in the archives kept (`Whole`), and the subsets are those documented (`WorkingMeansNeeded`, `OneOfFamily`). `Terminates` |
| `Xml` (files) | five files with something of everything and each with one character replaced by any of 12; every element of two declarations of attributes; pieces of 1, 2, 5 characters or the rest, in any mixture | `ChunksDoNotMatter`: the handlers get the same whatever the pieces. `EventsNested`: they get nested calls, entities are documents of their own, and no open element has its name in the buffer the next call overwrites (`RawNamesStored`). In `DeclarationsKept`, `AttributesAsDeclared`: values are normalized and defaulted by the first declaration that counts |
| `Xml` (texts, declarations) | every text of up to 3 characters, or 3 after one of 7 beginnings, for each scanner; every declaration of up to 12 tokens | `TokensStable`: more input never changes a token that was answered for certain. In `DeclarationsKept`, `GrammarKept`: the role machine accepts the declarations of the XML grammar and refuses at the first token that none has |

Two games suffice for a rom that is unique, shared, or elsewhere; three entries
for a bad rom, its replacement under another name and a file in the way; two runs
for what one run leaves to the next; two disks of one name for a file in the way of
another, two file systems for both ways to move one. In `ZipDirectory` the numbers
are small so that every alignment of the record to a buffer, and every carry over
`Word`, occurs. Twelve tokens reach groups two deep with a connector in each.

The fairness is weak fairness of the steps of a save, of a load of games and of a
report: each is straight-line code of one thread that waits for nothing, each call of
which returns. A walk that meets a circle without its first game goes on forever in the
code, in the load and in the report; the start of `Terminates` has none, and `Reported`
is about games that have none above them.

The other runs each show a disagreement between the code and its documentation;
they are expected to be violated.

| run | the code |
|---|---|
| `ZipFileStreamed` | `save_local()` clears the data descriptor bit in the header it writes, not in the entry in memory: the next `load()`, or copy from the archive, in the same run compares the two and refuses the archive just saved |
| `RomScanCrash` | `z.save()` before `reject.save()`: in between removed files exist in memory only. `rom_move` has it the other way round |
| `RomScanDangling` | names that differ by case: `add()` erases the entry it is about to copy |
| `PrintOnly` | an archive or a disk that cannot be read is renamed to `.damaged` while it is loaded, with `--print-only` too |
| `DiskAborts` | the failure of a rename is ignored, but for the device: a damaged disk that cannot be renamed stays under its name and the run goes on, where the documentation says that the program aborts (`doc/advscan.d:333`). Damaged archives go through the same `file_move` |

Other things met that have no run:

* Archives. The result of `fclose()` in `save()` is ignored, and the old archive
  deleted all the same (`zip.cc:1128`). Archives of 4 GB or more are refused, and a
  comment longer than 32746 bytes is found or not by the alignment of the file.
  `insert` drops the flags of an entry but for the method. `ZIP_METHOD_LZMA` is 0x0F,
  where the format has 14.
* Roms. `move()` erases a file of the same name in the reject archive
  (`ziprom.cc:143`). An archive with two entries of one name may end in the internal
  check of `rom_scan_add`, or be reported good when the removal by name took the good
  one (the distinctness of names is a premise of the runs). Shared roms alone do not make
  an archive (`scan.cc:335`, `doc/advscan.d:123`). `rom_unknown` keeps what
  `rom_import` has (`scan.cc:794`, `doc/advscan.d:299`). If `rom_new` is not one of the rom
  directories, an archive already there is overwritten by `rom_add` and nothing saved,
  which is why `SafeCollection` assumes it is one. `rom_unknown` or `rom_new` below
  `rom_import` is read twice. Garbage is known by name too, where the
  documentation says size and crc.
* Disks. The result of the `fclose` of `file_write` is ignored and the source of a move
  removed (`file.cc:131`, `file.cc:267`): on a full disk the file may be lost. A file of
  4 GB or more is cut when it is moved over devices, and an empty one cannot be moved.
  A name that is taken in `disk_unknown`, or with `.damaged`, is overwritten. Only the
  first game that names a disk has it counted, and `has_good_disk` compares names with
  case where the search does not.
* Games. Circles of `romof` that do not contain the game a walk starts at keep `load`
  from ending; a circle of two games, which `load` survives, does so to the report
  (`scan.cc:1567`) and to `has_working_clone`. No emulator writes such a file. The
  subsets follow `romof` only: a filter may drop the game a kept game's samples were
  merged into (`Whole` is about roms). The report may name as missing a parent that
  needs no archive or was filtered out. `good_disk_size` adds a disk found twice, modulo 2^32
  and outside the sums that are checked; `good_rom_size` takes the least.
* Readers. `isbios="no"`, which the DTD supplies after the attributes given, clears the
  resource that `runnable="no"` made. Numbers wrap at 2^32. `info_skip_value` calls
  itself without a bound. `level[].tag` points into a buffer of expat that a long
  name may move.
* Options. `--print-only` with an operation still wants a `rom_unknown` given. An import directory
  equal up to case to a rom directory is dropped; the model compares directories up to case
  only, so two spellings of one by links or `..` are outside of it. A missing `rom_import` ends runs for samples and
  disks too. A configuration file that is a directory is read forever. The usage says
  `-b` where the code has `-l`.
* XML. After an external identifier or a parameter entity a reference to an undefined
  entity is skipped, and after a parameter entity declarations do not count unless
  the document is standalone. The second byte of a character of two is not looked at
  in names. The error may be another one when the file is cut elsewhere, and a line
  end may be counted twice; that there is one does not change.

## The proofs

For all values of the constants, under the assumptions named in the modules and the
hypotheses named here, which every start of the runs fulfils unless the run is the one
that shows what happens without. Each rests on an inductive invariant. These were checked
by TLC on the instances of the runs before they were proved, but for the parts that TLC
cannot evaluate: a quantifier over all functions that are a sum (`SizesRight`, `ZipsRight`)
and one over all values (`AtMostOne`).

**`ZipFileProofs`.** `TypeCorrect`; `Durability` (`Recoverable`), `NeverHalfSaved` and
`ReplacedOnlyWhole` (`FilesReplacedWhole`), all if `"close"` is not among the faults: what
`fclose` cannot flush is lost, the code does not look. `CleanOnDisk` (`CleanIsOnDisk`), whatever
fails. `NeverFalselyDamaged` (`NoFalseDamage`), if there are no data descriptors, which are
what `ZipFileStreamed` shows, and no archive is unloaded with changes, as in `scan.cc`.
`Refinement` (of `AtomicArchive`), if faults are those that `save()` handles.
`Recoverable` is not inductive: one has to know that the temporary file has the entries
of `map` from its first byte and is whole after `SaveClose` (`TempFaithful`), and in which
stage of the save the promise lies in the archive and in which in the temporary file
(`PromiseKept`, `PromiseAtPath`, `PromiseMoved`). That only a kill or a failed rename leaves a
temporary file rests on the lock (`LockInv`).

**`FilesProofs`, the layout of a zip file.** `LoadedIsSound` (`LoadedSound`), for files of any program. `LoadInv`
says of the entries that the walk has been at that each was found at a header of its own
and ends before the next one. That these are all of them is not said by any check of
the code: the walk counts as many headers as there are entries, with distinct entries
at each, so by the pigeonhole it was at every one. `SavedIsReadBack` (`SavedIsRead`), if the
options in a directory met are those the data were compressed with (`OwnBits`; `save()`
writes its own). `LayoutInv` has the file laid out entry after entry, and the walk at the
header of the (`zcount` + 1)-th of them; that the last one ends where the directory begins
is a sum over all entries (`SumIs`, `SavedOffsets`). `DirWellFormed` (`DirTypeOK`).

**`RomScanProofs`.** `ScanKeepsFiles` (`FilesKept`), `ScanReportsTrue` (`ReportTrue`),
`ScanKeepsContract` (`KeepsContract`), `ScanSettles` (`Settled`), `ScanWellFormed` (`TypeOK`, with it that the
internal check of `rom_scan_add` never fails), if the archives found have no two files of
one name (`DistinctStart`; what they lead to is above). `ScanInv`: the sets of `rom_stat_t`
are exactly what is missing, bad and stray in the archive at every step, although they are
computed once and then worked off (`StatInv`); each file of the start is in its archive, or
where no later step overwrites it: in its place as a rom, or in the reject archive
under a name that no file still to be moved has (`Safe`, `Pending`); what a phase has
finished stays finished (`PhaseInv`), which is why a second scan finds nothing (`CleanInv`).

**`RomZipProofs`.** What `find`, `remove`, `move`, `add`, `rename` and `swap` do to the entries of the two
archives, as sets, and that they keep names distinct.

**`RomCollectionProofs`.** `TypeCorrect`; `HeldCorrect` (`HeldIsDisk`); `IndexCorrect` (`IndexComplete`);
`SafeCollection` (`NothingLost`) and `CompleteCollection` (`Completed`), if `rom_new` is a rom directory.
`HeldIsDisk` holds between archives only; the invariant under it says what differs while one
is in progress. `NothingLost` needs two more: `WorkKept`, what leaves an archive is in
`work` or saved already, through the two orders of saves; and `Archived`, every archive of
a game that can be written was scanned and counts as usable, so that an archive that
`rom_add` creates takes the place of none with data. `Completed` says what a run has done
when it ends, so each phase needs an invariant that the later ones keep: `FixedInv`, what a
scanned game lacks is nowhere; `AddedInv`, of a game without archive nothing can be found;
`MovedInv`, an archive of no game is in the list of those to move, or in `work`, or gone;
`RestInv`, what `all_unknown_scan` has been at has nothing of the archives.

**`FilesProofs`, samples.** `NoSampleLost` (`SamplesKept`), `SamplesFoundAndSettled` (`SamplesDone`) and
`SamplesWellFormed` (`SampleTypeOK`), if names are distinct (`DistinctSamples`). As for roms,
but a sample that is copied overwrites nothing: it was missing, and its name is not that
of another.

**`FilesProofs`, disks.** `DisksKept` (`DiskKept`), whatever call fails, of all disks but those whose copy
an unnoticed failure of `fclose` cut (`cut`); `DiskWellFormed` (`DiskTypeOK`);
`DisksStayInPlace` (`DisksInPlace`), if the files the first run finds are whole and those named
`.damaged` are damaged (`SoundStart`). `AsideInv`: a file no other gives way to is at its path or
at one of the two it may be moved to; between write and remove it is at both
(`MoveInv`). `HalfInv`: what is half written is a copy of a file that is still at its source, or that is in `cut`.

**`FilesProofs`, together.** `FilesWellFormed` (`FilesTypeOK`): two parts rest and have no step
(`SampleRests`, `DiskRests`, `DirRests`), the third keeps its invariant (`FilesInv`).

**`InformationProofs`, games.** `KeptCorrect` (`KeptInChain`) and `GamesCorrect` (`GamesComplete`, with
`MergedCorrect` for its part `Merged`), circles, missing parents and games that are their own
parents included. `KeptInChain` becomes inductive with `WalkInChain`: the game a walk looks
at is in the chain of the game it reduces, and is another one, so what is removed stays in
it, and chains are transitive. `Merged` needs that the order of the games does not matter: a
game reduced before the one below it has lost only what is in games above, which are above
both (`WalkInv`, `ReducedInv`). What the filters keep: the marks are recursive functions to the
depth of the tree of sons, which is as deep as there are games, and they reach exactly the
games whose chain has the root (`WorkComputed`, `ParentComputed`); the sets they leave are
closed upwards, so a chain of a game that is kept is kept, and its roms are in it (`KeptUp`,
`WholeFromInv`); of a family the first working game in the order of the walk is the one
that stays (`FamilyHasOne`). `Whole`, `WorkingMeansNeeded` and `OneOfFamily` are stated of files
where only resources are above resources (`Layered`), and, where a circle would make them
false, of chains without one (`Grounded`).

**`InformationProofs`, options and configuration.** `DirectoriesChecked` (`DirectoriesKept`), for all options,
all configuration files and all trees of finitely many directories. What the lines say of a
tag is what was read of it so far (`LineInv`); once `Check` has passed, every access in `did` is
one of the phase that made it, to a directory of a tag that this phase uses and that was
found to be good for it (`AccessInv`); a refused run has made none (`RefusedInv`). That the import
trees which remain exclude the rom directories is a set found level by level (`Tree`).

**`InformationProofs`, readers.** `ReaderWellFormed` (`ReaderTypeOK`) and `ReaderNeverLost` (`NoInvalidState`), for every
file of either format, if expat reports no end of an element before its start
(`ReaderAssumption`, which `EventsNested` is about). `HandlerInv`: each level above the limit knows the
function that its tags select, and as long as a level of a game, a rom or a disk is open,
that game, rom or disk is in progress. An attribute is an element of its own between two
calls of expat, so the invariant is shown for each of them in turn by the least number for
which it would fail. `BlockInv` is the same for `load_info`.

**`InformationProofs`, together.** `InformationWellFormed` (`InformationTypeOK`), as `FilesWellFormed`.

**`ReportsProofs`, reports.** `ListsCorrect` (`ListsTrue`) and `DependenciesCorrect` (`Dependencies`). `ReportInv`: each list has
the games its condition selects among those its loop has come to (`ListedRight`), and each
sum is that of those games, modulo the width of an unsigned (`SizesRight`, `ZipsRight`); the
conditions exclude each other and one of them holds (`OneListFromInv`). That a good archive
counts needs that no archive has size 0: it has its directory at least. `LineInv`: what was
printed is true, and what is true was printed but for what is still above on the walk
upwards; that the walk passes every game above is a claim on the smallest set closed
under parents (`UpFrom`). The number of steps is bounded by the games of the tree (`CountUp`).

**`ReportsProofs`, comparisons.** `IdentCorrect` (`IdentComplete`), `DiffCorrect` (`DiffCovers`), and `ComparisonsCorrect`
(`NothingLeftOut`, which has both and `GroupsComplete`), for all information files, all forests and all
trees with links back. `IdentInv`: there is a set of nodes that were visited, what is below them
is visited or still to do, and what was printed is what they are; when nothing is to do it
has every node that can be reached. `DiffFromInv`: a content of the new file that the old has not
belongs, on a shortest chain of games, to a topmost game that differs, which is printed.
`EqualInv`: the multiset has each named rom once and is sorted by what makes roms equal, so the
equal ones of what is left are in front, and the groups that were cut off are whole (`RcbSorted`, `FrontGroup`).

Recursion. What a `RECURSIVE` operator computes is out of the prover's reach, and the
induction theorems of the library take an operator. A recursive function, such as the
sums of `ZipDirectory`, can be reasoned about all the same by the least number for which a
claim fails (`MinimumOf`, from `NatLessThanWellFounded` and `WFMin`); `Iteration` does so once for
sets that are found level by level, which are complete after as many levels as there are
elements, and for sums over a finite set, by a smallest set for which a claim fails.

Only model-checked: expat (`XmlTypeOK`, `ChunksDoNotMatter`, `EventsNested`, `DeclarationsKept`,
`TokensStable`), whose modules use `RECURSIVE` operators; `XmlRead` and `InfoRead`, the parts of
`GamesRead` that compare the result with what a whole file says, as both sides are folds over a
sequence of any length; and liveness (`SignalDelivered`, `Terminates`, `Reported`), which the
prover cannot do.

## Not modelled

Not modelled:

* `analyze.cc`: what a file is taken for is a function of its name, size and crc
  with tables of data; it is a constant of `RomScan` and `SampleScan`.
* The text of the configuration file (`token.cc`), of the `.info` file before it is cut
  into tokens, and of the options (`getopt.c`): character by character work without
  state that outlives it.
* `output.cc` and the wording of every report; `snprintf.c`.
* Of expat: namespaces, external entities and the external subset, UTF-16, the
  handlers that are never set, suspension, the hash tables and the failures of
  allocations (the program sets none of them going or ends at the first).
* The calls of the operating system below a file: directories are read as sets.

What is left to prove is `XmlRead` and `InfoRead`, with an invariant that says of every beginning
of a file what the reader holds after it; and expat, once its `RECURSIVE` operators are
written as recursive functions.
