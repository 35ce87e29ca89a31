---------------------------- MODULE ZipDirectory ----------------------------
(***************************************************************************)
(* What of a zip file the program reads, and what it writes: the search of *)
(* the central directory from the end of the file, the walk over the local *)
(* headers, the copy of an entry of another archive, and the layout that   *)
(* save() writes, with offsets kept in an unsigned.  A file is a map from  *)
(* offsets to local headers; a content is a name with compressed data,     *)
(* sizes and crc, which the two headers of an entry both tell.             *)
(***************************************************************************)
EXTENDS Naturals, Sequences, FiniteSets, SequencesExt

CONSTANTS
  Content,       \* the contents, each [csize, size, method, bits]
  LoFixed, CoFixed, EoFixed, DoFixed, DoSignature, \* ZIP_xO_FIXED
  Word,          \* 2^32: offsets and lengths are unsigned
  ReadBuffer,    \* ECD_READ_BUFFER_SIZE
  ReadBuffers,   \* the 8 of cent_read
  DirStart,      \* files other programs wrote
  MaxSaves, MaxEntries,
  NoData

\* compression methods, those without options together
Methods == {"store", "reduce", "implode", "deflate", "other"}

\* An entry of the directory, with its data when they are in memory, and the
\* local header of one; desc is the bit of the data descriptor, tail its length.
DirEntry == [content : Content, desc : BOOLEAN, bits : 0..3, extra : Nat, offset : Nat,
             data : Content \cup {NoData}]
LocalHeader == [content : Content, desc : BOOLEAN, bits : 0..3, extra : Nat, tail : Nat]

IsFile(f) ==
  /\ {f.length, f.start, f.eo, f.comment} \subseteq Nat
  /\ f.dir \in Seq(DirEntry) /\ \A i \in DOMAIN f.dir : f.dir[i].data = NoData
  /\ DOMAIN f.loc \subseteq Nat /\ \A o \in DOMAIN f.loc : f.loc[o] \in LocalHeader

ASSUME DirAssumption ==
  /\ \A c \in Content : /\ c.csize \in Nat /\ c.size \in Nat
                        /\ c.method \in Methods /\ c.bits \in 0..3
  /\ {LoFixed, CoFixed, EoFixed, DoFixed, DoSignature, ReadBuffer, Word} \subseteq Nat \ {0}
  /\ DoSignature < DoFixed
  /\ ReadBuffers \in Nat /\ MaxSaves \in Nat /\ MaxEntries \in Nat
  /\ NoData \notin Content
  /\ \A f \in DirStart : IsFile(f)

VARIABLES
  zf,      \* the file: [length, loc, dir, start, eo, comment]
  zpc,     \* closed, open, load, loaded, invalid, error
  zmap,    \* zip::map, a sequence of entries
  zcent,   \* info.offset_to_start_of_cent_dir
  zcomment, \* length of zipfile_comment
  zoffset, zcount, \* load(): where it is, and the headers it saw
  changed, \* flag.modify
  fetched, \* the last result of compressed_read without load
  promise, \* history: the contents the last save wrote
  saves

dirVars == <<zf, zpc, zmap, zcent, zcomment, zoffset, zcount, changed, fetched, promise, saves>>

-----------------------------------------------------------------------------
(* Opening.                                                                *)

\* The first length read from the end of the file.
FirstBuffer(length) ==
  IF length <= ReadBuffer THEN length ELSE ReadBuffer + (length % ReadBuffer)

Least(a, b) == IF a < b THEN a ELSE b

\* The length of the last buffer tried: it grows while below the limit.
LastBuffer(length) ==
  LET tried == {FirstBuffer(length) + n * ReadBuffer : n \in 0..ReadBuffers}
      stops == {b \in tried : b >= ReadBuffers * ReadBuffer \/ b >= length}
  IN Least(length, CHOOSE b \in stops : \A c \in stops : b <= c)

\* ecd_find_sig in the buffers that cent_read tries; no comment holds the
\* signature, so the record at f.eo is the only one.
ecd_find_sig(f, length) ==
  f.eo >= length - LastBuffer(length) /\ f.eo + EoFixed <= length

\* Where cent_read finds the central directory: it trusts the field, which is
\* an unsigned, and the length, which is one too.
cent_read(f) == ecd_find_sig(f, f.length % Word) /\ f.start % Word < f.length % Word

\* The loop of open() takes what has the signature: it finds the directory if
\* it is where the field says, and the record that follows.
DirectoryThere(f) == f.start < Word

ZipOpen ==
  /\ zpc = "closed"
  /\ IF cent_read(zf) /\ DirectoryThere(zf)
     THEN /\ zpc' = "open"
          /\ zmap' = zf.dir
          /\ zcent' = zf.start % Word
          /\ zcomment' = zf.comment
     ELSE zpc' = "invalid" /\ UNCHANGED <<zmap, zcent, zcomment>>
  /\ fetched' = NoData /\ changed' = FALSE
  /\ UNCHANGED <<zf, zoffset, zcount, promise, saves>>

-----------------------------------------------------------------------------
(* Loading: the walk from header to header, whatever their order.          *)

\* zip_entry::check_local, at the place the directory tells
check_local(e) ==
  /\ e.offset \in DOMAIN zf.loc
  /\ LET l == zf.loc[e.offset] IN l.content = e.content /\ l.desc = e.desc /\ l.bits = e.bits

\* zip_entry::load_local with room after the fixed header: the name and the
\* extra field, the data, and the data descriptor.  The descriptor without
\* a signature is known by what is left.
load_local(e, room) ==
  LET l == zf.loc[e.offset]
      left == room - l.extra - e.content.csize
  IN /\ room >= l.extra + e.content.csize
     /\ e.desc => IF left = DoFixed - DoSignature THEN l.tail = left
                  ELSE left >= DoFixed /\ l.tail = DoFixed

Offsets(P(_)) == {zmap[i].offset : i \in {i \in DOMAIN zmap : P(zmap[i].offset)}}
Minimum(S) == CHOOSE x \in S : \A y \in S : x <= y
\* The entry the loop chooses: the first of those with the least offset.
NextEntry == SelectInSeq(zmap, LAMBDA e : e.offset = Minimum(Offsets(LAMBDA o : o >= zoffset)))

LoadStarts ==
  /\ zpc = "open"
  /\ zpc' = "load"
  /\ zoffset' = 0 /\ zcount' = 0 /\ fetched' = NoData
  /\ UNCHANGED <<zf, zmap, zcent, zcomment, changed, promise, saves>>

\* Where the entry must end: at the next one, or at the central directory.
EndOffset(e) ==
  LET after == Offsets(LAMBDA o : o > e.offset) IN IF after = {} THEN zcent ELSE Minimum(after)

\* mutant: the walk does not move on
EntryStart(e) == e.offset

\* Where the walk goes on after an entry.
EntryEnd(e) ==
  LET l == zf.loc[e.offset]
  IN e.offset + LoFixed + l.extra + e.content.csize + (IF e.desc THEN l.tail ELSE 0)

\* A hole before the entry is skipped.
LoadEntry ==
  /\ zpc = "load"
  /\ zoffset < zcent /\ Offsets(LAMBDA o : o >= zoffset) # {}
  /\ LET i == NextEntry
         e == zmap[i]
         end == EndOffset(e)
     IN IF e.offset < zcent /\ end >= e.offset + LoFixed /\ check_local(e)
           /\ load_local(e, end - e.offset - LoFixed)
        THEN /\ zmap' = [zmap EXCEPT ![i].data = zf.loc[e.offset].content]
             /\ zoffset' = EntryEnd(e)
             /\ zcount' = zcount + 1
             /\ UNCHANGED zpc
        ELSE zpc' = "invalid" /\ UNCHANGED <<zmap, zoffset, zcount>>
  /\ UNCHANGED <<zf, zcent, zcomment, changed, fetched, promise, saves>>

\* mutant: the headers are not counted
LoadEndsUncounted ==
  /\ zpc = "load"
  /\ zoffset >= zcent \/ Offsets(LAMBDA o : o >= zoffset) = {}
  /\ zpc' = "loaded"
  /\ UNCHANGED <<zf, zmap, zcent, zcomment, zoffset, zcount, changed, fetched, promise, saves>>

DirLoadEnds ==
  /\ zpc = "load"
  /\ zoffset >= zcent \/ Offsets(LAMBDA o : o >= zoffset) = {}
  /\ zpc' = IF zcount = Len(zmap) THEN "loaded" ELSE "invalid"
  /\ UNCHANGED <<zf, zmap, zcent, zcomment, zoffset, zcount, changed, fetched, promise, saves>>

\* mutant: the data are sought after the extra field of the directory
compressed_read_central(e) ==
  IF e.data # NoData THEN e.data
  ELSE IF check_local(e) /\ zf.loc[e.offset].extra = e.extra THEN zf.loc[e.offset].content ELSE NoData

\* zip_entry::compressed_read: the data in memory, or those in the file after
\* the local header, with the extra field it tells.
compressed_read(e) ==
  IF e.data # NoData THEN e.data
  ELSE IF check_local(e) THEN zf.loc[e.offset].content ELSE NoData

\* An entry is read from an archive that is not loaded, as insert() does with
\* the archive it copies from.
Fetch(i) ==
  /\ zpc = "open" /\ fetched = NoData
  /\ fetched' = compressed_read(zmap[i])
  /\ zpc' = IF fetched' = NoData THEN "error" ELSE zpc
  /\ UNCHANGED <<zf, zmap, zcent, zcomment, zoffset, zcount, changed, promise, saves>>

-----------------------------------------------------------------------------
(* Changing and saving.                                                    *)

Deflates == <<"deflate6", "deflate9", "deflate3", "deflate1">>
Implodes == <<"implode_4kdict_2tree", "implode_8kdict_2tree", "implode_4kdict_3tree",
              "implode_8kdict_3tree">>

\* zip_entry::method_get: the code and the two option bits
method_get(c) ==
  CASE c.method = "deflate" -> Deflates[c.bits + 1]
    [] c.method = "implode" -> Implodes[c.bits + 1]
    [] OTHER -> c.method

\* mutant: the dictionary of an implode is written as the small one
set_small(m) ==
  IF m \in {"deflate1", "deflate3", "deflate6", "deflate9"}
  THEN CHOOSE b \in 0..3 : Deflates[b + 1] = m ELSE 0

\* The option bits that zip_entry::set writes for a method.
set_bits(m) ==
  CASE m \in {"deflate1", "implode_8kdict_3tree"} -> 3
    [] m \in {"deflate3", "implode_4kdict_3tree"} -> 2
    [] m \in {"deflate9", "implode_8kdict_2tree"} -> 1
    [] OTHER -> 0

Insertable(c) == method_get(c) # "other" /\ (method_get(c) = "store" => c.size = c.csize)

\* insert(): set() clears the other flags, and the extra fields.
Insert(c) ==
  /\ zpc = "loaded" /\ Len(zmap) < MaxEntries
  /\ IF Insertable(c)
     THEN /\ changed' = TRUE
          /\ zmap' = Append(zmap, [content |-> c, desc |-> FALSE, bits |-> set_bits(method_get(c)),
                                   extra |-> 0, offset |-> 0, data |-> c])
          /\ UNCHANGED zpc
     ELSE zpc' = "error" /\ UNCHANGED <<zmap, changed>>
  /\ UNCHANGED <<zf, zcent, zcomment, zoffset, zcount, fetched, promise, saves>>

Erase(i) ==
  /\ zpc = "loaded"
  /\ zmap' = RemoveAt(zmap, i) /\ changed' = TRUE
  /\ UNCHANGED <<zf, zpc, zcent, zcomment, zoffset, zcount, fetched, promise, saves>>

Sum(s) ==
  LET sum[n \in 0..Len(s)] == IF n = 0 THEN 0 ELSE sum[n - 1] + s[n] IN sum[Len(s)]
LocalLength(e) == LoFixed + e.content.csize
CentLength(e) == CoFixed + e.extra

\* save_local: where the header of the i-th entry goes
SavedOffset(i) == Sum([j \in 1..i - 1 |-> LocalLength(zmap[j])])

\* mutant: the directory keeps the offset the entry had
SavedEntryOld(i) == [zmap[i] EXCEPT !.desc = FALSE, !.data = NoData]

\* save_cent: an entry of the directory
SavedEntry(i) ==
  [zmap[i] EXCEPT !.desc = FALSE, !.offset = SavedOffset(i) % Word, !.data = NoData]

\* mutant: directories are not written
SavedSized ==
  LET kept == SelectSeq(zmap, LAMBDA e : e.content.size > 0)
      at(i) == Sum([j \in 1..i - 1 |-> LocalLength(kept[j])])
      start == at(Len(kept) + 1)
      eo == start + Sum([i \in DOMAIN kept |-> CentLength(kept[i])])
  IN [length |-> eo + EoFixed + zcomment,
      loc |-> [o \in {at(i) : i \in DOMAIN kept} |->
                 LET e == kept[CHOOSE i \in DOMAIN kept : at(i) = o]
                 IN [content |-> e.data, desc |-> FALSE, bits |-> e.bits, extra |-> 0, tail |-> 0]],
      dir |-> [i \in DOMAIN kept |->
                 [kept[i] EXCEPT !.desc = FALSE, !.offset = at(i) % Word, !.data = NoData]],
      start |-> start, eo |-> eo, comment |-> zcomment]

\* The file that save() writes: headers and data in the order of map, the
\* directory, its end with the comment.  The bit of the data descriptor is
\* cleared, the extra field of the directory kept, of the header dropped.
SavedFile ==
  LET start == SavedOffset(Len(zmap) + 1)
      eo == start + Sum([i \in DOMAIN zmap |-> CentLength(zmap[i])])
      At(o) == CHOOSE i \in DOMAIN zmap : SavedOffset(i) = o
  IN [length |-> eo + EoFixed + zcomment,
      loc |-> [o \in {SavedOffset(i) : i \in DOMAIN zmap} |->
                 [content |-> zmap[At(o)].data, desc |-> FALSE,
                  bits |-> zmap[At(o)].bits, extra |-> 0, tail |-> 0]],
      dir |-> [i \in DOMAIN zmap |-> SavedEntry(i)],
      start |-> start, eo |-> eo, comment |-> zcomment]

\* zip::save of an archive with a file in it; ZipFile models its calls.
Save ==
  /\ zpc = "loaded" /\ changed /\ saves < MaxSaves
  /\ \E i \in DOMAIN zmap : zmap[i].content.size > 0
  /\ zf' = SavedFile
  /\ promise' = [i \in DOMAIN zmap |-> zmap[i].data]
  /\ saves' = saves + 1
  /\ zpc' = "closed" /\ zmap' = <<>> /\ zcent' = 0 /\ zcomment' = 0
  /\ changed' = FALSE
  /\ UNCHANGED <<zoffset, zcount, fetched>>

-----------------------------------------------------------------------------
DirInit ==
  /\ zf \in DirStart
  /\ zpc = "closed" /\ zmap = <<>> /\ zcent = 0 /\ zcomment = 0
  /\ zoffset = 0 /\ zcount = 0 /\ changed = FALSE
  /\ fetched = NoData /\ promise = <<>> /\ saves = 0

DirNext ==
  \/ ZipOpen \/ LoadStarts \/ LoadEntry \/ DirLoadEnds \/ Save
  \/ \E i \in DOMAIN zmap : Fetch(i) \/ Erase(i)
  \/ \E c \in Content : Insert(c)

DirSpec == DirInit /\ [][DirNext]_dirVars

-----------------------------------------------------------------------------
(* Properties.                                                             *)

\* The state is well formed, and the directory is taken to be where it is,
\* although the field that tells is too short for it; the walk has seen no
\* entry twice.
DirTypeOK ==
  /\ zpc \in {"closed", "open", "load", "loaded", "invalid", "error"}
  /\ \A i \in DOMAIN zmap : zmap[i].data \in Content \cup {NoData}
  /\ zcent \in {0, zf.start} /\ zoffset \in Nat /\ zcount \in Nat
  /\ zpc = "load" => zcount <= Len(zmap)
  /\ changed \in BOOLEAN /\ saves \in 0..MaxSaves

JustLoaded == zpc = "loaded" /\ ~changed

\* the longest comment that the search finds whatever the length of the file
CommentFound(f) == f.comment + EoFixed <= ReadBuffers * ReadBuffer

\* What save() wrote, open() and load() accept, as long as the file fits the
\* unsigned and the comment is not longer than the search goes back: the
\* program never makes an archive unreadable to itself.
SavedIsReadable == saves > 0 /\ zf.length < Word /\ CommentFound(zf) => zpc # "invalid"

\* What is loaded after a save is what was saved, in its order, whatever the
\* length of the file: one that is too long is refused, never read amiss.
RoundTrip == JustLoaded /\ saves > 0 => [i \in DOMAIN zmap |-> zmap[i].data] = promise

\* Of an archive that load() accepts every entry has its data: no two entries
\* of the directory tell the same header.
EveryEntryLoaded == JustLoaded => \A i \in DOMAIN zmap : zmap[i].data = zmap[i].content

\* The place of an entry in the file, its data included.
Span(e) == e.offset..(e.offset + LoFixed + zf.loc[e.offset].extra + e.content.csize - 1)

\* Of an archive that load() accepts no entry shares a byte with another or
\* with the directory, although load() only walks from header to header.
LoadedDisjoint ==
  JustLoaded =>
    \A i \in DOMAIN zmap :
      /\ \A o \in Span(zmap[i]) : o < zcent
      /\ \A j \in DOMAIN zmap : j # i => Span(zmap[i]) \cap Span(zmap[j]) = {}

\* An entry copied from an archive that is only open is the one that load()
\* would have read: both find the data by what the local header tells.
SeekAgreesWithLoad ==
  JustLoaded =>
    \A i \in DOMAIN zmap : compressed_read([zmap[i] EXCEPT !.data = NoData]) = zmap[i].data

\* However often an entry is copied, its data are read with the options they
\* were compressed with: set() writes back what method_get() read.
MethodKept ==
  \A i \in DOMAIN zmap :
    zmap[i].content.method \in {"deflate", "implode"} => zmap[i].bits = zmap[i].content.bits

\* What save() writes is read back, the options of the compression included.
SavedIsRead == SavedIsReadable /\ RoundTrip /\ MethodKept

\* What load() accepts, whoever wrote it, is sound, and read the same way by both
\* ways to the data.
LoadedSound == EveryEntryLoaded /\ LoadedDisjoint /\ SeekAgreesWithLoad
=============================================================================
