------------------------------ MODULE ZipStream ------------------------------
(***************************************************************************)
(* The zip reader: an archive that comes as a stream of unknown pieces is   *)
(* read from its local headers alone, each selected entry into a part file  *)
(* that is renamed to its place when its payload was whole.                 *)
(*                                                                          *)
(* The stream is a sequence of items: a signature, a header with its name   *)
(* and extra field, a byte of a payload, a word of a data descriptor.  A    *)
(* byte of a deflated payload is what it makes the decompressor put out: a  *)
(* number of bytes, kept in "outs" (all 1 for a stored entry).  The pipe    *)
(* that feeds the stream is ArchivePipe, the backup taken of files that are *)
(* overwritten ArchiveBackup.                                               *)
(***************************************************************************)
EXTENDS Naturals, Sequences, SequencesExt

CONSTANTS
  ZipArchives,       \* sequences of entries, as a zip writer may write them
  Selections,     \* [extract, strip]: extractPrefix and stripPrefix of a request
  OldFiles,       \* sets of paths that are there before
  ZipChunk,       \* ZIP_STREAM_BUF_SIZE: the most one read of the pipe returns
  Window          \* TINFL_LZ_DICT_SIZE: the decompressor's output buffer

ASSUME ZipAssumption == ZipChunk \in Nat \ {0} /\ Window \in Nat \ {0}

VARIABLES
  archive, selection, backup,   \* what is extracted, how, and whether a backup is kept
  input,                        \* the stream: items, position and end of the buffer
  parser,                       \* where the parser is, in which entry
  folder,                       \* target folder: files, dirs, part file; saved: the
                                \* files and dirs of the backup's "old"
  zipCancel,                    \* g_job.cancel
  zipResult, blame,             \* how it ended; history: what outside made it fail
  originals                         \* history: the files that were there before

zipVars ==
  <<archive, selection, backup, input, parser, folder, zipCancel, zipResult, blame, originals>>

Max32 == 1000000   \* 0xffffffff in a header, UINT64_MAX in an entry
Misread == Max32 + 1

Total(outs) == FoldSeq(+, 0, outs)

----------------------------------------------------------------------------
(* What a writer puts into the stream.  An entry: name, a sequence of path  *)
(* segments, the last one empty for a directory; method; encrypted; descr,  *)
(* sizes follow in a data descriptor; signed, the descriptor has its        *)
(* signature; zip64: "no", "version" (of the header) or "sizes"; extra, the *)
(* zip64 field is there; outs; lie, added to the size it states.            *)

Item(kind, k, n) == [kind |-> kind, entry |-> k, n |-> n]

SizeWords(e, n) == IF e.zip64 = "no" THEN <<n>> ELSE <<n, 0>>

Descriptor(e, k) ==
  LET words == <<7>> \o SizeWords(e, Len(e.outs)) \o SizeWords(e, Total(e.outs) + e.lie)
  IN (IF e.signed THEN <<Item("dsig", k, 0)>> ELSE <<>>)
       \o [i \in 1 .. Len(words) |-> Item("word", k, words[i])]

EntryItems(e, k) ==
  <<Item("local", k, 0), Item("header", k, 0)>>
    \o [i \in 1 .. Len(e.outs) |-> Item("data", k, i)]
    \o (IF e.descr THEN Descriptor(e, k) ELSE <<>>)

Stream(a) ==
  FlattenSeq([k \in 1 .. Len(a) |-> EntryItems(a[k], k)])
    \o <<Item("central", 0, 0), Item("rest", 0, 0)>>

----------------------------------------------------------------------------
(* Pure parts of the reader.                                                *)

(* zip_normalize_path_bytes: no absolute path, no "." or "..", empty        *)
(* segments dropped, something must be left.                                *)
Segments(name) == SelectSeq(name, LAMBDA s : s # "")
SafeName(name) ==
  /\ name[1] # "" /\ Segments(name) # <<>>
  /\ \A i \in 1 .. Len(name) : name[i] \notin {".", ".."}
IsDirName(name) == Last(name) = ""

(* zip_parse_zip64_extra and the rest of zip_read_local_entry: sizes of an  *)
(* entry, Max32 where they are not known.                                   *)
StatedSize(e, n) ==
  IF e.descr THEN Max32
  ELSE IF e.zip64 = "sizes" /\ ~e.extra THEN Max32 ELSE n
CompSize(e)   == StatedSize(e, Len(e.outs))
UncompSize(e) == StatedSize(e, Total(e.outs) + e.lie)
SizesMissing(e) == ~e.descr /\ (CompSize(e) = Max32 \/ UncompSize(e) = Max32)

(* Mutant: only the sizes make a descriptor wide, not the version. *)
WideBySizes(e) == e.zip64 = "sizes"

(* descriptor_zip64 *)
Wide(e) == e.zip64 = "sizes" \/ (e.zip64 = "version" /\ e.descr)

(* zip_has_prefix, zip_after_prefix, zip_target_path *)
Under(p, prefix) == IsPrefix(prefix, p)
Selected(e) ==
  LET p == Segments(e.name) IN Under(p, selection.extract) /\ Under(p, selection.strip)
Relative(e) ==
  LET drop == IF selection.strip # <<>> THEN Len(selection.strip) ELSE Len(selection.extract)
  IN SubSeq(Segments(e.name), drop + 1, Len(Segments(e.name)))

(* The folders on the way to a path. *)
Above(p) == Prefixes(p) \ {p}

(* mkdirs: EEXIST is good, whatever exists, but nothing can be made in it   *)
(* when it is a file.                                                       *)
CanMakeDirs(p) == \A q \in Prefixes(p) : q \in DOMAIN folder.files => q = p
WithDirs(f, p) == [f EXCEPT !.dirs = @ \cup (Prefixes(p) \ DOMAIN f.files)]

(* One call of tinfl_decompress: from `done' bytes of input and `total' of  *)
(* output on, with `avail' more of input, until the window is full.  A byte *)
(* that was taken in may still have to be put out.                          *)
Decompress(outs, done, total, avail) ==
  LET produced(j) == Total(SubSeq(outs, 1, j))
      limit == total + (Window - (total % Window))
      last  == IF done + avail < Len(outs) THEN done + avail ELSE Len(outs)
      taken == CHOOSE j \in done .. last :
                 /\ \A i \in done .. j - 1 : produced(i) <= limit
                 /\ j = last \/ produced(j) > limit
  IN [taken |-> taken,
      total |-> IF produced(taken) < limit THEN produced(taken) ELSE limit,
      status |-> IF produced(taken) > limit THEN "has_more_output"
                 ELSE IF taken = Len(outs) THEN "done" ELSE "needs_more_input"]

----------------------------------------------------------------------------
NewParser == [pc |-> "sig", entry |-> 0, out |-> FALSE, left |-> 0, read |-> 0,
              total |-> 0, words |-> <<>>, extracted |-> 0]

Original == <<0, 0>>   \* the content of a file from before, else <<entry, bytes>>

(* The target folder was there, and is backed up, or it was made empty.      *)
ZipInit ==
  /\ archive \in ZipArchives /\ selection \in Selections /\ zipCancel = FALSE
  /\ backup \in BOOLEAN
  /\ \E old \in OldFiles :
       /\ old # {} => backup
       /\ originals = old
       /\ folder = [files |-> [p \in old |-> Original],
                    dirs |-> {<<>>} \cup UNION {Above(p) : p \in old},
                    part |-> <<>>, saved |-> [files |-> <<>>, dirs |-> {<<>>}]]
  /\ input = [items |-> Stream(archive), pos |-> 0, end |-> 0]
  /\ parser = NewParser /\ zipResult = "none" /\ blame = "nobody"

cur == archive[parser.entry]

Reading == {"sig", "header", "skip", "store", "inflate", "dsig", "words"}

(* zip_stream_error on the way out: the part file is unlinked, and the rest  *)
(* of the folder stays as it is now.                                        *)
FailedAfter(why, f) ==
  /\ zipResult' = "failed"
  /\ blame' = why
  /\ parser' = [parser EXCEPT !.pc = "over"]
  /\ folder' = [f EXCEPT !.part = <<>>]
  /\ UNCHANGED <<archive, selection, backup, input, zipCancel, originals>>
Failed(why) == FailedAfter(why, folder)

Same == UNCHANGED <<archive, selection, backup, zipCancel, zipResult, blame, originals>>

(* zip_stream_fill *)
NeedsFill == parser.pc \in Reading \cup {"drain"} /\ input.pos = input.end
             /\ ~(parser.pc \in {"skip", "store"} /\ parser.left = 0)
FillBuffer ==
  /\ NeedsFill /\ ~zipCancel
  /\ \E n \in 1 .. ZipChunk :
       /\ input.end + n <= Len(input.items)
       /\ input' = [input EXCEPT !.end = @ + n]
  /\ UNCHANGED <<parser, folder>> /\ Same

(* The stream ends, or the pipe reports an error: "short zip data". *)
FillFails ==
  /\ NeedsFill /\ parser.pc # "drain"
  /\ Failed(IF zipCancel THEN "cancel" ELSE "stream")

Available == input.pos < input.end
ItemHere == input.items[input.pos + 1]
Advance(n) == input' = [input EXCEPT !.pos = @ + n]

(* zip_process_archive: the next signature. *)
ReadSignature ==
  /\ parser.pc = "sig" /\ Available
  /\ CASE zipCancel -> Failed("cancel")
       [] ~zipCancel /\ ItemHere.kind = "local" ->
            /\ Advance(1) /\ parser' = [parser EXCEPT !.pc = "header"]
            /\ UNCHANGED folder /\ Same
       [] ~zipCancel /\ ItemHere.kind = "central" ->
            /\ Advance(1) /\ parser' = [parser EXCEPT !.pc = "drain"]
            /\ UNCHANGED folder /\ Same
       [] OTHER -> Failed("nobody")

(* zip_read_local_entry *)
ReadHeader ==
  /\ parser.pc = "header" /\ Available
  /\ LET h == archive[ItemHere.entry]
     IN IF ItemHere.kind # "header" \/ ~SafeName(h.name) \/ SizesMissing(h)
          THEN Failed("nobody")
          ELSE /\ Advance(1)
               /\ parser' = [parser EXCEPT !.pc = "entry", !.entry = ItemHere.entry]
               /\ UNCHANGED folder /\ Same

(* zip_skip_entry_payload: a deflated entry whose size comes after it is    *)
(* decompressed to nowhere.                                                 *)
SkipPayload ==
  /\ IF cur.descr
       THEN parser' = [parser EXCEPT !.pc = "inflate", !.out = FALSE,
                                     !.left = Max32, !.read = 0, !.total = 0]
       ELSE parser' = [parser EXCEPT !.pc = "skip", !.left = CompSize(cur), !.out = FALSE]
  /\ UNCHANGED input /\ Same
CanSkip == ~cur.descr \/ cur.method = "deflate"

(* zip_process_entry up to the payload. *)
SkipEntry ==
  /\ parser.pc = "entry" /\ ~Selected(cur)
  /\ IF CanSkip THEN SkipPayload /\ UNCHANGED folder ELSE Failed("nobody")

RefuseEntry ==
  /\ parser.pc = "entry" /\ Selected(cur)
  /\ \/ cur.encrypted \/ cur.method \notin {"store", "deflate"}
     \/ Relative(cur) = <<>> /\ ~IsDirName(cur.name)
  /\ Failed("nobody")

EntryIsGood == parser.pc = "entry" /\ Selected(cur)
               /\ ~cur.encrypted /\ cur.method \in {"store", "deflate"}

MakeDirectory ==
  /\ EntryIsGood /\ IsDirName(cur.name)
  /\ IF ~CanMakeDirs(Relative(cur)) THEN Failed("folder")
     ELSE IF ~CanSkip THEN Failed("nobody")
     ELSE folder' = WithDirs(folder, Relative(cur)) /\ SkipPayload

(* zip_open_part_file *)
OpenPart ==
  /\ EntryIsGood /\ ~IsDirName(cur.name) /\ Relative(cur) # <<>>
  /\ IF ~CanMakeDirs(Front(Relative(cur))) \/ Front(Relative(cur)) \in DOMAIN folder.files
       THEN Failed("folder")
       ELSE /\ folder' = [WithDirs(folder, Front(Relative(cur))) EXCEPT
                            !.part = <<parser.entry, 0>>]
            /\ parser' = [parser EXCEPT !.pc = IF cur.method = "store" THEN "store" ELSE "inflate",
                            !.out = TRUE, !.left = CompSize(cur), !.read = 0, !.total = 0]
            /\ UNCHANGED input /\ Same

Span(n) == IF input.end - input.pos < n THEN input.end - input.pos ELSE n
EndOfPayload == IF parser.out THEN "place" ELSE "sig"

(* zip_stream_skip *)
SkipBytes ==
  /\ parser.pc = "skip"
  /\ \/ /\ parser.left > 0 /\ Available
        /\ Advance(Span(parser.left))
        /\ parser' = [parser EXCEPT !.left = @ - Span(parser.left)]
     \/ /\ parser.left = 0
        /\ parser' = [parser EXCEPT !.pc = "sig"]
        /\ UNCHANGED input
  /\ UNCHANGED folder /\ Same

(* Mutant: a stored entry ends where the buffer ends. *)
StorePiece ==
  /\ parser.pc = "store"
  /\ ~cur.descr
  /\ Available \/ parser.left = 0
  /\ LET n == Span(parser.left)
     IN /\ Advance(n)
        /\ folder' = [folder EXCEPT !.part = <<parser.entry, @[2] + n>>]
        /\ parser' = [parser EXCEPT !.left = 0, !.total = @ + n, !.pc = "place"]
  /\ Same

(* zip_extract_store *)
StoreBytes ==
  /\ parser.pc = "store"
  /\ IF cur.descr THEN Failed("nobody")
     ELSE \/ /\ parser.left > 0 /\ Available
             /\ IF zipCancel THEN Failed("cancel")
                ELSE LET n == Span(parser.left)
                     IN /\ Advance(n)
                        /\ folder' = [folder EXCEPT !.part = <<parser.entry, @[2] + n>>]
                        /\ parser' = [parser EXCEPT !.left = @ - n, !.total = @ + n]
                        /\ Same
          \/ /\ parser.left = 0
             /\ IF UncompSize(cur) # parser.total THEN Failed("nobody")
                ELSE /\ parser' = [parser EXCEPT !.pc = "place"]
                     /\ UNCHANGED <<input, folder>> /\ Same

(* The end of zip_inflate_payload, once the decompressor is done.           *)
InflateEnd(left, total) ==
  IF cur.descr THEN "dsig"
  ELSE IF left = 0 /\ UncompSize(cur) = total THEN EndOfPayload ELSE "bad"

(* One turn of zip_inflate_payload; in_size 0 is "short deflate stream".    *)
InflateTurn ==
  /\ parser.pc = "inflate" /\ Available
  /\ LET inSize == Span(parser.left)
         r == Decompress(cur.outs, parser.read, parser.total, inSize)
         left == IF cur.descr THEN Max32 ELSE parser.left - (r.taken - parser.read)
         next == IF r.status = "done" THEN InflateEnd(left, r.total) ELSE "inflate"
     IN IF zipCancel THEN Failed("cancel")
        ELSE IF inSize = 0 \/ next = "bad" THEN Failed("nobody")
        ELSE /\ Advance(r.taken - parser.read)
             /\ folder' = IF parser.out
                            THEN [folder EXCEPT !.part = <<parser.entry, r.total>>] ELSE folder
             /\ parser' = [parser EXCEPT !.pc = next, !.left = left, !.read = r.taken,
                             !.total = r.total, !.words = <<>>]
             /\ Same

(* zip_read_data_descriptor: a signature may come first; then the crc, which *)
(* nobody checks, and the sizes.                                            *)
ReadDescriptorStart ==
  /\ parser.pc = "dsig" /\ Available
  /\ parser' = [parser EXCEPT !.pc = "words",
                  !.words = IF ItemHere.kind = "dsig" THEN <<>> ELSE <<ItemHere.n>>]
  /\ Advance(1)
  /\ UNCHANGED folder /\ Same

WordHere == IF ItemHere.kind = "word" THEN ItemHere.n ELSE Misread

ReadDescriptorWord ==
  /\ parser.pc = "words" /\ Available
  /\ LET words == Append(parser.words, WordHere)
         all   == Len(words) = IF Wide(cur) THEN 5 ELSE 3
         good  == IF Wide(cur) THEN words[2] = parser.read /\ words[3] = 0
                                  /\ words[4] = parser.total /\ words[5] = 0
                  ELSE words[2] = parser.read /\ words[3] = parser.total
     IN IF all /\ ~good THEN Failed("nobody")
        ELSE /\ Advance(1)
             /\ parser' = [parser EXCEPT !.words = words,
                             !.pc = IF all THEN EndOfPayload ELSE "words"]
             /\ UNCHANGED folder /\ Same

(* Mutant: what is no directory is not looked at. *)
OnlyDirectories(p) == backup /\ p \in folder.dirs

(* lstat(final_path): there is something to be backed up first.              *)
IsThere(p) == backup /\ (p \in DOMAIN folder.files \/ p \in folder.dirs)

(* rename(2) into the backup: the way there is made of directories, a file   *)
(* may replace a saved file, a directory only an empty one.                  *)
CanSave(p) ==
  LET saved == folder.saved
  IN /\ \A q \in Above(p) : q \notin DOMAIN saved.files
     /\ p \in DOMAIN folder.files => p \notin saved.dirs
     /\ p \in folder.dirs =>
          \A q \in DOMAIN saved.files \cup saved.dirs : IsPrefix(p, q) => q = p /\ q \in saved.dirs

(* A file or directory that is there goes into the backup with all in it.   *)
Aside(f, p) ==
  LET gone(q) == IsPrefix(p, q)
      moved == {q \in DOMAIN f.files : gone(q)}
      saved == f.saved.files
  IN [f EXCEPT
        !.files = [q \in DOMAIN @ \ moved |-> @[q]],
        !.dirs  = {d \in @ : ~gone(d)},
        !.saved = [files |-> [q \in DOMAIN saved \cup moved |->
                                IF q \in moved THEN f.files[q] ELSE saved[q]],
                   dirs  |-> @.dirs \cup Above(p) \cup {d \in f.dirs : gone(d)}]]

(* The end of zip_process_entry: close, back up, rename.                    *)
PlaceEntry ==
  /\ parser.pc = "place"
  /\ LET p == Relative(cur)
         f == IF IsThere(p) THEN Aside(folder, p) ELSE folder
     IN IF p \in f.dirs \/ (IsThere(p) /\ ~CanSave(p)) THEN Failed("folder")
        ELSE /\ folder' = [f EXCEPT
                  !.files = [q \in DOMAIN @ \cup {p} |-> IF q = p THEN f.part ELSE @[q]],
                  !.part = <<>>]
             /\ parser' = [parser EXCEPT !.pc = "sig", !.extracted = @ + 1]
             /\ UNCHANGED input /\ Same

(* open, write, close or the backup fails; or the last rename, after what was *)
(* there has gone into the backup.                                          *)
DiskFails ==
  /\ parser.pc \in {"entry", "store", "inflate", "place"} /\ parser.entry # 0
  /\ \/ Failed("disk")
     \/ /\ parser.pc = "place" /\ IsThere(Relative(cur)) /\ CanSave(Relative(cur))
        /\ FailedAfter("disk", Aside(folder, Relative(cur)))

(* zip_stream_drain: whatever follows is dropped; "no matching files".      *)
Drain ==
  /\ parser.pc = "drain" /\ Available
  /\ Advance(input.end - input.pos)
  /\ UNCHANGED <<parser, folder>> /\ Same
DrainEnds ==
  /\ parser.pc = "drain" /\ NeedsFill
  /\ parser' = [parser EXCEPT !.pc = "over"]
  /\ zipResult' = IF parser.extracted = 0 THEN "failed" ELSE "ok"
  /\ UNCHANGED <<archive, selection, backup, input, folder, zipCancel, blame, originals>>

CancelZip ==
  /\ ~zipCancel /\ zipResult = "none"
  /\ zipCancel' = TRUE
  /\ UNCHANGED <<archive, selection, backup, input, parser, folder, zipResult, blame, originals>>

ZipNext ==
  \/ FillBuffer \/ FillFails \/ ReadSignature \/ ReadHeader
  \/ SkipEntry \/ RefuseEntry \/ MakeDirectory \/ OpenPart
  \/ SkipBytes \/ StoreBytes \/ InflateTurn
  \/ ReadDescriptorStart \/ ReadDescriptorWord
  \/ PlaceEntry \/ DiskFails \/ Drain \/ DrainEnds \/ CancelZip

ZipSpec == ZipInit /\ [][ZipNext]_zipVars

----------------------------------------------------------------------------
EntriesOf(a) == 1 .. Len(a)
Files(a) == {k \in EntriesOf(a) : Selected(a[k]) /\ ~IsDirName(a[k].name)}
Whole(k) == <<k, Total(archive[k].outs)>>

(* Two entries of one path; and a later file entry that takes the place of a  *)
(* folder on the way to an earlier one.                                     *)
Again(j, k) == j # k /\ Relative(archive[j]) = Relative(archive[k])
Displaces(j, k) == j > k /\ Relative(archive[j]) \in Above(Relative(archive[k]))

(* Every path holds an old file or the whole payload of a selected entry at *)
(* all times; and an archive reported as extracted is there to its last     *)
(* entry: the last entry of a path wins, folders exist (or a file is in      *)
(* their place, which mkdirs takes for one), and no part file is left.  Only  *)
(* where a later file took the place of a folder does an entry that lay in   *)
(* it lie in the backup instead.                                            *)
ZipPlacesPayloads ==
  /\ \A p \in DOMAIN folder.files :
       \/ folder.files[p] = Original
       \/ \E k \in Files(archive) : Relative(archive[k]) = p /\ folder.files[p] = Whole(k)
  /\ zipResult = "ok" =>
       /\ folder.part = <<>>
       /\ \A k \in Files(archive) :
            LET p == Relative(archive[k])
            IN \/ p \in DOMAIN folder.files /\ folder.files[p] = Whole(k)
               \/ \E j \in Files(archive) : j > k /\ Again(j, k)
               \/ /\ \E j \in Files(archive) : Displaces(j, k)
                  /\ p \in DOMAIN folder.saved.files /\ folder.saved.files[p] = Whole(k)
       /\ \A k \in EntriesOf(archive) : Selected(archive[k]) /\ IsDirName(archive[k].name) =>
            LET p == Relative(archive[k])
            IN \/ p \in folder.dirs \cup DOMAIN folder.files
               \/ /\ \E j \in Files(archive) : Displaces(j, k)
                  /\ p \in folder.saved.dirs \cup DOMAIN folder.saved.files

(* Whatever of an extraction has happened, and however it ended: a file that  *)
(* was there before is where it was, or in the backup under its path with    *)
(* what it held.  Only of a path the archive names twice may the backup have *)
(* what the first entry put there.                                          *)
ZipKeepsOriginals ==
  \A p \in originals :
    \/ p \in DOMAIN folder.files /\ folder.files[p] = Original
    \/ p \in DOMAIN folder.saved.files
       /\ \/ folder.saved.files[p] = Original
          \/ \E j, k \in Files(archive) : Again(j, k) /\ Relative(archive[j]) = p

(* What the reader does not take: an unsafe name, a size it cannot know, a  *)
(* size that is wrong, and of the selected entries encryption and other     *)
(* methods, a file that is all prefix.                                      *)
Unsupported(f) ==
  \/ ~SafeName(f.name)
  \/ f.descr /\ f.method # "deflate"
  \/ f.zip64 = "sizes" /\ ~f.extra
  \/ Selected(f) /\ (f.encrypted \/ f.method = "other" \/ f.lie # 0)
  \/ f.descr /\ f.lie # 0
  \/ Selected(f) /\ Relative(f) = <<>> /\ ~IsDirName(f.name)

(* The last byte of a deflated payload of a known size puts out bytes on    *)
(* both sides of a full window: output is pending when no input is left.    *)
PendingAtEnd(f) ==
  /\ f.method = "deflate" /\ ~f.descr /\ f.outs # <<>>
  /\ LET all == Total(f.outs)
     IN \E full \in 1 .. all - 1 : full % Window = 0 /\ full >= all - Last(f.outs)

(* An archive that a zip writer made, of supported entries, is refused only *)
(* for what the disk, the folder, the stream or a cancel does: wherever the *)
(* pieces of the stream begin and end, the reader finds each next header.   *)
RefusedZip(why) == zipResult = "failed" /\ blame = "nobody" /\ why
ZipTakesGoodArchives ==
  RefusedZip(\A k \in EntriesOf(archive) : ~Unsupported(archive[k]) /\ ~PendingAtEnd(archive[k]))
  => Files(archive) = {}

(* What README.md:42 says: "Uploads ZIP and RAR archives and extracts them on  *)
(* the PS5", every deflated entry in them, too.                             *)
ZipTakesDeflatedArchives ==
  RefusedZip(\A k \in EntriesOf(archive) : ~Unsupported(archive[k])) => Files(archive) = {}

(* A zip is unpacked: whatever is placed is the payload of its entry, success *)
(* means that all of it is, what was there before is kept, and no good         *)
(* archive is refused.                                                      *)
ZipUnpacks == ZipPlacesPayloads /\ ZipKeepsOriginals /\ ZipTakesGoodArchives
=============================================================================
