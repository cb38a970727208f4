------------------------------ MODULE AppImage ------------------------------
(***************************************************************************)
(* An app made into an image block by block and unpacked again, with its      *)
(* words: where each is put, who reads it and what the other side makes of    *)
(* it.  With streamIn each source file is deleted when its blocks are        *)
(* written, with streamOut each is cut off the image when it is unpacked.     *)
(*                                                                          *)
(* Nothing fails here from outside: AppConversions has failures, kills and    *)
(* the next job, BlockPool the threads.                                     *)
(***************************************************************************)
EXTENDS PfsImage, ExfatImage

CONSTANTS
  Apps,      \* the apps tried: functions from paths to words
  Formats,   \* those tried, of "pfs" and "exfat"
  AHEAD,     \* blocks that may be read before they are written (slots)
  TABLE      \* words of the block table before the data must move

ASSUME ImageAssumption == Formats \subseteq {"pfs", "exfat"} /\ AHEAD \in Nat \ {0} /\ TABLE \in Nat

VARIABLES
  app,        \* the app
  format,     \* the image's format
  streamIn, streamOut,   \* the sources are deleted, the image is cut, on the way
  layout,     \* pfs_layout_t
  stage,      \* "write", "plan", "extract", "done" or "refused"
  reader,     \* virtual_reader_t
  slots,      \* blocks read and not yet written
  img,        \* the image's blocks
  gone,       \* next_delete_index: how many source files are deleted
  plan,       \* the files still to unpack
  out         \* the files unpacked, by their paths

imageVars == <<app, format, streamIn, streamOut, layout, stage, reader, slots, img, gone, plan, out>>

LayoutOf(f, a) == IF f = "pfs" THEN PfsLayout(a) ELSE ExfatLayout(a)

NoFiles == [p \in {} |-> <<>>]

ImageInit ==
  /\ app \in Apps /\ format \in Formats /\ streamIn \in BOOLEAN /\ streamOut \in BOOLEAN
  /\ layout = LayoutOf(format, app)
  /\ stage = "write" /\ reader = NewReader /\ slots = <<>> /\ img = <<>> /\ gone = 0
  /\ plan = <<>> /\ out = NoFiles

GoneFiles == {layout.files[i].path : i \in 1 .. gone}

(* virtual_reader_read of the next block, when a slot is free.               *)
ReadNext ==
  LET next == Len(img) + Len(slots)
      read == ReadBlock(layout.segments, reader, next * BLOCK, GoneFiles)
  IN /\ stage = "write" /\ next < layout.blocks /\ Len(slots) < AHEAD
     /\ reader' = read.vr
     /\ IF read.ok THEN slots' = Append(slots, read.block) /\ UNCHANGED stage
                   ELSE stage' = "refused" /\ UNCHANGED slots
     /\ UNCHANGED <<app, format, streamIn, streamOut, layout, img, gone, plan, out>>

(* Mutant: a file is deleted when its last block is being written. *)
CommittedEarly(written) ==
  LET files == layout.files
      rest  == {i \in gone + 1 .. Len(files) : files[i].start + files[i].blocks > written + 1}
  IN IF rest = {} THEN Len(files) ELSE Min(rest) - 1

(* The first files in the image's order all of whose blocks are written.      *)
Committed(written) ==
  LET files == layout.files
      rest  == {i \in gone + 1 .. Len(files) : files[i].start + files[i].blocks > written}
  IN IF rest = {} THEN Len(files) ELSE Min(rest) - 1

(* The oldest block is written; delete_committed_source_files closes the      *)
(* reader's file if there is one to delete.                                 *)
WriteNext ==
  LET files == IF streamIn THEN Committed(Len(img) + 1) ELSE gone
  IN /\ stage = "write" /\ slots # <<>>
     /\ img' = Append(img, Head(slots)) /\ slots' = Tail(slots)
     /\ gone' = files
     /\ reader' = IF files # gone THEN CloseFile(reader) ELSE reader
     /\ UNCHANGED <<app, format, streamIn, streamOut, layout, stage, plan, out>>

(* pfsc_header_span: the table of one place more than blocks, in the words    *)
(* before the data.                                                         *)
HeaderSpan(blocks) == BLOCK + Blocks(Max({blocks + 1 - TABLE, 0})) * BLOCK

(* The table is written; what the reader asks of it, in                      *)
(* pfsc_reader_open_from_outer, is that it ends before the data.            *)
Written ==
  /\ stage = "write" /\ Len(img) = layout.blocks /\ slots = <<>>
  /\ stage' = IF BLOCK - TABLE + Len(img) + 1 <= HeaderSpan(Len(img)) THEN "plan" ELSE "refused"
  /\ UNCHANGED <<app, format, streamIn, streamOut, layout, reader, slots, img, gone, plan, out>>

(* Mutant: streaming unpacks the first block first. *)
Earlier(e, f) == e.start < f.start \/ (e.start = f.start /\ Before(f.path, e.path))

(* pfs_extract_entry_cmp_desc: the last first block first, then the paths     *)
(* backwards.                                                               *)
Later(e, f) == e.start > f.start \/ (e.start = f.start /\ Before(f.path, e.path))

(* pfsc_reader_detect_nested_type, the collecting of a plan.                 *)
Plan ==
  LET kind  == img[1][1][1]
      found == IF kind = "header" THEN PfsPlan(img)
               ELSE IF kind = "boot" THEN ExfatPlan(img) ELSE Refused
  IN /\ stage = "plan"
     /\ stage' = IF found.ok THEN "extract" ELSE "refused"
     /\ plan' = IF streamOut THEN SortSeq(found.plan, Later) ELSE found.plan
     /\ UNCHANGED <<app, format, streamIn, streamOut, layout, reader, slots, img, gone, out>>

(* The words of a planned file; none where the image is cut.                 *)
FileWords(e) == [k \in 1 .. e.size |-> WordOf(img, e.start * BLOCK + k - 1)]

(* The files that start at the same block: the first of the plan in any case. *)
Group == IF streamOut THEN SelectSeq(plan, LAMBDA e : e.start = plan[1].start)
         ELSE SubSeq(plan, 1, 1)

(* pfs_extract_reverse_plan, exfat_extract_plan: a group is unpacked, then    *)
(* pfsc_truncate_source_after_block cuts the image at its first block, if     *)
(* one of them has a block.                                                 *)
ExtractGroup ==
  LET group == Group
      whole == \A i \in DOMAIN group : \A k \in 1 .. group[i].size : FileWords(group[i])[k] # None
      cuts  == streamOut /\ \E i \in DOMAIN group : group[i].blocks > 0
  IN /\ stage = "extract" /\ plan # <<>>
     /\ IF whole
        THEN /\ out' = [p \in DOMAIN out \cup {group[i].path : i \in DOMAIN group} |->
                          IF \E i \in DOMAIN group : group[i].path = p
                          THEN FileWords(CHOOSE e \in ToSet(group) : e.path = p) ELSE out[p]]
             /\ plan' = SubSeq(plan, Len(group) + 1, Len(plan))
             /\ img' = IF cuts THEN SubSeq(img, 1, Min({group[1].start, Len(img)})) ELSE img
             /\ UNCHANGED stage
        ELSE stage' = "refused" /\ UNCHANGED <<img, plan, out>>
     /\ UNCHANGED <<app, format, streamIn, streamOut, layout, reader, slots, gone>>

Unpacked ==
  /\ stage = "extract" /\ plan = <<>>
  /\ stage' = "done"
  /\ UNCHANGED <<app, format, streamIn, streamOut, layout, reader, slots, img, gone, plan, out>>

ImageNext == ReadNext \/ WriteNext \/ Written \/ Plan \/ ExtractGroup \/ Unpacked

ImageSpec == ImageInit /\ [][ImageNext]_imageVars

----------------------------------------------------------------------------
(* files.html:3881, 4560: what compression and decompression promise.  The    *)
(* image of an app is accepted by this program, and what it unpacks is the    *)
(* app, file by file and word by word, whether or not the sources are deleted *)
(* while they are packed and the image cut while it is unpacked.            *)
UnpackedIsApp ==
  /\ stage # "refused"
  /\ stage = "done" => out = [p \in DOMAIN app |-> Data(app, p)]

(* The console looks a path up by its hash: whichever paths share one, the    *)
(* table or the entries it points to in the collision blob give the path's    *)
(* inode, and the entries end before the next path's.                       *)
RECURSIVE Resolve(_, _, _)
Resolve(blob, off, path) ==
  LET w == blob[off + 1]
  IN IF off >= Len(blob) \/ w[1] # "entry" THEN 0
     ELSE IF w[4] = path THEN w[2]
     ELSE Resolve(blob, off + Len(Entry(w[2], w[3], w[4])), path)

Lookup(fpt, path) ==
  LET found == {i \in DOMAIN fpt.table : fpt.table[i][2] = PathHash(path)}
      w     == fpt.table[Min(found)]
  IN IF Cardinality(found) # 1 THEN 0
     ELSE IF w[3] = "inode" THEN w[4] ELSE Resolve(fpt.collisions, w[4], path)

PathTableFindsAll ==
  stage = "write" /\ format = "pfs" /\ img = <<>> =>
    LET l == layout IN \A p \in DOMAIN l.inode \ {<<>>} : Lookup(l.fpt, p) = l.inode[p]

(* An image is the app for whoever reads it: this program, entry by entry, and *)
(* the console, by the hashes of paths.                                      *)
ImageIsApp == UnpackedIsApp /\ PathTableFindsAll
=============================================================================
