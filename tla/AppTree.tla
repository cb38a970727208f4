------------------------------- MODULE AppTree -------------------------------
(***************************************************************************)
(* What both image formats of pfs_compress.c share: the files found in an    *)
(* app folder, the directories made from their paths, and an image as a      *)
(* sequence of segments with the reader that streams it block by block.     *)
(*                                                                          *)
(* Sizes and offsets are in words of 8 bytes.  A word is a tuple that says    *)
(* what was written there, so that a reader sees what it would mistake it    *)
(* for.  A path is a sequence of names, a name is a number (its place in      *)
(* alphabetical order), and an app is a function from paths to sizes.       *)
(***************************************************************************)
EXTENDS Integers, SequencesExt, FiniteSetsExt

CONSTANTS
  BLOCK,   \* words of a block, of an exFAT cluster too (PFS_BLOCK_SIZE)
  CACHE,   \* words the reader reads of a file at once (PFS_READ_CACHE_SIZE)
  Fold     \* a name's upper-case form

ASSUME TreeAssumption == BLOCK \in Nat \ {0} /\ CACHE \in Nat \ {0}

Zero  == <<"zero">>    \* eight zero bytes
Minus == <<"minus">>   \* eight bytes 0xff

Zeros(n) == [k \in 1 .. n |-> Zero]
CeilDiv(a, b) == (a + b - 1) \div b
Blocks(n) == CeilDiv(n, BLOCK)
AtLeastOne(n) == Max({n, 1})

Data(app, path) == [k \in 1 .. app[path] |-> <<"data", path, k>>]

(* ascii_casecmp on paths.  Equal ones come in any order; this is one.       *)
FoldPath(path) == [i \in DOMAIN path |-> Fold[path[i]]]
RECURSIVE Before(_, _)
Before(p, q) ==
  IF p = <<>> \/ q = <<>> THEN p = <<>> /\ q # <<>>
  ELSE \/ p[1] < q[1]
       \/ p[1] = q[1] /\ Before(Tail(p), Tail(q))

PathBefore(p, q) ==
  LET f == FoldPath(p)  g == FoldPath(q)
  IN Before(f, g) \/ (f = g /\ Before(p, q))

FilesOf(app) == SetToSortSeq(DOMAIN app, PathBefore)

(* ensure_parent_dirs for one file, given the directories so far; the root    *)
(* is the first.                                                            *)
WithParents(dirs, path) ==
  FoldLeftDomain(LAMBDA ds, k :
      IF k = Len(path) \/ SubSeq(path, 1, k) \in ToSet(ds) THEN ds
      ELSE Append(ds, SubSeq(path, 1, k)), dirs, path)

DirsOf(files) == FoldLeft(WithParents, << <<>> >>, files)

TreeOf(files) == [files |-> files, dirs |-> DirsOf(files), nodes |-> DirsOf(files) \o files]

(* child_dirs and child_files, in the order they were pushed.                *)
Children(paths, dir) ==
  SelectSeq(paths, LAMBDA p : p # <<>> /\ Front(p) = dir)

(* Where each of a sequence of extents starts, if they are laid out one after *)
(* another from a given place, and where they end.                          *)
Starts(from, sizes) ==
  [i \in DOMAIN sizes |-> FoldLeft(+, from, SubSeq(sizes, 1, i - 1))]
EndOf(from, sizes) == FoldLeft(+, from, sizes)

Index(seq, x) == CHOOSE i \in DOMAIN seq : seq[i] = x

----------------------------------------------------------------------------
(* Segments.  Empty ones are not added.                                     *)
Mem(offset, words)        == [offset |-> offset, words |-> words, file |-> <<>>]
File(offset, words, path) == [offset |-> offset, words |-> words, file |-> path]
Segments(all) == SelectSeq(all, LAMBDA s : s.words # <<>>)

Size(s)  == Len(s.words)
SegEnd(s) == s.offset + Size(s)
WordAt(s, p) == s.words[p - s.offset + 1]

(* The segments that have a place of the image.                             *)
Holders(segs, p) == {i \in DOMAIN segs : segs[i].offset <= p /\ p < SegEnd(segs[i])}

(* pfsc_reader_read of one word; past the blocks there are it fails.         *)
None == <<"none">>
WordOf(img, p) == IF p \div BLOCK < Len(img) THEN img[(p \div BLOCK) + 1][(p % BLOCK) + 1] ELSE None

----------------------------------------------------------------------------
(* The reader: the segment it never goes back before, the file it has open    *)
(* and the piece of a file in its cache, from word `at' on.  0 is no segment. *)
NewReader == [first |-> 1, open |-> 0, cached |-> 0, at |-> 0, words |-> <<>>]

CloseFile(vr) == [NewReader EXCEPT !.first = vr.first]

Opened(vr, i) == IF vr.open = i THEN vr ELSE [CloseFile(vr) EXCEPT !.open = i]

Hit(vr, i, off) == vr.cached = i /\ vr.at <= off /\ off < vr.at + Len(vr.words)

(* The cache filled from word `off' of segment i's file on, if it must be.   *)
Filled(vr, i, file, off) ==
  IF Hit(vr, i, off) THEN vr
  ELSE [vr EXCEPT !.cached = i, !.at = off,
                  !.words = SubSeq(file, off + 1, Min({Len(file), off + CACHE}))]

RECURSIVE FileRead(_, _, _, _, _)
FileRead(vr, i, file, off, n) ==
  IF n = 0 THEN [vr |-> vr, words |-> <<>>]
  ELSE LET now  == Filled(vr, i, file, off)
           skip == off - now.at
           m    == Min({n, Len(now.words) - skip})
           rest == FileRead(now, i, file, off + m, n - m)
       IN [vr |-> rest.vr, words |-> SubSeq(now.words, skip + 1, skip + m) \o rest.words]

Overlay(block, at, words) ==
  [k \in DOMAIN block |-> IF at < k /\ k <= at + Len(words) THEN words[k - at] ELSE block[k]]

(* The segments from i on copied into a block; ok is false when a file cannot *)
(* be opened because it is gone.                                            *)
RECURSIVE ReadSegments(_, _, _, _, _, _)
ReadSegments(segs, vr, i, off, block, gone) ==
  IF i > Len(segs) \/ segs[i].offset >= off + BLOCK
  THEN [vr |-> vr, block |-> block, ok |-> TRUE]
  ELSE LET s     == segs[i]
           start == Max({s.offset, off})
           n     == Min({SegEnd(s), off + BLOCK}) - start
           now   == Opened(vr, i)
           read  == IF s.file = <<>>
                    THEN [vr |-> vr, words |-> SubSeq(s.words, start - s.offset + 1, start - s.offset + n)]
                    ELSE FileRead(now, i, s.words, start - s.offset, n)
       IN IF s.file # <<>> /\ vr.open # i /\ s.file \in gone
          THEN [vr |-> CloseFile(vr), block |-> block, ok |-> FALSE]
          ELSE ReadSegments(segs, read.vr, i + 1, off,
                            Overlay(block, start - off, read.words), gone)

(* Mutant: a segment that ends in the block is passed over. *)
ReadBlockPast(segs, vr, off, gone) ==
  LET ahead == {i \in DOMAIN segs : i >= vr.first /\ SegEnd(segs[i]) > off + BLOCK}
      first == IF ahead = {} THEN Len(segs) + 1 ELSE Min(ahead)
  IN ReadSegments(segs, [vr EXCEPT !.first = first], first, off, Zeros(BLOCK), gone)

(* virtual_reader_read of the block that starts at `off'.                    *)
ReadBlock(segs, vr, off, gone) ==
  LET ahead == {i \in DOMAIN segs : i >= vr.first /\ SegEnd(segs[i]) > off}
      first == IF ahead = {} THEN Len(segs) + 1 ELSE Min(ahead)
  IN ReadSegments(segs, [vr EXCEPT !.first = first], first, off, Zeros(BLOCK), gone)
=============================================================================
