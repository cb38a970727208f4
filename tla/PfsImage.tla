------------------------------ MODULE PfsImage ------------------------------
(***************************************************************************)
(* The nested PFS image: what build_layout_from_files makes of an app, and    *)
(* what pfs_decompress.c makes of such an image.                             *)
(*                                                                          *)
(* An inode is a word for its mode, one for its size, one for its extent and  *)
(* a filler; a directory entry is a word and the words its name takes.       *)
(***************************************************************************)
EXTENDS AppTree

CONSTANTS
  INODE,      \* words of an inode (PFS_INODE_SIZE)
  HASH,       \* how many values a path's hash has
  NameSize    \* the words a name takes in an entry

ASSUME PfsAssumption == INODE \in 4 .. BLOCK /\ HASH \in Nat \ {0}

InodesPerBlock == BLOCK \div INODE

(* Names the format uses itself; the app's are positive.                     *)
Dot == -1  DotDot == -2  FlatPathTable == -3  CollisionResolver == -4  Uroot == -5

(* append_dirent: the entry of a name, or of a path in the collision blob.    *)
Entry(inode, type, names) ==
  LET size == FoldLeft(LAMBDA n, x : n + (IF x < 0 THEN 1 ELSE NameSize[x]), 0, names)
  IN << <<"entry", inode, type, names>> >> \o [k \in 1 .. size |-> <<"name">>]

(* pfs_hash_path of "/" and the path, both in the width of the hash.         *)
PathHash(path) == FoldLeft(LAMBDA h, name : (31 * (31 * h + 47) + Fold[name]) % HASH, 0, path)

(* The paths below the root that have a hash, in the order of their inodes.   *)
WithHash(nodes, h) == SelectSeq(Tail(nodes), LAMBDA p : PathHash(p) = h)
Hashes(nodes)      == {PathHash(p) : p \in ToSet(Tail(nodes))}
Collides(nodes)    == \E h \in Hashes(nodes) : Len(WithHash(nodes, h)) > 1

(* Mutant: paths that share a hash are not told apart. *)
CollidingUnresolved(nodes, inode, type) == [h \in Hashes(nodes) |-> <<>>]

(* build_fpt_blob: a path alone with its hash has its inode in the table; for *)
(* several the table has the place of their entries in the collision blob.   *)
Colliding(nodes, inode, type) ==
  [h \in Hashes(nodes) |->
     LET group == WithHash(nodes, h)
     IN IF Len(group) = 1 THEN <<>>
        ELSE FlattenSeq([i \in DOMAIN group |-> Entry(inode[group[i]], type[group[i]], group[i])])
             \o Zeros(3)]

PathTable(nodes, inode, type) ==
  LET hashes == SetToSortSeq(Hashes(nodes), <)
      blobs  == Colliding(nodes, inode, type)
      sizes  == [i \in DOMAIN hashes |-> Len(blobs[hashes[i]])]
      word(i) == IF sizes[i] = 0
                 THEN <<"path", hashes[i], "inode", inode[WithHash(nodes, hashes[i])[1]]>>
                 ELSE <<"path", hashes[i], "offset", Starts(0, sizes)[i]>>
  IN [table |-> [i \in DOMAIN hashes |-> word(i)],
      collisions |-> FlattenSeq([i \in DOMAIN hashes |-> blobs[hashes[i]]])]

(* build_dir_blob: the root is its own parent.                               *)
DirBlob(dir, dirs, files, inode) ==
  LET parent == IF dir = <<>> THEN dir ELSE Front(dir)
      entries(paths, type) ==
        FlattenSeq([i \in DOMAIN paths |-> Entry(inode[paths[i]], type, <<Last(paths[i])>>)])
  IN Entry(inode[dir], "dot", <<Dot>>) \o Entry(inode[parent], "dotdot", <<DotDot>>)
     \o entries(Children(dirs, dir), "dir") \o entries(Children(files, dir), "file")

(* write_inode; the superroot's is not filled.                               *)
Inode(mode, size, blocks, start, fill) ==
  << <<"mode", mode>>, <<"size", size>>, <<"extent", blocks, start>> >>
  \o [k \in 1 .. INODE - 3 |-> fill]

(* inode_slot: a block has as many inodes as fit, and what is left of it.     *)
InodeSlot(n) == (n \div InodesPerBlock) * BLOCK + (n % InodesPerBlock) * INODE

InodeBlob(inodes) ==
  FoldLeftDomain(LAMBDA blob, i : Overlay(blob, InodeSlot(i - 1), inodes[i]),
                 Zeros(CeilDiv(Len(inodes), InodesPerBlock) * BLOCK), inodes)

(* The inodes: the superroot, the path table, the collision blob if it takes  *)
(* one, then the directories and the files.                                 *)
Numbered(t) ==
  LET first == IF Collides(t.nodes) THEN 3 ELSE 2
  IN t @@ [first |-> first,
           inode |-> [p \in ToSet(t.nodes) |-> first + Index(t.nodes, p) - 1],
           type  |-> [p \in ToSet(t.nodes) |-> IF p \in ToSet(t.files) THEN "file" ELSE "dir"]]

WithPathTable(t) == t @@ [fpt |-> PathTable(t.nodes, t.inode, t.type)]

SuperBlob(t) ==
  Entry(1, "file", <<FlatPathTable>>)
  \o (IF t.first = 3 THEN Entry(2, "file", <<CollisionResolver>>) ELSE <<>>)
  \o Entry(t.first, "dir", <<Uroot>>)

(* What has an extent: three blobs of the format, the directories, the files. *)
WithBlobs(t, app) ==
  t @@ [blobs |-> <<SuperBlob(t), t.fpt.table, t.fpt.collisions>>
                  \o [i \in DOMAIN t.dirs |-> DirBlob(t.dirs[i], t.dirs, t.files, t.inode)]
                  \o [i \in DOMAIN t.files |-> Data(app, t.files[i])]]

WithSizes(t) ==
  t @@ [count |-> t.first + Len(t.nodes),
        table |-> CeilDiv(t.first + Len(t.nodes), InodesPerBlock),
        sizes |-> [i \in DOMAIN t.blobs |-> AtLeastOne(Blocks(Len(t.blobs[i])))]]

WithStarts(t) == t @@ [starts |-> Starts(1 + t.table, t.sizes)]

(* The inode of the i-th blob; a directory is as long as its blocks.          *)
InodeOf(t, i) ==
  LET dir == i = 1 \/ i \in 4 .. 3 + Len(t.dirs)
  IN Inode(IF dir THEN "dir" ELSE "file", IF dir THEN t.sizes[i] * BLOCK ELSE Len(t.blobs[i]),
           t.sizes[i], t.starts[i], IF i = 1 THEN Zero ELSE Minus)

Inodes(t) ==
  [k \in 1 .. t.count |-> InodeOf(t, IF t.first = 2 /\ k > 2 THEN k + 1 ELSE k)]

FirstFile(t) == 4 + Len(t.dirs)

Placed(t) ==
  LET segment(i) == IF i < FirstFile(t) THEN Mem(t.starts[i] * BLOCK, t.blobs[i])
                    ELSE File(t.starts[i] * BLOCK, t.blobs[i], t.files[i - FirstFile(t) + 1])
  IN [blocks |-> EndOf(1 + t.table, t.sizes),
      segments |-> Segments(<< Mem(0, << <<"header", t.count>> >> \o Zeros(BLOCK - 1)),
                               Mem(BLOCK, InodeBlob(Inodes(t))) >>
                            \o [i \in DOMAIN t.blobs |-> segment(i)]),
      files |-> [i \in DOMAIN t.files |->
                   [path |-> t.files[i], start |-> t.starts[FirstFile(t) + i - 1],
                    blocks |-> t.sizes[FirstFile(t) + i - 1]]],
      inode |-> t.inode, fpt |-> t.fpt]

PfsLayout(app) ==
  Placed(WithStarts(WithSizes(WithBlobs(WithPathTable(Numbered(TreeOf(FilesOf(app)))), app))))

----------------------------------------------------------------------------
(* The reader of an image, a sequence of blocks.                             *)

(* parse_inode_info of what is where the reader looks.  A field read from     *)
(* words of another kind is all ones in the filler and 0 elsewhere.          *)
HUGE == 1000000
InodeRead(words) ==
  LET field(k, kind, else) ==
        IF words[k][1] = kind THEN words[k][2] ELSE IF words[k] = Minus THEN HUGE ELSE else
  IN [dir    |-> words[1] \in {<<"mode", "dir">>, Minus},
      file   |-> words[1] \in {<<"mode", "file">>, Minus},
      size   |-> field(2, "size", 0),
      blocks |-> field(3, "extent", 0),
      start  |-> IF words[3][1] = "extent" THEN words[3][3] ELSE 0]

(* pfs_nested_read_inode.                                                   *)
ReadInode(img, n) ==
  InodeRead([k \in 1 .. INODE |-> WordOf(img, BLOCK + n * INODE + k - 1)])

InodeThere(img, n) == n < WordOf(img, 0)[2]

(* What a directory says: its entries up to a word that is none, where the    *)
(* walk ends (entry size 0) or fails (anything else).                       *)
RECURSIVE EntriesFrom(_, _, _)
EntriesFrom(img, ino, off) ==
  IF off >= ino.size THEN [ok |-> TRUE, entries |-> <<>>]
  ELSE LET w    == WordOf(img, ino.start * BLOCK + off)
           len  == Len(Entry(w[2], w[3], w[4]))
           rest == EntriesFrom(img, ino, off + len)
       IN IF w[1] # "entry" THEN [ok |-> w = Zero, entries |-> <<>>]
          ELSE [ok |-> rest.ok /\ off + len <= ino.size,
                entries |-> <<[inode |-> w[2], type |-> w[3], name |-> w[4]]>> \o rest.entries]

Refused == [ok |-> FALSE, plan |-> <<>>]

(* pfs_extract_plan_push, pfs_extract_file: what is known of a file.         *)
PlannedFile(img, n, path) ==
  LET ino == ReadInode(img, n)
      blocks == IF ino.blocks > 0 THEN ino.blocks ELSE Blocks(ino.size)
  IN IF ~InodeThere(img, n) \/ ~ino.file THEN Refused
     ELSE [ok |-> TRUE, plan |-> << [path |-> path, start |-> ino.start,
                                     blocks |-> blocks, size |-> ino.size] >>]

Joined(a, b) == IF a.ok THEN [ok |-> b.ok, plan |-> a.plan \o b.plan] ELSE a

(* pfs_collect_extract_plan; pfs_extract_dir unpacks in the same order.      *)
RECURSIVE PfsCollect(_, _, _)
PfsCollect(img, n, path) ==
  LET ino  == ReadInode(img, n)
      walk == EntriesFrom(img, ino, 0)
      rest == SelectSeq(walk.entries, LAMBDA e : e.name \notin {<<Dot>>, <<DotDot>>})
      of(e) == IF e.type = "dir" THEN PfsCollect(img, e.inode, path \o e.name)
               ELSE PlannedFile(img, e.inode, path \o e.name)
  IN IF ~InodeThere(img, n) \/ ~ino.dir \/ ~walk.ok THEN Refused
     ELSE FoldLeft(LAMBDA all, e : Joined(all, of(e)), [ok |-> TRUE, plan |-> <<>>], rest)

(* pfs_find_child_inode of "uroot" in the superroot, then the walk.          *)
PfsPlan(img) ==
  LET roots == SelectSeq(EntriesFrom(img, ReadInode(img, 0), 0).entries,
                         LAMBDA e : e.type = "dir" /\ e.name = <<Uroot>>)
  IN IF roots = <<>> THEN Refused ELSE PfsCollect(img, roots[1].inode, <<>>)
=============================================================================
