----------------------------- MODULE ExfatImage -----------------------------
(***************************************************************************)
(* The nested exFAT image: what build_exfat_layout_from_files makes of an     *)
(* app, and what pfs_decompress.c makes of such an image.                    *)
(*                                                                          *)
(* A directory entry is a word, and so is an entry of the FAT.  A cluster    *)
(* of the bitmap maps MAPPED clusters; the up-case table takes a cluster.     *)
(***************************************************************************)
EXTENDS AppTree

CONSTANTS
  MAPPED,      \* clusters a cluster of the bitmap maps
  SLACK,       \* clusters that stay free (EXFAT_ROOT_SLACK_CLUSTERS)
  NameEntries  \* the entries a name takes

ASSUME ExfatAssumption == MAPPED \in Nat \ {0} /\ SLACK \in Nat

(* exfat_append_file_entry: the file, its stream and its name.               *)
EntrySet(name, isDir, cluster, size) ==
  << <<"file", NameEntries[name] + 1, isDir>>, <<"stream", name, cluster, size>> >>
  \o [k \in 1 .. NameEntries[name] |-> <<"name">>]

(* exfat_estimate_dir_entries: three of the root's own, a set for each child, *)
(* and one that ends them.                                                  *)
EstimatedEntries(dir, dirs, files) ==
  FoldLeft(LAMBDA n, p : n + 2 + NameEntries[Last(p)], IF dir = <<>> THEN 4 ELSE 1,
           Children(dirs, dir) \o Children(files, dir))

(* The clusters the bitmap needs for itself and the others.                  *)
RECURSIVE BitmapClusters(_, _)
BitmapClusters(guess, others) ==
  LET needed == CeilDiv(guess + others, MAPPED)
  IN IF needed = guess THEN guess ELSE BitmapClusters(needed, others)

(* exfat_build_dir_blob, as long as its clusters.                            *)
ExfatDirBlob(dir, dirs, files, app, first, clusters) ==
  LET own == IF dir = <<>> THEN <<  <<"label">>, <<"bitmap">>, <<"upcase">> >> ELSE <<>>
      subdirs == Children(dirs, dir)
      subfiles == Children(files, dir)
      blob == own
              \o FlattenSeq([i \in DOMAIN subdirs |->
                   EntrySet(Last(subdirs[i]), TRUE, first[subdirs[i]], clusters[subdirs[i]] * BLOCK)])
              \o FlattenSeq([i \in DOMAIN subfiles |->
                   EntrySet(Last(subfiles[i]), FALSE, first[subfiles[i]], app[subfiles[i]])])
              \o <<Zero>>
  IN blob \o Zeros(clusters[dir] * BLOCK - Len(blob))

(* Mutant: the last cluster points on. *)
ChainOn(first, count) == [i \in 1 .. count |-> <<"next", first + i>>]

(* exfat_set_fat_range: a chain of `count' clusters.                         *)
Chain(first, count) ==
  [i \in 1 .. count |-> IF i < count THEN <<"next", first + i>> ELSE <<"end">>]

(* The clusters of each node, and those of the bitmap.                       *)
WithClusters(t, app) ==
  t @@ [clusters |-> [p \in ToSet(t.nodes) |->
                        IF p \in DOMAIN app THEN Blocks(app[p])
                        ELSE AtLeastOne(Blocks(EstimatedEntries(p, t.dirs, t.files)))]]

WithCounts(t) == t @@ [counts |-> [i \in DOMAIN t.nodes |-> t.clusters[t.nodes[i]]]]

WithBitmap(t) ==
  t @@ [bitmap |-> BitmapClusters(1, EndOf(1 + SLACK, t.counts))]

(* The bitmap, the up-case table, then the nodes one after another, and the   *)
(* FAT as long as all of the clusters need.                                 *)
WithChains(t) ==
  LET total == EndOf(t.bitmap + 1 + SLACK, t.counts)
  IN t @@ [total |-> total, starts |-> Starts(3 + t.bitmap, t.counts),
           length |-> Blocks(total + 2), heap |-> 1 + Blocks(total + 2)]

WithFirst(t) ==
  t @@ [first |-> [p \in ToSet(t.nodes) |->
                     IF t.clusters[p] = 0 THEN 0 ELSE t.starts[Index(t.nodes, p)]]]

Fat(t) ==
  << <<"media">>, <<"end">> >> \o Chain(2, t.bitmap) \o Chain(2 + t.bitmap, 1)
  \o FlattenSeq([i \in DOMAIN t.nodes |-> Chain(t.starts[i], t.counts[i])])

ExfatPlaced(t, app) ==
  LET at(cluster) == (t.heap + cluster - 2) * BLOCK
      blob(p) == IF p \in DOMAIN app THEN File(at(t.first[p]), Data(app, p), p)
                 ELSE Mem(at(t.first[p]), ExfatDirBlob(p, t.dirs, t.files, app, t.first, t.clusters))
  IN [blocks |-> t.heap + t.total,
      segments |-> Segments(<< Mem(0, << <<"boot", 1, t.length, t.heap, t.total, t.first[<<>>]>> >>),
                               Mem(BLOCK, Fat(t) \o Zeros(t.length * BLOCK - Len(Fat(t)))),
                               Mem(at(2), [k \in 1 .. t.bitmap * BLOCK |-> <<"bits">>]),
                               Mem(at(2 + t.bitmap), << <<"table">> >>) >>
                            \o [i \in DOMAIN t.nodes |-> blob(t.nodes[i])]),
      files |-> [i \in DOMAIN t.files |->
                   [path |-> t.files[i], blocks |-> t.clusters[t.files[i]],
                    start |-> IF t.clusters[t.files[i]] = 0 THEN 0 ELSE t.heap + t.first[t.files[i]] - 2]]]

ExfatLayout(app) ==
  ExfatPlaced(WithFirst(WithChains(WithBitmap(WithCounts(WithClusters(TreeOf(FilesOf(app)), app))))), app)

----------------------------------------------------------------------------
(* The reader of an image; img[1][1] is its boot sector.                     *)

ExfatRefused == [ok |-> FALSE, plan |-> <<>>]

Boot(img)    == LET w == img[1][1]
                IN [fat |-> w[2], length |-> w[3], heap |-> w[4], count |-> w[5], root |-> w[6]]
Valid(boot, cluster) == 2 <= cluster /\ cluster - 2 < boot.count
ExfatOpens(boot) == boot.fat # 0 /\ boot.length # 0 /\ boot.heap > boot.fat
                    /\ boot.count # 0 /\ Valid(boot, boot.root)

(* exfat_reader_read_contiguous of the entry at a place of a directory.       *)
EntryAt(img, boot, cluster, off) ==
  LET c == cluster + (off \div BLOCK)
  IN IF cluster # 0 /\ Valid(boot, c) THEN WordOf(img, (boot.heap + c - 2) * BLOCK + (off % BLOCK))
     ELSE None

(* exfat_reader_chain_clusters, 0 when it fails: the clusters must follow     *)
(* each other.                                                              *)
RECURSIVE ChainLength(_, _, _, _)
ChainLength(img, boot, cluster, n) ==
  LET w == WordOf(img, boot.fat * BLOCK + cluster)
  IN IF n >= boot.count \/ boot.fat * BLOCK + cluster >= (boot.fat + boot.length) * BLOCK THEN 0
     ELSE IF w = <<"end">> THEN n + 1
     ELSE IF w = <<"next", cluster + 1>> THEN ChainLength(img, boot, cluster + 1, n + 1)
     ELSE 0

Plus(a, b) == [ok |-> b.ok, plan |-> a \o b.plan]

(* exfat_collect_dir from an entry on, and exfat_plan_push of what it finds.  *)
RECURSIVE ExfatCollect(_, _, _, _, _, _)
ExfatCollect(img, boot, cluster, size, path, off) ==
  LET w      == EntryAt(img, boot, cluster, off)
      stream == EntryAt(img, boot, cluster, off + 1)
      child  == path \o <<stream[2]>>
      rest(n) == ExfatCollect(img, boot, cluster, size, path, off + n)
      start  == IF stream[3] = 0 THEN 0 ELSE boot.heap + stream[3] - 2
      length == IF stream[4] = 0 THEN ChainLength(img, boot, stream[3], 0) * BLOCK ELSE stream[4]
      subdir == ExfatCollect(img, boot, stream[3], length, child, 0)
  IN IF off >= size \/ w = Zero THEN [ok |-> TRUE, plan |-> <<>>]
     ELSE IF w = None THEN ExfatRefused
     ELSE IF w[1] # "file" THEN rest(1)
     ELSE IF w[2] + 1 < 3 \/ off + w[2] + 1 > size \/ stream[1] # "stream" THEN ExfatRefused
     ELSE IF w[3] /\ (stream[3] = 0 \/ length = 0 \/ ~subdir.ok) THEN ExfatRefused
     ELSE IF ~w[3] /\ ((stream[4] > 0 /\ stream[3] = 0) \/ (stream[3] # 0 /\ ~Valid(boot, stream[3])))
     THEN ExfatRefused
     ELSE Plus(IF w[3] THEN subdir.plan
               ELSE << [path |-> child, start |-> start, blocks |-> Blocks(stream[4]),
                        size |-> stream[4]] >>,
               rest(w[2] + 1))

ExfatPlan(img) ==
  LET boot   == Boot(img)
      length == ChainLength(img, boot, boot.root, 0) * BLOCK
  IN IF ~ExfatOpens(boot) \/ length = 0 THEN ExfatRefused
     ELSE ExfatCollect(img, boot, boot.root, length, <<>>, 0)
=============================================================================
