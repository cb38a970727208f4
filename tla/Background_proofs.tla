-------------------------- MODULE Background_proofs ---------------------------
(***************************************************************************)
(* Proofs about three of the machines that Background composes.             *)
(*                                                                          *)
(* AppConversions, for any number of files and of jobs: an image is whole     *)
(* under its final name, what a conversion starts from stays until its       *)
(* result is in place, and no job loses a file of what it was started on.     *)
(*                                                                          *)
(* Handoff, for any set of instances, with the port shared or not: in quiet    *)
(* handoffs two instances never serve at once, and a reinjection ends no job   *)
(* that holds the slot and began before the busy check was answered.  Neither   *)
(* is inductive.  That a listening instance is alone rests on the new one      *)
(* having found nobody, so the invariant follows the one instance that is      *)
(* taking over from its injection to its listen; that a job is spared rests on  *)
(* the busy check having asked the server the job runs on, so it ties the jobs  *)
(* on the list of who asks to that server.                                   *)
(*                                                                          *)
(* BlockPool, for any number of workers, blocks, slots and source files: no    *)
(* buffer has two users, a deleted file is in the output, and what the        *)
(* threads do together is OrderedOutput.                                    *)
(***************************************************************************)
EXTENDS AppConversions, Handoff, BlockPool, FiniteSetTheorems, SequenceTheorems, NaturalsInduction,
        WellFoundedInduction, TLAPS

-----------------------------------------------------------------------------
(* Compression.                                                             *)

(* The temporary file and the output buffer hold the files that are through,  *)
(* and the finished image all of them.                                       *)
Packed ==
  /\ job.pc \in {"write", "delete"} =>
       job.todo \subseteq job.files /\ tmp.files \cup job.buffered = job.files \ job.todo
  /\ job.pc \in {"layout", "open"} => job.buffered = {}
  /\ job.pc = "layout" => job.files = {}
  /\ job.pc = "open" => job.todo = job.files
  /\ job.pc = "rename" => tmp.files = job.files /\ tmp.table = job.files
  /\ job.pc = "remove" => output.files = job.files
  /\ job.pc = "delete" => job.policy = "stream"

(* A job works on all that the folder held when it was started; only streaming, *)
(* and then only what the temporary file holds, is gone before the rename.    *)
FromWhole ==
  /\ job.pc \in {"layout", "open"} => source = taken
  /\ job.pc \in {"open", "write", "delete", "rename", "remove"} => job.files = taken
  /\ job.pc \in {"write", "delete", "rename"} /\ ~KeepsTmp => source = taken
  /\ job.pc = "failed" /\ ~KeepsTmp => source = taken \/ output.files = taken

Kept == taken \subseteq source \cup tmp.files \cup output.files

CompressInv ==
  /\ TypeOK /\ OutputIsWhole /\ SourceStaysUntilRenamed /\ Packed
  /\ FromWhole /\ Kept

-----------------------------------------------------------------------------
(* Decompression.                                                           *)

(* The tree holds the files that are through.                                *)
Unpacked ==
  /\ unpackJob.pc \in {"extract", "truncate"} => tree.files = Files \ unpackJob.todo /\ tree.partial = {}
  /\ unpackJob.pc \in {"writing", "truncate"} => unpackJob.file \in Files \ unpackJob.todo
  /\ unpackJob.pc = "writing" => tree.files = Files \ (unpackJob.todo \cup {unpackJob.file})
  /\ unpackJob.pc \in {"replace", "rename"} => tree.files = Files /\ tree.partial = {}

(* The image has what it had but for what streaming has unpacked, from its end *)
(* on.                                                                      *)
FromWholeImage ==
  /\ unpackJob.pc \in {"clear", "plan"} => image /\ D!InImage = unpackTaken
  /\ unpackJob.pc \in {"extract", "writing", "truncate", "replace", "rename", "remove"} => image
  /\ unpackJob.pc \in {"extract", "writing", "truncate"} =>
       unpackJob.todo \cap unpackTaken \subseteq 1 .. cut
  /\ unpackJob.pc \in {"writing", "truncate"} /\ unpackJob.policy = "stream" =>
       \A f \in unpackJob.todo : f < unpackJob.file

KeptUnpacking == unpackTaken \subseteq InUnpack

UnpackInv ==
  /\ D!TypeOK /\ D!ImageStaysUntilRenamed /\ D!SuccessIsWhole /\ Unpacked
  /\ FromWholeImage /\ KeptUnpacking
  /\ unpackJob.pc = "truncate" => unpackJob.policy = "stream"

ConversionInv == CompressInv /\ UnpackInv

-----------------------------------------------------------------------------
(* The first and the last file of those that are left.                       *)

LEMMA LeastNumber ==
  ASSUME NEW S \in SUBSET Nat, S # {}
  PROVE  \E x \in S : \A y \in S : x <= y
<1> DEFINE Below == {p \in Nat \X Nat : p[1] < p[2]}
<1>1. IsWellFoundedOn(Below, Nat)
  BY NatLessThanWellFounded DEF OpToRel
<1>2. PICK x \in S : \A y \in S : ~(<<y, x>> \in Below)
  <2> HIDE DEF Below
  <2> QED BY <1>1, WFMin
<1>3. ASSUME NEW y \in S
      PROVE  x <= y
  <2>1. <<y, x>> \in Nat \X Nat /\ <<y, x>>[1] = y /\ <<y, x>>[2] = x
    OBVIOUS
  <2>2. y < x => <<y, x>> \in Below
    BY <2>1
  <2>3. QED  BY <1>2, <2>2
<1>4. QED  BY <1>3

LEMMA MinIsLeast ==
  ASSUME NEW S \in SUBSET Nat, S # {}
  PROVE  Min(S) \in S /\ \A y \in S : Min(S) <= y
BY LeastNumber DEF Min

LEMMA MaxIsGreatest ==
  ASSUME NEW n \in Nat, NEW S \in SUBSET (0 .. n), S # {}
  PROVE  Max(S) \in S /\ \A y \in S : y <= Max(S)
<1> DEFINE T == {n - y : y \in S}
<1>1. T \in SUBSET Nat /\ T # {}
  <2>1. \A y \in S : n - y \in Nat
    OBVIOUS
  <2>2. QED  BY <2>1
<1>2. PICK z \in T : \A y \in T : z <= y
  BY <1>1, LeastNumber
<1>3. PICK x \in S : z = n - x
  OBVIOUS
<1>4. ASSUME NEW y \in S
      PROVE  x >= y
  <2>1. n - y \in T
    OBVIOUS
  <2>2. n - x <= n - y
    BY <1>2, <1>3, <2>1
  <2>3. QED  BY <2>2
<1>5. QED  BY <1>4 DEF Max


-----------------------------------------------------------------------------
(* Compression, step by step.                                               *)

LEMMA CompressAtStart == Init => CompressInv
<1> SUFFICES ASSUME Init
             PROVE  CompressInv
  OBVIOUS
<1>1. TypeOK
  <2>1. NoImage \in Image /\ NoJob \in Jobs
    BY DEF NoImage, Image, NoJob, Jobs, PCs, Policies
  <2>2. folder \in BOOLEAN /\ emptyDir \in BOOLEAN /\ taken \subseteq Files
    BY DEF Init
  <2>3. jobs \in 0 .. MaxJobs
    BY CompressAssumption DEF Init
  <2>4. QED  BY <2>1, <2>2, <2>3 DEF Init, TypeOK
<1>2. OutputIsWhole /\ SourceStaysUntilRenamed /\ Packed
  BY DEF Init, OutputIsWhole, SourceStaysUntilRenamed, Packed, NoImage, NoJob
<1>3. FromWhole /\ Kept
  BY DEF Init, FromWhole, Kept, NoJob
<1>4. QED  BY <1>1, <1>2, <1>3 DEF CompressInv

LEMMA StartHolds ==
  ASSUME CompressInv, NEW policy \in Policies, NEW overwrite \in BOOLEAN, Start(policy, overwrite)
  PROVE  CompressInv'
<1>1. UNCHANGED <<source, folder, emptyDir, tmp, output>>
      /\ taken' = source /\ jobs' \in 0 .. MaxJobs
  BY CompressAssumption DEF CompressInv, TypeOK, Start
<1>2. job' \in Jobs /\ job'.pc = "layout" /\ job'.files = {} /\ job'.buffered = {}
  BY DEF Start, NoJob, Jobs, PCs
<1>3. TypeOK'
  BY <1>1, <1>2 DEF CompressInv, TypeOK
<1>4. OutputIsWhole' /\ SourceStaysUntilRenamed' /\ Packed'
  BY <1>1, <1>2 DEF CompressInv, OutputIsWhole, SourceStaysUntilRenamed, Packed
<1>5. FromWhole' /\ Kept'
  BY <1>1, <1>2 DEF CompressInv, FromWhole, Kept
<1>6. QED  BY <1>3, <1>4, <1>5 DEF CompressInv

LEMMA LayoutHolds ==
  ASSUME CompressInv, Layout
  PROVE  CompressInv'
<1>1. UNCHANGED <<source, folder, emptyDir, tmp, output, jobs, taken>>
      /\ job \in Jobs /\ job.pc = "layout" /\ source \subseteq Files
  BY DEF CompressInv, TypeOK, Layout
<1>2. job' \in Jobs /\ job'.pc = "open" /\ job'.files = source /\ job'.todo = source
      /\ job'.buffered = job.buffered
  BY <1>1 DEF Layout, Jobs, PCs
<1>3. TypeOK'
  BY <1>1, <1>2 DEF CompressInv, TypeOK
<1>4. OutputIsWhole' /\ SourceStaysUntilRenamed' /\ Packed'
  BY <1>1, <1>2 DEF CompressInv, OutputIsWhole, SourceStaysUntilRenamed, Packed
<1>5. FromWhole' /\ Kept'
  BY <1>1, <1>2 DEF CompressInv, FromWhole, Kept
<1>6. QED  BY <1>3, <1>4, <1>5 DEF CompressInv

LEMMA OpenHolds ==
  ASSUME CompressInv, Open
  PROVE  CompressInv'
<1>1. UNCHANGED <<source, folder, emptyDir, output, jobs, taken>>
      /\ job \in Jobs /\ job.pc = "open" /\ job' = [job EXCEPT !.pc = "write"]
  BY DEF CompressInv, TypeOK, Open
<1>2. job' \in Jobs /\ job'.pc = "write" /\ job'.files = job.files /\ job'.todo = job.todo
      /\ job'.buffered = job.buffered /\ job'.policy = job.policy /\ job'.deleting = job.deleting
  BY <1>1 DEF Jobs, PCs
<1>3. tmp' \in Image /\ tmp'.files = {}
  BY DEF Open, NoImage, Image
<1>4. TypeOK'
  BY <1>1, <1>2, <1>3 DEF CompressInv, TypeOK
<1>5. OutputIsWhole' /\ SourceStaysUntilRenamed'
  BY <1>1, <1>2 DEF CompressInv, OutputIsWhole, SourceStaysUntilRenamed
<1>6. Packed'
  BY <1>1, <1>2, <1>3 DEF CompressInv, Packed
<1>7. FromWhole' /\ Kept'
  BY <1>1, <1>2 DEF CompressInv, FromWhole, Kept
<1>8. QED  BY <1>4, <1>5, <1>6, <1>7 DEF CompressInv

LEMMA WriteFileHolds ==
  ASSUME CompressInv, WriteFile
  PROVE  CompressInv'
<1> DEFINE f == Min(job.todo)
           pc == IF job.policy = "stream" THEN "delete" ELSE "write"
<1>1. UNCHANGED <<source, folder, emptyDir, output, jobs, taken>>
      /\ job \in Jobs /\ job.pc = "write" /\ job.todo # {} /\ tmp \in Image
  BY DEF CompressInv, TypeOK, WriteFile
<1>2. f \in job.todo
  BY <1>1, MinIsLeast DEF Jobs, Files
<1>3. /\ f \in Files /\ f \in job.files /\ job.todo \subseteq job.files
      /\ tmp.files \cup job.buffered = job.files \ job.todo
  BY <1>1, <1>2 DEF CompressInv, Packed, Jobs
<1>4. /\ job' \in Jobs /\ job'.pc = pc /\ job'.todo = job.todo \ {f} /\ tmp' \in Image
      /\ job'.files = job.files /\ job'.policy = job.policy /\ job'.deleting = job.deleting
      /\ tmp.files \subseteq tmp'.files
      /\ tmp'.files \cup job'.buffered = tmp.files \cup job.buffered \cup {f}
  <2>1. CASE /\ job' = [job EXCEPT !.pc = pc, !.todo = job.todo \ {f}, !.buffered = @ \cup {f}]
             /\ UNCHANGED tmp
    BY <1>1, <1>3, <2>1 DEF Jobs, PCs
  <2>2. CASE /\ job' = [job EXCEPT !.pc = pc, !.todo = job.todo \ {f}, !.buffered = {f}]
             /\ tmp' = Flushed
    BY <1>1, <1>3, <2>2 DEF Jobs, PCs, Flushed, Image
  <2>3. QED  BY <2>1, <2>2 DEF WriteFile
<1> HIDE DEF f
<1>5. TypeOK'
  BY <1>1, <1>4 DEF CompressInv, TypeOK
<1>6. OutputIsWhole' /\ SourceStaysUntilRenamed'
  BY <1>1, <1>4 DEF CompressInv, OutputIsWhole, SourceStaysUntilRenamed
<1>7. Packed'
  <2>1. job'.todo \subseteq job'.files /\ tmp'.files \cup job'.buffered = job'.files \ job'.todo
    BY <1>2, <1>3, <1>4
  <2>2. QED  BY <1>4, <2>1 DEF Packed
<1>8. FromWhole' /\ Kept'
  BY <1>1, <1>4 DEF CompressInv, FromWhole, Kept, KeepsTmp
<1>9. QED  BY <1>5, <1>6, <1>7, <1>8 DEF CompressInv

(* What is deleted is in the temporary file by then.                         *)
LEMMA DeleteHolds ==
  ASSUME CompressInv, DeleteCommitted
  PROVE  CompressInv'
<1>1. UNCHANGED <<folder, emptyDir, output, jobs, taken>> /\ source' = source \ Complete
      /\ job \in Jobs /\ job.pc = "delete" /\ job.policy = "stream" /\ tmp \in Image
      /\ job.todo \subseteq job.files /\ tmp.files \cup job.buffered = job.files \ job.todo
  BY DEF CompressInv, TypeOK, Packed, DeleteCommitted
<1>2. /\ job' \in Jobs /\ job'.pc = "write" /\ job'.todo = job.todo /\ job'.buffered = {}
      /\ job'.files = job.files /\ job'.policy = "stream" /\ job'.deleting = TRUE
  BY <1>1 DEF DeleteCommitted, FlushFirst, Jobs, PCs
<1>3. tmp' \in Image /\ tmp'.files = Complete
  BY <1>1 DEF DeleteCommitted, FlushFirst, Flushed, Complete, Image, Jobs
<1>4. TypeOK'
  BY <1>1, <1>2, <1>3 DEF CompressInv, TypeOK
<1>5. OutputIsWhole' /\ SourceStaysUntilRenamed'
  BY <1>1, <1>2 DEF CompressInv, OutputIsWhole, SourceStaysUntilRenamed
<1>6. Packed'
  BY <1>1, <1>2, <1>3 DEF Packed, Complete
<1>7. FromWhole' /\ Kept'
  <2>1. Kept => Kept'
    <3>1. tmp.files \subseteq Complete
      BY <1>1 DEF Complete
    <3>2. QED  BY <1>1, <1>3, <3>1 DEF Kept
  <2>2. FromWhole => FromWhole'
    BY <1>1, <1>2 DEF FromWhole, KeepsTmp
  <2>3. QED  BY <1>1, <2>1, <2>2 DEF CompressInv
<1>8. QED  BY <1>4, <1>5, <1>6, <1>7 DEF CompressInv

LEMMA HeaderHolds ==
  ASSUME CompressInv, Header
  PROVE  CompressInv'
<1>1. UNCHANGED <<source, folder, emptyDir, output, jobs, taken>>
      /\ job \in Jobs /\ job.pc = "write" /\ job.todo = {} /\ tmp \in Image
      /\ tmp.files \cup job.buffered = job.files
  BY DEF CompressInv, TypeOK, Packed, Header
<1>2. /\ job' \in Jobs /\ job'.pc = "rename"
      /\ job'.files = job.files /\ job'.policy = job.policy /\ job'.deleting = job.deleting
  BY <1>1 DEF Header, Jobs, PCs
<1>3. tmp' \in Image /\ tmp'.files = job.files /\ tmp'.table = job.files
  BY <1>1 DEF Header, Flushed, Image, Jobs
<1>4. TypeOK'
  BY <1>1, <1>2, <1>3 DEF CompressInv, TypeOK
<1>5. OutputIsWhole' /\ SourceStaysUntilRenamed'
  BY <1>1, <1>2 DEF CompressInv, OutputIsWhole, SourceStaysUntilRenamed
<1>6. Packed'
  BY <1>2, <1>3 DEF Packed
<1>7. FromWhole' /\ Kept'
  <2>1. tmp.files \subseteq tmp'.files
    BY <1>1, <1>3
  <2>2. QED  BY <1>1, <1>2, <2>1 DEF CompressInv, FromWhole, Kept, KeepsTmp
<1>8. QED  BY <1>4, <1>5, <1>6, <1>7 DEF CompressInv

(* The whole image takes the place of what the old output held: nothing is lost  *)
(* because the image holds every file.                                       *)
LEMMA RenameHolds ==
  ASSUME CompressInv, Rename
  PROVE  CompressInv'
<1>1. UNCHANGED <<source, folder, emptyDir, jobs, taken>>
      /\ output' = tmp /\ tmp' = NoImage /\ tmp \in Image
      /\ job \in Jobs /\ job.pc = "rename" /\ tmp.files = job.files /\ tmp.table = job.files
  BY DEF CompressInv, TypeOK, Packed, Rename
<1>2. /\ job' \in Jobs /\ job'.pc = "remove"
      /\ job'.files = job.files /\ job'.policy = job.policy /\ job'.deleting = job.deleting
  BY <1>1 DEF Rename, Jobs, PCs
<1>3. TypeOK'
  BY <1>1, <1>2 DEF CompressInv, TypeOK, NoImage, Image
<1>4. OutputIsWhole' /\ Packed'
  BY <1>1, <1>2 DEF OutputIsWhole, Packed
<1>5. SourceStaysUntilRenamed'
  BY <1>1, <1>2 DEF CompressInv, SourceStaysUntilRenamed
<1>6. FromWhole' /\ Kept'
  BY <1>1, <1>2 DEF CompressInv, FromWhole, Kept
<1>7. QED  BY <1>3, <1>4, <1>5, <1>6 DEF CompressInv

LEMMA RemoveSourceHolds ==
  ASSUME CompressInv, RemoveSource
  PROVE  CompressInv'
<1>1. UNCHANGED <<tmp, output, jobs, taken>>
      /\ job \in Jobs /\ job.pc = "remove" /\ output.files = job.files
  BY DEF CompressInv, TypeOK, Packed, RemoveSource
<1>2. source' \subseteq source /\ folder' \in BOOLEAN /\ emptyDir' \in BOOLEAN
  BY DEF CompressInv, TypeOK, RemoveSource
<1>3. /\ job' = NoJob \/ job' = [job EXCEPT !.pc = "failed"]
      /\ source' = source \/ job.policy = "after"
  BY DEF RemoveSource
<1>4. /\ job' \in Jobs
      /\ \/ job'.pc = "idle"
         \/ job'.pc = "failed" /\ job'.files = job.files /\ job'.policy = job.policy
  <2>1. NoJob \in Jobs /\ NoJob.pc = "idle"
    BY DEF Jobs, PCs, NoJob, Policies
  <2>2. CASE job' = NoJob
    BY <2>1, <2>2
  <2>3. CASE job' = [job EXCEPT !.pc = "failed"]
    BY <1>1, <2>3 DEF Jobs, PCs
  <2>4. QED  BY <1>3, <2>2, <2>3
<1>5. TypeOK'
  BY <1>1, <1>2, <1>4 DEF CompressInv, TypeOK
<1>6. OutputIsWhole' /\ Packed'
  BY <1>1, <1>4 DEF CompressInv, OutputIsWhole, Packed
<1>7. SourceStaysUntilRenamed'
  BY <1>1, <1>3, <1>4 DEF CompressInv, SourceStaysUntilRenamed
<1>8. FromWhole' /\ Kept'
  BY <1>1, <1>4 DEF CompressInv, FromWhole, Kept
<1>9. QED  BY <1>5, <1>6, <1>7, <1>8 DEF CompressInv

LEMMA FailHolds ==
  ASSUME CompressInv, Fail
  PROVE  CompressInv'
<1>1. UNCHANGED <<source, folder, emptyDir, tmp, output, jobs, taken>>
      /\ job \in Jobs /\ job.pc \in {"layout", "open", "write", "delete", "rename"}
      /\ job' = [job EXCEPT !.pc = "failed"] /\ (job.pc = "layout" => job.files = {})
  BY DEF CompressInv, TypeOK, Packed, Fail
<1>2. /\ job' \in Jobs /\ job'.pc = "failed"
      /\ job'.files = job.files /\ job'.policy = job.policy /\ job'.deleting = job.deleting
  BY <1>1 DEF Jobs, PCs
<1>3. TypeOK'
  BY <1>1, <1>2 DEF CompressInv, TypeOK
<1>4. OutputIsWhole' /\ Packed'
  BY <1>1, <1>2 DEF CompressInv, OutputIsWhole, Packed
<1>5. SourceStaysUntilRenamed'
  BY <1>1, <1>2 DEF CompressInv, SourceStaysUntilRenamed
<1>6. FromWhole' /\ Kept'
  BY <1>1, <1>2 DEF CompressInv, FromWhole, Kept, KeepsTmp
<1>7. QED  BY <1>3, <1>4, <1>5, <1>6 DEF CompressInv

(* The temporary file of a job that fails goes only where the folder is whole  *)
(* or the image in place.                                                   *)
LEMMA DoneHolds ==
  ASSUME CompressInv, Done \/ Kill
  PROVE  CompressInv'
<1>1. UNCHANGED <<source, folder, emptyDir, output, jobs, taken>> /\ job' = NoJob
      /\ (tmp' = tmp \/ (tmp' = NoImage /\ job.pc = "failed" /\ ~KeepsTmp))
  BY DEF Done, Kill
<1>2. job' \in Jobs /\ job'.pc = "idle"
  BY <1>1 DEF NoJob, Jobs, PCs, Policies
<1>3. TypeOK'
  <2>1. NoImage \in Image
    BY DEF NoImage, Image
  <2>2. QED  BY <1>1, <1>2, <2>1 DEF CompressInv, TypeOK
<1>4. OutputIsWhole' /\ Packed' /\ SourceStaysUntilRenamed'
  BY <1>1, <1>2 DEF CompressInv, OutputIsWhole, Packed, SourceStaysUntilRenamed
<1>5. FromWhole' /\ Kept'
  <2>1. CASE tmp' = tmp
    BY <1>1, <1>2, <2>1 DEF CompressInv, FromWhole, Kept
  <2>2. CASE job.pc = "failed" /\ ~KeepsTmp
    BY <1>1, <1>2, <2>2 DEF CompressInv, FromWhole, Kept
  <2>3. QED  BY <1>1, <2>1, <2>2
<1>6. QED  BY <1>3, <1>4, <1>5 DEF CompressInv

LEMMA CompressHolds ==
  ASSUME CompressInv, Next
  PROVE  CompressInv'
BY StartHolds, LayoutHolds, OpenHolds, WriteFileHolds, DeleteHolds, HeaderHolds, RenameHolds,
   RemoveSourceHolds, FailHolds, DoneHolds DEF Next

-----------------------------------------------------------------------------
(* Decompression, step by step.                                             *)

LEMMA SameFiles == D!Files = Files /\ Files \subseteq Nat /\ FileCount \in Nat
BY CompressAssumption DEF Files, D!Files

LEMMA UnpackAtStart == D!Init => UnpackInv
<1> SUFFICES ASSUME D!Init
             PROVE  UnpackInv
  OBVIOUS
<1>1. D!NoTree \in D!Tree /\ [D!NoTree EXCEPT !.there = TRUE] \in D!Tree /\ D!NoJob \in D!Jobs
  BY DEF D!NoTree, D!Tree, D!NoJob, D!Jobs, D!PCs, D!Policies
<1>2. image = TRUE /\ cut = FileCount /\ tree = D!NoTree /\ unpackJob = D!NoJob
      /\ unpackJobs = 0 /\ unpackTaken = Files /\ unpackJob.pc = "idle"
  BY SameFiles DEF D!Init, D!NoJob
<1>3. D!TypeOK
  <2>1. unpacked \in D!Tree
    BY <1>1 DEF D!Init
  <2>2. cut \in 0 .. FileCount /\ unpackJobs \in 0 .. MaxJobs
    BY <1>2, CompressAssumption
  <2>3. image \in BOOLEAN /\ unpackTaken \subseteq D!Files
    BY <1>2, SameFiles
  <2>4. QED  BY <1>1, <1>2, <2>1, <2>2, <2>3 DEF D!TypeOK
<1>4. D!ImageStaysUntilRenamed /\ D!SuccessIsWhole /\ Unpacked /\ FromWholeImage
  BY <1>2 DEF D!ImageStaysUntilRenamed, D!SuccessIsWhole, Unpacked, FromWholeImage, D!InImage
<1>5. KeptUnpacking
  BY <1>2 DEF KeptUnpacking, InUnpack, D!InImage, Files
<1>6. QED  BY <1>2, <1>3, <1>4, <1>5 DEF UnpackInv

LEMMA UnpackStartHolds ==
  ASSUME UnpackInv, NEW policy \in D!Policies, NEW overwrite \in BOOLEAN,
         D!Start(policy, overwrite)
  PROVE  UnpackInv'
<1>1. UNCHANGED <<image, cut, tree, unpacked>> /\ image = TRUE
      /\ unpackTaken' = D!InImage /\ unpackJobs' = unpackJobs + 1
      /\ unpackJobs < MaxJobs /\ cut \in 0 .. FileCount /\ unpackJobs \in 0 .. MaxJobs
      /\ unpacked.there \in BOOLEAN
  BY DEF D!Start, UnpackInv, D!TypeOK, D!Tree
<1>2. unpackJob' \in D!Jobs /\ unpackJob'.pc = "clear"
  <2>1. (overwrite \/ unpacked.there) \in BOOLEAN
    BY <1>1
  <2>2. QED  BY <2>1 DEF D!Start, D!NoJob, D!Jobs, D!PCs
<1>3. unpackTaken' \subseteq D!Files /\ unpackJobs' \in 0 .. MaxJobs
      /\ D!InImage' = unpackTaken'
  <2>1. unpackTaken' \subseteq D!Files
    BY <1>1, SameFiles DEF D!InImage, Files
  <2>2. unpackJobs' \in 0 .. MaxJobs
    BY <1>1, CompressAssumption
  <2>3. QED  BY <1>1, <2>1, <2>2 DEF D!InImage
<1>4. D!TypeOK'
  BY <1>1, <1>2, <1>3 DEF UnpackInv, D!TypeOK
<1>5. D!ImageStaysUntilRenamed' /\ D!SuccessIsWhole' /\ Unpacked'
  BY <1>1, <1>2, <1>3 DEF UnpackInv, D!ImageStaysUntilRenamed, D!SuccessIsWhole, Unpacked, D!InImage
<1>6. FromWholeImage' /\ KeptUnpacking'
  BY <1>1, <1>2, <1>3 DEF UnpackInv, FromWholeImage, KeptUnpacking, InUnpack, D!InImage
<1>7. QED  BY <1>2, <1>4, <1>5, <1>6 DEF UnpackInv

(* The old tree goes while the image is whole.                               *)
LEMMA ClearHolds ==
  ASSUME UnpackInv, D!ClearTmp
  PROVE  UnpackInv'
<1>1. UNCHANGED <<image, cut, unpacked, unpackJobs, unpackTaken>>
      /\ unpackJob \in D!Jobs /\ unpackJob.pc = "clear" /\ tree \in D!Tree
  BY DEF D!ClearTmp, UnpackInv, D!TypeOK
<1>2. PICK pc \in {"plan", "failed"} : unpackJob' = [unpackJob EXCEPT !.pc = pc]
  BY DEF D!ClearTmp
<1>3. unpackJob' \in D!Jobs /\ unpackJob'.pc \in {"plan", "failed"}
      /\ unpackJob'.policy = unpackJob.policy
  BY <1>1, <1>2 DEF D!Jobs, D!PCs
<1>4. tree' \in D!Tree
  <2>1. D!NoTree \in D!Tree
    BY DEF D!NoTree, D!Tree
  <2>2. ASSUME NEW f \in SUBSET tree.files
        PROVE  [tree EXCEPT !.files = f, !.partial = {}] \in D!Tree
    BY <1>1 DEF D!Tree
  <2>3. QED  BY <2>1, <2>2 DEF D!ClearTmp
<1>5. D!TypeOK'
  BY <1>1, <1>3, <1>4 DEF UnpackInv, D!TypeOK
<1>6. D!ImageStaysUntilRenamed' /\ D!SuccessIsWhole' /\ Unpacked'
  BY <1>1, <1>3 DEF UnpackInv, D!ImageStaysUntilRenamed, D!SuccessIsWhole, Unpacked, D!InImage
<1>7. FromWholeImage' /\ KeptUnpacking'
  BY <1>1, <1>3 DEF UnpackInv, FromWholeImage, KeptUnpacking, InUnpack, D!InImage, Files
<1>8. QED  BY <1>3, <1>5, <1>6, <1>7 DEF UnpackInv

LEMMA PlanHolds ==
  ASSUME UnpackInv, D!Plan
  PROVE  UnpackInv'
<1>1. UNCHANGED <<image, cut, unpacked, unpackJobs, unpackTaken>>
      /\ unpackJob \in D!Jobs /\ unpackJob.pc = "plan"
  BY DEF D!Plan, UnpackInv, D!TypeOK
<1>2. unpackJob' \in D!Jobs /\ unpackJob'.pc = "extract" /\ unpackJob'.todo = Files
      /\ unpackJob'.policy = unpackJob.policy
  BY <1>1, SameFiles DEF D!Plan, D!Jobs, D!PCs
<1>3. tree' \in D!Tree /\ tree'.files = {} /\ tree'.partial = {}
  BY DEF D!Plan, D!NoTree, D!Tree
<1>4. D!TypeOK'
  BY <1>1, <1>2, <1>3 DEF UnpackInv, D!TypeOK
<1>5. D!ImageStaysUntilRenamed' /\ D!SuccessIsWhole' /\ Unpacked'
  BY <1>1, <1>2, <1>3 DEF UnpackInv, D!ImageStaysUntilRenamed, D!SuccessIsWhole, Unpacked, D!InImage
<1>6. FromWholeImage' /\ KeptUnpacking'
  BY <1>1, <1>2, <1>3 DEF UnpackInv, FromWholeImage, KeptUnpacking, InUnpack, D!InImage, Files
<1>7. QED  BY <1>2, <1>4, <1>5, <1>6 DEF UnpackInv

(* Streaming takes the last file that is left: all others lie before it.      *)
LEMMA NextFileIsLeft ==
  ASSUME UnpackInv, unpackJob.todo # {}
  PROVE  /\ D!NextFile \in unpackJob.todo /\ D!NextFile \in Files
         /\ unpackJob.policy = "stream" =>
              \A f \in unpackJob.todo \ {D!NextFile} : f < D!NextFile
<1>1. unpackJob.todo \subseteq Files /\ unpackJob.todo \in SUBSET Nat
      /\ unpackJob.todo \in SUBSET (0 .. FileCount)
  BY SameFiles DEF UnpackInv, D!TypeOK, D!Jobs, Files
<1>2. Min(unpackJob.todo) \in unpackJob.todo
  BY <1>1, MinIsLeast
<1>3. Max(unpackJob.todo) \in unpackJob.todo
      /\ \A f \in unpackJob.todo : f <= Max(unpackJob.todo)
  BY <1>1, SameFiles, MaxIsGreatest
<1>4. Max(unpackJob.todo) \in Nat /\ \A f \in unpackJob.todo : f \in Nat
  BY <1>1, <1>3
<1>5. \A f \in unpackJob.todo \ {Max(unpackJob.todo)} : f < Max(unpackJob.todo)
  BY <1>3, <1>4
<1>6. D!NextFile = IF unpackJob.policy = "stream" THEN Max(unpackJob.todo) ELSE Min(unpackJob.todo)
  BY DEF D!NextFile, D!Max, D!Min, Max, Min
<1>7. CASE unpackJob.policy = "stream"
  BY <1>1, <1>3, <1>5, <1>6, <1>7
<1>8. CASE unpackJob.policy # "stream"
  BY <1>1, <1>2, <1>6, <1>8
<1>9. QED  BY <1>7, <1>8

LEMMA CreateHolds ==
  ASSUME UnpackInv, D!Create
  PROVE  UnpackInv'
<1> DEFINE f == D!NextFile
<1>1. UNCHANGED <<image, cut, unpacked, unpackJobs, unpackTaken>>
      /\ unpackJob \in D!Jobs /\ unpackJob.pc = "extract" /\ unpackJob.todo # {}
      /\ tree \in D!Tree /\ cut \in 0 .. FileCount /\ tree.files = Files \ unpackJob.todo
  BY DEF D!Create, UnpackInv, D!TypeOK, Unpacked
<1>2. /\ f \in unpackJob.todo /\ f \in Files
      /\ unpackJob.policy = "stream" => \A g \in unpackJob.todo \ {f} : g < f
  BY <1>1, NextFileIsLeft
<1>3. /\ tree' = [tree EXCEPT !.partial = @ \cup {f}]
      /\ unpackJob' = [unpackJob EXCEPT !.pc = "writing", !.file = f, !.todo = @ \ {f}]
  BY DEF D!Create
<1> HIDE DEF f
<1>4. /\ unpackJob' \in D!Jobs /\ unpackJob'.pc = "writing" /\ unpackJob'.file = f
      /\ unpackJob'.todo = unpackJob.todo \ {f} /\ unpackJob'.policy = unpackJob.policy
  BY <1>1, <1>2, <1>3, SameFiles DEF D!Jobs, D!PCs
<1>5. tree' \in D!Tree /\ tree'.files = tree.files
  BY <1>1, <1>2, <1>3, SameFiles DEF D!Tree
<1>6. D!TypeOK'
  BY <1>1, <1>4, <1>5 DEF UnpackInv, D!TypeOK
<1>7. D!ImageStaysUntilRenamed' /\ D!SuccessIsWhole'
  BY <1>1, <1>4 DEF UnpackInv, D!ImageStaysUntilRenamed, D!SuccessIsWhole, D!InImage
<1>8. Unpacked'
  <2>1. tree'.files = Files \ (unpackJob'.todo \cup {f}) /\ f \in Files \ unpackJob'.todo
    BY <1>1, <1>2, <1>4, <1>5
  <2>2. QED  BY <1>4, <2>1 DEF Unpacked
<1>9. FromWholeImage' /\ KeptUnpacking'
  <2>1. FromWholeImage => FromWholeImage'
    <3>1. SUFFICES ASSUME FromWholeImage
                   PROVE  FromWholeImage'
      OBVIOUS
    <3>2. image /\ unpackJob.todo \cap unpackTaken \subseteq 1 .. cut
      BY <1>1, <3>1 DEF FromWholeImage, D!InImage
    <3>3. QED  BY <1>1, <1>2, <1>4, <3>2 DEF FromWholeImage, D!InImage
  <2>2. KeptUnpacking => KeptUnpacking'
    BY <1>1, <1>5 DEF KeptUnpacking, InUnpack, D!InImage
  <2>3. QED  BY <1>1, <2>1, <2>2 DEF UnpackInv
<1>10. QED  BY <1>4, <1>6, <1>7, <1>8, <1>9 DEF UnpackInv

LEMMA ExtractFileHolds ==
  ASSUME UnpackInv, D!ExtractFile
  PROVE  UnpackInv'
<1> DEFINE pc == IF unpackJob.policy = "stream" THEN "truncate" ELSE "extract"
<1>1. UNCHANGED <<image, cut, unpacked, unpackJobs, unpackTaken>>
      /\ unpackJob \in D!Jobs /\ unpackJob.pc = "writing" /\ tree \in D!Tree
      /\ unpackJob.file \in Files \ unpackJob.todo
      /\ tree.files = Files \ (unpackJob.todo \cup {unpackJob.file})
  BY DEF D!ExtractFile, UnpackInv, D!TypeOK, Unpacked
<1>2. /\ unpackJob' \in D!Jobs /\ unpackJob'.pc = pc /\ unpackJob'.file = unpackJob.file
      /\ unpackJob'.todo = unpackJob.todo /\ unpackJob'.policy = unpackJob.policy
  BY <1>1 DEF D!ExtractFile, D!Jobs, D!PCs
<1>3. /\ tree' \in D!Tree /\ tree'.partial = {}
      /\ tree'.files = tree.files \cup {unpackJob.file}
  BY <1>1, SameFiles DEF D!ExtractFile, D!Tree
<1>4. D!TypeOK'
  BY <1>1, <1>2, <1>3 DEF UnpackInv, D!TypeOK
<1>5. D!ImageStaysUntilRenamed' /\ D!SuccessIsWhole'
  BY <1>1, <1>2 DEF UnpackInv, D!ImageStaysUntilRenamed, D!SuccessIsWhole, D!InImage
<1>6. Unpacked'
  <2>1. tree'.files = Files \ unpackJob'.todo
    BY <1>1, <1>2, <1>3
  <2>2. QED  BY <1>1, <1>2, <1>3, <2>1 DEF Unpacked
<1>7. FromWholeImage' /\ KeptUnpacking'
  <2>1. FromWholeImage => FromWholeImage'
    BY <1>1, <1>2 DEF FromWholeImage, D!InImage
  <2>2. KeptUnpacking => KeptUnpacking'
    BY <1>1, <1>3 DEF KeptUnpacking, InUnpack, D!InImage
  <2>3. QED  BY <1>1, <2>1, <2>2 DEF UnpackInv
<1>8. QED  BY <1>2, <1>4, <1>5, <1>6, <1>7 DEF UnpackInv

LEMMA ExtractFailsHolds ==
  ASSUME UnpackInv, D!ExtractFails
  PROVE  UnpackInv'
<1>1. UNCHANGED <<image, cut, unpacked, unpackJobs, unpackTaken>>
      /\ unpackJob \in D!Jobs /\ unpackJob.pc = "writing" /\ tree \in D!Tree
      /\ tree' = [tree EXCEPT !.partial = {}]
      /\ unpackJob' = [unpackJob EXCEPT !.pc = "failed"]
  BY DEF D!ExtractFails, UnpackInv, D!TypeOK
<1>2. unpackJob' \in D!Jobs /\ unpackJob'.pc = "failed" /\ unpackJob'.policy = unpackJob.policy
  BY <1>1 DEF D!Jobs, D!PCs
<1>3. tree' \in D!Tree /\ tree'.files = tree.files
  BY <1>1 DEF D!Tree
<1>4. D!TypeOK'
  BY <1>1, <1>2, <1>3 DEF UnpackInv, D!TypeOK
<1>5. D!ImageStaysUntilRenamed' /\ D!SuccessIsWhole' /\ Unpacked'
  BY <1>1, <1>2 DEF UnpackInv, D!ImageStaysUntilRenamed, D!SuccessIsWhole, Unpacked, D!InImage
<1>6. FromWholeImage' /\ KeptUnpacking'
  BY <1>1, <1>2, <1>3 DEF UnpackInv, FromWholeImage, KeptUnpacking, InUnpack, D!InImage
<1>7. QED  BY <1>2, <1>4, <1>5, <1>6 DEF UnpackInv

(* What is cut off has been unpacked: what is left lies before it.            *)
LEMMA TruncateHolds ==
  ASSUME UnpackInv, D!Truncate
  PROVE  UnpackInv'
<1>1. UNCHANGED <<image, tree, unpacked, unpackJobs, unpackTaken>>
      /\ unpackJob \in D!Jobs /\ unpackJob.pc = "truncate" /\ cut' = unpackJob.file - 1
      /\ unpackJob' = [unpackJob EXCEPT !.pc = "extract"]
      /\ tree.files = Files \ unpackJob.todo /\ tree.partial = {}
      /\ unpackJob.file \in Files /\ unpackJob.todo \subseteq Files
      /\ unpackJob.policy = "stream"
  BY SameFiles DEF D!Truncate, UnpackInv, D!TypeOK, Unpacked, D!Jobs
<1>2. /\ unpackJob' \in D!Jobs /\ unpackJob'.pc = "extract"
      /\ unpackJob'.todo = unpackJob.todo /\ unpackJob'.policy = unpackJob.policy
  BY <1>1 DEF D!Jobs, D!PCs
<1>3. cut' \in 0 .. FileCount
  BY <1>1, SameFiles DEF Files
<1>4. D!TypeOK'
  BY <1>1, <1>2, <1>3 DEF UnpackInv, D!TypeOK
<1>5. D!ImageStaysUntilRenamed' /\ D!SuccessIsWhole' /\ Unpacked'
  BY <1>1, <1>2 DEF UnpackInv, D!ImageStaysUntilRenamed, D!SuccessIsWhole, Unpacked, D!InImage
<1>6. ASSUME FromWholeImage
      PROVE  FromWholeImage' /\ KeptUnpacking'
  <2>1. image /\ \A f \in unpackJob.todo : f < unpackJob.file
    BY <1>1, <1>6 DEF FromWholeImage, D!InImage
  <2>2. unpackJob.todo \subseteq 1 .. cut'
    BY <1>1, <2>1 DEF Files
  <2>3. FromWholeImage'
    BY <1>1, <1>2, <2>1, <2>2 DEF FromWholeImage, D!InImage
  <2>4. unpackTaken' \subseteq unpackJob.todo \cup tree'.files
    BY <1>1, SameFiles DEF UnpackInv, D!TypeOK
  <2>5. KeptUnpacking'
    BY <1>1, <2>1, <2>2, <2>4 DEF KeptUnpacking, InUnpack, D!InImage
  <2>6. QED  BY <2>3, <2>5
<1>7. FromWholeImage' /\ KeptUnpacking'
  BY <1>1, <1>6 DEF UnpackInv
<1>8. QED  BY <1>2, <1>4, <1>5, <1>7 DEF UnpackInv

LEMMA ExtractedHolds ==
  ASSUME UnpackInv, D!Extracted
  PROVE  UnpackInv'
<1>1. UNCHANGED <<image, cut, tree, unpacked, unpackJobs, unpackTaken>>
      /\ unpackJob \in D!Jobs /\ unpackJob.pc = "extract" /\ unpackJob.todo = {}
      /\ tree.files = Files /\ tree.partial = {}
  BY DEF D!Extracted, UnpackInv, D!TypeOK, Unpacked
<1>2. unpackJob' \in D!Jobs /\ unpackJob'.pc \in {"replace", "rename"}
      /\ unpackJob'.policy = unpackJob.policy
  BY <1>1 DEF D!Extracted, D!Jobs, D!PCs
<1>3. D!TypeOK'
  BY <1>1, <1>2 DEF UnpackInv, D!TypeOK
<1>4. D!ImageStaysUntilRenamed' /\ D!SuccessIsWhole' /\ Unpacked'
  BY <1>1, <1>2 DEF UnpackInv, D!ImageStaysUntilRenamed, D!SuccessIsWhole, Unpacked, D!InImage
<1>5. FromWholeImage' /\ KeptUnpacking'
  BY <1>1, <1>2 DEF UnpackInv, FromWholeImage, KeptUnpacking, InUnpack, D!InImage
<1>6. QED  BY <1>2, <1>3, <1>4, <1>5 DEF UnpackInv

(* The old output goes when the tree holds every file.                       *)
LEMMA ReplaceHolds ==
  ASSUME UnpackInv, D!Replace
  PROVE  UnpackInv'
<1>1. UNCHANGED <<image, cut, tree, unpackJobs, unpackTaken>>
      /\ unpackJob \in D!Jobs /\ unpackJob.pc = "replace" /\ unpacked \in D!Tree
      /\ tree.files = Files /\ tree.partial = {}
  BY DEF D!Replace, UnpackInv, D!TypeOK, Unpacked
<1>2. PICK pc \in {"rename", "failed"} : unpackJob' = [unpackJob EXCEPT !.pc = pc]
  BY DEF D!Replace
<1>3. unpackJob' \in D!Jobs /\ unpackJob'.pc \in {"rename", "failed"}
      /\ unpackJob'.policy = unpackJob.policy
  BY <1>1, <1>2 DEF D!Jobs, D!PCs
<1>4. unpacked' \in D!Tree
  <2>1. D!NoTree \in D!Tree
    BY DEF D!NoTree, D!Tree
  <2>2. ASSUME NEW f \in SUBSET unpacked.files
        PROVE  [unpacked EXCEPT !.files = f] \in D!Tree
    BY <1>1 DEF D!Tree
  <2>3. QED  BY <2>1, <2>2 DEF D!Replace
<1>5. D!TypeOK'
  BY <1>1, <1>3, <1>4 DEF UnpackInv, D!TypeOK
<1>6. D!ImageStaysUntilRenamed' /\ D!SuccessIsWhole' /\ Unpacked'
  BY <1>1, <1>3 DEF UnpackInv, D!ImageStaysUntilRenamed, D!SuccessIsWhole, Unpacked, D!InImage
<1>7. FromWholeImage' /\ KeptUnpacking'
  <2>1. unpackTaken \subseteq Files
    BY SameFiles DEF UnpackInv, D!TypeOK
  <2>2. QED
    BY <1>1, <1>3, <2>1 DEF UnpackInv, FromWholeImage, KeptUnpacking, InUnpack, D!InImage
<1>8. QED  BY <1>3, <1>5, <1>6, <1>7 DEF UnpackInv

LEMMA UnpackRenameHolds ==
  ASSUME UnpackInv, D!Rename
  PROVE  UnpackInv'
<1>1. UNCHANGED <<image, cut, unpackJobs, unpackTaken>>
      /\ unpacked' = tree /\ tree' = D!NoTree /\ tree \in D!Tree
      /\ unpackJob \in D!Jobs /\ unpackJob.pc = "rename"
      /\ unpackJob' = [unpackJob EXCEPT !.pc = "remove"]
      /\ tree.files = Files /\ tree.partial = {}
  BY DEF D!Rename, UnpackInv, D!TypeOK, Unpacked
<1>2. unpackJob' \in D!Jobs /\ unpackJob'.pc = "remove" /\ unpackJob'.policy = unpackJob.policy
  BY <1>1 DEF D!Jobs, D!PCs
<1>3. D!TypeOK'
  <2>1. D!NoTree \in D!Tree
    BY DEF D!NoTree, D!Tree
  <2>2. QED  BY <1>1, <1>2, <2>1 DEF UnpackInv, D!TypeOK
<1>4. D!SuccessIsWhole' /\ Unpacked'
  BY <1>1, <1>2, SameFiles DEF D!SuccessIsWhole, Unpacked
<1>5. D!ImageStaysUntilRenamed'
  BY <1>1, <1>2 DEF UnpackInv, D!ImageStaysUntilRenamed, D!InImage
<1>6. FromWholeImage' /\ KeptUnpacking'
  <2>1. unpackTaken \subseteq Files
    BY SameFiles DEF UnpackInv, D!TypeOK
  <2>2. QED  BY <1>1, <1>2, <2>1 DEF UnpackInv, FromWholeImage, KeptUnpacking, InUnpack
<1>7. QED  BY <1>2, <1>3, <1>4, <1>5, <1>6 DEF UnpackInv

(* The image goes when the new folder holds every file.                      *)
LEMMA RemoveImageHolds ==
  ASSUME UnpackInv, D!RemoveImage
  PROVE  UnpackInv'
<1>1. UNCHANGED <<cut, tree, unpacked, unpackJobs, unpackTaken>>
      /\ unpackJob \in D!Jobs /\ unpackJob.pc = "remove" /\ unpacked.files = Files
      /\ unpackJob.policy \in {"keep", "after", "stream"}
  BY SameFiles DEF D!RemoveImage, UnpackInv, D!TypeOK, D!SuccessIsWhole, D!Jobs, D!Policies
<1>2. \/ unpackJob' = D!NoJob
      \/ image' = image /\ unpackJob' = [unpackJob EXCEPT !.pc = "failed"]
  BY DEF D!RemoveImage
<1>3. image' \in BOOLEAN
  BY DEF D!RemoveImage, UnpackInv, D!TypeOK
<1>4. /\ unpackJob' \in D!Jobs
      /\ \/ unpackJob'.pc = "idle"
         \/ /\ unpackJob'.pc = "failed" /\ unpackJob'.policy = unpackJob.policy
            /\ image' = image
  <2>1. D!NoJob \in D!Jobs /\ D!NoJob.pc = "idle"
    BY DEF D!NoJob, D!Jobs, D!PCs, D!Policies
  <2>2. CASE unpackJob' = D!NoJob
    BY <2>1, <2>2
  <2>3. CASE image' = image /\ unpackJob' = [unpackJob EXCEPT !.pc = "failed"]
    BY <1>1, <2>3 DEF D!Jobs, D!PCs
  <2>4. QED  BY <1>2, <2>2, <2>3
<1>5. D!TypeOK'
  BY <1>1, <1>3, <1>4 DEF UnpackInv, D!TypeOK
<1>6. D!SuccessIsWhole' /\ Unpacked'
  BY <1>4 DEF D!SuccessIsWhole, Unpacked
<1>7. D!ImageStaysUntilRenamed'
  BY <1>1, <1>4 DEF UnpackInv, D!ImageStaysUntilRenamed, D!InImage
<1>8. FromWholeImage' /\ KeptUnpacking'
  <2>1. unpackTaken \subseteq Files
    BY SameFiles DEF UnpackInv, D!TypeOK
  <2>2. QED  BY <1>1, <1>4, <2>1 DEF FromWholeImage, KeptUnpacking, InUnpack
<1>9. QED  BY <1>4, <1>5, <1>6, <1>7, <1>8 DEF UnpackInv

LEMMA UnpackFailHolds ==
  ASSUME UnpackInv, D!Fail
  PROVE  UnpackInv'
<1>1. UNCHANGED <<image, cut, tree, unpacked, unpackJobs, unpackTaken>> /\ unpackJob \in D!Jobs
      /\ unpackJob.pc \in {"plan", "extract", "truncate", "rename"}
      /\ unpackJob' = [unpackJob EXCEPT !.pc = "failed"]
  BY DEF D!Fail, UnpackInv, D!TypeOK
<1>2. unpackJob' \in D!Jobs /\ unpackJob'.pc = "failed" /\ unpackJob'.policy = unpackJob.policy
  BY <1>1 DEF D!Jobs, D!PCs
<1>3. D!TypeOK'
  BY <1>1, <1>2 DEF UnpackInv, D!TypeOK
<1>4. D!ImageStaysUntilRenamed' /\ D!SuccessIsWhole' /\ Unpacked'
  BY <1>1, <1>2 DEF UnpackInv, D!ImageStaysUntilRenamed, D!SuccessIsWhole, Unpacked, D!InImage
<1>5. FromWholeImage' /\ KeptUnpacking'
  BY <1>1, <1>2 DEF UnpackInv, FromWholeImage, KeptUnpacking, InUnpack, D!InImage
<1>6. QED  BY <1>2, <1>3, <1>4, <1>5 DEF UnpackInv

(* The tree of a job that fails goes only where the image is whole or the      *)
(* folder in place.                                                         *)
LEMMA UnpackDoneHolds ==
  ASSUME UnpackInv, D!Done \/ D!Kill
  PROVE  UnpackInv'
<1>1. UNCHANGED <<image, cut, unpacked, unpackJobs, unpackTaken>> /\ unpackJob' = D!NoJob
      /\ \/ tree' = tree
         \/ tree' = D!NoTree /\ unpackJob.pc = "failed" /\ unpackJob.policy # "stream"
  BY DEF D!Done, D!Kill, D!KeepsTmp
<1>2. unpackJob' \in D!Jobs /\ unpackJob'.pc = "idle"
  BY <1>1 DEF D!NoJob, D!Jobs, D!PCs, D!Policies
<1>3. D!TypeOK'
  <2>1. D!NoTree \in D!Tree
    BY DEF D!NoTree, D!Tree
  <2>2. QED  BY <1>1, <1>2, <2>1 DEF UnpackInv, D!TypeOK
<1>4. D!ImageStaysUntilRenamed' /\ D!SuccessIsWhole' /\ Unpacked' /\ FromWholeImage'
  BY <1>2 DEF D!ImageStaysUntilRenamed, D!SuccessIsWhole, Unpacked, FromWholeImage, D!InImage
<1>5. KeptUnpacking'
  <2>1. CASE tree' = tree
    BY <1>1, <2>1 DEF UnpackInv, KeptUnpacking, InUnpack, D!InImage
  <2>2. CASE unpackJob.pc = "failed" /\ unpackJob.policy # "stream"
    BY <1>1, <2>2, SameFiles
       DEF UnpackInv, D!ImageStaysUntilRenamed, KeptUnpacking, InUnpack, D!InImage, Files
  <2>3. QED  BY <1>1, <2>1, <2>2
<1>6. QED  BY <1>2, <1>3, <1>4, <1>5 DEF UnpackInv

LEMMA UnpackHolds ==
  ASSUME UnpackInv, D!Next
  PROVE  UnpackInv'
BY UnpackStartHolds, ClearHolds, PlanHolds, CreateHolds, ExtractFileHolds, ExtractFailsHolds,
   TruncateHolds, ExtractedHolds, ReplaceHolds, UnpackRenameHolds, RemoveImageHolds,
   UnpackFailHolds, UnpackDoneHolds DEF D!Next

-----------------------------------------------------------------------------
(* The theorems.                                                            *)

(* AppCompress and AppDecompress: each conversion keeps its part of the        *)
(* invariant, whichever of its steps come and wherever it is killed.         *)
THEOREM ConversionInvariant == RoundTripSpec => []ConversionInv
<1>1. RoundTripInit => ConversionInv
  BY CompressAtStart, UnpackAtStart DEF RoundTripInit, ConversionInv
<1>2. ConversionInv /\ [RoundTripNext]_<<vars, unpackVars>> => ConversionInv'
  <2> SUFFICES ASSUME ConversionInv, [RoundTripNext]_<<vars, unpackVars>>
               PROVE  ConversionInv'
    OBVIOUS
  <2>1. ASSUME UNCHANGED vars
        PROVE  CompressInv'
    BY <2>1 DEF ConversionInv, CompressInv, vars, TypeOK, OutputIsWhole, SourceStaysUntilRenamed,
                Packed, FromWhole, Kept, KeepsTmp
  <2>2. ASSUME UNCHANGED unpackVars
        PROVE  UnpackInv'
    BY <2>2 DEF ConversionInv, UnpackInv, unpackVars, D!TypeOK, D!ImageStaysUntilRenamed,
                D!SuccessIsWhole, Unpacked, FromWholeImage, KeptUnpacking, InUnpack, D!InImage
  <2>3. CASE CompressStep
    BY <2>2, <2>3, CompressHolds DEF CompressStep, ConversionInv
  <2>4. CASE UnpackStep
    BY <2>1, <2>4, UnpackHolds DEF UnpackStep, ConversionInv
  <2>5. CASE UNCHANGED <<vars, unpackVars>>
    BY <2>1, <2>2, <2>5 DEF ConversionInv
  <2>6. QED  BY <2>3, <2>4, <2>5 DEF RoundTripNext
<1>3. QED  BY <1>1, <1>2, PTL DEF RoundTripSpec

(* The state of both conversions keeps its types.                           *)
THEOREM ConversionTypeCorrect == RoundTripSpec => []BothTypeOK
<1>1. ConversionInv => BothTypeOK
  BY DEF ConversionInv, CompressInv, UnpackInv, BothTypeOK
<1>2. QED  BY <1>1, ConversionInvariant, PTL

(* files.html:4565-4569: unless a job streams, what it starts from is whole    *)
(* until its result is in place, and no result passes for whole that is not,  *)
(* for any number of files and jobs and however they end.                    *)
THEOREM ConversionsReplaceWholes == RoundTripSpec => []WholeReplacesWhole
<1>1. ConversionInv => WholeReplacesWhole
  BY DEF ConversionInv, CompressInv, UnpackInv, WholeReplacesWhole, OriginalStaysUntilRenamed,
         ResultIsWhole
<1>2. QED  BY <1>1, ConversionInvariant, PTL

(* pfs_compress.c and pfs_decompress.c: whichever policies the jobs have and   *)
(* whichever steps fail or are killed, a file that the folder or the image had  *)
(* when the last job was started on it is somewhere: that job loses none of     *)
(* them, whatever the jobs before it left.                                   *)
THEOREM NoFileIsLost == RoundTripSpec => []NothingLost
<1>1. ConversionInv => NothingLost
  BY DEF ConversionInv, CompressInv, UnpackInv, NothingLost, Kept, KeptUnpacking
<1>2. QED  BY <1>1, ConversionInvariant, PTL

-----------------------------------------------------------------------------
(* The handoff: its inductive invariant.                                     *)

TakingOver == {"probe", "busy", "shutdown", "wait", "listen"}

(* One injection after another.                                             *)
OneTakesOver ==
  quiet => \A i, j \in Instances : inst[i] \in TakingOver /\ inst[j] \in TakingOver => i = j

(* At most one accept loop answers.                                         *)
OneAnswers ==
  quiet => \A s, t \in Instances : s \in Listening /\ t \in Listening => s = t

(* Who is about to listen found nobody, and nobody came since.              *)
PortIsFree ==
  quiet => \A i \in Instances : inst[i] = "listen" => Listening = {}

AloneAsking(i) ==
  \A s \in Instances :
    /\ s # i => inst[s] \in {"new", "serving", "gone"}
    /\ \A k \in JobKinds : <<s, k>> \in before[i] => inst[s] = "serving"

(* A job that an injection has on its list runs.                             *)
StillRuns ==
  \A i, s \in Instances, k \in JobKinds : <<s, k>> \in before[i] => k \in running[s]

(* Before its busy check is over an instance has stopped nobody and nobody has  *)
(* told it that he is idle; in a quiet handoff nobody else stops or takes over,  *)
(* and the jobs on its list are a serving instance's.                        *)
NotYetAsked ==
  \A i \in Instances :
    /\ inst[i] \in {"new", "probe", "busy"} =>
         saidIdle[i] = {} /\ \A s \in Instances : i \notin stoppers[s]
    /\ quiet /\ inst[i] \in {"probe", "busy"} => AloneAsking(i)

(* After it, no job that holds the slot is left of those on the list, on the   *)
(* server that answered or, in a quiet handoff, on any that is shut down.     *)
FoundIdle ==
  \A i, s \in Instances :
    /\ s \in saidIdle[i] => <<s, "slot">> \notin before[i]
    /\ quiet /\ (inst[i] = "shutdown" \/ i \in stoppers[s]) => <<s, "slot">> \notin before[i]

HandoffInv ==
  /\ HandoffTypeOK /\ OneTakesOver /\ OneAnswers /\ PortIsFree
  /\ StillRuns /\ NotYetAsked /\ FoundIdle

-----------------------------------------------------------------------------
(* What one instance's move changes.                                        *)
LEMMA Moves ==
  ASSUME HandoffTypeOK, NEW i \in Instances, NEW pc \in InstancePCs, Goto(i, pc)
  PROVE  /\ inst' \in [Instances -> InstancePCs] /\ inst'[i] = pc
         /\ \A j \in Instances : j # i => inst'[j] = inst[j]
  BY DEF HandoffTypeOK, Goto

LEMMA HandoffStarts == HandoffInit => HandoffInv
<1> SUFFICES ASSUME HandoffInit
             PROVE  HandoffInv
  OBVIOUS
<1>1. \A i \in Instances : inst[i] \in {"serving", "new"} /\ (inst[i] = "serving" <=> i = Old)
  BY HandoffAssumption DEF HandoffInit
<1>2. \A i \in Instances : running[i] = {} /\ stoppers[i] = {} /\ before[i] = {} /\ saidIdle[i] = {}
  BY DEF HandoffInit
<1>3. HandoffTypeOK
  BY <1>2 DEF HandoffInit, HandoffTypeOK, InstancePCs
<1>4. OneTakesOver /\ OneAnswers /\ PortIsFree
  BY <1>1 DEF OneTakesOver, OneAnswers, PortIsFree, TakingOver, Listening
<1>5. StillRuns /\ NotYetAsked /\ FoundIdle
  BY <1>1, <1>2 DEF StillRuns, NotYetAsked, FoundIdle
<1>6. QED  BY <1>3, <1>4, <1>5 DEF HandoffInv

(* Injection: the jobs that run are all one serving instance's.             *)
LEMMA InjectHolds ==
  ASSUME HandoffInv, NEW i \in Instances, Inject(i)
  PROVE  HandoffInv'
<1>1. /\ inst' \in [Instances -> InstancePCs] /\ inst[i] = "new" /\ inst'[i] = "probe"
      /\ \A j \in Instances : j # i => inst'[j] = inst[j]
  BY Moves DEF Inject, HandoffInv, InstancePCs
<1>2. /\ before' \in [Instances -> SUBSET (Instances \X JobKinds)]
      /\ \A s \in Instances, k \in JobKinds : <<s, k>> \in before'[i] => k \in running[s]
      /\ \A j \in Instances : j # i => before'[j] = before[j]
  BY DEF Inject, HandoffInv, HandoffTypeOK
<1>3. /\ running' = running /\ stoppers' = stoppers /\ saidIdle' = saidIdle
      /\ quiet' = (quiet /\ \A s \in Instances : inst[s] \in {"new", "serving", "gone"})
  BY DEF Inject
<1>4. Listening' = Listening
  BY <1>1 DEF Listening
<1>5. HandoffTypeOK'
  BY <1>1, <1>2, <1>3 DEF HandoffInv, HandoffTypeOK
<1>6. OneTakesOver'
  BY <1>1, <1>3 DEF OneTakesOver, TakingOver
<1>7. OneAnswers' /\ PortIsFree'
  BY <1>1, <1>3, <1>4 DEF HandoffInv, OneAnswers, PortIsFree
<1>8. StillRuns'
  BY <1>1, <1>2, <1>3 DEF HandoffInv, StillRuns
<1>9. NotYetAsked'
  <2>1. \A s \in Instances : running[s] # {} => inst[s] \in {"serving", "stopping", "closed", "listen"}
    BY DEF HandoffInv, HandoffTypeOK
  <2>2. ASSUME NEW j \in Instances, inst'[j] \in {"new", "probe", "busy"}
        PROVE  saidIdle'[j] = {} /\ \A s \in Instances : j \notin stoppers'[s]
    BY <1>1, <1>3, <2>2 DEF HandoffInv, NotYetAsked
  <2>3. ASSUME quiet'
        PROVE  AloneAsking(i)'
    <3>1. \A s \in Instances : inst[s] \in {"new", "serving", "gone"}
      BY <1>3, <2>3
    <3>2. \A s \in Instances, k \in JobKinds : <<s, k>> \in before'[i] => inst[s] = "serving"
      BY <1>2, <2>1, <3>1
    <3>3. QED  BY <1>1, <3>1, <3>2 DEF AloneAsking
  <2>4. ASSUME quiet', NEW j \in Instances, inst'[j] \in {"probe", "busy"}
        PROVE  j = i
    BY <1>1, <1>3, <2>4
  <2>5. QED  BY <2>2, <2>3, <2>4 DEF NotYetAsked
<1>10. FoundIdle'
  <2>1. saidIdle[i] = {} /\ \A s \in Instances : i \notin stoppers[s]
    BY <1>1 DEF HandoffInv, NotYetAsked
  <2>2. QED  BY <1>1, <1>2, <1>3, <2>1 DEF HandoffInv, FoundIdle
<1>11. QED  BY <1>5, <1>6, <1>7, <1>8, <1>9, <1>10 DEF HandoffInv

(* The new instance's steps that stop nobody.                               *)
AsksOn(i) == ProbeOld(i) \/ BusyCheck(i) \/ Down(i) \/ StillUp(i) \/ Listen(i)

LEMMA AskHolds ==
  ASSUME HandoffInv, NEW i \in Instances, AsksOn(i)
  PROVE  HandoffInv'
<1>1. UNCHANGED <<running, stoppers>> /\ (quiet' => quiet) /\ quiet' \in BOOLEAN
  <2>1. UNCHANGED <<running, stoppers>>
    BY DEF AsksOn, ProbeOld, BusyCheck, Down, StillUp, Listen
  <2>2. quiet' = quiet \/ quiet' = (quiet /\ Listening = {}) \/ quiet' = FALSE
    BY DEF AsksOn, ProbeOld, BusyCheck, Down, StillUp, Listen, NoAnswer
  <2>3. quiet \in BOOLEAN
    BY DEF HandoffInv, HandoffTypeOK
  <2>4. quiet' => quiet
    BY <2>2
  <2>5. quiet' \in BOOLEAN
    BY <2>2, <2>3, Zenon
  <2>6. QED  BY <2>1, <2>4, <2>5
<1>1a. /\ before' \in [Instances -> SUBSET (Instances \X JobKinds)]
       /\ \A j \in Instances : before'[j] \subseteq before[j]
  <2>1. before' = before \/ before' = [before EXCEPT ![i] = {}]
    BY DEF AsksOn, ProbeOld, BusyCheck, Down, StillUp, Listen
  <2>2. QED  BY <2>1 DEF HandoffInv, HandoffTypeOK
<1>2. PICK pc \in InstancePCs : Goto(i, pc)
  BY DEF AsksOn, ProbeOld, BusyCheck, Down, StillUp, Listen, InstancePCs
<1>3. /\ inst' \in [Instances -> InstancePCs] /\ inst'[i] = pc
      /\ \A j \in Instances : j # i => inst'[j] = inst[j]
  BY <1>2, Moves DEF HandoffInv
<1>4. inst[i] \in TakingOver
  BY DEF AsksOn, ProbeOld, BusyCheck, Down, StillUp, Listen, TakingOver
<1>5. /\ inst'[i] = "listen" => (quiet' => Listening = {})
      /\ inst'[i] \in {"busy", "shutdown", "listen", "gone", "serving"}
      /\ inst'[i] = "busy" => inst[i] = "probe"
      /\ inst'[i] = "serving" <=> inst[i] = "listen"
      /\ inst'[i] = "shutdown" => /\ inst[i] = "busy"
                                  /\ \/ quiet' => Listening = {}
                                     \/ \E s \in Listening : "slot" \notin running[s]
  BY <1>3 DEF AsksOn, ProbeOld, BusyCheck, Down, StillUp, Listen, NoAnswer, Goto, SaysBusy,
              HandoffInv, HandoffTypeOK
<1>5a. /\ saidIdle' \in [Instances -> SUBSET Instances]
       /\ \A j \in Instances : j # i => saidIdle'[j] = saidIdle[j]
       /\ inst'[i] = "busy" => saidIdle'[i] = saidIdle[i]
       /\ \A s \in saidIdle'[i] : s \in saidIdle[i] \/ (s \in Listening /\ "slot" \notin running[s])
  <2>1. CASE saidIdle' = saidIdle
    BY <2>1 DEF HandoffInv, HandoffTypeOK
  <2>2. ASSUME NEW s \in Listening, saidIdle' = [saidIdle EXCEPT ![i] = {s}],
               "slot" \notin running[s], Goto(i, "shutdown")
        PROVE  /\ saidIdle' \in [Instances -> SUBSET Instances]
               /\ \A j \in Instances : j # i => saidIdle'[j] = saidIdle[j]
               /\ inst'[i] = "busy" => saidIdle'[i] = saidIdle[i]
               /\ \A r \in saidIdle'[i] :
                    r \in saidIdle[i] \/ (r \in Listening /\ "slot" \notin running[r])
    <3>1. s \in Instances /\ inst'[i] = "shutdown"
      BY <2>2 DEF Listening, Goto, HandoffInv, HandoffTypeOK
    <3>2. QED  BY <2>2, <3>1 DEF HandoffInv, HandoffTypeOK
  <2>3. QED  BY <2>1, <2>2 DEF AsksOn, ProbeOld, BusyCheck, Down, StillUp, Listen, SaysBusy
<1>6. \A s \in Instances : s \in Listening' <=> s \in Listening \/ (s = i /\ inst[i] = "listen")
  BY <1>3, <1>4, <1>5 DEF Listening, TakingOver
<1>7. HandoffTypeOK'
  BY <1>1, <1>1a, <1>3, <1>4, <1>5, <1>5a DEF HandoffInv, HandoffTypeOK, TakingOver
<1>8. OneTakesOver'
  BY <1>1, <1>3, <1>4 DEF HandoffInv, OneTakesOver
<1>9. OneAnswers'
  BY <1>1, <1>6 DEF HandoffInv, OneAnswers, PortIsFree
<1>10. PortIsFree'
  BY <1>1, <1>3, <1>4, <1>5, <1>6 DEF HandoffInv, PortIsFree, OneTakesOver, TakingOver, Listening
<1>11. StillRuns'
  BY <1>1, <1>1a DEF HandoffInv, StillRuns
<1>12. NotYetAsked'
  <2>1. ASSUME NEW j \in Instances, inst'[j] \in {"new", "probe", "busy"}
        PROVE  /\ inst[j] \in {"new", "probe", "busy"} /\ saidIdle'[j] = saidIdle[j]
               /\ inst'[j] # "new" => inst[j] # "new"
    <3>1. CASE j = i
      BY <1>5, <1>5a, <2>1, <3>1
    <3>2. CASE j # i
      BY <1>3, <1>5a, <2>1, <3>2
    <3>3. QED  BY <3>1, <3>2
  <2>2. ASSUME quiet', NEW j \in Instances, inst'[j] \in {"probe", "busy"}
        PROVE  AloneAsking(j)'
    <3>1. inst[j] \in {"probe", "busy"} /\ j = i
      BY <1>1, <1>4, <2>1, <2>2 DEF HandoffInv, OneTakesOver, TakingOver
    <3>2. AloneAsking(j)
      BY <1>1, <2>2, <3>1 DEF HandoffInv, NotYetAsked
    <3>3. QED  BY <1>1, <1>1a, <1>3, <1>4, <3>1, <3>2 DEF AloneAsking, TakingOver
  <2>3. QED  BY <1>1, <2>1, <2>2 DEF HandoffInv, NotYetAsked
<1>13. FoundIdle'
  <2>1. ASSUME quiet', inst'[i] = "shutdown", NEW s \in Instances
        PROVE  <<s, "slot">> \notin before[i]
    <3>1. "slot" \in JobKinds
      BY DEF JobKinds
    <3>2. <<s, "slot">> \in before[i] => inst[s] = "serving" /\ "slot" \in running[s]
      BY <1>1, <1>5, <2>1, <3>1 DEF HandoffInv, NotYetAsked, AloneAsking, StillRuns
    <3>3. QED  BY <1>1, <1>5, <2>1, <3>2 DEF HandoffInv, OneAnswers, Listening
  <2>2. ASSUME NEW s \in saidIdle'[i]
        PROVE  <<s, "slot">> \notin before[i]
    <3>1. CASE s \in saidIdle[i]
      BY <3>1, <1>5a DEF HandoffInv, FoundIdle, HandoffTypeOK
    <3>2. CASE s \in Listening /\ "slot" \notin running[s]
      BY <3>2 DEF HandoffInv, StillRuns, JobKinds, Listening
    <3>3. QED  BY <1>5a, <2>2, <3>1, <3>2
  <2>3. QED  BY <1>1, <1>1a, <1>3, <1>5a, <2>1, <2>2 DEF HandoffInv, FoundIdle
<1>14. QED  BY <1>7, <1>8, <1>9, <1>10, <1>11, <1>12, <1>13 DEF HandoffInv

(* Shutdown: who stops a server has seen it idle.                           *)
LEMMA ShutdownHolds ==
  ASSUME HandoffInv, NEW i \in Instances, ShutdownAnswered(i) \/ ShutdownLost(i)
  PROVE  HandoffInv'
<1>1. UNCHANGED <<running, before, saidIdle>> /\ (quiet' => quiet) /\ quiet' \in BOOLEAN
  <2>1. UNCHANGED <<running, before, saidIdle>>
    BY DEF ShutdownAnswered, ShutdownLost
  <2>2. quiet' = quiet \/ quiet' = (quiet /\ Listening = {})
    BY DEF ShutdownAnswered, ShutdownLost, NoAnswer
  <2>3. quiet \in BOOLEAN
    BY DEF HandoffInv, HandoffTypeOK
  <2>4. quiet' => quiet
    BY <2>2
  <2>5. quiet' \in BOOLEAN
    BY <2>2, <2>3, Zenon
  <2>6. QED  BY <2>1, <2>4, <2>5
<1>2. inst[i] = "shutdown"
  BY DEF ShutdownAnswered, ShutdownLost
<1>3. PICK S \in SUBSET Listening :
        /\ inst' \in [Instances -> InstancePCs] /\ inst'[i] \in {"wait", "gone"}
        /\ \A j \in Instances : j # i => inst'[j] = IF j \in S THEN "stopping" ELSE inst[j]
        /\ stoppers' \in [Instances -> SUBSET Instances]
        /\ \A j, s \in Instances : j \in stoppers'[s] => j \in stoppers[s] \/ j = i
  <2>1. CASE UNCHANGED stoppers /\ Goto(i, "gone")
    <3>1. "gone" \in InstancePCs
      BY DEF InstancePCs
    <3>2. /\ inst' \in [Instances -> InstancePCs] /\ inst'[i] = "gone"
          /\ \A j \in Instances : j # i => inst'[j] = inst[j]
      BY <2>1, <3>1, Moves DEF HandoffInv
    <3>3. stoppers' \in [Instances -> SUBSET Instances]
      BY <2>1 DEF HandoffInv, HandoffTypeOK
    <3>4. {} \in SUBSET Listening
      OBVIOUS
    <3>5. QED  BY <2>1, <3>2, <3>3, <3>4
  <2>2. ASSUME NEW s \in Listening, NEW pc \in {"wait", "gone"},
               inst' = [inst EXCEPT ![i] = pc, ![s] = "stopping"],
               stoppers' = [stoppers EXCEPT ![s] = @ \cup {i}]
        PROVE  \E S \in SUBSET Listening :
                 /\ inst' \in [Instances -> InstancePCs] /\ inst'[i] \in {"wait", "gone"}
                 /\ \A j \in Instances : j # i => inst'[j] = IF j \in S THEN "stopping" ELSE inst[j]
                 /\ stoppers' \in [Instances -> SUBSET Instances]
                 /\ \A j, r \in Instances : j \in stoppers'[r] => j \in stoppers[r] \/ j = i
    <3>1. s \in Instances /\ s # i /\ {s} \in SUBSET Listening
      BY <1>2 DEF Listening
    <3>2. /\ inst' \in [Instances -> InstancePCs] /\ inst'[i] \in {"wait", "gone"}
          /\ \A j \in Instances : j # i => inst'[j] = IF j \in {s} THEN "stopping" ELSE inst[j]
      BY <2>2, <3>1 DEF HandoffInv, HandoffTypeOK, InstancePCs
    <3>3. /\ stoppers' \in [Instances -> SUBSET Instances]
          /\ \A j, r \in Instances : j \in stoppers'[r] => j \in stoppers[r] \/ j = i
      BY <2>2, <3>1 DEF HandoffInv, HandoffTypeOK
    <3>4. QED  BY <3>1, <3>2, <3>3
  <2>3. QED  BY <2>1, <2>2 DEF ShutdownAnswered, ShutdownLost
<1>4. Listening' \subseteq Listening /\ S \subseteq Instances
  BY <1>3 DEF Listening
<1>5. \A j \in S : inst[j] \in {"serving", "stopping"}
  BY <1>3 DEF Listening
<1>6. HandoffTypeOK'
  <2>1. running[i] = {}
    BY <1>2 DEF HandoffInv, HandoffTypeOK
  <2>2. QED  BY <1>1, <1>3, <1>4, <2>1 DEF HandoffInv, HandoffTypeOK
<1>7. OneTakesOver'
  BY <1>1, <1>2, <1>3 DEF HandoffInv, OneTakesOver, TakingOver
<1>8. OneAnswers' /\ PortIsFree'
  BY <1>1, <1>3, <1>4 DEF HandoffInv, OneAnswers, PortIsFree
<1>9. StillRuns'
  BY <1>1, <1>2, <1>3, <1>5 DEF HandoffInv, StillRuns
<1>10. NotYetAsked'
  <2>1. ASSUME NEW j \in Instances, inst'[j] \in {"new", "probe", "busy"}
        PROVE  j # i /\ inst[j] = inst'[j]
    BY <1>3, <2>1
  <2>2. \A j \in Instances : quiet' => inst'[j] \notin {"probe", "busy"}
    BY <1>1, <1>2, <2>1 DEF HandoffInv, OneTakesOver, TakingOver
  <2>3. QED  BY <1>1, <1>3, <2>1, <2>2 DEF HandoffInv, NotYetAsked
<1>11. FoundIdle'
  BY <1>1, <1>2, <1>3 DEF HandoffInv, FoundIdle
<1>12. QED  BY <1>6, <1>7, <1>8, <1>9, <1>10, <1>11 DEF HandoffInv

(* The server's own steps.                                                  *)
LEMMA ServerHolds ==
  ASSUME HandoffInv, NEW s \in Instances, AcceptFails(s) \/ StopListening(s) \/ MainReturns(s)
  PROVE  HandoffInv'
<1>1. UNCHANGED <<stoppers, saidIdle>> /\ quiet' \in BOOLEAN
      /\ (quiet' => quiet /\ ~AcceptFails(s))
  <2>1. UNCHANGED <<stoppers, saidIdle>> /\ (quiet' = quiet \/ quiet' = FALSE)
    BY DEF AcceptFails, StopListening, MainReturns
  <2>2. quiet' => quiet /\ ~AcceptFails(s)
    BY <2>1 DEF AcceptFails
  <2>3. quiet' \in BOOLEAN
    BY <2>1, Zenon DEF HandoffInv, HandoffTypeOK
  <2>4. QED  BY <2>1, <2>2, <2>3
<1>2. /\ inst' \in [Instances -> InstancePCs]
      /\ \A j \in Instances : j # s => inst'[j] = inst[j]
      /\ inst[s] \in {"serving", "stopping", "closed"}
      /\ inst'[s] \in {"listen", "closed", "gone"}
      /\ quiet' => inst[s] # "serving" /\ inst'[s] # "listen"
  BY Moves DEF AcceptFails, StopListening, MainReturns, HandoffInv, InstancePCs
<1>3. /\ running' \in [Instances -> SUBSET JobKinds]
      /\ \A j \in Instances : j # s => running'[j] = running[j]
      /\ inst'[s] = "gone" => running'[s] = {}
      /\ inst'[s] # "gone" => running'[s] = running[s]
  BY <1>2 DEF AcceptFails, StopListening, MainReturns, Goto, HandoffInv, HandoffTypeOK
<1>3a. /\ before' \in [Instances -> SUBSET (Instances \X JobKinds)]
       /\ \A j \in Instances : before'[j] \subseteq before[j]
       /\ running' = running \/ \A j \in Instances : \A k \in JobKinds : <<s, k>> \notin before'[j]
  <2>1. CASE before' = before /\ running' = running
    BY <2>1 DEF HandoffInv, HandoffTypeOK
  <2>2. CASE before' = [i \in Instances |-> {p \in before[i] : p[1] # s}]
    <3>1. \A i \in Instances : before'[i] = {p \in before[i] : p[1] # s}
      BY <2>2
    <3>2. \A i \in Instances : before[i] \in SUBSET (Instances \X JobKinds)
      BY DEF HandoffInv, HandoffTypeOK
    <3>3. \A i \in Instances : before'[i] \in SUBSET (Instances \X JobKinds)
      BY <3>1, <3>2
    <3>4. before' \in [Instances -> SUBSET (Instances \X JobKinds)]
      BY <2>2, <3>3
    <3>5. \A j \in Instances : \A k \in JobKinds : <<s, k>> \notin before'[j]
      BY <3>1
    <3>6. QED  BY <3>1, <3>4, <3>5
  <2>3. QED  BY <2>1, <2>2 DEF AcceptFails, StopListening, MainReturns
<1>4. Listening' \subseteq Listening
  BY <1>2 DEF Listening
<1>5. HandoffTypeOK'
  BY <1>1, <1>2, <1>3, <1>3a DEF HandoffInv, HandoffTypeOK
<1>6. OneTakesOver' /\ OneAnswers' /\ PortIsFree'
  BY <1>1, <1>2, <1>4 DEF HandoffInv, OneTakesOver, OneAnswers, PortIsFree, TakingOver
<1>7. StillRuns'
  <2>1. ASSUME NEW i \in Instances, NEW r \in Instances, NEW k \in JobKinds, <<r, k>> \in before'[i]
        PROVE  k \in running'[r]
    <3>1. k \in running[r]
      BY <1>3a, <2>1 DEF HandoffInv, StillRuns
    <3>2. r # s \/ running' = running
      BY <1>3a, <2>1
    <3>3. QED  BY <1>3, <3>1, <3>2
  <2>2. QED  BY <2>1 DEF StillRuns
<1>8. NotYetAsked'
  BY <1>1, <1>2, <1>3a DEF HandoffInv, NotYetAsked, AloneAsking
<1>9. FoundIdle'
  BY <1>1, <1>2, <1>3a DEF HandoffInv, FoundIdle
<1>10. QED  BY <1>5, <1>6, <1>7, <1>8, <1>9 DEF HandoffInv

(* Jobs come and go; one that begins is put on the list of who still asks.    *)
LEMMA JobsHold ==
  ASSUME HandoffInv, NEW s \in Instances, NEW k \in JobKinds, StartJob(s, k) \/ EndJob(s, k)
  PROVE  HandoffInv'
<1>1. UNCHANGED <<inst, stoppers, saidIdle, quiet>> /\ Listening' = Listening
  BY DEF StartJob, EndJob, Listening
<1>2. inst[s] \in {"serving", "stopping", "closed", "listen"}
  BY DEF StartJob, EndJob, HandoffInv, HandoffTypeOK
<1>3. /\ running' \in [Instances -> SUBSET JobKinds]
      /\ \A j \in Instances : j # s => running'[j] = running[j]
      /\ before' \in [Instances -> SUBSET (Instances \X JobKinds)]
  <2>1. CASE StartJob(s, k)
    <3>1. \A i \in Instances : before'[i] \in SUBSET (Instances \X JobKinds)
      BY <2>1 DEF StartJob, HandoffInv, HandoffTypeOK
    <3>2. before' \in [Instances -> SUBSET (Instances \X JobKinds)]
      BY <2>1, <3>1 DEF StartJob
    <3>3. QED  BY <2>1, <3>2 DEF StartJob, HandoffInv, HandoffTypeOK
  <2>2. CASE EndJob(s, k)
    BY <2>2 DEF EndJob, HandoffInv, HandoffTypeOK
  <2>3. QED  BY <2>1, <2>2
<1>4. ASSUME NEW i \in Instances, NEW r \in Instances, NEW l \in JobKinds, <<r, l>> \in before'[i]
      PROVE  \/ <<r, l>> \in before[i]
             \/ /\ r = s /\ inst[i] \in {"probe", "busy"} /\ l \in running'[s]
                /\ inst[s] \in {"serving", "stopping", "closed"}
  BY <1>4 DEF StartJob, EndJob, HandoffInv, HandoffTypeOK
<1>5. ASSUME NEW i \in Instances, NEW l \in JobKinds, <<s, l>> \in before'[i]
      PROVE  l \in running'[s]
  <2>1. CASE <<s, l>> \in before[i]
    <3>1. l \in running[s]
      BY <1>2, <2>1 DEF HandoffInv, StillRuns
    <3>2. CASE StartJob(s, k)
      BY <3>1, <3>2 DEF StartJob, HandoffInv, HandoffTypeOK
    <3>3. CASE EndJob(s, k)
      <4>1. l # k
        BY <1>5, <3>3 DEF EndJob
      <4>2. QED  BY <3>1, <3>3, <4>1 DEF EndJob, HandoffInv, HandoffTypeOK
    <3>4. QED  BY <3>2, <3>3
  <2>2. QED  BY <1>4, <1>5, <2>1
<1>6. HandoffTypeOK'
  BY <1>1, <1>2, <1>3 DEF HandoffInv, HandoffTypeOK
<1>7. OneTakesOver' /\ OneAnswers' /\ PortIsFree'
  BY <1>1 DEF HandoffInv, OneTakesOver, OneAnswers, PortIsFree
<1>8. StillRuns'
  <2>1. ASSUME NEW i \in Instances, NEW r \in Instances, NEW l \in JobKinds,
               <<r, l>> \in before'[i], r # s
        PROVE  l \in running'[r]
    BY <1>1, <1>3, <1>4, <2>1 DEF HandoffInv, StillRuns
  <2>2. QED  BY <1>5, <2>1 DEF StillRuns
<1>9. NotYetAsked'
  <2>1. ASSUME quiet, NEW i \in Instances, inst[i] \in {"probe", "busy"}
        PROVE  AloneAsking(i)'
    <3>1. AloneAsking(i)
      BY <2>1 DEF HandoffInv, NotYetAsked
    <3>2. s # i
      BY <1>2, <2>1
    <3>3. inst[s] \in {"serving", "stopping", "closed"} => inst[s] = "serving"
      BY <3>1, <3>2 DEF AloneAsking
    <3>4. ASSUME NEW r \in Instances, NEW l \in JobKinds, <<r, l>> \in before'[i]
          PROVE  inst[r] = "serving"
      BY <1>4, <3>1, <3>3, <3>4 DEF AloneAsking
    <3>5. QED  BY <1>1, <3>1, <3>4 DEF AloneAsking
  <2>2. QED  BY <1>1, <2>1 DEF HandoffInv, NotYetAsked
<1>10. FoundIdle'
  <2>1. ASSUME NEW i \in Instances, inst[i] \in {"probe", "busy"}
        PROVE  saidIdle[i] = {} /\ \A r \in Instances : i \notin stoppers[r]
    BY <2>1 DEF HandoffInv, NotYetAsked
  <2>2. "slot" \in JobKinds
    BY DEF JobKinds
  <2>3. ASSUME NEW i \in Instances, NEW r \in Instances, <<r, "slot">> \in before'[i],
               \/ r \in saidIdle[i]
               \/ quiet /\ (inst[i] = "shutdown" \/ i \in stoppers[r])
        PROVE  FALSE
    <3>1. inst[i] \notin {"probe", "busy"}
      BY <2>1, <2>3
    <3>2. <<r, "slot">> \in before[i]
      BY <1>4, <2>2, <2>3, <3>1
    <3>3. QED  BY <2>3, <3>2 DEF HandoffInv, FoundIdle
  <2>4. QED  BY <1>1, <2>3 DEF FoundIdle
<1>11. QED  BY <1>6, <1>7, <1>8, <1>9, <1>10 DEF HandoffInv

-----------------------------------------------------------------------------
(* The theorems.                                                            *)

LEMMA HandoffInvIsInductive == HandoffInv /\ [HandoffNext]_handoffVars => HandoffInv'
<1> SUFFICES ASSUME HandoffInv, [HandoffNext]_handoffVars
             PROVE  HandoffInv'
  OBVIOUS
<1>1. CASE UNCHANGED handoffVars
  BY <1>1 DEF handoffVars, HandoffInv, HandoffTypeOK, OneTakesOver, OneAnswers, PortIsFree, StillRuns,
              NotYetAsked, AloneAsking, FoundIdle, Listening
<1>2. ASSUME NEW i \in Instances, Inject(i)
      PROVE  HandoffInv'
  BY <1>2, InjectHolds
<1>3. ASSUME NEW i \in Instances, HandoffStep(i)
      PROVE  HandoffInv'
  BY <1>3, AskHolds, ShutdownHolds DEF HandoffStep, AsksOn
<1>4. ASSUME NEW i \in Instances, ServerStops(i) \/ AcceptFails(i)
      PROVE  HandoffInv'
  BY <1>4, ServerHolds DEF ServerStops
<1>5. ASSUME NEW i \in Instances, NEW k \in JobKinds, StartJob(i, k) \/ EndJob(i, k)
      PROVE  HandoffInv'
  BY <1>5, JobsHold
<1>6. QED  BY <1>1, <1>2, <1>3, <1>4, <1>5 DEF HandoffNext, InstanceStep

(* Every reachable state satisfies the invariant of the taking over.        *)
THEOREM HandoffInvariant == HandoffSpec => []HandoffInv
<1>1. QED  BY HandoffStarts, HandoffInvIsInductive, PTL DEF HandoffSpec

(* Every variable stays in the range of the code's.                         *)
THEOREM HandoffTypeCorrect == HandoffSpec => []HandoffTypeOK
<1>1. HandoffInv => HandoffTypeOK
  BY DEF HandoffInv
<1>2. QED  BY <1>1, HandoffInvariant, PTL

(* As long as no request timed out, no accept failed and no injection came        *)
(* before the one before it was through, no two instances serve the port, even *)
(* where it could be shared (handoff_existing_server, wait_for_old_server_down *)
(* in lite_main.c, SO_REUSEPORT in websrv_lite.c).                           *)
THEOREM OneServerAtATime == HandoffSpec => []AtMostOneServer
<1>1. HandoffInv => AtMostOneServer
  <2> SUFFICES ASSUME HandoffInv, quiet
               PROVE  Cardinality(Listening) <= 1
    BY DEF AtMostOneServer
  <2>1. CASE Listening = {}
    BY <2>1, FS_EmptySet
  <2>2. CASE Listening # {}
    <3>1. PICK s \in Listening : TRUE
      BY <2>2
    <3>2. Listening = {s}
      BY <3>1 DEF HandoffInv, OneAnswers, Listening
    <3>3. QED  BY <3>2, FS_Singleton
  <2>3. QED  BY <2>1, <2>2
<1>2. QED  BY <1>1, HandoffInvariant, PTL

(* A process that an injected instance had shut down never returns over a job    *)
(* that held the slot and began before that instance's busy check was answered *)
(* (old_server_busy): in a quiet handoff, and in any in which this very process *)
(* answered.  Of a job that begins after the answer it says nothing.         *)
THEOREM SlotJobsAreSpared == HandoffSpec => ReinjectionSparesJobs
<1>1. HandoffInv /\ [HandoffNext]_handoffVars => [Spares("slot")]_handoffVars
  <2>1. HandoffInv => Spares("slot")
    BY DEF HandoffInv, FoundIdle, Spares
  <2>2. QED  BY <2>1
<1>2. QED  BY <1>1, HandoffInvariant, PTL DEF HandoffSpec, ReinjectionSparesJobs

-----------------------------------------------------------------------------
(* BlockPool: the slots of the array.                                        *)

LEMMA CellInSlots ==
  ASSUME NEW b \in Nat
  PROVE  Cell(b) \in Slots
<1>1. SlotCount \in Nat \ {0}
  BY PoolAssumption
<1>2. b % SlotCount \in 0 .. SlotCount - 1
  BY <1>1
<1>3. QED  BY <1>2 DEF Cell, Slots

(* Blocks less than an array apart lie in different slots.                   *)
LEMMA CellsDiffer ==
  ASSUME NEW a \in Nat, NEW b \in Nat, a < b, b < a + SlotCount
  PROVE  Cell(a) # Cell(b)
<1> DEFINE n == SlotCount
           k == (b \div n) - (a \div n)
<1>1. n \in Nat \ {0}
  BY PoolAssumption
<1>2. /\ a = n * (a \div n) + (a % n) /\ b = n * (b \div n) + (b % n)
      /\ k \in Int
  BY <1>1
<1>3. ASSUME a % n = b % n
      PROVE  FALSE
  <2>1. b - a = n * k
    BY <1>1, <1>2, <1>3
  <2>2. CASE k <= 0
    BY <1>1, <1>2, <2>1, <2>2
  <2>3. CASE k >= 1
    BY <1>1, <1>2, <2>1, <2>3
  <2>4. QED  BY <1>2, <2>2, <2>3
<1>4. QED  BY <1>3 DEF Cell

-----------------------------------------------------------------------------
(* Types.                                                                   *)

LEMMA ConstantTypes ==
  /\ BlockCount \in Nat \ {0} /\ SlotCount \in Nat \ {0}
  /\ FileEnds \in Seq(1 .. BlockCount) /\ Len(FileEnds) \in Nat
  /\ \A f \in 1 .. Len(FileEnds) : FileEnds[f] \in 1 .. BlockCount
BY PoolAssumption, LenProperties, ElementOfSeq

(* The threads' window on the blocks.                                       *)
Window ==
  /\ nextWrite <= nextRead /\ nextRead <= nextWrite + SlotCount
  /\ main = "spawn" => nextRead = 0
  /\ main \in {"fill", "publish"} => CanRead
  /\ main \in {"write", "release", "delete"} => nextWrite < nextRead

(* Who has which slot: the states say it.                                   *)
Holds(w) == worker[w].pc \in {"code", "finish", "failed"}
Hands ==
  /\ \A w \in Workers : Holds(w) => worker[w].slot \in Slots /\ slot[worker[w].slot].state = "busy"
  /\ \A v, w \in Workers : v # w /\ Holds(v) /\ Holds(w) => worker[v].slot # worker[w].slot
  /\ main \in {"fill", "publish"} => slot[Cell(nextRead)].state = "filling"
  /\ main \in {"write", "release"} => slot[Cell(nextWrite)].state = "done"
  /\ main = "over" \/ (main = "flush" /\ kind = "compress") => WorkersJoined

(* What lies in the slots: each block in flight in its own, coded when done   *)
(* unless something failed.                                                 *)
Running == {"loop", "fill", "publish", "write", "release", "delete"}
Carries(i, b) ==
  slot[i].index = b /\ slot[i].raw = b /\ slot[i].state \in {"ready", "busy", "done"}
Flights ==
  /\ main \in Running =>
       \A b \in nextWrite .. nextRead - 1 : (b = nextWrite /\ main = "delete") \/ Carries(Cell(b), b)
  /\ main = "publish" => slot[Cell(nextRead)].raw = nextRead
  /\ main \in {"fill", "publish"} => slot[Cell(nextRead)].index = nextRead
  /\ \A w \in Workers : worker[w].pc = "finish" =>
       slot[worker[w].slot].coded = slot[worker[w].slot].raw
  /\ ~error => \A i \in Slots : slot[i].state = "done" => slot[i].coded = slot[i].raw
  /\ main = "write" => slot[Cell(nextWrite)].coded = nextWrite

(* File and buffer hold the blocks from the first on, and together those      *)
(* that the job's thread is through with.                                   *)
Output ==
  /\ \A i \in 1 .. Len(written) : written[i] = i - 1
  /\ \A i \in 1 .. Len(buffered) : buffered[i] = Len(written) + i - 1
  /\ main \in Running \cup {"spawn"} =>
       Len(written) + Len(buffered) = IF main \in {"release", "delete"} THEN nextWrite + 1
                                      ELSE nextWrite
  /\ main = "flush" \/ (main \in {"stop", "join"} /\ result = "running")
       => Len(written) + Len(buffered) = BlockCount
  /\ Len(written) <= BlockCount
  /\ main \in Running \cup {"spawn", "flush"} => result = "running"
  /\ result = "ok" => Len(written) = BlockCount
  /\ main = "over" => result # "running"

Unlinked == deleted > 0 => FileEnds[deleted] <= Len(written)

PoolInv == PoolTypeOK /\ Window /\ Hands /\ Flights /\ Output /\ Unlinked

LEMMA CommittedFiles ==
  ASSUME PoolTypeOK, NEW n \in Nat
  PROVE  /\ PoolCommitted(n) \subseteq 1 .. Len(FileEnds)
         /\ \A f \in PoolCommitted(n) : f > deleted /\ FileEnds[f] <= n
         /\ PoolCommitted(n) # {} => Max(PoolCommitted(n)) \in PoolCommitted(n)
<1>1. /\ PoolCommitted(n) \subseteq 1 .. Len(FileEnds)
      /\ \A f \in PoolCommitted(n) : f > deleted /\ FileEnds[f] <= n
  BY ConstantTypes DEF PoolCommitted, Undeleted, PoolTypeOK
<1>2. PoolCommitted(n) \subseteq 0 .. Len(FileEnds)
  BY <1>1, ConstantTypes
<1>3. QED  BY <1>1, <1>2, MaxIsGreatest, ConstantTypes

LEMMA FlushTypes ==
  ASSUME PoolTypeOK, FlushBuffer
  PROVE  buffered' \in Seq(Content) /\ written' \in Seq(Content)
BY ConcatProperties, EmptySeq DEF PoolTypeOK, FlushBuffer

LEMMA PoolTypeStep ==
  ASSUME PoolTypeOK, Window, Hands, [PoolNext]_blockVars
  PROVE  PoolTypeOK'
<1> USE DEF PoolTypeOK
<1>1. ASSUME NEW w \in Workers, WorkerStep(w), UNCHANGED kind
      PROVE  PoolTypeOK'
  <2>1. CASE WorkerStart(w)
    <3>1. \A p \in {"look", "exit"} : [worker[w] EXCEPT !.pc = p] \in Worker
      BY DEF Worker
    <3>2. worker' \in [Workers -> Worker]
      BY <2>1, <3>1 DEF WorkerStart
    <3>3. QED  BY <1>1, <2>1, <3>2 DEF WorkerStart, poolVars, outVars, Broadcast
  <2>2. CASE Look(w)
    <3>1. ReadySlots \in SUBSET Nat /\ ReadySlots \subseteq Slots
      BY ConstantTypes DEF ReadySlots, Slots
    <3>2. ReadySlots # {} => Min(ReadySlots) \in Slots
      BY <3>1, MinIsLeast
    <3>3. ReadySlots # {} => [pc |-> "code", slot |-> Min(ReadySlots)] \in Worker
      BY <3>2 DEF Worker
    <3>4. slot' \in [Slots -> Slot]
      BY <2>2, <3>2 DEF Look, Slot
    <3>5. worker' \in [Workers -> Worker]
      BY <2>2, <3>3 DEF Look, Worker
    <3>6. QED  BY <1>1, <2>2, <3>4, <3>5 DEF Look, Sleep, outVars
  <2>3. CASE Code(w)
    <3>1. slot[worker[w].slot].coded \in Content /\ slot[worker[w].slot].raw \in Content
      BY <2>3 DEF Code, Hands, Holds, Slot
    <3>2. slot' \in [Slots -> Slot]
      BY <2>3, <3>1 DEF Code, Slot
    <3>3. worker' \in [Workers -> Worker]
      <4>1. \A p \in {"finish", "failed"} : [worker[w] EXCEPT !.pc = p] \in Worker
        BY DEF Worker
      <4>2. QED  BY <2>3, <4>1 DEF Code
    <3>4. QED  BY <1>1, <2>3, <3>2, <3>3 DEF Code, outVars
  <2>4. CASE Finish(w)
    <3>1. \A p \in {"exit", "look"} : [pc |-> p, slot |-> NoBlock] \in Worker
      BY DEF Worker
    <3>2. QED  BY <1>1, <2>4, <3>1 DEF Slot, Finish, Broadcast, outVars
  <2>5. QED  BY <1>1, <2>1, <2>2, <2>3, <2>4 DEF WorkerStep
<1>2. ASSUME MainStep, UNCHANGED kind
      PROVE  PoolTypeOK'
  <2>1. CASE Spawn
    <3>1. worker' \in [Workers -> Worker]
      BY <2>1 DEF Spawn, Worker
    <3>2. QED  BY <1>2, <2>1, <3>1 DEF Spawn, GoToDone, poolVars, outVars
  <2>2. CASE Reserve
    <3>1. CanRead => nextRead \in Content /\ NoBlock \in Content
      BY ConstantTypes DEF CanRead, Content, PoolBlocks
    <3>2. CanRead => [state |-> "filling", index |-> nextRead, raw |-> NoBlock,
                      coded |-> NoBlock] \in Slot
      BY <3>1 DEF Slot
    <3>3. QED  BY <1>2, <2>2, <3>2 DEF Reserve, GoToDone, Sleep, outVars
  <2>3. CASE Fill
    <3>1. nextRead \in Content
      BY <2>3, ConstantTypes DEF Fill, Window, CanRead, Content, PoolBlocks
    <3>2. slot' \in [Slots -> Slot]
      BY <2>3, <3>1 DEF Fill, Slot
    <3>3. QED  BY <1>2, <2>3, <3>2 DEF Fill, Broadcast, GoToDone, outVars
  <2>4. CASE Publish
    <3>1. slot' \in [Slots -> Slot]
      BY <2>4 DEF Publish, Slot
    <3>2. nextRead' \in 0 .. BlockCount
      BY <2>4, ConstantTypes DEF Publish, Window, CanRead
    <3>3. QED  BY <1>2, <2>4, <3>1, <3>2 DEF Publish, Broadcast, outVars
  <2>5. CASE Collect
    BY <1>2, <2>5 DEF Collect, GoToDone, Sleep, outVars
  <2>6. CASE Write
    <3>1. slot[Cell(nextWrite)].coded \in Content
      BY CellInSlots DEF Slot
    <3>2. <<slot[Cell(nextWrite)].coded>> \in Seq(Content)
      BY <3>1
    <3>3. buffered' \in Seq(Content) /\ written' \in Seq(Content)
      <4>1. Append(buffered, slot[Cell(nextWrite)].coded) \in Seq(Content)
        BY <3>1, AppendProperties
      <4>2. written \o buffered \in Seq(Content)
        BY ConcatProperties
      <4>3. QED  BY <2>6, <3>2, <4>1, <4>2 DEF Write, outVars
    <3>4. QED  BY <1>2, <2>6, <3>3 DEF Write, GoToDone, poolVars
  <2>7. CASE Release
    BY <1>2, <2>7 DEF Slot, Release, Broadcast, outVars
  <2>8. CASE DeleteWritten
    <3>1. nextWrite + 1 \in 0 .. BlockCount /\ nextWrite + 1 \in Nat
      BY <2>8, ConstantTypes DEF DeleteWritten, Window
    <3>2. PoolCommitted(nextWrite + 1) # {} => Max(PoolCommitted(nextWrite + 1)) \in 0 .. Len(FileEnds)
      BY <3>1, CommittedFiles, ConstantTypes
    <3>3. deleted' \in 0 .. Len(FileEnds)
      BY <2>8, <3>2 DEF DeleteWritten
    <3>4. buffered' \in Seq(Content) /\ written' \in Seq(Content)
      BY <2>8, FlushTypes DEF DeleteWritten, outVars
    <3>5. QED  BY <1>2, <2>8, <3>1, <3>3, <3>4 DEF DeleteWritten, poolVars
  <2>9. CASE DeleteFails
    <3>1. \A f \in PoolCommitted(nextWrite + 1) : f - 1 \in 0 .. Len(FileEnds)
      BY CommittedFiles, ConstantTypes
    <3>2. deleted' \in 0 .. Len(FileEnds)
      BY <2>9, <3>1 DEF DeleteFails
    <3>3. buffered' \in Seq(Content) /\ written' \in Seq(Content)
      BY <2>9, FlushTypes DEF DeleteFails, outVars
    <3>4. QED  BY <1>2, <2>9, <3>2, <3>3 DEF DeleteFails, GoToDone, poolVars
  <2>10. CASE LoopEnds
    BY <1>2, <2>10 DEF LoopEnds, poolVars, outVars
  <2>11. CASE Flush
    BY <1>2, <2>11, FlushTypes DEF Flush, poolVars, outVars
  <2>12. CASE StopPool
    BY <1>2, <2>12 DEF StopPool, Broadcast, outVars
  <2>13. CASE Join
    BY <1>2, <2>13 DEF Join, poolVars, outVars
  <2>14. QED  BY <1>2, <2>1, <2>2, <2>3, <2>4, <2>5, <2>6, <2>7, <2>8, <2>9, <2>10, <2>11,
                 <2>12, <2>13 DEF MainStep
<1>3. CASE UNCHANGED blockVars
  BY <1>3 DEF blockVars
<1>4. QED  BY <1>1, <1>2, <1>3 DEF PoolNext

-----------------------------------------------------------------------------
(* The window and the hands: the slots' states tell who uses which.           *)

LEMMA WindowStep ==
  ASSUME PoolTypeOK, Window, [PoolNext]_blockVars
  PROVE  Window'
<1> USE DEF PoolTypeOK, Window, CanRead
<1>1. ASSUME NEW w \in Workers, WorkerStep(w)
      PROVE  Window'
  BY <1>1 DEF WorkerStep, WorkerStart, Look, Code, Finish
<1>2. ASSUME MainStep
      PROVE  Window'
  <2>1. CASE Spawn \/ Reserve \/ Fill
    BY <2>1 DEF Spawn, Reserve, Fill, GoToDone
  <2>2. CASE Publish \/ Collect
    BY <2>2, ConstantTypes DEF Publish, Collect, GoToDone
  <2>3. CASE Write \/ Release
    BY <2>3 DEF Write, Release, GoToDone
  <2>4. CASE DeleteWritten \/ DeleteFails
    BY <2>4, ConstantTypes DEF DeleteWritten, DeleteFails, GoToDone
  <2>5. CASE LoopEnds \/ Flush \/ StopPool \/ Join
    BY <2>5 DEF LoopEnds, Flush, StopPool, Join
  <2>6. QED  BY <1>2, <2>1, <2>2, <2>3, <2>4, <2>5 DEF MainStep
<1>3. CASE UNCHANGED blockVars
  BY <1>3 DEF blockVars
<1>4. QED  BY <1>1, <1>2, <1>3 DEF PoolNext

(* A worker takes a slot that is ready, and works on what it has alone.        *)
LEMMA WorkerHands ==
  ASSUME PoolTypeOK, Window, Hands, NEW w \in Workers, WorkerStep(w), UNCHANGED kind
  PROVE  Hands'
<1>0. /\ nextRead \in Nat /\ nextWrite \in Nat /\ Cell(nextRead) \in Slots /\ Cell(nextWrite) \in Slots
      /\ nextRead' = nextRead /\ nextWrite' = nextWrite /\ main' = main
  BY CellInSlots DEF PoolTypeOK, WorkerStep, WorkerStart, Look, Code, Finish
<1>1. worker[w].pc \notin {"none", "exit"} /\ worker' \in [Workers -> Worker]
  BY PoolTypeStep, ConstantTypes DEF PoolTypeOK, PoolNext, WorkerStep, WorkerStart, Look, Code, Finish
<1>2. (main = "over" \/ (main = "flush" /\ kind = "compress") => WorkersJoined)'
  BY <1>0, <1>1 DEF Hands, WorkersJoined
<1> HIDE DEF WorkersJoined
<1>3. CASE WorkerStart(w)
  <2>1. /\ slot' = slot /\ ~Holds(w)' /\ worker'[w].slot = worker[w].slot
        /\ \A v \in Workers \ {w} : worker'[v] = worker[v]
    BY <1>3 DEF WorkerStart, poolVars, PoolTypeOK, Holds, Worker
  <2>2. QED  BY <1>0, <1>2, <2>1 DEF Hands, Holds, Cell
<1>4. CASE Look(w)
  <2>1. ReadySlots # {} => Min(ReadySlots) \in Slots /\ slot[Min(ReadySlots)].state = "ready"
    <3>1. ReadySlots \in SUBSET Nat /\ ReadySlots \subseteq Slots
      BY ConstantTypes DEF ReadySlots, Slots
    <3>2. QED  BY <3>1, MinIsLeast DEF ReadySlots
  <2>2. CASE UNCHANGED slot
    <3>1. ~Holds(w)' /\ \A v \in Workers \ {w} : worker'[v] = worker[v]
      BY <1>4, <2>1, <2>2 DEF Look, PoolTypeOK, Holds, Worker, Slot
    <3>2. QED  BY <1>0, <1>2, <2>2, <3>1 DEF Hands, Holds, Cell
  <2>3. CASE slot' # slot
    <3> DEFINE m == Min(ReadySlots)
    <3>1. /\ worker'[w].slot = m /\ m \in Slots /\ slot[m].state = "ready"
          /\ \A v \in Workers \ {w} : worker'[v] = worker[v]
          /\ slot'[m].state = "busy" /\ \A i \in Slots \ {m} : slot'[i] = slot[i]
      BY <1>4, <2>1, <2>3 DEF Look, PoolTypeOK, Slot, Worker
    <3> HIDE DEF m
    <3>2. QED  BY <1>0, <1>2, <3>1 DEF Hands, Holds, Cell
  <2>4. QED  BY <2>2, <2>3
<1>5. CASE Code(w)
  <2>1. /\ Holds(w) /\ worker'[w].slot = worker[w].slot
        /\ \A v \in Workers \ {w} : worker'[v] = worker[v]
        /\ \A i \in Slots : slot'[i].state = slot[i].state
    BY <1>5 DEF Code, PoolTypeOK, Holds, Worker, Slot
  <2>2. QED  BY <1>0, <1>2, <2>1 DEF Hands, Holds, Cell
<1>6. CASE Finish(w)
  <2>1. /\ Holds(w) /\ ~Holds(w)' /\ worker[w].slot \in Slots
        /\ \A v \in Workers \ {w} : worker'[v] = worker[v]
        /\ slot[worker[w].slot].state = "busy"
        /\ \A i \in Slots \ {worker[w].slot} : slot'[i] = slot[i]
    BY <1>6 DEF Finish, PoolTypeOK, Hands, Holds, Worker, Slot
  <2>2. QED  BY <1>0, <1>2, <2>1 DEF Hands, Holds, Cell
<1>7. QED  BY <1>3, <1>4, <1>5, <1>6 DEF WorkerStep

(* The job's thread takes a slot that is free, and one that is done.           *)
LEMMA MainHands ==
  ASSUME PoolTypeOK, Window, Hands, MainStep, UNCHANGED kind
  PROVE  Hands'
<1> USE DEF PoolTypeOK, Hands, Holds
<1>0. nextRead \in Nat /\ nextWrite \in Nat /\ Cell(nextRead) \in Slots /\ Cell(nextWrite) \in Slots
  BY CellInSlots
<1>1. CASE Spawn
  <2>1. \A v \in Workers : Holds(v)' => Holds(v) /\ worker'[v] = worker[v]
    BY <1>1 DEF Spawn, Worker
  <2>2. main' \in {"spawn", "loop", "stop"} /\ slot' = slot
    BY <1>1 DEF Spawn, GoToDone, poolVars
  <2>3. QED  BY <2>1, <2>2
<1>2. CASE Reserve
  BY <1>0, <1>2 DEF Reserve, GoToDone, Slot, WorkersJoined, Cell
<1>3. CASE Fill
  BY <1>0, <1>3 DEF Fill, GoToDone, Slot, WorkersJoined, Cell
<1>4. CASE Publish
  BY <1>0, <1>4 DEF Publish, Slot, WorkersJoined
<1>5. CASE Collect
  BY <1>0, <1>5 DEF Collect, HoldsNext, GoToDone, WorkersJoined, Cell
<1>6. CASE Write
  BY <1>0, <1>6 DEF Write, GoToDone, poolVars, WorkersJoined, Cell
<1>7. CASE Release
  BY <1>0, <1>7 DEF Release, Slot, WorkersJoined, Cell
<1>8. CASE DeleteWritten \/ DeleteFails
  BY <1>0, <1>8 DEF DeleteWritten, DeleteFails, GoToDone, poolVars, WorkersJoined
<1>9. CASE LoopEnds \/ Flush \/ StopPool
  BY <1>0, <1>9 DEF LoopEnds, Flush, StopPool, poolVars, WorkersJoined
<1>10. CASE Join
  BY <1>0, <1>10 DEF Join, poolVars, WorkersJoined
<1>11. QED  BY <1>1, <1>2, <1>3, <1>4, <1>5, <1>6, <1>7, <1>8, <1>9, <1>10 DEF MainStep

LEMMA HandsStep ==
  ASSUME PoolTypeOK, Window, Hands, [PoolNext]_blockVars
  PROVE  Hands'
<1>1. CASE PoolNext
  BY <1>1, WorkerHands, MainHands DEF PoolNext
<1>2. CASE UNCHANGED blockVars
  BY <1>2 DEF blockVars, Hands, Holds, WorkersJoined, Cell
<1>3. QED  BY <1>1, <1>2

-----------------------------------------------------------------------------
(* What the slots carry.                                                    *)

(* Another block in flight lies in another slot than the next to come, and in   *)
(* another one than the next to be written.                                  *)
LEMMA FlightsApart ==
  ASSUME PoolTypeOK, Window, NEW b \in nextWrite .. nextRead - 1
  PROVE  /\ b \in Nat /\ Cell(b) \in Slots
         /\ b # nextWrite => Cell(b) # Cell(nextWrite)
         /\ CanRead => Cell(b) # Cell(nextRead)
<1>1. /\ b \in Nat /\ nextWrite \in Nat /\ nextRead \in Nat /\ SlotCount \in Nat
      /\ nextWrite <= b /\ b < nextRead /\ nextRead <= nextWrite + SlotCount
  BY ConstantTypes DEF PoolTypeOK, Window
<1>2. b # nextWrite => Cell(b) # Cell(nextWrite)
  <2>1. b # nextWrite => nextWrite < b /\ b < nextWrite + SlotCount
    BY <1>1
  <2>2. QED  BY <1>1, <2>1, CellsDiffer
<1>3. CanRead => Cell(b) # Cell(nextRead)
  <2>1. CanRead => nextRead < b + SlotCount
    BY <1>1 DEF CanRead
  <2>2. QED  BY <1>1, <2>1, CellsDiffer
<1>4. QED  BY <1>1, <1>2, <1>3, CellInSlots

(* A worker keeps a slot's block, and the content of one that is done.         *)
Same(i) ==
  /\ slot'[i].index = slot[i].index /\ slot'[i].raw = slot[i].raw
  /\ slot[i].state \in {"ready", "busy", "done"} => slot'[i].state \in {"ready", "busy", "done"}
  /\ slot[i].state = "done" => slot'[i].coded = slot[i].coded

LEMMA WorkerFlights ==
  ASSUME PoolTypeOK, Window, Hands, Flights, NEW w \in Workers, WorkerStep(w)
  PROVE  Flights'
<1>0. /\ nextRead \in Nat /\ nextWrite \in Nat /\ Cell(nextRead) \in Slots /\ Cell(nextWrite) \in Slots
      /\ nextRead' = nextRead /\ nextWrite' = nextWrite /\ main' = main
  BY CellInSlots DEF PoolTypeOK, WorkerStep, WorkerStart, Look, Code, Finish
<1>1. ASSUME /\ \A i \in Slots : Same(i)
             /\ error => error'
             /\ \A v \in Workers : worker'[v].pc = "finish" =>
                  worker'[v].slot \in Slots /\ slot'[worker'[v].slot].coded = slot'[worker'[v].slot].raw
             /\ \A i \in Slots : slot'[i].state = "done" /\ slot'[i].coded # slot'[i].raw =>
                  error' \/ (slot[i].state = "done" /\ slot[i].coded # slot[i].raw)
      PROVE  Flights'
  <2>1. ASSUME NEW b \in nextWrite .. nextRead - 1, Carries(Cell(b), b)
        PROVE  Carries(Cell(b), b)'
    BY <1>0, <1>1, <2>1, FlightsApart DEF Carries, Same, Cell
  <2>2. QED  BY <1>0, <1>1, <2>1 DEF Flights, Hands, Same, Cell, Running
<1>2. CASE WorkerStart(w)
  BY <1>1, <1>2 DEF WorkerStart, poolVars, PoolTypeOK, Hands, Holds, Worker, Flights, Same
<1>3. CASE Look(w)
  <2>1. ReadySlots # {} => Min(ReadySlots) \in Slots /\ slot[Min(ReadySlots)].state = "ready"
    <3>1. ReadySlots \in SUBSET Nat /\ ReadySlots \subseteq Slots
      BY ConstantTypes DEF ReadySlots, Slots
    <3>2. QED  BY <3>1, MinIsLeast DEF ReadySlots
  <2>2. /\ \A v \in Workers : worker'[v].pc = "finish" => worker'[v] = worker[v]
        /\ error' = error
    BY <1>3 DEF Look, PoolTypeOK, Worker
  <2>3. CASE UNCHANGED slot
    BY <1>1, <2>2, <2>3 DEF Flights, Hands, Holds, Same
  <2>4. CASE slot' # slot
    <3> DEFINE m == Min(ReadySlots)
    <3>1. /\ m \in Slots /\ slot[m].state = "ready" /\ slot'[m].state = "busy"
          /\ slot'[m].index = slot[m].index /\ slot'[m].raw = slot[m].raw
          /\ slot'[m].coded = slot[m].coded
          /\ \A i \in Slots \ {m} : slot'[i] = slot[i]
      BY <1>3, <2>1, <2>4 DEF Look, PoolTypeOK, Slot
    <3> HIDE DEF m
    <3>2. QED  BY <1>1, <2>2, <3>1 DEF Flights, Hands, Holds, Same
  <2>5. QED  BY <2>3, <2>4
<1>4. CASE Code(w)
  <2> DEFINE s == worker[w].slot
  <2>0. s \in Slots /\ slot[s].state = "busy"
    BY <1>4 DEF Code, Hands, Holds
  <2>1. /\ \A i \in Slots : Same(i) /\ slot'[i].state = slot[i].state /\ slot'[i].raw = slot[i].raw
        /\ \A i \in Slots \ {s} : slot'[i] = slot[i]
        /\ s \in Slots /\ slot[s].state = "busy"
        /\ worker'[w].slot = s /\ error' = error
        /\ worker'[w].pc = "finish" => slot'[s].coded = slot'[s].raw
        /\ \A v \in Workers \ {w} : worker'[v] = worker[v]
    <3>1. /\ worker'[w].slot = s /\ error' = error
          /\ \A v \in Workers \ {w} : worker'[v] = worker[v]
      BY <1>4 DEF Code, PoolTypeOK, Worker
    <3>2. CASE UNCHANGED slot /\ worker'[w].pc # "finish"
      BY <2>0, <3>1, <3>2 DEF Same
    <3>3. CASE slot' = [slot EXCEPT ![s].coded = slot[s].raw]
      <4>1. /\ \A i \in Slots \ {s} : slot'[i] = slot[i]
            /\ slot'[s].state = slot[s].state /\ slot'[s].raw = slot[s].raw
            /\ slot'[s].index = slot[s].index /\ slot'[s].coded = slot[s].raw
        BY <2>0, <3>3 DEF PoolTypeOK, Slot
      <4> HIDE DEF s
      <4>2. QED  BY <2>0, <3>1, <4>1 DEF Same
    <3>4. QED  BY <1>4, <3>2, <3>3 DEF Code, PoolTypeOK, Worker
  <2>2. ASSUME NEW v \in Workers, v # w, worker[v].pc = "finish"
        PROVE  worker[v].slot \in Slots /\ worker[v].slot # s
    BY <1>4, <2>2 DEF Hands, Holds, Code
  <2> HIDE DEF s
  <2>3. QED  BY <1>1, <2>1, <2>2 DEF Flights
<1>5. CASE Finish(w)
  <2> DEFINE s == worker[w].slot
  <2>1. /\ s \in Slots /\ slot[s].state = "busy"
        /\ \A i \in Slots \ {s} : slot'[i] = slot[i]
        /\ slot'[s].state = "done" /\ slot'[s].raw = slot[s].raw
        /\ slot'[s].index = slot[s].index /\ slot'[s].coded = slot[s].coded
    BY <1>5 DEF Finish, PoolTypeOK, Slot, Hands, Holds
  <2>2. /\ worker'[w].pc # "finish"
        /\ \A v \in Workers \ {w} : worker'[v] = worker[v]
        /\ error => error'
        /\ error' \/ worker[w].pc = "finish"
    BY <1>5 DEF Finish, PoolTypeOK, Worker
  <2>3. worker[w].pc = "finish" => slot[s].coded = slot[s].raw
    BY DEF Flights
  <2>4. \A v \in Workers : worker[v].pc = "finish" =>
           worker[v].slot \in Slots /\ slot[worker[v].slot].coded = slot[worker[v].slot].raw
    BY DEF Flights, Hands, Holds
  <2> HIDE DEF s
  <2>5. \A i \in Slots : Same(i) /\ slot'[i].coded = slot[i].coded /\ slot'[i].raw = slot[i].raw
    BY <2>1 DEF Same
  <2>6. QED  BY <1>1, <2>1, <2>2, <2>3, <2>4, <2>5
<1>6. QED  BY <1>2, <1>3, <1>4, <1>5 DEF WorkerStep

LEMMA MainFlights ==
  ASSUME PoolTypeOK, Window, Hands, Flights, MainStep
  PROVE  Flights'
<1>0. nextRead \in Nat /\ nextWrite \in Nat /\ Cell(nextRead) \in Slots /\ Cell(nextWrite) \in Slots
  BY CellInSlots DEF PoolTypeOK
<1>1. CASE Spawn
  <2>1. /\ \A v \in Workers : worker'[v].pc = "finish" => worker'[v] = worker[v]
        /\ slot' = slot /\ error' = error /\ main' \in {"spawn", "loop", "stop"}
        /\ nextRead' = 0 /\ nextWrite' = 0
    BY <1>0, <1>1 DEF Spawn, GoToDone, poolVars, PoolTypeOK, Worker, Window
  <2>2. QED  BY <2>1 DEF Flights, Running
<1>2. CASE Reserve
  <2>1. CASE main' = "fill"
    <3>1. /\ slot[Cell(nextRead)].state = "free" /\ CanRead /\ main = "loop"
          /\ slot'[Cell(nextRead)] = [state |-> "filling", index |-> nextRead,
                                      raw |-> NoBlock, coded |-> NoBlock]
          /\ \A i \in Slots \ {Cell(nextRead)} : slot'[i] = slot[i]
          /\ UNCHANGED <<worker, nextRead, nextWrite, error>>
      BY <1>0, <1>2, <2>1 DEF Reserve, PoolTypeOK, GoToDone
    <3>2. ASSUME NEW b \in nextWrite .. nextRead - 1
          PROVE  Carries(Cell(b), b)'
      BY <3>1, FlightsApart DEF Flights, Running, Carries, Cell
    <3>3. ASSUME NEW v \in Workers, worker[v].pc = "finish"
          PROVE  worker[v].slot \in Slots \ {Cell(nextRead)}
      BY <3>1, <3>3 DEF Hands, Holds
    <3>4. QED  BY <1>0, <2>1, <3>1, <3>2, <3>3 DEF Flights, Running, Cell
  <2>2. CASE main' # "fill"
    BY <1>2, <2>2 DEF Reserve, GoToDone, Flights, Running, Carries, Cell
  <2>3. QED  BY <2>1, <2>2
<1>3. CASE Fill
  <2>1. /\ \A i \in Slots \ {Cell(nextRead)} : slot'[i] = slot[i]
        /\ slot[Cell(nextRead)].state = "filling" /\ slot'[Cell(nextRead)].state \in {"free", "filling"}
        /\ slot'[Cell(nextRead)].index = slot[Cell(nextRead)].index
        /\ main = "fill" /\ CanRead /\ main' \in {"stop", "publish"}
        /\ main' = "publish" => slot'[Cell(nextRead)].raw = nextRead
        /\ UNCHANGED <<worker, nextRead, nextWrite, error>>
    BY <1>0, <1>3 DEF Fill, PoolTypeOK, GoToDone, Hands, Slot, Window
  <2>2. ASSUME NEW b \in nextWrite .. nextRead - 1
        PROVE  Carries(Cell(b), b)'
    BY <2>1, FlightsApart DEF Flights, Running, Carries, Cell
  <2>3. ASSUME NEW v \in Workers, worker[v].pc = "finish"
        PROVE  worker[v].slot \in Slots \ {Cell(nextRead)}
    BY <2>1, <2>3 DEF Hands, Holds
  <2>4. QED  BY <1>0, <2>1, <2>2, <2>3 DEF Flights, Running, Cell
<1>4. CASE Publish
  <2>1. /\ \A i \in Slots \ {Cell(nextRead)} : slot'[i] = slot[i]
        /\ slot[Cell(nextRead)].state = "filling" /\ slot'[Cell(nextRead)].state = "ready"
        /\ slot'[Cell(nextRead)].index = nextRead /\ slot'[Cell(nextRead)].raw = nextRead
        /\ main = "publish" /\ CanRead /\ main' = "loop"
        /\ nextRead' = nextRead + 1 /\ UNCHANGED <<worker, nextWrite, error>>
    BY <1>0, <1>4 DEF Publish, PoolTypeOK, Hands, Slot, Window, Flights
  <2>2. ASSUME NEW b \in nextWrite .. nextRead - 1
        PROVE  Carries(Cell(b), b)'
    BY <2>1, FlightsApart DEF Flights, Running, Carries, Cell
  <2>3. /\ slot'[Cell(nextRead)].index = nextRead /\ slot'[Cell(nextRead)].raw = nextRead
        /\ slot'[Cell(nextRead)].state \in {"ready", "busy", "done"}
    BY <2>1
  <2>4. ASSUME NEW v \in Workers, worker[v].pc = "finish"
        PROVE  worker[v].slot \in Slots \ {Cell(nextRead)}
    BY <2>1, <2>4 DEF Hands, Holds
  <2>5. \A b \in (nextWrite .. nextRead - 1)' : b \in nextWrite .. nextRead - 1 \/ b = nextRead
    BY <1>0, <2>1
  <2>6. QED  BY <1>0, <2>1, <2>2, <2>3, <2>4, <2>5 DEF Flights, Running, Cell, Carries
<1>5. CASE Collect
  <2>1. CASE main' = "write"
    <3>1. /\ main = "loop" /\ nextWrite < nextRead /\ ~error /\ HoldsNext(Cell(nextWrite))
      BY <1>5, <2>1, ConstantTypes DEF Collect, GoToDone, CanRead, PoolTypeOK
    <3>2. Carries(Cell(nextWrite), nextWrite) /\ slot[Cell(nextWrite)].coded = nextWrite
      BY <1>0, <3>1 DEF Flights, Running, HoldsNext, Carries
    <3>3. QED  BY <1>5, <2>1, <3>2 DEF Collect, Flights, Running, Carries, Cell
  <2>2. CASE main' # "write"
    BY <1>5, <2>2 DEF Collect, GoToDone, Flights, Running, Carries, Cell
  <2>3. QED  BY <2>1, <2>2
<1>6. CASE Write
  BY <1>6 DEF Write, GoToDone, poolVars, Flights, Running, Carries, Cell
<1>7. CASE Release
  <2>1. /\ \A i \in Slots \ {Cell(nextWrite)} : slot'[i] = slot[i]
        /\ slot[Cell(nextWrite)].state = "done" /\ slot'[Cell(nextWrite)].state = "free"
        /\ main = "release" /\ main' = "delete"
        /\ UNCHANGED <<worker, nextRead, nextWrite, error>>
    BY <1>0, <1>7 DEF Release, PoolTypeOK, Hands, Slot
  <2>2. ASSUME NEW b \in nextWrite .. nextRead - 1, b # nextWrite
        PROVE  Carries(Cell(b), b)'
    BY <2>1, <2>2, FlightsApart DEF Flights, Running, Carries, Cell
  <2>3. ASSUME NEW v \in Workers, worker[v].pc = "finish"
        PROVE  worker[v].slot \in Slots \ {Cell(nextWrite)}
    BY <2>1, <2>3 DEF Hands, Holds
  <2>4. QED  BY <1>0, <2>1, <2>2, <2>3 DEF Flights, Running, Cell
<1>8. CASE DeleteWritten
  BY <1>0, <1>8 DEF DeleteWritten, poolVars, Flights, Running, Carries, Cell, PoolTypeOK
<1>9. CASE DeleteFails \/ LoopEnds \/ Flush
  BY <1>9 DEF DeleteFails, LoopEnds, Flush, GoToDone, poolVars, Flights, Running
<1>10. CASE StopPool \/ Join
  BY <1>10 DEF StopPool, Join, poolVars, Flights, Running
<1>11. QED  BY <1>1, <1>2, <1>3, <1>4, <1>5, <1>6, <1>7, <1>8, <1>9, <1>10 DEF MainStep

LEMMA FlightsStep ==
  ASSUME PoolTypeOK, Window, Hands, Flights, [PoolNext]_blockVars
  PROVE  Flights'
<1>1. CASE PoolNext
  BY <1>1, WorkerFlights, MainFlights DEF PoolNext
<1>2. CASE UNCHANGED blockVars
  BY <1>2 DEF blockVars, Flights, Running, Carries, Cell
<1>3. QED  BY <1>1, <1>2

-----------------------------------------------------------------------------
(* What has reached the output.                                             *)

(* A block more in the buffer, or the buffer in the file: the two stay the     *)
(* first blocks in order.                                                   *)
LEMMA AppendKeepsOrder ==
  ASSUME PoolTypeOK, NEW b \in Content, b = Len(written) + Len(buffered),
         \A i \in 1 .. Len(buffered) : buffered[i] = Len(written) + i - 1,
         buffered' = Append(buffered, b)
  PROVE  /\ Len(buffered') = Len(buffered) + 1
         /\ \A i \in 1 .. Len(buffered') : buffered'[i] = Len(written) + i - 1
<1>1. /\ buffered \in Seq(Content) /\ Len(buffered) \in Nat /\ Len(written) \in Nat
  BY LenProperties DEF PoolTypeOK
<1>2. /\ Len(buffered') = Len(buffered) + 1
      /\ \A i \in 1 .. Len(buffered) : buffered'[i] = buffered[i]
      /\ buffered'[Len(buffered) + 1] = b
  BY <1>1, AppendProperties
<1>3. QED  BY <1>1, <1>2

LEMMA FlushKeepsOrder ==
  ASSUME PoolTypeOK, written' = written \o buffered,
         \A i \in 1 .. Len(written) : written[i] = i - 1,
         \A i \in 1 .. Len(buffered) : buffered[i] = Len(written) + i - 1
  PROVE  /\ Len(written') = Len(written) + Len(buffered)
         /\ \A i \in 1 .. Len(written') : written'[i] = i - 1
<1>1. /\ buffered \in Seq(Content) /\ written \in Seq(Content)
      /\ Len(buffered) \in Nat /\ Len(written) \in Nat
  BY LenProperties DEF PoolTypeOK
<1>2. /\ Len(written') = Len(written) + Len(buffered)
      /\ \A i \in 1 .. Len(written) + Len(buffered) :
           written'[i] = IF i <= Len(written) THEN written[i] ELSE buffered[i - Len(written)]
  BY <1>1, ConcatProperties
<1>3. QED  BY <1>1, <1>2

LEMMA OutputTypes ==
  ASSUME PoolTypeOK
  PROVE  Len(written) \in Nat /\ Len(buffered) \in Nat
BY LenProperties DEF PoolTypeOK

LEMMA MainOutput ==
  ASSUME PoolTypeOK, Window, Hands, Flights, Output, MainStep, UNCHANGED kind
  PROVE  Output'
<1>0. /\ Len(written) \in Nat /\ Len(buffered) \in Nat
      /\ nextWrite \in Nat /\ nextRead \in Nat /\ BlockCount \in Nat
      /\ nextRead <= BlockCount /\ nextWrite <= BlockCount
  BY OutputTypes, ConstantTypes DEF PoolTypeOK
<1>1. CASE Spawn \/ Reserve
  BY <1>0, <1>1 DEF Spawn, Reserve, GoToDone, outVars, Output, Running, Window
<1>2. CASE Fill \/ Publish \/ Collect
  BY <1>0, <1>2 DEF Fill, Publish, Collect, GoToDone, outVars, Output, Running
<1>3. CASE Write
  <2>1. /\ main = "write" /\ nextWrite < nextRead /\ result = "running"
        /\ slot[Cell(nextWrite)].coded = nextWrite
        /\ Len(written) + Len(buffered) = nextWrite
    BY <1>3 DEF Write, Window, Flights, Output, Running
  <2>2. nextWrite \in Content
    BY <1>0, <2>1 DEF Content, PoolBlocks
  <2>3. CASE buffered' = Append(buffered, nextWrite) /\ written' = written /\ main' = "release" /\ result' = result
    <3>1. /\ Len(buffered') = Len(buffered) + 1
          /\ \A i \in 1 .. Len(buffered') : buffered'[i] = Len(written) + i - 1
      BY <2>1, <2>2, <2>3, AppendKeepsOrder DEF Output
    <3>2. QED  BY <1>0, <1>3, <2>1, <2>3, <3>1 DEF Write, Output, Running
  <2>4. CASE /\ buffered' = <<nextWrite>> /\ written' = written \o buffered
             /\ main' = "release" /\ result' = result
    <3>1. /\ Len(written') = nextWrite
          /\ \A i \in 1 .. Len(written') : written'[i] = i - 1
      BY <2>1, <2>4, FlushKeepsOrder DEF Output
    <3>2. Len(buffered') = 1 /\ \A i \in 1 .. Len(buffered') : buffered'[i] = nextWrite + i - 1
      BY <1>0, <2>4
    <3>3. QED  BY <1>0, <1>3, <2>1, <2>4, <3>1, <3>2 DEF Write, Output, Running
  <2>5. CASE GoToDone /\ UNCHANGED outVars
    BY <1>0, <2>5 DEF GoToDone, outVars, Output, Running
  <2>6. QED  BY <1>3, <2>1, <2>3, <2>4, <2>5 DEF Write
<1>4. CASE Release
  BY <1>0, <1>4 DEF Release, outVars, Output, Running
<1>5. ASSUME FlushBuffer
      PROVE  /\ Len(written') = Len(written) + Len(buffered) /\ Len(buffered') = 0
             /\ Len(written') \in Nat
             /\ \A i \in 1 .. Len(written') : written'[i] = i - 1
             /\ \A i \in 1 .. Len(buffered') : buffered'[i] = Len(written') + i - 1
  BY <1>0, <1>5, FlushKeepsOrder DEF FlushBuffer, Output
<1>6. CASE DeleteWritten
  <2>1. /\ main = "delete" /\ main' = "loop" /\ result' = result /\ nextWrite' = nextWrite + 1
        /\ FlushBuffer \/ UNCHANGED outVars
    BY <1>6 DEF DeleteWritten
  <2>2. CASE UNCHANGED outVars
    BY <1>0, <2>1, <2>2 DEF outVars, Output, Running
  <2>3. CASE FlushBuffer
    <3>1. nextWrite + 1 <= BlockCount
      BY <1>0, <2>1 DEF Window
    <3>2. QED  BY <1>0, <1>5, <2>1, <2>3, <3>1 DEF Output, Running
  <2>4. QED  BY <2>1, <2>2, <2>3
<1>7. CASE DeleteFails
  <2>1. /\ main = "delete" /\ main' = "stop" /\ result' = "failed"
        /\ FlushBuffer \/ UNCHANGED outVars
    BY <1>7 DEF DeleteFails, GoToDone
  <2>2. CASE UNCHANGED outVars
    BY <1>0, <2>1, <2>2 DEF outVars, Output, Running
  <2>3. CASE FlushBuffer
    <3>1. nextWrite + 1 <= BlockCount
      BY <1>0, <2>1 DEF Window
    <3>2. QED  BY <1>0, <1>5, <2>1, <2>3, <3>1 DEF Output, Running
  <2>4. QED  BY <2>1, <2>2, <2>3
<1>8. CASE LoopEnds
  BY <1>0, <1>8 DEF LoopEnds, outVars, Output, Running
<1>9. CASE Flush
  <2>1. /\ main = "flush" /\ main' = "stop" /\ Len(written) + Len(buffered) = BlockCount
        /\ \/ FlushBuffer /\ result' \in {"ok", "failed"}
           \/ UNCHANGED outVars /\ result' = "failed"
    BY <1>9 DEF Flush, Output
  <2>2. QED  BY <1>0, <1>5, <2>1 DEF outVars, Output, Running
<1>10. CASE StopPool \/ Join
  BY <1>0, <1>10 DEF StopPool, Join, outVars, Output, Running
<1>11. QED  BY <1>1, <1>2, <1>3, <1>4, <1>6, <1>7, <1>8, <1>9, <1>10 DEF MainStep

LEMMA OutputStep ==
  ASSUME PoolTypeOK, Window, Hands, Flights, Output, [PoolNext]_blockVars
  PROVE  Output'
<1>1. ASSUME NEW w \in Workers, WorkerStep(w)
      PROVE  Output'
  <2>1. UNCHANGED <<main, nextWrite, buffered, written, result>>
    BY <1>1 DEF WorkerStep, WorkerStart, Look, Code, Finish, outVars
  <2>2. QED  BY <2>1 DEF Output, Running
<1>2. CASE UNCHANGED blockVars
  BY <1>2 DEF blockVars, Output, Running
<1>3. QED  BY <1>1, <1>2, MainOutput DEF PoolNext

(* A source file is deleted after the flush that has its blocks written, and    *)
(* what is written stays so.                                                *)
LEMMA UnlinkedStep ==
  ASSUME PoolTypeOK, Window, Output, Unlinked, [PoolNext]_blockVars
  PROVE  Unlinked'
<1>0. /\ Len(written) \in Nat /\ Len(buffered) \in Nat /\ deleted \in 0 .. Len(FileEnds)
      /\ nextWrite + 1 \in Nat
  BY OutputTypes DEF PoolTypeOK
<1>1. CASE deleted' = deleted /\ written' \in {written, written \o buffered}
  <2>1. Len(written) <= Len(written')
    <3>1. Len(written \o buffered) = Len(written) + Len(buffered)
      BY ConcatProperties DEF PoolTypeOK
    <3>2. QED  BY <1>0, <1>1, <3>1
  <2>2. deleted > 0 => FileEnds[deleted] \in Nat
    BY <1>0, ConstantTypes
  <2>3. Len(written') \in Nat
    BY <1>0, <1>1, ConcatProperties DEF PoolTypeOK
  <2>4. QED  BY <1>0, <1>1, <2>1, <2>2, <2>3 DEF Unlinked
<1>2. CASE /\ main = "delete" /\ FlushBuffer
           /\ \E f \in PoolCommitted(nextWrite + 1) : deleted' \in {f, f - 1}
  <2>1. PICK f \in PoolCommitted(nextWrite + 1) : deleted' \in {f, f - 1}
    BY <1>2
  <2>2. Len(written') = nextWrite + 1
    <3>1. Len(written \o buffered) = Len(written) + Len(buffered)
      BY ConcatProperties DEF PoolTypeOK
    <3>2. QED  BY <1>2, <3>1 DEF FlushBuffer, Output, Running
  <2>3. /\ f \in 1 .. Len(FileEnds) /\ f > deleted /\ FileEnds[f] <= nextWrite + 1
    BY <1>0, CommittedFiles
  <2>4. deleted' > 0 => deleted' \in 1 .. Len(FileEnds) /\ deleted' <= f
    <3>1. f \in Nat /\ f <= Len(FileEnds) /\ Len(FileEnds) \in Nat
      BY <2>3, ConstantTypes
    <3>2. CASE deleted' = f
      BY <2>3, <3>1, <3>2
    <3>3. CASE deleted' = f - 1
      BY <3>1, <3>3
    <3>4. QED  BY <2>1, <3>2, <3>3
  <2>5. deleted' > 0 => FileEnds[deleted'] <= FileEnds[f]
    BY <2>3, <2>4, PoolAssumption
  <2>6. deleted' > 0 => FileEnds[deleted'] \in Nat /\ FileEnds[f] \in Nat
    BY <2>3, <2>4, ConstantTypes
  <2>7. QED  BY <1>0, <2>2, <2>3, <2>5, <2>6 DEF Unlinked
<1>3. CASE PoolNext
  <2>1. ASSUME NEW w \in Workers, WorkerStep(w)
        PROVE  UNCHANGED <<written, deleted>>
    BY <2>1 DEF WorkerStep, WorkerStart, Look, Code, Finish, outVars
  <2>2. CASE Spawn \/ Reserve \/ Fill \/ Publish \/ Collect \/ Release \/ LoopEnds \/ StopPool \/ Join
    BY <1>1, <2>2 DEF Spawn, Reserve, Fill, Publish, Collect, Release, LoopEnds, StopPool, Join, outVars
  <2>3. CASE Write \/ Flush
    BY <1>1, <2>3 DEF Write, Flush, FlushBuffer, GoToDone, outVars
  <2>4. CASE DeleteWritten
    BY <1>0, <1>1, <1>2, <2>4, CommittedFiles DEF DeleteWritten, outVars
  <2>5. CASE DeleteFails
    BY <1>1, <1>2, <2>5 DEF DeleteFails, outVars
  <2>6. QED  BY <1>1, <1>3, <2>1, <2>2, <2>3, <2>4, <2>5 DEF PoolNext, MainStep
<1>4. CASE UNCHANGED blockVars
  BY <1>1, <1>4 DEF blockVars
<1>5. QED  BY <1>3, <1>4

-----------------------------------------------------------------------------
(* The theorems.                                                            *)

LEMMA PoolInitInv ==
  ASSUME PoolInit
  PROVE  PoolInv
<1> USE PoolInit, ConstantTypes DEF PoolInit
<1>1. PoolTypeOK
  <2>1. [state |-> "free", index |-> NoBlock, raw |-> NoBlock, coded |-> NoBlock] \in Slot
    BY DEF Slot, Content
  <2>2. [pc |-> "none", slot |-> NoBlock] \in Worker
    BY DEF Worker
  <2>3. /\ slot \in [Slots -> Slot] /\ worker \in [Workers -> Worker]
        /\ asleep \subseteq Workers \cup {Main}
    BY <2>1, <2>2
  <2>4. buffered \in Seq(Content) /\ written \in Seq(Content) /\ Len(FileEnds) \in Nat
    BY EmptySeq
  <2>5. nextRead \in 0 .. BlockCount /\ nextWrite \in 0 .. BlockCount /\ deleted \in 0 .. Len(FileEnds)
    BY <2>4
  <2>6. QED  BY <2>3, <2>4, <2>5 DEF PoolTypeOK
<1>2. Window /\ Hands
  BY DEF Window, Hands, Holds, WorkersJoined
<1>3. Flights
  BY DEF Flights, Running
<1>4. Output /\ Unlinked
  BY DEF Output, Unlinked, Running
<1>5. QED  BY <1>1, <1>2, <1>3, <1>4 DEF PoolInv

(* The inductive invariant of the block pool.                               *)
THEOREM PoolInvariant == PoolSpec => []PoolInv
<1>1. ASSUME PoolInv, [PoolNext]_blockVars
      PROVE  PoolInv'
  BY <1>1, PoolTypeStep, WindowStep, HandsStep, FlightsStep, OutputStep, UnlinkedStep DEF PoolInv
<1>2. QED  BY <1>1, PoolInitInv, PTL DEF PoolSpec

(* Any number of workers, slots and blocks: the state stays in the types of     *)
(* pfsc_pool_t and pfs_block_pool_t.                                         *)
THEOREM PoolTypeCorrect == PoolSpec => []PoolTypeOK
BY PoolInvariant, PTL DEF PoolInv

(* The buffers of a slot have one user at a time outside the lock, and the job  *)
(* frees them after its workers have left.                                   *)
THEOREM SlotsHaveOneUser == PoolSpec => []SlotHasOneUser
<1>1. ASSUME PoolInv
      PROVE  SlotHasOneUser
  <2>1. \A w \in Workers : WorkerHolds(w) \cap MainHolds = {}
    BY <1>1 DEF PoolInv, Hands, Holds, WorkerHolds, MainHolds
  <2>2. \A v, w \in Workers : v # w => WorkerHolds(v) \cap WorkerHolds(w) = {}
    BY <1>1 DEF PoolInv, Hands, Holds, WorkerHolds
  <2>3. QED  BY <1>1, <2>1, <2>2 DEF PoolInv, Hands, SlotHasOneUser, WorkersJoined
<1>2. QED  BY <1>1, PoolInvariant, PTL

(* Streaming compression unlinks a source file only when the output file, not    *)
(* the buffer, has all of its blocks.                                        *)
THEOREM DeletedFilesAreWritten == PoolSpec => []DeletedIsWritten
<1>1. ASSUME PoolInv
      PROVE  DeletedIsWritten
  <2>1. SUFFICES ASSUME deleted > 0, NEW b \in 0 .. FileEnds[deleted] - 1
                 PROVE  \E i \in 1 .. Len(written) : written[i] = b
    BY DEF DeletedIsWritten
  <2>2. FileEnds[deleted] \in Nat /\ FileEnds[deleted] <= Len(written) /\ Len(written) \in Nat
    BY <1>1, <2>1, ConstantTypes, OutputTypes DEF PoolInv, Unlinked, PoolTypeOK
  <2>3. b + 1 \in 1 .. Len(written) /\ written[b + 1] = b
    BY <1>1, <2>1, <2>2 DEF PoolInv, Output
  <2>4. QED  BY <2>3
<1>2. QED  BY <1>1, PoolInvariant, PTL

-----------------------------------------------------------------------------
(* The refinement: every step of the threads writes the next blocks, ends the   *)
(* job or changes nothing that the output shows.                             *)

LEMMA WrittenIsPrefix ==
  ASSUME PoolTypeOK, Output
  PROVE  written = [i \in 1 .. Len(written) |-> i - 1]
BY LenProperties, OutputTypes DEF PoolTypeOK, Output

(* A flush is Grow, or writes nothing.                                      *)
LEMMA FlushGrows ==
  ASSUME PoolTypeOK, PoolTypeOK', Output, Output', written' = written \o buffered
  PROVE  \/ written' = written
         \/ \E n \in Len(written) + 1 .. BlockCount : written' = [i \in 1 .. n |-> i - 1]
<1>1. /\ Len(written) \in Nat /\ Len(buffered) \in Nat /\ BlockCount \in Nat
      /\ buffered \in Seq(Content) /\ written \in Seq(Content)
  BY OutputTypes, ConstantTypes DEF PoolTypeOK
<1>2. Len(written') = Len(written) + Len(buffered)
  BY <1>1, ConcatProperties
<1>3. written' = [i \in 1 .. Len(written') |-> i - 1] /\ Len(written') <= BlockCount
  <2>1. written' \in [1 .. Len(written') -> Content]
    BY LenProperties DEF PoolTypeOK
  <2>2. QED  BY <2>1 DEF Output
<1>4. CASE Len(buffered) = 0
  <2>1. Len(written') = Len(written)
    BY <1>1, <1>2, <1>4
  <2>2. written' = [i \in 1 .. Len(written) |-> i - 1]
    BY <1>3, <2>1
  <2>3. written = [i \in 1 .. Len(written) |-> i - 1]
    BY WrittenIsPrefix
  <2>4. QED  BY <2>2, <2>3
<1>5. CASE Len(buffered) > 0
  BY <1>1, <1>2, <1>3, <1>5
<1>6. QED  BY <1>1, <1>4, <1>5

LEMMA PoolStepIsOrdered ==
  ASSUME PoolInv, PoolInv', [PoolNext]_blockVars
  PROVE  [Ordered!Next]_(Ordered!vars)
<1> USE DEF Ordered!Next, Ordered!vars
<1>1. CASE written' = written /\ main # "over" /\ main' # "over"
  BY <1>1
<1>2. CASE written' = written \o buffered /\ main # "over" /\ main' # "over"
  BY <1>2, FlushGrows DEF PoolInv, Ordered!Grow
<1>3. ASSUME NEW w \in Workers, WorkerStep(w)
      PROVE  [Ordered!Next]_(Ordered!vars)
  BY <1>3 DEF WorkerStep, WorkerStart, Look, Code, Finish, outVars
<1>4. ASSUME MainStep
      PROVE  [Ordered!Next]_(Ordered!vars)
  <2>1. CASE Spawn \/ Reserve \/ Fill \/ Publish \/ Collect \/ Release \/ LoopEnds \/ StopPool
    BY <1>1, <2>1 DEF Spawn, Reserve, Fill, Publish, Collect, Release, LoopEnds, StopPool, GoToDone, outVars
  <2>2. CASE Write \/ Flush \/ DeleteWritten \/ DeleteFails
    BY <1>1, <1>2, <2>2 DEF Write, Flush, DeleteWritten, DeleteFails, FlushBuffer, GoToDone, outVars
  <2>3. CASE Join /\ result = "running"
    BY <1>1, <2>3 DEF Join, outVars
  <2>4. CASE Join /\ result # "running"
    <3>1. /\ main = "join" /\ main' = "over" /\ written' = written /\ result' = result
          /\ result \in {"ok", "failed"} /\ (result = "ok" => Len(written) = BlockCount)
      BY <2>4 DEF Join, outVars, PoolInv, PoolTypeOK, Output
    <3>2. QED  BY <3>1 DEF Ordered!Succeed, Ordered!Fail
  <2>5. QED  BY <1>4, <2>1, <2>2, <2>3, <2>4 DEF MainStep
<1>5. CASE UNCHANGED blockVars
  BY <1>5 DEF blockVars
<1>6. QED  BY <1>3, <1>4, <1>5 DEF PoolNext

(* Whatever the threads do and whatever fails, the job is an ordered output:      *)
(* the image's blocks reach the file in order, none missed, repeated or mixed up, *)
(* and success is reported only over all of them.                             *)
THEOREM PoolImplementsOrderedOutput == PoolSpec => PoolIsOrdered
<1>1. PoolInit => Ordered!Init
  BY DEF PoolInit, Ordered!Init
<1>2. PoolInv /\ PoolInv' /\ [PoolNext]_blockVars => [Ordered!Next]_(Ordered!vars)
  BY PoolStepIsOrdered
<1>3. QED  BY <1>1, <1>2, PoolInvariant, PTL DEF PoolSpec, PoolIsOrdered, Ordered!Spec

=============================================================================
