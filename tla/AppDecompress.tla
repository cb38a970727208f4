---------------------------- MODULE AppDecompress ----------------------------
(***************************************************************************)
(* One .ffpfsc image and the jobs that unpack it to an app folder, one after *)
(* another, with the three ways of handling the image: keep it, remove it     *)
(* after, or stream: unpack the files from the last block to the first and    *)
(* cut each off the image when it is out.  Jobs fail, are cancelled and are   *)
(* killed; the user starts another.                                          *)
(*                                                                          *)
(* Files are numbered by their first block.  How a file's blocks are inflated *)
(* is BlockPool's matter.                                                    *)
(***************************************************************************)
EXTENDS Naturals, FiniteSetsExt

CONSTANTS FileCount,
          MaxJobs     \* bound: jobs in a behaviour

Files    == 1 .. FileCount
Policies == {"keep", "after", "stream"}

VARIABLES
  image,     \* the .ffpfsc exists
  cut,       \* its files up to this one are whole
  tmp,       \* <output>.tmp: the tree that is unpacked
  output,    \* the app folder
  job,       \* the running job
  jobs,      \* how many were started
  taken      \* history: the files the image held when the last job was started

vars == <<image, cut, tmp, output, job, jobs, taken>>

Tree   == [there : BOOLEAN, files : SUBSET Files, partial : SUBSET Files]
NoTree == [there |-> FALSE, files |-> {}, partial |-> {}]

PCs  == {"idle", "clear", "plan", "extract", "writing", "truncate", "check", "replace",
         "rename", "remove", "failed"}
Jobs == [pc : PCs, policy : Policies, overwrite : BOOLEAN, todo : SUBSET Files,
         file : Files \cup {0}]
NoJob == [pc |-> "idle", policy |-> "keep", overwrite |-> FALSE, todo |-> {}, file |-> 0]

Init ==
  /\ image = TRUE /\ cut = FileCount
  /\ tmp = NoTree /\ output \in {NoTree, [NoTree EXCEPT !.there = TRUE]}
  /\ job = NoJob /\ jobs = 0 /\ taken = Files

InImage == IF image THEN 1 .. cut ELSE {}

(* pfs_decompress_probe; an existing output needs the overwrite flag.        *)
Start(policy, overwrite) ==
  /\ job.pc = "idle" /\ jobs < MaxJobs
  /\ image
  /\ output.there => overwrite
  /\ job' = [NoJob EXCEPT !.pc = "clear", !.policy = policy,
                          !.overwrite = (overwrite \/ output.there)]
  /\ jobs' = jobs + 1
  /\ taken' = InImage
  /\ UNCHANGED <<image, cut, tmp, output>>

(* remove_tree_local(tmp), before anything is known of the image; it can     *)
(* stop on the way.                                                         *)
ClearTmp ==
  /\ job.pc = "clear"
  /\ \/ tmp' = NoTree /\ job' = [job EXCEPT !.pc = "plan"]
     \/ /\ tmp' \in {[tmp EXCEPT !.files = f, !.partial = {}] : f \in SUBSET tmp.files}
        /\ job' = [job EXCEPT !.pc = "failed"]
  /\ UNCHANGED <<image, cut, output, jobs, taken>>

(* The superblock, the inodes and the directories: at the front of the       *)
(* image, so that a cut image still passes.                                 *)
Plan ==
  /\ job.pc = "plan"
  /\ tmp' = [NoTree EXCEPT !.there = TRUE]
  /\ job' = [job EXCEPT !.pc = "extract", !.todo = Files]
  /\ UNCHANGED <<image, cut, output, jobs, taken>>

(* Mutant: streaming unpacks in the order of the directories. *)
FirstFirst == Min(job.todo)

(* pfs_extract_reverse_plan sorts the last block first.                      *)
NextFile == IF job.policy = "stream" THEN Max(job.todo) ELSE Min(job.todo)

(* open(out_path, O_TRUNC) and the blocks, which must be there to be read.   *)
Create ==
  /\ job.pc = "extract" /\ job.todo # {}
  /\ tmp' = [tmp EXCEPT !.partial = @ \cup {NextFile}]
  /\ job' = [job EXCEPT !.pc = "writing", !.file = NextFile, !.todo = @ \ {NextFile}]
  /\ UNCHANGED <<image, cut, output, jobs, taken>>

(* Mutant: an image that is to be removed after is cut as well. *)
ExtractFileAndCut ==
  /\ job.pc = "writing" /\ job.file <= cut
  /\ tmp' = [tmp EXCEPT !.files = @ \cup {job.file}, !.partial = {}]
  /\ job' = [job EXCEPT !.pc = IF job.policy # "keep" THEN "truncate" ELSE "extract"]
  /\ UNCHANGED <<image, cut, output, jobs, taken>>

ExtractFile ==
  /\ job.pc = "writing" /\ job.file <= cut
  /\ tmp' = [tmp EXCEPT !.files = @ \cup {job.file}, !.partial = {}]
  /\ job' = [job EXCEPT !.pc = IF job.policy = "stream" THEN "truncate" ELSE "extract"]
  /\ UNCHANGED <<image, cut, output, jobs, taken>>

(* Mutant: a file that cannot be unpacked is passed over. *)
ExtractSkips ==
  /\ job.pc = "writing"
  /\ tmp' = [tmp EXCEPT !.partial = {}]
  /\ job' = [job EXCEPT !.pc = "extract"]
  /\ UNCHANGED <<image, cut, output, jobs, taken>>

(* The file is cut off, cancelled or out of space: it is unlinked.           *)
ExtractFails ==
  /\ job.pc = "writing"
  /\ tmp' = [tmp EXCEPT !.partial = {}]
  /\ job' = [job EXCEPT !.pc = "failed"]
  /\ UNCHANGED <<image, cut, output, jobs, taken>>

(* pfsc_truncate_source_after_block: ftruncate at the file's first block.    *)
Truncate ==
  /\ job.pc = "truncate"
  /\ cut' = job.file - 1
  /\ job' = [job EXCEPT !.pc = "extract"]
  /\ UNCHANGED <<image, tmp, output, jobs, taken>>

Extracted ==
  /\ job.pc = "extract" /\ job.todo = {}
  /\ job' = [job EXCEPT !.pc = IF job.overwrite THEN "replace" ELSE "rename"]
  /\ UNCHANGED <<image, cut, tmp, output, jobs, taken>>

(* remove_tree_local of the old output; it can stop on the way.              *)
Replace ==
  /\ job.pc = "replace"
  /\ \/ output' = NoTree /\ job' = [job EXCEPT !.pc = "rename"]
     \/ /\ output' \in {[output EXCEPT !.files = f] : f \in SUBSET output.files}
        /\ job' = [job EXCEPT !.pc = "failed"]
  /\ UNCHANGED <<image, cut, tmp, jobs, taken>>

Rename ==
  /\ job.pc = "rename"
  /\ output' = tmp /\ tmp' = NoTree
  /\ job' = [job EXCEPT !.pc = "remove"]
  /\ UNCHANGED <<image, cut, jobs, taken>>

(* unlink of the image, unless it is kept.                                  *)
RemoveImage ==
  /\ job.pc = "remove"
  /\ \/ image' = (job.policy = "keep") /\ job' = NoJob
     \/ job.policy # "keep" /\ UNCHANGED image /\ job' = [job EXCEPT !.pc = "failed"]
  /\ UNCHANGED <<cut, tmp, output, jobs, taken>>

Fail ==
  /\ job.pc \in {"plan", "extract", "truncate", "rename"}
  /\ job' = [job EXCEPT !.pc = "failed"]
  /\ UNCHANGED <<image, cut, tmp, output, jobs, taken>>

KeepsTmp == job.policy = "stream"

(* done: the unpacked tree goes, unless the job was streaming.               *)
Done ==
  /\ job.pc = "failed"
  /\ tmp' = IF KeepsTmp THEN tmp ELSE NoTree
  /\ job' = NoJob
  /\ UNCHANGED <<image, cut, output, jobs, taken>>

(* The process is killed.                                                   *)
Kill ==
  /\ job.pc # "idle"
  /\ job' = NoJob
  /\ UNCHANGED <<image, cut, tmp, output, jobs, taken>>

Next == \/ \E policy \in Policies, overwrite \in BOOLEAN : Start(policy, overwrite)
        \/ ClearTmp \/ Plan \/ Create \/ ExtractFile \/ ExtractFails \/ Truncate
        \/ Extracted \/ Replace \/ Rename \/ RemoveImage \/ Fail \/ Done \/ Kill

Spec == Init /\ [][Next]_vars

----------------------------------------------------------------------------
(* The state stays in the types of the code's structures.                   *)
TypeOK ==
  /\ image \in BOOLEAN /\ cut \in 0 .. FileCount
  /\ tmp \in Tree /\ output \in Tree
  /\ job \in Jobs /\ jobs \in 0 .. MaxJobs /\ taken \subseteq Files

(* files.html:4566: an image that is removed after stays in place with every *)
(* file it had, until the app folder with all its files is renamed; one that  *)
(* is kept is never touched.                                                *)
ImageStaysUntilRenamed ==
  job.policy # "stream" /\ job.pc # "idle" => image /\ InImage = taken

(* A cut image never yields a folder that looks whole: a job that reports     *)
(* success has renamed every file of the image.                             *)
SuccessIsWhole == job.pc = "remove" => output.files = Files /\ output.partial = {}
=============================================================================
