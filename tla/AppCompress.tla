----------------------------- MODULE AppCompress -----------------------------
(***************************************************************************)
(* One app folder and the jobs that compress it to an .ffpfsc image, one    *)
(* after another, with the three ways of handling the source: keep it,      *)
(* remove it after, or stream: delete each file as soon as it is in the      *)
(* image.  Jobs fail, are cancelled and are killed; the user starts another. *)
(*                                                                          *)
(* Files are numbered in the order of the image.  How their blocks get to    *)
(* the image is BlockPool's matter; here a file is in the output buffer or   *)
(* in the temporary file.  What a kill leaves is what the files held.        *)
(***************************************************************************)
EXTENDS Naturals, FiniteSetsExt

CONSTANTS FileCount,
          Needed,     \* the files the probe asks for: param.json, eboot.bin
          MaxJobs     \* bound: jobs in a behaviour

Files    == 1 .. FileCount
Policies == {"keep", "after", "stream"}

ASSUME CompressAssumption ==
  FileCount \in Nat \ {0} /\ Needed \subseteq Files /\ MaxJobs \in Nat

VARIABLES
  source,    \* the files in the app folder
  folder,    \* the app folder exists
  emptyDir,  \* an empty directory lies in it
  tmp,       \* <output>.tmp
  output,    \* the .ffpfsc
  job,       \* the running job
  jobs,      \* how many were started
  taken      \* history: the files the folder held when the last job was started

vars == <<source, folder, emptyDir, tmp, output, job, jobs, taken>>

(* The files whose blocks an image holds, and those its tables name.         *)
Image   == [there : BOOLEAN, files : SUBSET Files, table : SUBSET Files]
NoImage == [there |-> FALSE, files |-> {}, table |-> {}]

PCs  == {"idle", "layout", "open", "write", "delete", "header", "rename", "remove", "failed"}
Jobs == [pc : PCs, policy : Policies, files : SUBSET Files, todo : SUBSET Files,
         buffered : SUBSET Files, deleting : BOOLEAN]
NoJob == [pc |-> "idle", policy |-> "keep", files |-> {}, todo |-> {}, buffered |-> {},
          deleting |-> FALSE]

Init ==
  /\ source = Files /\ folder = TRUE /\ emptyDir \in BOOLEAN
  /\ tmp = NoImage /\ output = NoImage
  /\ job = NoJob /\ jobs = 0 /\ taken = Files

Probe == folder /\ Needed \subseteq source

(* A request with a policy and the overwrite flag.  Refused when the folder  *)
(* is no app, or the output exists: nothing happens then.                   *)
Start(policy, overwrite) ==
  /\ job.pc = "idle" /\ jobs < MaxJobs
  /\ Probe
  /\ output.there => overwrite
  /\ job' = [NoJob EXCEPT !.pc = "layout", !.policy = policy]
  /\ jobs' = jobs + 1
  /\ taken' = source
  /\ UNCHANGED <<source, folder, emptyDir, tmp, output>>

(* scan_collect, build_layout_from_files: the files there are, sorted.       *)
Layout ==
  /\ job.pc = "layout"
  /\ job' = [job EXCEPT !.pc = "open", !.files = source, !.todo = source]
  /\ UNCHANGED <<source, folder, emptyDir, tmp, output, jobs, taken>>

(* Mutant: the image is written in place. *)
OpenInPlace ==
  /\ job.pc = "open"
  /\ output' = [NoImage EXCEPT !.there = TRUE, !.table = job.files]
  /\ tmp' = [NoImage EXCEPT !.there = TRUE]
  /\ job' = [job EXCEPT !.pc = "write"]
  /\ UNCHANGED <<source, folder, emptyDir, jobs, taken>>

(* open(tmp, O_TRUNC).                                                      *)
Open ==
  /\ job.pc = "open"
  /\ tmp' = [NoImage EXCEPT !.there = TRUE]
  /\ job' = [job EXCEPT !.pc = "write"]
  /\ UNCHANGED <<source, folder, emptyDir, output, jobs, taken>>

Flushed == [tmp EXCEPT !.files = @ \cup job.buffered]

(* The blocks of the next file go to the output buffer; it is flushed when   *)
(* it is full.                                                              *)
WriteFile ==
  /\ job.pc = "write" /\ job.todo # {}
  /\ LET f == Min(job.todo)
         pc == IF job.policy = "stream" THEN "delete" ELSE "write"
         rest == job.todo \ {f}
     IN \/ /\ job' = [job EXCEPT !.pc = pc, !.todo = rest, !.buffered = @ \cup {f}]
           /\ UNCHANGED tmp
        \/ /\ job' = [job EXCEPT !.pc = pc, !.todo = rest, !.buffered = {f}]
           /\ tmp' = Flushed
  /\ UNCHANGED <<source, folder, emptyDir, output, jobs, taken>>

FlushFirst == [image |-> Flushed, buffered |-> {}]

(* Complete files, oldest first: those not in todo and not yet deleted.      *)
Complete == job.files \ job.todo
DeleteCommitted ==
  /\ job.pc = "delete"
  /\ tmp' = FlushFirst.image
  /\ source' = source \ Complete
  /\ job' = [job EXCEPT !.pc = "write", !.buffered = FlushFirst.buffered, !.deleting = TRUE]
  /\ UNCHANGED <<folder, emptyDir, output, jobs, taken>>

(* Mutant: the source is removed before the rename. *)
HeaderThenRemove ==
  /\ job.pc = "write" /\ job.todo = {}
  /\ tmp' = [Flushed EXCEPT !.table = job.files]
  /\ job' = [job EXCEPT !.pc = "remove", !.buffered = {}]
  /\ UNCHANGED <<source, folder, emptyDir, output, jobs, taken>>

(* Flush, the table of offsets, the outer metadata, unless cancelled.        *)
Header ==
  /\ job.pc = "write" /\ job.todo = {}
  /\ tmp' = [Flushed EXCEPT !.table = job.files]
  /\ job' = [job EXCEPT !.pc = "rename", !.buffered = {}]
  /\ UNCHANGED <<source, folder, emptyDir, output, jobs, taken>>

Rename ==
  /\ job.pc = "rename"
  /\ output' = tmp /\ tmp' = NoImage
  /\ job' = [job EXCEPT !.pc = "remove"]
  /\ UNCHANGED <<source, folder, emptyDir, jobs, taken>>

(* What `done' does with the temporary file of a job that fails.             *)
KeepsTmp == job.policy = "stream" /\ job.deleting

(* stream: rmdir of the folder, which an empty directory in it prevents;     *)
(* after: remove_tree_local, which can fail on the way.                     *)
RemoveSource ==
  /\ job.pc = "remove"
  /\ \/ /\ job.policy = "keep"
        /\ UNCHANGED <<source, folder, emptyDir>> /\ job' = NoJob
     \/ /\ job.policy = "stream"
        /\ IF source = {} /\ ~emptyDir
             THEN folder' = FALSE /\ job' = NoJob
             ELSE UNCHANGED folder /\ job' = [job EXCEPT !.pc = "failed"]
        /\ UNCHANGED <<source, emptyDir>>
     \/ /\ job.policy = "after"
        /\ \/ source' = {} /\ folder' = FALSE /\ emptyDir' = FALSE /\ job' = NoJob
           \/ /\ source' \in SUBSET source /\ emptyDir' \in {emptyDir, FALSE}
              /\ UNCHANGED folder /\ job' = [job EXCEPT !.pc = "failed"]
  /\ UNCHANGED <<tmp, output, jobs, taken>>

(* Cancelled, out of space, an unreadable file, a rename that fails.         *)
Fail ==
  /\ job.pc \in {"layout", "open", "write", "delete", "rename"}
  /\ job' = [job EXCEPT !.pc = "failed"]
  /\ UNCHANGED <<source, folder, emptyDir, tmp, output, jobs, taken>>

(* done: unlink(tmp) unless a streaming job has begun to delete.             *)
Done ==
  /\ job.pc = "failed"
  /\ tmp' = IF KeepsTmp THEN tmp ELSE NoImage
  /\ job' = NoJob
  /\ UNCHANGED <<source, folder, emptyDir, output, jobs, taken>>

(* The process is killed: what was in memory is gone.                       *)
Kill ==
  /\ job.pc # "idle"
  /\ job' = NoJob
  /\ UNCHANGED <<source, folder, emptyDir, tmp, output, jobs, taken>>

Next == \/ \E policy \in Policies, overwrite \in BOOLEAN : Start(policy, overwrite)
        \/ Layout \/ Open \/ WriteFile \/ DeleteCommitted \/ Header \/ Rename
        \/ RemoveSource \/ Fail \/ Done \/ Kill

Spec == Init /\ [][Next]_vars

----------------------------------------------------------------------------
(* The state stays in the types of the code's structures.                   *)
TypeOK ==
  /\ source \subseteq Files /\ folder \in BOOLEAN /\ emptyDir \in BOOLEAN
  /\ tmp \in Image /\ output \in Image
  /\ job \in Jobs /\ jobs \in 0 .. MaxJobs
  /\ taken \subseteq Files

(* files.html:4565: a source that is removed after is whole until the image  *)
(* with all its files is written and renamed; one that is kept is never      *)
(* touched.                                                                 *)
SourceStaysUntilRenamed ==
  job.policy # "stream" /\ job.pc \notin {"idle", "layout"}
    => \/ job.files \subseteq source
       \/ job.policy = "after" /\ job.pc \in {"remove", "failed"} /\ job.files = output.files

(* Under its final name an image is never seen half written: its tables name  *)
(* the files whose blocks it holds, at every moment and after every kill.    *)
OutputIsWhole == output.there => output.files = output.table
=============================================================================
