-------------------------------- MODULE FileOps --------------------------------
(***************************************************************************)
(* Copy, move and delete of a folder: detached threads outside the job slot, *)
(* any number at once.  A folder of one name lies in one of two parent       *)
(* directories, or in both; an operation takes it from one to the other, or  *)
(* deletes it.  The process may be killed.                                  *)
(*                                                                          *)
(* The two parents may be one directory that is reached by two paths, which    *)
(* the worker compares as strings.                                          *)
(*                                                                          *)
(* One level of entries stands for the tree: copy_recursive and              *)
(* delete_recursive treat a subdirectory as they treat the folder.  What a    *)
(* file holds is a version; a file that is being written is torn.            *)
(***************************************************************************)
CONSTANTS EntryNames,     \* entries of the folder
          Ops,       \* operations, each started once
          Devices,   \* whether the parents may be on one device, on two
          Aliases    \* whether they may be one directory with two paths

ASSUME FileOpsAssumption == Devices \subseteq {1, 2} /\ Aliases \subseteq BOOLEAN

Places == {"a", "b"}
Other(p) == CHOOSE q \in Places : q # p

None    == "none"
Torn    == "torn"
Here    == "here"      \* what the folder held at first
There   == "there"     \* what lay in the other place
FileVersions == {None, Torn, Here, There}

VARIABLES
  devices,   \* 1 or 2
  aliased,   \* both parents are one directory, place "a"
  links,     \* the names that are symbolic links or devices
  folders,    \* where the folder exists
  file,      \* what each entry of it holds
  op,        \* the worker threads
  had, hadTo \* history: both folders when an operation began

opVars == <<devices, aliased, links, folders, file, op, had, hadTo>>
fileVars == <<folders, file>>
opHistory == <<had, hadTo>>

Verbs == {"copy", "move", "delete"}
PCs == {"new", "check", "rename", "list", "copy", "write", "clear", "unlink", "over"}
Op == [pc : PCs, verb : Verbs, from : Places,
       listed : SUBSET EntryNames, seen : SUBSET EntryNames,  \* readdir: names at opendir; names visited
       name : EntryNames \cup {None},       \* the file being copied
       reading : FileVersions,             \* what its source holds
       output : Places \cup {None},    \* where the inode of its output is linked
       whole : BOOLEAN,                \* nobody else has truncated the output
       bad : BOOLEAN,                  \* rc = -1
       ok : BOOLEAN,                   \* the operation has ended with success
       alone : BOOLEAN]                \* history: nothing else was under way, or after
NewOp == [pc |-> "new", verb |-> "copy", from |-> "a", listed |-> {}, seen |-> {},
          name |-> None, reading |-> None, output |-> None, whole |-> TRUE,
          bad |-> FALSE, ok |-> FALSE, alone |-> TRUE]

(* The histories are kept for as long as a property asks for them. *)
Nothing == [o \in Ops |-> [n \in EntryNames |-> None]]

FileOpsInit ==
  /\ devices \in Devices /\ aliased \in Aliases /\ (aliased => devices = 1)
  /\ links \in SUBSET EntryNames /\ links # EntryNames
  /\ file \in {[p \in Places |-> [n \in EntryNames |->
                  IF p = "a" /\ n \in here THEN Here
                  ELSE IF p = "b" /\ n \in there THEN There ELSE None]] :
               here \in (SUBSET EntryNames) \ {{}}, there \in IF aliased THEN {{}} ELSE SUBSET (EntryNames \ links)}
  /\ folders = {p \in Places : p = "a" \/ \E n \in EntryNames : file[p][n] # None}
  /\ op = [o \in Ops |-> NewOp]
  /\ had = Nothing /\ hadTo = Nothing

Real(p) == IF aliased THEN "a" ELSE p
From(o) == Real(op[o].from)
To(o)   == Real(Other(op[o].from))
In(p)   == {n \in EntryNames : file[p][n] # None}
Active(o) == op[o].pc \notin {"new", "over"}
Set(o, v) == op' = [op EXCEPT ![o] = v]
Over(v, ok) == [NewOp EXCEPT !.pc = "over", !.verb = v.verb, !.from = v.from,
                             !.alone = v.alone, !.ok = ok]
OpEnds(o, ok) == Set(o, Over(op[o], ok))

----------------------------------------------------------------------------
(* All that was started goes this way. *)
AllFrom(p) == \A q \in Ops : op[q].pc = "new" \/ (op[q].verb # "delete" /\ op[q].from = p)

(* The requests: copy and move are accepted as they are, delete looks first.  *)
Start(o, verb, p) ==
  /\ op[o].pc = "new"
  /\ verb = "delete" => Real(p) \in folders
  /\ op' = [q \in Ops |->
       IF q = o THEN [NewOp EXCEPT !.pc = IF verb = "delete" THEN "clear" ELSE "check",
                                   !.verb = verb, !.from = p,
                                   !.alone = \A r \in Ops : ~Active(r)]
       ELSE [op[q] EXCEPT !.alone = op[q].pc = "new"]]
  /\ had' = IF verb = "delete" THEN Nothing
            ELSE [IF AllFrom(p) THEN had ELSE Nothing EXCEPT ![o] = file[Real(p)]]
  /\ hadTo' = IF verb = "delete" THEN Nothing
              ELSE [Nothing EXCEPT ![o] = file[Real(Other(p))]]
  /\ UNCHANGED <<devices, aliased, links, fileVars>>

(* copy_worker up to the rename: the source is there, the target folder is    *)
(* made if need be.                                                         *)
Check(o) ==
  /\ op[o].pc = "check"
  /\ IF From(o) \notin folders THEN OpEnds(o, FALSE)
     ELSE Set(o, [op[o] EXCEPT !.pc = IF op[o].verb = "move" THEN "rename" ELSE "list"])
  /\ UNCHANGED <<devices, aliased, links, fileVars, opHistory>>

(* Mutant: what lies at the target is replaced. *)
ReplacesTarget(o) == From(o) \in folders

(* rename takes a folder to where none is, or over an empty one; onto itself   *)
(* it does nothing, and well.                                               *)
CanRename(o) == From(o) \in folders /\ (From(o) = To(o) \/ In(To(o)) = {})

Rename(o) ==
  /\ op[o].pc = "rename"
  /\ \/ devices = 2 /\ Set(o, [op[o] EXCEPT !.pc = "list"]) /\ UNCHANGED fileVars
     \/ devices = 1 /\ ~CanRename(o) /\ OpEnds(o, FALSE) /\ UNCHANGED fileVars
     \/ /\ devices = 1 /\ CanRename(o)
        /\ folders' = (folders \ {From(o)}) \cup {To(o)}
        /\ file' = [file EXCEPT ![From(o)] = [n \in EntryNames |-> None],
                                ![To(o)] = file[From(o)]]
        /\ op' = [q \in Ops |->
             IF q = o THEN Over(op[o], TRUE)
             ELSE IF op[q].output = From(o) THEN [op[q] EXCEPT !.output = To(o)]
             ELSE op[q]]
  /\ UNCHANGED <<devices, aliased, links, opHistory>>

(* copy_recursive: mkdir, which may find the folder there, and opendir; both   *)
(* may fail.                                                                *)
List(o) ==
  /\ op[o].pc = "list"
  /\ \/ OpEnds(o, FALSE) /\ UNCHANGED folders
     \/ /\ From(o) \in folders
        /\ folders' = folders \cup {To(o)}
        /\ Set(o, [op[o] EXCEPT !.pc = "copy", !.listed = In(From(o)), !.seen = {}])
  /\ UNCHANGED <<devices, aliased, links, file, opHistory>>

(* readdir returns every name that was there at opendir, and maybe some that  *)
(* have come since.                                                         *)
Left(o)     == op[o].listed \ op[o].seen
Returned(o) == Left(o) \cup (In(From(o)) \ op[o].seen)

(* A name that is gone is an error, a link is passed over in silence.         *)
Visit(o) ==
  /\ op[o].pc = "copy"
  /\ \E n \in Returned(o) :
       /\ n \in links \/ n \notin In(From(o))
       /\ Set(o, [op[o] EXCEPT !.seen = @ \cup {n}, !.bad = @ \/ n \notin In(From(o))])
  /\ UNCHANGED <<devices, aliased, links, fileVars, opHistory>>

(* copy_file: open(dst, O_TRUNC); whoever reads or writes that file loses     *)
(* what it held.                                                            *)
Open(o) ==
  /\ op[o].pc = "copy"
  /\ \E n \in (Returned(o) \cap In(From(o))) \ links :
       /\ To(o) \in folders
       /\ file' = [file EXCEPT ![To(o)][n] = Torn]
       /\ op' = [q \in Ops |->
            IF q = o THEN [op[o] EXCEPT !.pc = "write", !.seen = @ \cup {n}, !.name = n,
                                        !.reading = IF From(o) = To(o) THEN Torn
                                                    ELSE file[From(o)][n],
                                        !.output = To(o), !.whole = TRUE]
            ELSE IF op[q].pc = "write" /\ op[q].name = n
              THEN [op[q] EXCEPT !.whole = @ /\ op[q].output # To(o),
                                 !.reading = IF From(q) = To(o) THEN Torn ELSE @]
            ELSE op[q]]
  /\ UNCHANGED <<devices, aliased, links, folders, opHistory>>

(* The source cannot be read, the target not be made.                        *)
OpenFails(o) ==
  /\ op[o].pc = "copy"
  /\ \E n \in Returned(o) : Set(o, [op[o] EXCEPT !.seen = @ \cup {n}, !.bad = TRUE])
  /\ UNCHANGED <<devices, aliased, links, fileVars, opHistory>>

CloseFile(v) == [v EXCEPT !.pc = "copy", !.name = None, !.reading = None, !.output = None]

(* Everything is written, to an inode that may be linked nowhere by now, or   *)
(* that another copy has truncated and fills too.                            *)
AllWritten(o) ==
  /\ op[o].pc = "write"
  /\ file' = IF op[o].output = None THEN file
             ELSE [file EXCEPT ![op[o].output][op[o].name] =
                     IF op[o].whole \/ @ = op[o].reading THEN op[o].reading ELSE Torn]
  /\ Set(o, CloseFile(op[o]))
  /\ UNCHANGED <<devices, aliased, links, folders, opHistory>>

(* The entry p/n is removed; a thread that writes to it goes on unlinked.     *)
Unlinked(p, n, ops) ==
  [q \in Ops |-> IF ops[q].output = p /\ ops[q].name = n
                   THEN [ops[q] EXCEPT !.output = None] ELSE ops[q]]

(* Mutant: a failed copy counts as done. *)
WriteFailsSilently(o) ==
  /\ op[o].pc = "write"
  /\ file' = [file EXCEPT ![To(o)][op[o].name] = None]
  /\ op' = Unlinked(To(o), op[o].name, [op EXCEPT ![o] = CloseFile(op[o])])
  /\ UNCHANGED <<devices, aliased, links, folders, opHistory>>

(* Out of space, a read error: unlink(dst).                                  *)
WriteFails(o) ==
  /\ op[o].pc = "write"
  /\ file' = [file EXCEPT ![To(o)][op[o].name] = None]
  /\ op' = Unlinked(To(o), op[o].name, [op EXCEPT ![o] = [CloseFile(op[o]) EXCEPT !.bad = TRUE]])
  /\ UNCHANGED <<devices, aliased, links, folders, opHistory>>

(* Mutant: the source is removed although the copy failed. *)
CopiedWell(o) == TRUE

CopyIsGood(o) == ~op[o].bad

CopyEnds(o) ==
  /\ op[o].pc = "copy" /\ Left(o) = {}
  /\ IF CopyIsGood(o) /\ op[o].verb = "move"
       THEN Set(o, [op[o] EXCEPT !.pc = "clear"])
       ELSE OpEnds(o, CopyIsGood(o))
  /\ UNCHANGED <<devices, aliased, links, fileVars, opHistory>>

(* delete_recursive: lstat, opendir.                                         *)
ClearList(o) ==
  /\ op[o].pc = "clear"
  /\ \/ OpEnds(o, FALSE)
     \/ /\ From(o) \in folders
        /\ Set(o, [op[o] EXCEPT !.pc = "unlink", !.listed = In(From(o)), !.seen = {}])
  /\ UNCHANGED <<devices, aliased, links, fileVars, opHistory>>

(* Every entry goes, links too; one that is gone or stays is an error.        *)
Unlink(o) ==
  /\ op[o].pc = "unlink"
  /\ \E n \in Returned(o) :
       LET v == [op[o] EXCEPT !.seen = @ \cup {n}]
       IN \/ /\ n \in In(From(o))
             /\ file' = [file EXCEPT ![From(o)][n] = None]
             /\ op' = Unlinked(From(o), n, [op EXCEPT ![o] = v])
          \/ UNCHANGED file /\ Set(o, [v EXCEPT !.bad = TRUE])
  /\ UNCHANGED <<devices, aliased, links, folders, opHistory>>

(* rmdir, which something that came meanwhile prevents.                      *)
RemoveFolder(o) ==
  /\ op[o].pc = "unlink" /\ Left(o) = {}
  /\ \/ /\ ~op[o].bad /\ From(o) \in folders /\ In(From(o)) = {}
        /\ folders' = folders \ {From(o)} /\ OpEnds(o, TRUE)
     \/ UNCHANGED folders /\ OpEnds(o, FALSE)
  /\ UNCHANGED <<devices, aliased, links, file, opHistory>>

----------------------------------------------------------------------------
(* The process is killed.                                                   *)
Kill ==
  /\ \E o \in Ops : Active(o)
  /\ op' = [o \in Ops |-> IF Active(o) THEN Over(op[o], FALSE) ELSE op[o]]
  /\ UNCHANGED <<devices, aliased, links, fileVars, opHistory>>

OpStep(o) ==
  \/ Check(o) \/ Rename(o) \/ List(o) \/ Visit(o) \/ Open(o) \/ OpenFails(o)
  \/ AllWritten(o) \/ WriteFails(o) \/ CopyEnds(o) \/ ClearList(o) \/ Unlink(o) \/ RemoveFolder(o)

FileOpsNext ==
  \/ \E o \in Ops : OpStep(o) \/ \E verb \in Verbs, p \in Places : Start(o, verb, p)
  \/ Kill

FileOpsSpec == FileOpsInit /\ [][FileOpsNext]_opVars

----------------------------------------------------------------------------
(* The state stays in the types of the code's variables; a file lies in a     *)
(* folder.                                                                  *)
FileOpsTypeOK ==
  /\ devices \in Devices /\ aliased \in BOOLEAN /\ links \subseteq EntryNames /\ folders \subseteq Places
  /\ file \in [Places -> [EntryNames -> FileVersions]]
  /\ \A p \in Places \ folders : In(p) = {}
  /\ op \in [Ops -> Op]
  /\ had \in [Ops -> [EntryNames -> FileVersions]] /\ hadTo \in [Ops -> [EntryNames -> FileVersions]]

SourceFiles(o) == {n \in EntryNames \ links : had[o][n] \notin {None, Torn}}

(* A copy or a move that nothing overlaps never has a file of its source in    *)
(* neither place, and never takes or changes another file of the folder that it *)
(* merges into, whether it renames or copies, fails half way or is killed; a    *)
(* move not even when both folders are one.                                 *)
Onto(o) == aliased /\ op[o].verb = "copy"
MoveLosesNothing ==
  \A o \in Ops : op[o].pc # "new" /\ op[o].verb # "delete" /\ op[o].alone /\ ~Onto(o) =>
    /\ \A n \in SourceFiles(o) : had[o][n] \in {file[From(o)][n], file[To(o)][n]}
    /\ \A n \in EntryNames : had[o][n] = None => file[To(o)][n] = hadTo[o][n]

(* Copies and moves of one folder to one place may overlap, and then write the *)
(* same files; once all of them have reported success the target holds the   *)
(* whole folder, and a move has left nothing behind.  (One that fails after     *)
(* another has succeeded may take files of it away: WriteFails.)             *)
SameWay(o, q) == op[q].verb # "delete" /\ ~Onto(q) /\ From(q) = From(o) /\ op[q].ok
SuccessIsComplete ==
  \A o \in Ops :
    /\ op[o].pc = "over"
    /\ \A q \in Ops : op[q].pc # "new" => SameWay(o, q)
    => /\ \A n \in SourceFiles(o) : file[To(o)][n] = had[o][n]
       /\ op[o].verb = "move" /\ ~aliased => From(o) \notin folders

(* A copy that nothing overlaps leaves the files that it copies alone, also    *)
(* when its source and its destination are one folder: it is refused then,     *)
(* as "source and destination are the same".                                *)
CopySparesSource ==
  \A o \in Ops : op[o].verb = "copy" /\ op[o].alone /\ op[o].pc # "new" =>
    \A n \in SourceFiles(o) : file[From(o)][n] = had[o][n]

=============================================================================
