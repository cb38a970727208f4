----------------------------- MODULE AppPrepare ------------------------------
(***************************************************************************)
(* Preparing an app: a folder of extracted files is searched for an app or  *)
(* the patch of one, whose files are moved to <title>-app, over those that  *)
(* are there (which go to a backup folder), made accessible, and the rest   *)
(* of the extracted folder is deleted.                                      *)
(*                                                                          *)
(* A disk is a function from paths (sequences of names) to nodes.  A node   *)
(* keeps the path it was created with, so that it is known again after it   *)
(* was moved, and the title id that is in it.                               *)
(* sce_sys/param.json is the file "param.json" of its folder.               *)
(* A prepare takes the job slot ("job") or, right after an upload, runs in  *)
(* its request without it ("inline"): the two may overlap.                  *)
(***************************************************************************)
EXTENDS Naturals, Sequences, SequencesExt, FiniteSets

CONSTANTS
  Preparers,     \* prepares that run, each once; names of their backup folders, too
  Disks,         \* disks to begin with
  Scans,         \* folders that a prepare is asked for
  TitleIn,       \* name -> the title id in it, or NoTitle
  AppName        \* title id -> "<title>-app"

NoTitle == ""
PathNames == DOMAIN TitleIn
Titles == DOMAIN AppName
BackupDir == ".bfpilot-backups"
Node == [kind : {"file", "dir", "link"}, origin : Seq(PathNames), open : BOOLEAN,
         title : Titles \cup {NoTitle}]

(* A disk is a tree, and the name of a backup folder is new (it is made of the *)
(* time and a counter).                                                      *)
ASSUME PrepareAssumption ==
  /\ {BackupDir, "data", "homebrew", "eboot.bin", "param.json"} \cup Preparers \subseteq PathNames
  /\ {BackupDir, "data", "homebrew", "eboot.bin", "param.json"} \cap Preparers = {}
  /\ TitleIn \in [PathNames -> Titles \cup {NoTitle}] /\ NoTitle \notin Titles
  /\ AppName \in [Titles -> PathNames \ ({BackupDir, "data", "homebrew"} \cup Preparers)]
  /\ \A d \in Disks :
       /\ DOMAIN d \subseteq Seq(PathNames) /\ d \in [DOMAIN d -> Node]
       /\ \A p \in DOMAIN d :
            /\ ToSet(p) \cap Preparers = {}
            /\ \A q \in Prefixes(p) \ {p} : q \in DOMAIN d /\ d[q].kind = "dir"

VARIABLES
  disk,          \* path -> node
  prepare,       \* per preparer
  prepareCancel, \* g_job.cancel
  announced      \* history: what the probes counted as extra

prepareVars == <<disk, prepare, prepareCancel, announced>>

Homebrew == <<"data", "homebrew">>

IsDirAt(p) == p \in DOMAIN disk /\ disk[p].kind = "dir"
TreeAt(p)  == {q \in DOMAIN disk : IsPrefix(p, q)}
KidsAt(p)  == {q \in TreeAt(p) : Len(q) = Len(p) + 1}
Rebase(q, from, to) == to \o SubSeq(q, Len(from) + 1, Len(q))

----------------------------------------------------------------------------
(* The probe.                                                               *)

(* archive_app_has_boot_file, archive_app_read_title_id *)
HasBootFile(p) ==
  LET q == Append(p, "eboot.bin") IN q \in DOMAIN disk /\ disk[q].kind = "file"
TitleAt(p) ==
  LET q == Append(p, "param.json")
  IN IF q \in DOMAIN disk /\ disk[q].kind = "file" THEN disk[q].title ELSE NoTitle

(* archive_app_dir_candidate *)
IsAppDir(p) == IsDirAt(p) /\ HasBootFile(p) /\ TitleAt(p) # NoTitle

(* archive_find_context_app_target: the folder itself or the nearest one    *)
(* above it that is an app; << >> for none.                                 *)
Context(scan) ==
  LET apps == {p \in Prefixes(scan) : IsAppDir(p)}
  IN IF apps = {} THEN <<>> ELSE CHOOSE p \in apps : \A q \in apps : Len(q) <= Len(p)

(* archive_title_from_text over a path: the first title in it. *)
TitleInPath(p) ==
  LET at == {i \in 1 .. Len(p) : TitleIn[p[i]] # NoTitle}
  IN IF at = {} THEN NoTitle ELSE TitleIn[p[CHOOSE i \in at : \A j \in at : i <= j]]

AppPath(root, title) == Append(root, AppName[title])

(* archive_app_patch_dir_candidate: the title of the app that the folder    *)
(* patches, or NoTitle.                                                     *)
PatchTitle(inApp, inScan, p) ==
  IF ~IsDirAt(p) \/ ~HasBootFile(p) \/ TitleAt(p) # NoTitle THEN NoTitle
  ELSE IF inApp # <<>> /\ IsStrictPrefix(inApp, p) THEN TitleAt(inApp)
  ELSE LET title == IF TitleInPath(p) # NoTitle THEN TitleInPath(p) ELSE inScan
       IN IF title # NoTitle /\ IsDirAt(AppPath(Homebrew, title)) THEN title ELSE NoTitle

Candidates(scan) ==
  LET here == Context(scan)
      inScan == TitleInPath(scan)
  IN {[path |-> p, title |-> TitleAt(p), patch |-> FALSE] : p \in {q \in TreeAt(scan) : IsAppDir(q)}}
     \cup {[path |-> p, title |-> PatchTitle(here, inScan, p), patch |-> TRUE] :
             p \in {q \in TreeAt(scan) : ~IsAppDir(q) /\ PatchTitle(here, inScan, q) # NoTitle}}

(* archive_app_named_path *)
Named(c) == c.path # <<>> /\ Last(c.path) = AppName[c.title]

(* archive_app_candidate_better: an app before a patch, then the folder     *)
(* itself, then the right name, then depth; strcmp decides between equals,  *)
(* here any of them.                                                        *)
Rank(scan, c) ==
  (IF c.patch THEN 4 ELSE 0) + (IF c.path = scan THEN 0 ELSE 2) + (IF Named(c) THEN 0 ELSE 1)
Best(scan) ==
  LET found == Candidates(scan)
  IN {c \in found : \A d \in found :
        \/ Rank(scan, c) < Rank(scan, d)
        \/ Rank(scan, c) = Rank(scan, d) /\ Len(c.path) <= Len(d.path)}

(* archive_app_resolve_prepared_path *)
PreparedPath(scan, here, c) ==
  LET atHome == AppPath(Homebrew, c.title)
      beside == AppPath(Front(scan), c.title)
  IN IF c.patch /\ here # <<>> /\ IsStrictPrefix(here, c.path) THEN here
     ELSE IF c.path = atHome \/ IsDirAt(atHome) THEN atHome
     ELSE IF IsDirAt(beside) THEN beside
     ELSE IF IsDirAt(Homebrew) THEN atHome
     ELSE IF ~c.patch /\ Named(c) THEN c.path
     ELSE beside

(* Mutant: the prepared folder may be inside the one that is deleted. *)
DeleteScanAnyway(scan, app, prepared) ==
  /\ scan # app /\ scan # prepared
  /\ IsPrefix(scan, app) /\ Len(scan) >= 3

(* archive_prepare_delete_scan_safe *)
DeleteScanSafe(scan, app, prepared) ==
  /\ scan # app /\ scan # prepared
  /\ IsPrefix(scan, app) /\ ~IsPrefix(scan, prepared) /\ Len(scan) >= 3

(* archive_prepare_count_extras_walk: neither the app nor a folder above it. *)
Extras(scan, app, prepared) ==
  IF ~DeleteScanSafe(scan, app, prepared) THEN {}
  ELSE {q \in TreeAt(scan) \ {scan} :
          ~IsPrefix(app, q) /\ ~(disk[q].kind = "dir" /\ IsPrefix(q, app))}

(* archive_app_prepare_probe: nothing, or what it says. *)
Info(scan, c) ==
  LET to == PreparedPath(scan, Context(scan), c)
      extra == Extras(scan, c.path, to)
  IN [scan |-> scan, app |-> c.path, title |-> c.title, patch |-> c.patch, to |-> to,
      extra |-> extra,
      prepared |-> /\ ~c.patch /\ c.path = to /\ extra = {}
                   /\ \A q \in TreeAt(IF to \in DOMAIN disk THEN to ELSE c.path) :
                        disk[q].kind = "link" \/ disk[q].open]
Probe(scan) == {Info(scan, c) : c \in Best(scan)}
NoInfo == [scan |-> <<>>, app |-> <<>>, title |-> NoTitle, patch |-> FALSE, to |-> <<>>,
           extra |-> {}, prepared |-> FALSE]

(* No backup is touched, and nothing of the app is to be moved into the app     *)
(* itself or, where that lies in the target, into the folder that is searched.  *)
Apart(i) ==
  /\ BackupDir \notin ToSet(i.app) \cup ToSet(i.to)
  /\ i.app # i.to =>
       \A q \in TreeAt(i.app) :
         LET dst == Rebase(q, i.app, i.to)
         IN ~IsPrefix(i.app, dst) /\ (IsStrictPrefix(i.to, i.scan) => ~IsPrefix(i.scan, dst))

----------------------------------------------------------------------------
(* apart: history, see Apart. *)
Waiting == [pc |-> "idle", info |-> NoInfo, backup |-> <<>>, cleanup |-> FALSE, again |-> FALSE,
            apart |-> FALSE]

PrepareInit ==
  /\ disk \in Disks
  /\ prepare = [w \in Preparers |-> Waiting]
  /\ prepareCancel = FALSE /\ announced = {}

Step(w, pc) == prepare' = [prepare EXCEPT ![w].pc = pc]
KeepRest == UNCHANGED <<prepareCancel, announced>>

Gives(w, pc) == Step(w, pc) /\ UNCHANGED disk /\ KeepRest

(* app_prepare_handler: probe, answer at once if there is nothing to do,    *)
(* else a job or the request itself applies.                                *)
AskPrepare(w, scan) ==
  /\ prepare[w].pc = "idle" /\ IsDirAt(scan)
  /\ \E info \in Probe(scan) : ~info.prepared
  /\ prepare' = [prepare EXCEPT ![w].pc = "apply", ![w].info.scan = scan]
  /\ prepareCancel' = IF w = "job" THEN FALSE ELSE prepareCancel
  /\ UNCHANGED <<disk, announced>>

(* The probe of archive_app_prepare_apply and its refusals.                 *)
ProbeFails(w) ==
  /\ prepare[w].pc = "apply"
  /\ ~IsDirAt(prepare[w].info.scan) \/ Best(prepare[w].info.scan) = {}
  /\ Gives(w, "failed")

Apply(w) ==
  /\ prepare[w].pc = "apply" /\ IsDirAt(prepare[w].info.scan)
  /\ \E info \in Probe(prepare[w].info.scan) :
       LET clean == /\ DeleteScanSafe(info.scan, info.app, info.to)
                    /\ info.patch \/ info.extra # {}
           refused == info.patch /\ (info.app = info.to \/ ~IsDirAt(info.to)
                                     \/ IsPrefix(info.app, info.to))
       IN IF refused THEN Gives(w, "failed")
          ELSE /\ prepare' = [prepare EXCEPT ![w].info = info, ![w].cleanup = clean,
                                ![w].apart = Apart(info),
                                ![w].pc = IF info.patch THEN "open"
                                          ELSE IF info.app = info.to THEN "chmod" ELSE "place"]
               /\ announced' = announced \cup {disk[q].origin : q \in info.extra}
               /\ UNCHANGED <<disk, prepareCancel>>

(* Mutant: only the folders are made accessible. *)
OpenedFolders(p) == [q \in DOMAIN disk |->
                       IF IsPrefix(p, q) /\ disk[q].kind = "dir"
                         THEN [disk[q] EXCEPT !.open = TRUE] ELSE disk[q]]

Opened(p) == [q \in DOMAIN disk |->
                IF IsPrefix(p, q) /\ disk[q].kind # "link"
                  THEN [disk[q] EXCEPT !.open = TRUE] ELSE disk[q]]

(* archive_chmod_777_recursive; on a cancel it stops anywhere. *)
OpenPatch(w) ==
  /\ prepare[w].pc = "open"
  /\ IF prepareCancel \/ ~IsDirAt(prepare[w].info.app) THEN Gives(w, "failed")
     ELSE /\ disk' = Opened(prepare[w].info.app)
          /\ Step(w, "backup") /\ KeepRest

(* The target is not there: a rename.  Else a backup is begun.              *)
PlaceWhole(w) ==
  /\ prepare[w].pc = "place"
  /\ LET i == prepare[w].info
     IN IF i.to \in DOMAIN disk
          THEN Gives(w, IF IsDirAt(i.to) THEN "backup" ELSE "failed")
          ELSE IF i.app \notin DOMAIN disk \/ IsPrefix(i.app, i.to) THEN Gives(w, "failed")
          ELSE /\ LET parents == Prefixes(Front(i.to)) \ DOMAIN disk
                      moved   == {Rebase(q, i.app, i.to) : q \in TreeAt(i.app)}
                  IN disk' = [q \in (DOMAIN disk \ TreeAt(i.app)) \cup moved \cup parents |->
                                IF q \in moved THEN disk[Rebase(q, i.to, i.app)]
                                ELSE IF q \in parents
                                  THEN [kind |-> "dir", origin |-> q, open |-> TRUE, title |-> NoTitle]
                                ELSE disk[q]]
               /\ Step(w, "chmod") /\ KeepRest

(* archive_backup_begin: beside the target. *)
BeginBackup(w) ==
  /\ prepare[w].pc = "backup"
  /\ prepare' = [prepare EXCEPT ![w].pc = "merge",
                   ![w].backup = Front(prepare[w].info.to) \o <<BackupDir, w>>]
  /\ UNCHANGED disk /\ KeepRest

(* Mutant: what is in the way is overwritten. *)
MoveOver(w, q, dst) ==
  LET to == {Rebase(x, q, dst) : x \in TreeAt(q)}
  IN [p \in (DOMAIN disk \ (TreeAt(q) \cup TreeAt(dst))) \cup to |->
        IF p \in to THEN disk[Rebase(p, dst, q)] ELSE disk[p]]

(* The disk after what is at dst went to the backup (if anything is there), *)
(* and q with all in it to dst.                                             *)
MoveTo(w, q, dst) ==
  LET saved == Rebase(dst, prepare[w].info.to, prepare[w].backup)
      gone  == TreeAt(q) \cup TreeAt(dst)
      asideTo == {Rebase(x, dst, saved) : x \in TreeAt(dst)}
      movedTo == {Rebase(x, q, dst) : x \in TreeAt(q)}
  IN [p \in (DOMAIN disk \ gone) \cup asideTo \cup movedTo |->
        IF p \in movedTo THEN disk[Rebase(p, dst, q)]
        ELSE IF p \in asideTo THEN disk[Rebase(p, saved, dst)]
        ELSE disk[p]]

(* One entry of archive_merge_move_tree, its folder being merged already.   *)
MergeEntry(w, q) ==
  LET i   == prepare[w].info
      dst == Rebase(q, i.app, i.to)
  IN /\ prepare[w].pc = "merge" /\ ~prepareCancel
     /\ q \in TreeAt(i.app) /\ IsDirAt(Front(dst)) /\ q # i.app
     /\ \/ /\ disk[q].kind = "dir" /\ IsDirAt(dst) /\ KidsAt(q) = {}
           /\ disk' = [p \in DOMAIN disk \ {q} |-> disk[p]]
        \/ /\ disk[q].kind = "file" \/ (disk[q].kind = "dir" /\ ~IsDirAt(dst))
           /\ ~IsPrefix(dst, q) /\ ~IsPrefix(q, dst)
           /\ disk' = MoveTo(w, q, dst)
     /\ UNCHANGED prepare /\ KeepRest

(* The source is empty, or was never there any more: rmdir.                 *)
MergeDone(w) ==
  /\ prepare[w].pc = "merge" /\ TreeAt(prepare[w].info.app) = {prepare[w].info.app}
  /\ disk' = [p \in DOMAIN disk \ {prepare[w].info.app} |-> disk[p]]
  /\ Step(w, IF prepare[w].info.patch THEN "clean" ELSE "chmod") /\ KeepRest

(* A file whose place is taken by a folder it lies in: that goes to the      *)
(* backup with the file, which then is not found.  A folder whose place is in *)
(* itself: what is there goes to the backup, and the rename is refused.      *)
MergeOverItself(w, q) ==
  LET i   == prepare[w].info
      dst == Rebase(q, i.app, i.to)
      to  == Rebase(dst, i.to, prepare[w].backup)
      aside == {Rebase(x, dst, to) : x \in TreeAt(dst)}
  IN /\ prepare[w].pc = "merge" /\ ~prepareCancel
     /\ q \in TreeAt(i.app) /\ IsDirAt(Front(dst)) /\ q # i.app
     /\ \/ disk[q].kind = "file" /\ IsPrefix(dst, q)
        \/ disk[q].kind = "dir" /\ ~IsDirAt(dst) /\ IsPrefix(q, dst)
     /\ disk' = [p \in (DOMAIN disk \ TreeAt(dst)) \cup aside |->
                   IF p \in aside THEN disk[Rebase(p, to, dst)] ELSE disk[p]]
     /\ Step(w, "failed") /\ KeepRest

(* Cancelled, a link, the source gone. *)
MergeFails(w) ==
  /\ prepare[w].pc = "merge"
  /\ LET i == prepare[w].info
     IN \/ prepareCancel \/ i.app \notin DOMAIN disk
        \/ \E q \in TreeAt(i.app) : disk[q].kind = "link"
  /\ Gives(w, "failed")

OpenApp(w) ==
  /\ prepare[w].pc = "chmod"
  /\ IF prepareCancel \/ ~IsDirAt(prepare[w].info.to) THEN Gives(w, "failed")
     ELSE /\ disk' = Opened(prepare[w].info.to)
          /\ Step(w, "clean") /\ KeepRest

(* rar_delete_tree(scan_path): entry by entry, the folders last.            *)
CleanEntry(w, q) ==
  /\ prepare[w].pc = "clean" /\ prepare[w].cleanup
  /\ q \in TreeAt(prepare[w].info.scan) /\ KidsAt(q) = {}
  /\ disk' = [p \in DOMAIN disk \ {q} |-> disk[p]]
  /\ UNCHANGED prepare /\ KeepRest

(* What is answered: the second probe, of the app. *)
Answers(to) ==
  IF Probe(to) = {} THEN {FALSE} ELSE {i.prepared : i \in Probe(to)}
Finish(w) ==
  /\ prepare[w].pc = "clean"
  /\ prepare[w].cleanup => TreeAt(prepare[w].info.scan) = {}
  /\ LET i == prepare[w].info
     IN IF i.patch \/ IsDirAt(i.to)
          THEN \E again \in IF i.patch THEN {TRUE} ELSE Answers(i.to) :
                 prepare' = [prepare EXCEPT ![w].pc = "ok", ![w].again = again]
          ELSE Step(w, "failed")
  /\ UNCHANGED disk /\ KeepRest

CancelPrepare ==
  /\ ~prepareCancel /\ prepareCancel' = TRUE
  /\ UNCHANGED <<disk, prepare, announced>>

PrepareNext ==
  \/ \E w \in Preparers :
       \/ \E scan \in Scans : AskPrepare(w, scan)
       \/ ProbeFails(w) \/ Apply(w) \/ OpenPatch(w) \/ PlaceWhole(w) \/ BeginBackup(w)
       \/ MergeDone(w) \/ MergeFails(w) \/ OpenApp(w) \/ Finish(w)
       \/ \E q \in DOMAIN disk : MergeEntry(w, q) \/ MergeOverItself(w, q) \/ CleanEntry(w, q)
  \/ CancelPrepare

PrepareSpec == PrepareInit /\ [][PrepareNext]_prepareVars

----------------------------------------------------------------------------
Origins == {disk[p].origin : p \in {q \in DOMAIN disk : disk[q].kind # "dir"}}

(* One prepare alone, that merges nothing into what it takes away.            *)
Undisturbed(w) ==
  prepare[w].apart /\ \A v \in Preparers \ {w} : prepare[v].pc = "idle"

(* No step of such a prepare makes a file disappear, from the extracted folder, *)
(* from the app that is overwritten or from a backup, but one that a probe     *)
(* counted among the extras: wherever the app, the folder and the target lie in *)
(* each other, and however far the merge came.                               *)
PrepareDeletesOnlyExtras ==
  [][(\E w \in Preparers : Undisturbed(w)) => Origins \ Origins' \subseteq announced]_prepareVars

(* Such a prepare, when it ended well, has left nothing to do: the probe of the *)
(* app it placed says that it is prepared, in the place it chose.             *)
PreparedStays ==
  \A w \in Preparers : prepare[w].pc = "ok" /\ Undisturbed(w) => prepare[w].again

(* "Extra extracted ... outside the app folder will be deleted"               *)
(* (assets/files.html:1895), and nothing else, whatever the app holds.        *)
OnlyExtrasAreDeleted == [][Origins \ Origins' \subseteq announced]_prepareVars
=============================================================================
