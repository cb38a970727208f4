---------------------------- MODULE ArchiveBackup ----------------------------
(***************************************************************************)
(* Overwrite backups of an archive extraction.  Before an extraction writes *)
(* a file over an existing one it renames the old file into the backup      *)
(* directory and notes "O" in the manifest; for a new file it notes "A".    *)
(* Restoring a backup deletes the A files and renames the O files back,     *)
(* then deletes the backup directory.                                       *)
(*                                                                          *)
(* The files of one target folder are a function from names to versions, 0  *)
(* where there is no file.  Each rename and each manifest line is a step,   *)
(* so the program may be killed between any two, and because restoring and  *)
(* removing take no job slot, they may run during an extraction, and two    *)
(* restores may run at once.                                                *)
(***************************************************************************)
EXTENDS Naturals, Sequences, SequencesExt

CONSTANTS Names,        \* files of the target folder
          Restorers,    \* requests that restore a backup
          Styles,       \* "upload": entries are placed as they come;
                        \* "stage": a staged tree is merged
          MaxEntries,   \* bound: entries of an archive
          MaxBackups,   \* bound: extractions in a behaviour
          MaxCrashes    \* bound: times the program is killed

ASSUME BackupAssumption ==
  /\ MaxEntries \in Nat /\ MaxBackups \in Nat /\ MaxCrashes \in Nat
  /\ Styles \subseteq {"upload", "stage"}

VARIABLES
  live,          \* the target folder: name -> version
  backups,       \* backup directories
  extraction,    \* the job that extracts
  restore,       \* per restoring request
  crashes,
  before, after, regular, \* history: per backup, the folder before and after
                          \* its extraction; no name came twice in it and no
                          \* restore overlapped it
  unlisted       \* history: per backup, the file that was being moved into it
                 \* when the program was killed

backupVars == <<live, backups, extraction, restore, crashes, before, after, regular, unlisted>>
history == <<before, after, regular, unlisted>>

Ids == 1 .. MaxBackups
Versions == 0 .. 1 + MaxEntries * MaxBackups  \* 0: no file; 1: there from the start
Folder == [Names -> Versions]
Empty == [n \in Names |-> 0]

Line == [tag : {"A", "O"}, name : Names]

(* manifest: the file is there; lines: what it says; old: archive_backup's  *)
(* "old" directory.                                                         *)
Backup == [manifest : BOOLEAN, lines : Seq(Line), old : Folder]
NoBackup == [manifest |-> FALSE, lines |-> <<>>, old |-> Empty]

(* count: old_count + added_count of archive_backup_ctx_t. *)
Extraction == [pc : {"idle", "file", "move", "note", "add", "place", "close"},
               id : Ids \cup {0}, todo : Seq(Names), count : Nat, next : Nat]

(* lines: the manifest as it was read; added, old: the places in it of the    *)
(* files still to be deleted and to be put back.                            *)
Restore == [pc : {"idle", "delete", "check", "clear", "put", "drop"},
            id : Ids \cup {0}, lines : Seq(Line), added : SUBSET Nat, old : SUBSET Nat,
            alone : BOOLEAN, fits : BOOLEAN, ok : BOOLEAN]
Idle == [pc |-> "idle", id |-> 0, lines |-> <<>>, added |-> {}, old |-> {},
         alone |-> FALSE, fits |-> FALSE, ok |-> FALSE]

BackupInit ==
  /\ live \in [Names -> {0, 1}]
  /\ backups = [b \in Ids |-> NoBackup]
  /\ extraction = [pc |-> "idle", id |-> 0, todo |-> <<>>, count |-> 0, next |-> 2]
  /\ restore = [r \in Restorers |-> Idle]
  /\ crashes = 0
  /\ before = [b \in Ids |-> Empty] /\ after = [b \in Ids |-> Empty]
  /\ regular = [b \in Ids |-> TRUE] /\ unlisted = [b \in Ids |-> {}]

----------------------------------------------------------------------------
(* The extraction: transfer_upload_zip_request, archive_place_stage.        *)

x == extraction
File == Head(x.todo)

Orders(style) ==
  {s \in SeqOf(Names, MaxEntries) : style = "stage" => IsInjective(s)}

(* What a step of another actor does to a restore: it is not alone.         *)
Disturbed == [r \in Restorers |-> [restore[r] EXCEPT !.alone = FALSE]]

(* archive_backup_begin: a directory of its own, a manifest with a header.  *)
BackupBegin(b, style) ==
  /\ x.pc = "idle" /\ b = x.id + 1
  /\ backups' = [backups EXCEPT ![b] = [NoBackup EXCEPT !.manifest = TRUE]]
  /\ \E s \in Orders(style) :
       /\ extraction' = [x EXCEPT !.pc = "file", !.id = b, !.todo = s, !.count = 0]
       /\ regular' = [regular EXCEPT ![b] =
              IsInjective(s) /\ \A r \in Restorers : restore[r].pc = "idle"]
  /\ before' = [before EXCEPT ![b] = live]
  /\ restore' = Disturbed
  /\ UNCHANGED <<live, crashes, after, unlisted>>

(* Mutant: every entry is taken for a new file. *)
LookAtNothing ==
  /\ x.pc = "file" /\ x.todo # <<>>
  /\ extraction' = [x EXCEPT !.pc = "add"]
  /\ UNCHANGED <<live, backups, restore, crashes, history>>

(* lstat(dst): there is a file to back up, or a new one to note.            *)
LookAt ==
  /\ x.pc = "file" /\ x.todo # <<>>
  /\ extraction' = [x EXCEPT !.pc = IF live[File] # 0 THEN "move" ELSE "add"]
  /\ UNCHANGED <<live, backups, restore, crashes, history>>

(* archive_backup_move_existing: rename the file into old/ (the directory   *)
(* is made again if it was removed), over whatever is there.                *)
MoveExisting ==
  /\ x.pc = "move" /\ live[File] # 0
  /\ backups' = [backups EXCEPT ![x.id].old[File] = live[File]]
  /\ live' = [live EXCEPT ![File] = 0]
  /\ extraction' = [x EXCEPT !.pc = "note"]
  /\ restore' = Disturbed
  /\ UNCHANGED <<crashes, history>>

(* Mutant: the line is lost, which fprintf's ignored result would hide. *)
NoteOldLost ==
  /\ x.pc = "note"
  /\ extraction' = [x EXCEPT !.pc = "place", !.count = @ + 1]
  /\ UNCHANGED <<live, backups, restore, crashes, history>>

(* A line goes to the manifest; after the backup was removed, to nowhere.   *)
Noted(tag) ==
  [backups EXCEPT ![x.id].lines =
     IF backups[x.id].manifest THEN Append(@, [tag |-> tag, name |-> File]) ELSE @]

NoteOld ==
  /\ x.pc = "note"
  /\ backups' = Noted("O")
  /\ extraction' = [x EXCEPT !.pc = "place", !.count = @ + 1]
  /\ UNCHANGED <<live, restore, crashes, history>>

(* archive_backup_record_added *)
NoteAdded ==
  /\ x.pc = "add"
  /\ backups' = Noted("A")
  /\ extraction' = [x EXCEPT !.pc = "place", !.count = @ + 1]
  /\ UNCHANGED <<live, restore, crashes, history>>

(* rename(part, final) *)
Place ==
  /\ x.pc = "place"
  /\ live' = [live EXCEPT ![File] = x.next]
  /\ extraction' = [x EXCEPT !.pc = "file", !.todo = Tail(@), !.next = @ + 1]
  /\ restore' = Disturbed
  /\ UNCHANGED <<backups, crashes, history>>

(* Nothing left, or a step failed or was cancelled: nothing is undone.      *)
Stop ==
  /\ x.pc \in {"file", "move", "add", "place"}
  /\ extraction' = [x EXCEPT !.pc = "close"]
  /\ UNCHANGED <<live, backups, restore, crashes, history>>

(* archive_backup_close: a backup without entries is deleted.               *)
Close ==
  /\ x.pc = "close"
  /\ backups' = IF x.count = 0 THEN [backups EXCEPT ![x.id] = NoBackup] ELSE backups
  /\ extraction' = [x EXCEPT !.pc = "idle"]
  /\ after' = [after EXCEPT ![x.id] = live]
  /\ UNCHANGED <<live, restore, crashes, before, regular, unlisted>>

ExtractionStep ==
  \/ LookAt \/ MoveExisting \/ NoteOld \/ NoteAdded \/ Place \/ Stop \/ Close
  \/ \E b \in Ids, style \in Styles : BackupBegin(b, style)

----------------------------------------------------------------------------
(* archive_backup_restore_handler *)

Others(r) == [s \in Restorers |-> IF s = r THEN restore[s]
                                  ELSE [restore[s] EXCEPT !.alone = FALSE]]

(* The places of the lines with this tag. *)
Listed(lines, tag) == {i \in DOMAIN lines : lines[i].tag = tag}

(* Read the manifest.  History: the restore is alone while nobody else is   *)
(* at work; it fits if the folder is as the extraction left it.             *)
RestoreBegin(r, b) ==
  /\ restore[r].pc = "idle" /\ backups[b].manifest
  /\ restore' = [Others(r) EXCEPT ![r] =
       [pc |-> "delete", id |-> b, lines |-> backups[b].lines,
        added |-> Listed(backups[b].lines, "A"), old |-> Listed(backups[b].lines, "O"),
        alone |-> x.pc = "idle" /\ \A s \in Restorers : restore[s].pc = "idle",
        fits |-> live = after[b],
        ok |-> FALSE]]
  /\ regular' = [c \in Ids |-> regular[c] /\ ~(x.pc # "idle" /\ c = x.id)]
  /\ UNCHANGED <<live, backups, extraction, crashes, before, after, unlisted>>

(* The added files go, the last one first. *)
DeleteAdded(r) ==
  /\ restore[r].pc = "delete" /\ restore[r].added # {}
  /\ LET i == Max(restore[r].added)
     IN /\ live' = [live EXCEPT ![restore[r].lines[i].name] = 0]
        /\ restore' = [Others(r) EXCEPT ![r].added = @ \ {i}]
  /\ UNCHANGED <<backups, extraction, crashes, history>>

AddedGone(r) ==
  /\ restore[r].pc = "delete" /\ restore[r].added = {}
  /\ restore' = [restore EXCEPT ![r].pc = "check"]
  /\ UNCHANGED <<live, backups, extraction, crashes, history>>

(* The replaced file whose turn it is, the first one first. *)
NextOld(r) == Min(restore[r].old)
OldName(r) == restore[r].lines[NextOld(r)].name

(* Mutant: the file is not looked for in the backup first. *)
CheckNothing(r) ==
  /\ restore[r].pc = "check" /\ restore[r].old # {}
  /\ restore' = [restore EXCEPT ![r].pc = "clear"]
  /\ UNCHANGED <<live, backups, extraction, crashes, history>>

(* lstat(backup_path): "backup file missing" ends the restore.              *)
CheckOld(r) ==
  /\ restore[r].pc = "check" /\ restore[r].old # {}
  /\ restore' = [restore EXCEPT ![r] =
       IF backups[@.id].old[OldName(r)] # 0 THEN [@ EXCEPT !.pc = "clear"] ELSE Idle]
  /\ UNCHANGED <<live, backups, extraction, crashes, history>>

(* rar_delete_tree(live) *)
ClearLive(r) ==
  /\ restore[r].pc = "clear"
  /\ live' = [live EXCEPT ![OldName(r)] = 0]
  /\ restore' = [Others(r) EXCEPT ![r].pc = "put"]
  /\ UNCHANGED <<backups, extraction, crashes, history>>

(* rename(backup_path, live) *)
PutBack(r) ==
  /\ restore[r].pc = "put"
  /\ LET b == restore[r].id
         n == OldName(r)
     IN IF backups[b].old[n] = 0
          THEN /\ restore' = [restore EXCEPT ![r] = Idle]
               /\ UNCHANGED <<live, backups>>
          ELSE /\ live' = [live EXCEPT ![n] = backups[b].old[n]]
               /\ backups' = [backups EXCEPT ![b].old[n] = 0]
               /\ restore' = [Others(r) EXCEPT ![r].pc = "check", ![r].old = @ \ {NextOld(r)}]
  /\ UNCHANGED <<extraction, crashes, history>>

(* Mutant: the backup is dropped with files still in it. *)
DropBackupEarly(r) ==
  /\ restore[r].pc = "check"
  /\ backups' = [backups EXCEPT ![restore[r].id] = NoBackup]
  /\ restore' = [Others(r) EXCEPT ![r].pc = "drop", ![r].ok = TRUE]
  /\ UNCHANGED <<live, extraction, crashes, history>>

(* rar_delete_tree(backup_dir), whatever is still in it.                    *)
DropBackup(r) ==
  /\ restore[r].pc = "check" /\ restore[r].old = {}
  /\ backups' = [backups EXCEPT ![restore[r].id] = NoBackup]
  /\ restore' = [Others(r) EXCEPT ![r].pc = "drop", ![r].ok = TRUE]
  /\ UNCHANGED <<live, extraction, crashes, history>>

(* {"ok":true} *)
RestoreDone(r) ==
  /\ restore[r].pc = "drop"
  /\ restore' = [restore EXCEPT ![r] = Idle]
  /\ UNCHANGED <<live, backups, extraction, crashes, history>>

(* A delete, mkdir or rename fails: the restore stops where it is.          *)
RestoreFails(r) ==
  /\ restore[r].pc \in {"delete", "check", "clear", "put"}
  /\ restore' = [restore EXCEPT ![r] = Idle]
  /\ UNCHANGED <<live, backups, extraction, crashes, history>>

RestoreStep(r) ==
  \/ DeleteAdded(r) \/ AddedGone(r) \/ CheckOld(r) \/ ClearLive(r) \/ PutBack(r)
  \/ DropBackup(r) \/ RestoreDone(r) \/ RestoreFails(r)
  \/ \E b \in Ids : RestoreBegin(r, b)

(* archive_backup_remove_handler: one backup with a manifest, or all.       *)
RemoveBackups(bs) ==
  /\ bs = Ids \/ \E b \in Ids : bs = {b} /\ backups[b].manifest
  /\ backups' = [b \in Ids |-> IF b \in bs THEN NoBackup ELSE backups[b]]
  /\ restore' = Disturbed
  /\ UNCHANGED <<live, extraction, crashes, history>>

(* The program is killed.  Lines are flushed as they are written.            *)
Crash ==
  /\ crashes < MaxCrashes
  /\ crashes' = crashes + 1
  /\ extraction' = [x EXCEPT !.pc = "idle"]
  /\ restore' = [r \in Restorers |-> Idle]
  /\ after' = IF x.pc = "idle" THEN after ELSE [after EXCEPT ![x.id] = live]
  /\ unlisted' = IF x.pc = "note" THEN [unlisted EXCEPT ![x.id] = @ \cup {File}] ELSE unlisted
  /\ UNCHANGED <<live, backups, before, regular>>

BackupNext ==
  \/ ExtractionStep
  \/ \E r \in Restorers : RestoreStep(r)
  \/ \E bs \in {Ids} \cup {{b} : b \in Ids} : RemoveBackups(bs)
  \/ Crash

BackupSpec == BackupInit /\ [][BackupNext]_backupVars

----------------------------------------------------------------------------
(* Every variable has its type. *)
BackupTypeOK ==
  /\ live \in Folder /\ backups \in [Ids -> Backup] /\ extraction \in Extraction
  /\ restore \in [Restorers -> Restore] /\ crashes \in 0 .. MaxCrashes
  /\ before \in [Ids -> Folder] /\ after \in [Ids -> Folder]
  /\ regular \in [Ids -> BOOLEAN] /\ unlisted \in [Ids -> SUBSET Names]

(* Whatever lies in a backup that can be listed is in its manifest, so that *)
(* a restore finds it: before and after kills, all but the one file that is   *)
(* being moved now, or that was being moved when the program was killed.     *)
OldIsListed ==
  \A b \in Ids : \A n \in Names \ unlisted[b] :
    /\ backups[b].manifest /\ backups[b].old[n] # 0
    /\ ~(x.pc = "note" /\ x.id = b /\ File = n)
    => [tag |-> "O", name |-> n] \in Range(backups[b].lines)

(* A restore that reports success puts the folder back as it was before the *)
(* extraction, if it worked alone on what the extraction left, nothing      *)
(* overlapped that, no name came twice, and no kill left a file unlisted.    *)
Undone(r) == restore[r].ok /\ restore[r].alone /\ restore[r].fits
RestoreUndoes ==
  \A r \in Restorers :
    Undone(r) /\ unlisted[restore[r].id] = {} /\ regular[restore[r].id]
    => live = before[restore[r].id]

(* An extraction that no restore overlaps loses no file: what was in the    *)
(* folder or in a backup is in one of them after every step of it, provided *)
(* that no name comes twice.                                                *)
Kept(n) == {live[n]} \cup {backups[b].old[n] : b \in Ids}
ExtractionLosesNothing ==
  [][ExtractionStep /\ x.pc # "idle" /\ regular[x.id] =>
       \A n \in Names : Kept(n) \ {0} \subseteq Kept(n)']_backupVars

(* A restore alone never deletes a file from before its extraction: one it  *)
(* has put back, or that was never replaced, survives retries, failures and *)
(* crashes, again if nothing overlapped that extraction.                    *)
DeletesOriginal(r, n) ==
  RestoreStep(r) /\ live[n] # 0 /\ live'[n] # live[n] /\ live[n] = before[restore[r].id][n]
RestoreSparesOriginals ==
  [][\A r \in Restorers, n \in Names :
       restore[r].pc # "idle" /\ restore[r].alone /\ regular[restore[r].id]
       => ~DeletesOriginal(r, n)]_backupVars

(* Files from before an extraction survive it, and every restore of its backup. *)
OriginalsSurvive == ExtractionLosesNothing /\ RestoreSparesOriginals
=============================================================================
