------------------------ MODULE ArchiveBackup_proofs ------------------------
(***************************************************************************)
(* Proofs about ArchiveBackup, for any number of names, requests, entries,   *)
(* backups and crashes: what is backed up is in the manifest, a restore that  *)
(* works alone on what the extraction left undoes it, and no file from before *)
(* an extraction is lost by it or by a restore.                             *)
(*                                                                          *)
(* What makes it inductive: a version lies in one place only, so that a file  *)
(* that is still in its backup is not the one in the folder; the names an     *)
(* extraction has not come to are as they were; and a restore that is alone   *)
(* is the only one at work, so that what it has done stays done.             *)
(***************************************************************************)
EXTENDS ArchiveBackup, WellFoundedInduction, NaturalsInduction, TLAPS

-----------------------------------------------------------------------------
(* The invariant.                                                           *)

Extracting  == x.pc # "idle"
Named(lines) == {lines[i].name : i \in DOMAIN lines}

(* A version is given out once for each entry of each archive.               *)
Counted ==
  /\ x.next >= 2 /\ x.next + Len(x.todo) <= 2 + MaxEntries * x.id
  /\ Extracting => x.id \in Ids
  /\ x.pc \in {"move", "note", "add", "place"} => x.todo # <<>>

Reads(r) ==
  /\ restore[r].pc # "idle" => restore[r].id \in Ids
  /\ restore[r].added \subseteq Listed(restore[r].lines, "A")
  /\ restore[r].old \subseteq Listed(restore[r].lines, "O")
  /\ restore[r].pc \in {"clear", "put"} => restore[r].old # {}
  /\ restore[r].pc # "delete" => restore[r].added = {}
  /\ restore[r].pc = "delete" => restore[r].old = Listed(restore[r].lines, "O")
  /\ restore[r].pc = "drop" => restore[r].old = {}
  /\ restore[r].ok => restore[r].pc = "drop"
Reading == \A r \in Restorers : Reads(r)

(* No version of a file lies in two places.                                  *)
OnePlace ==
  \A n \in Names, b \in Ids :
    /\ live[n] < x.next /\ backups[b].old[n] < x.next
    /\ live[n] # 0 => backups[b].old[n] # live[n]
    /\ \A c \in Ids \ {b} : backups[b].old[n] # 0 => backups[b].old[n] # backups[c].old[n]

(* The backup of the extraction at work, if nothing overlaps it: the names it  *)
(* has not come to are as they were, and what it has changed is listed.       *)
Ahead(i) == i # 1 \/ x.pc \in {"file", "move", "add"}
Untouched ==
  Extracting /\ regular[x.id] =>
    /\ \A r \in Restorers : restore[r].pc = "idle"
    /\ \A i, j \in 1 .. Len(x.todo) : x.todo[i] = x.todo[j] => i = j
    /\ \A i \in 1 .. Len(x.todo) : Ahead(i) =>
         backups[x.id].old[x.todo[i]] = 0 /\ live[x.todo[i]] = before[x.id][x.todo[i]]
    /\ x.pc \in {"note", "add", "place"} => live[File] = 0
    /\ x.count = 0 /\ x.pc # "note" => \A n \in Names : backups[x.id].old[n] = 0
    /\ x.pc = "place" => x.count > 0
ChangesAreListed ==
  Extracting /\ regular[x.id] /\ backups[x.id].manifest =>
    /\ \A n \in Names :
         n \in Named(backups[x.id].lines) \/ (x.pc = "note" /\ n = File)
           \/ live[n] = before[x.id][n]
    /\ x.pc = "place" => File \in Named(backups[x.id].lines)

(* A backup nothing has overlapped holds what was there before; its manifest   *)
(* tells what the extraction changed.                                        *)
Closed(b) == backups[b].manifest /\ ~(Extracting /\ x.id = b) /\ unlisted[b] = {}
FaithfulTo(b) ==
  /\ \A n \in Names : backups[b].old[n] \in {0, before[b][n]}
  /\ \A i \in Listed(backups[b].lines, "A") : before[b][backups[b].lines[i].name] = 0
  /\ Closed(b) =>
       \A n \in Names : n \in Named(backups[b].lines) \/ after[b][n] = before[b][n]
Faithful ==
  \A b \in Ids :
    /\ b > x.id => ~backups[b].manifest
    /\ regular[b] => FaithfulTo(b)

(* What a restore has read of such a backup, and how far one that is alone is. *)
ReadTruly(r) ==
  restore[r].pc # "idle" /\ regular[restore[r].id] =>
    \A i \in Listed(restore[r].lines, "A") : before[restore[r].id][restore[r].lines[i].name] = 0
ReadsFaithfully == \A r \in Restorers : ReadTruly(r)

Alone(r) == restore[r].pc # "idle" /\ restore[r].alone
Progress(r) ==
  LET was == before[restore[r].id]
      lines == restore[r].lines
  IN /\ \A n \in Names : n \in Named(lines) \/ live[n] = was[n]
     /\ \A i \in Listed(lines, "A") \ restore[r].added : live[lines[i].name] = 0
     /\ \A i \in Listed(lines, "O") \ restore[r].old :
          live[lines[i].name] = was[lines[i].name] /\ backups[restore[r].id].old[lines[i].name] = 0
Undoing(r) ==
  restore[r].fits /\ unlisted[restore[r].id] = {} /\ regular[restore[r].id]
AloneWorks(r) ==
  Alone(r) =>
    /\ ~Extracting /\ \A s \in Restorers \ {r} : restore[s].pc = "idle"
    /\ restore[r].pc \in {"clear", "put"} => backups[restore[r].id].old[OldName(r)] # 0
    /\ restore[r].pc = "put" => live[OldName(r)] = 0
    /\ Undoing(r) => Progress(r)

BackupInv ==
  /\ BackupTypeOK /\ Counted /\ Reading /\ OnePlace
  /\ Untouched /\ ChangesAreListed /\ Faithful /\ ReadsFaithfully
  /\ \A r \in Restorers : AloneWorks(r)
  /\ OldIsListed

USE DEF x

-----------------------------------------------------------------------------
(* The first and the last place of a manifest that is left.                  *)

LEMMA LeastNumber ==
  ASSUME NEW S \in SUBSET Nat, S # {}
  PROVE  \E a \in S : \A c \in S : a <= c
<1> DEFINE Below == {p \in Nat \X Nat : p[1] < p[2]}
<1>1. IsWellFoundedOn(Below, Nat)
  BY NatLessThanWellFounded DEF OpToRel
<1>2. PICK a \in S : \A c \in S : ~(<<c, a>> \in Below)
  <2> HIDE DEF Below
  <2> QED BY <1>1, WFMin
<1>3. ASSUME NEW c \in S
      PROVE  a <= c
  <2>1. <<c, a>> \in Nat \X Nat /\ <<c, a>>[1] = c /\ <<c, a>>[2] = a
    OBVIOUS
  <2>2. c < a => <<c, a>> \in Below
    BY <2>1
  <2>3. QED  BY <1>2, <2>2
<1>4. QED  BY <1>3

LEMMA MinIsIn ==
  ASSUME NEW S \in SUBSET Nat, S # {}
  PROVE  Min(S) \in S
BY LeastNumber DEF Min

LEMMA MaxIsIn ==
  ASSUME NEW n \in Nat, NEW S \in SUBSET (0 .. n), S # {}
  PROVE  Max(S) \in S
<1> DEFINE T == {n - c : c \in S}
<1>1. T \in SUBSET Nat /\ T # {}
  <2>1. \A c \in S : n - c \in Nat
    OBVIOUS
  <2>2. QED  BY <2>1
<1>2. PICK z \in T : \A c \in T : z <= c
  BY <1>1, LeastNumber
<1>3. PICK a \in S : z = n - a
  OBVIOUS
<1>4. ASSUME NEW c \in S
      PROVE  a >= c
  <2>1. n - c \in T
    OBVIOUS
  <2>2. n - a <= n - c
    BY <1>2, <1>3, <2>1
  <2>3. QED  BY <2>2
<1>5. QED  BY <1>4 DEF Max

-----------------------------------------------------------------------------
(* The state, field by field.                                               *)

LEMMA VersionsAre ==
  /\ 0 \in Versions /\ Versions \subseteq Nat /\ Empty \in Folder /\ NoBackup \in Backup
  /\ Idle \in Restore
<1>1. MaxEntries * MaxBackups \in Nat
  BY BackupAssumption
<1>2. 0 \in Versions /\ Versions \subseteq Nat
  BY <1>1 DEF Versions
<1>3. Empty \in Folder
  BY <1>2 DEF Empty, Folder
<1>4. <<>> \in Seq(Line)
  OBVIOUS
<1>5. NoBackup \in Backup
  BY <1>3, <1>4 DEF NoBackup, Backup
<1>6. Idle \in Restore
  BY <1>4 DEF Idle, Restore
<1>7. QED  BY <1>2, <1>3, <1>5, <1>6

TypeInv == BackupTypeOK /\ Counted /\ Reading

LEMMA ExtractionIs ==
  ASSUME TypeInv
  PROVE  /\ x \in Extraction /\ x.todo \in Seq(Names) /\ x.count \in Nat /\ x.next \in Nat
         /\ x.id \in Nat /\ (Extracting => x.id \in Ids)
         /\ x.todo # <<>> => /\ File \in Names /\ Len(x.todo) \in Nat \ {0} /\ File = x.todo[1]
                             /\ Tail(x.todo) \in Seq(Names)
                             /\ Len(Tail(x.todo)) = Len(x.todo) - 1
                             /\ \A i \in 1 .. Len(x.todo) - 1 : Tail(x.todo)[i] = x.todo[i + 1]
<1>1. x \in Extraction
  BY DEF TypeInv, BackupTypeOK
<1>2. x.todo \in Seq(Names) /\ x.count \in Nat /\ x.next \in Nat /\ x.id \in Nat
  BY <1>1 DEF Extraction, Ids
<1>3. Extracting => x.id \in Ids
  BY DEF TypeInv, Counted
<1>4. QED  BY <1>1, <1>2, <1>3 DEF File

LEMMA BackupIs ==
  ASSUME TypeInv, NEW b \in Ids
  PROVE  /\ backups[b] \in Backup /\ backups[b].manifest \in BOOLEAN
         /\ backups[b].lines \in Seq(Line) /\ backups[b].old \in Folder
         /\ \A n \in Names : backups[b].old[n] \in Versions /\ live[n] \in Versions
BY DEF TypeInv, BackupTypeOK, Backup, Folder

LEMMA ListedIs ==
  ASSUME NEW lines \in Seq(Line), NEW tag, NEW i \in Listed(lines, tag)
  PROVE  i \in 1 .. Len(lines) /\ lines[i] \in Line /\ lines[i].name \in Names /\ lines[i].tag = tag
<1>1. i \in 1 .. Len(lines) /\ lines[i].tag = tag
  BY DEF Listed
<1>2. lines[i] \in Line
  BY <1>1
<1>3. QED  BY <1>1, <1>2 DEF Line

LEMMA RestoreIs ==
  ASSUME TypeInv, NEW r \in Restorers
  PROVE  /\ restore[r] \in Restore /\ restore[r].lines \in Seq(Line)
         /\ restore[r].alone \in BOOLEAN /\ restore[r].id \in Ids \cup {0}
         /\ restore[r].added \in SUBSET Nat /\ restore[r].old \in SUBSET Nat
         /\ restore[r].added # {} =>
              /\ Max(restore[r].added) \in restore[r].added
              /\ restore[r].lines[Max(restore[r].added)].name \in Names
         /\ restore[r].old # {} => NextOld(r) \in restore[r].old /\ OldName(r) \in Names
<1>1. restore[r] \in Restore
  BY DEF TypeInv, BackupTypeOK
<1>2. /\ restore[r].lines \in Seq(Line) /\ restore[r].alone \in BOOLEAN
      /\ restore[r].id \in Ids \cup {0}
      /\ restore[r].added \in SUBSET Nat /\ restore[r].old \in SUBSET Nat
  BY <1>1 DEF Restore
<1>3. /\ restore[r].added \subseteq Listed(restore[r].lines, "A")
      /\ restore[r].old \subseteq Listed(restore[r].lines, "O")
  BY DEF TypeInv, Reading, Reads
<1>4. restore[r].added # {} =>
        /\ Max(restore[r].added) \in restore[r].added
        /\ restore[r].lines[Max(restore[r].added)].name \in Names
  <2>1. Len(restore[r].lines) \in Nat /\ restore[r].added \in SUBSET (0 .. Len(restore[r].lines))
    BY <1>2, <1>3, ListedIs
  <2>2. QED  BY <1>2, <1>3, <2>1, MaxIsIn, ListedIs
<1>5. restore[r].old # {} => NextOld(r) \in restore[r].old /\ OldName(r) \in Names
  BY <1>2, <1>3, MinIsIn, ListedIs DEF NextOld, OldName
<1>6. QED  BY <1>1, <1>2, <1>4, <1>5

-----------------------------------------------------------------------------
(* What each step does, place by place.                                      *)

SameWork(r) ==
  /\ restore'[r].pc = restore[r].pc /\ restore'[r].id = restore[r].id
  /\ restore'[r].lines = restore[r].lines /\ restore'[r].added = restore[r].added
  /\ restore'[r].old = restore[r].old /\ restore'[r].ok = restore[r].ok

(* Every restore goes on as it was, but is no more alone.                    *)
Interrupted ==
  /\ restore' \in [Restorers -> Restore]
  /\ \A r \in Restorers : SameWork(r) /\ restore'[r].alone = FALSE

LEMMA DisturbedIs ==
  ASSUME TypeInv, restore' = Disturbed
  PROVE  Interrupted
<1>1. \A r \in Restorers : restore[r] \in Restore /\ restore'[r] = [restore[r] EXCEPT !.alone = FALSE]
  BY DEF TypeInv, BackupTypeOK, Disturbed
<1>2. ASSUME NEW r \in Restorers
      PROVE  restore'[r] \in Restore
  <2>1. restore[r] \in Restore /\ restore'[r] = [restore[r] EXCEPT !.alone = FALSE]
    BY <1>1
  <2>2. QED  BY <2>1 DEF Restore
<1>3. restore' \in [Restorers -> Restore]
  BY <1>2 DEF Disturbed
<1>4. QED  BY <1>1, <1>3 DEF Interrupted, SameWork, Restore

(* The extraction goes on to another step. *)
GoesTo(pc) ==
  /\ x'.pc = pc /\ x'.id = x.id /\ x'.todo = x.todo /\ x'.next = x.next /\ x' \in Extraction

LEMMA ExtractionGoes ==
  ASSUME TypeInv, NEW pc \in {"idle", "file", "move", "note", "add", "place", "close"}
  PROVE  /\ extraction' = [x EXCEPT !.pc = pc] => GoesTo(pc) /\ x'.count = x.count
         /\ extraction' = [x EXCEPT !.pc = pc, !.count = @ + 1] => GoesTo(pc) /\ x'.count = x.count + 1
<1>1. x \in Extraction /\ x.count \in Nat
  BY ExtractionIs
<1>2. [x EXCEPT !.pc = pc] \in Extraction
  BY <1>1 DEF Extraction
<1>4. x.count + 1 \in Nat
  BY <1>1
<1>5. [x EXCEPT !.pc = pc, !.count = @ + 1] \in Extraction
  BY <1>1, <1>4 DEF Extraction
<1>3. QED  BY <1>1, <1>2, <1>5 DEF Extraction, GoesTo

(* An extraction begins; its backup is empty. *)
Begins(b) ==
  /\ x.pc = "idle" /\ b = x.id + 1 /\ UNCHANGED <<live, crashes, after, unlisted>> /\ Interrupted
  /\ backups' \in [Ids -> Backup] /\ \A c \in Ids \ {b} : backups'[c] = backups[c]
  /\ backups'[b].manifest = TRUE /\ backups'[b].lines = <<>>
  /\ \A n \in Names : backups'[b].old[n] = 0
  /\ x' \in Extraction /\ x'.pc = "file" /\ x'.id = b /\ x'.count = 0 /\ x'.next = x.next
  /\ x'.todo \in Seq(Names) /\ Len(x'.todo) <= MaxEntries
  /\ regular' \in [Ids -> BOOLEAN] /\ \A c \in Ids \ {b} : regular'[c] = regular[c]
  /\ regular'[b] => /\ \A r \in Restorers : restore[r].pc = "idle"
                    /\ \A i, j \in 1 .. Len(x'.todo) : x'.todo[i] = x'.todo[j] => i = j
  /\ before' \in [Ids -> Folder] /\ \A c \in Ids \ {b} : before'[c] = before[c]
  /\ before'[b] = live

LEMMA BeginEffect ==
  ASSUME TypeInv, NEW b \in Ids, NEW style \in Styles, BackupBegin(b, style)
  PROVE  Begins(b)
<1>1. x.pc = "idle" /\ b = x.id + 1 /\ UNCHANGED <<live, crashes, after, unlisted>>
      /\ restore' = Disturbed /\ before' = [before EXCEPT ![b] = live]
      /\ backups' = [backups EXCEPT ![b] = [NoBackup EXCEPT !.manifest = TRUE]]
  BY DEF BackupBegin
<1>2. PICK s \in Orders(style) :
        /\ extraction' = [x EXCEPT !.pc = "file", !.id = b, !.todo = s, !.count = 0]
        /\ regular' = [regular EXCEPT ![b] =
                         IsInjective(s) /\ \A r \in Restorers : restore[r].pc = "idle"]
  BY DEF BackupBegin
<1>3. s \in Seq(Names) /\ Len(s) \in Nat /\ Len(s) <= MaxEntries /\ DOMAIN s = 1 .. Len(s)
  <2>1. PICK m \in 0 .. MaxEntries : s \in [1 .. m -> Names]
    BY DEF Orders, SeqOf
  <2>2. m \in Nat /\ m <= MaxEntries
    BY <2>1, BackupAssumption
  <2>3. s \in Seq(Names) /\ Len(s) = m
    BY <2>1, <2>2
  <2>4. QED  BY <2>2, <2>3
<1>4. /\ [NoBackup EXCEPT !.manifest = TRUE] \in Backup
      /\ [NoBackup EXCEPT !.manifest = TRUE].manifest = TRUE
      /\ [NoBackup EXCEPT !.manifest = TRUE].lines = <<>>
      /\ \A n \in Names : [NoBackup EXCEPT !.manifest = TRUE].old[n] = 0
  BY VersionsAre DEF NoBackup, Backup, Empty
<1>5. /\ backups \in [Ids -> Backup] /\ before \in [Ids -> Folder] /\ live \in Folder
      /\ regular \in [Ids -> BOOLEAN] /\ x \in Extraction
  BY DEF TypeInv, BackupTypeOK
<1>6. backups' \in [Ids -> Backup] /\ backups'[b] = [NoBackup EXCEPT !.manifest = TRUE]
      /\ \A c \in Ids \ {b} : backups'[c] = backups[c]
  BY <1>1, <1>4, <1>5
<1>7. before' \in [Ids -> Folder] /\ before'[b] = live /\ \A c \in Ids \ {b} : before'[c] = before[c]
  BY <1>1, <1>5
<1>8. x' \in Extraction /\ x'.pc = "file" /\ x'.id = b /\ x'.count = 0 /\ x'.next = x.next
      /\ x'.todo = s
  BY <1>2, <1>3, <1>5 DEF Extraction
<1>9. /\ regular' \in [Ids -> BOOLEAN] /\ \A c \in Ids \ {b} : regular'[c] = regular[c]
      /\ regular'[b] => IsInjective(s) /\ \A r \in Restorers : restore[r].pc = "idle"
  <2>1. (IsInjective(s) /\ \A r \in Restorers : restore[r].pc = "idle") \in BOOLEAN
    BY DEF IsInjective
  <2>2. QED  BY <1>2, <1>5, <2>1
<1>10. IsInjective(s) => \A i, j \in 1 .. Len(s) : s[i] = s[j] => i = j
  BY <1>3 DEF IsInjective
<1>11. Interrupted
  BY <1>1, DisturbedIs
<1>12. QED  BY <1>1, <1>3, <1>4, <1>6, <1>7, <1>8, <1>9, <1>10, <1>11 DEF Begins

LEMMA LookAtEffect ==
  ASSUME TypeInv, LookAt
  PROVE  /\ x.pc = "file" /\ x.todo # <<>> /\ UNCHANGED <<live, backups, restore, crashes, history>>
         /\ x'.count = x.count
         /\ \/ GoesTo("move") /\ live[File] # 0
            \/ GoesTo("add") /\ live[File] = 0
BY ExtractionGoes DEF LookAt

LEMMA MoveEffect ==
  ASSUME TypeInv, MoveExisting
  PROVE  /\ x.pc = "move" /\ live[File] # 0 /\ UNCHANGED <<crashes, history>> /\ Interrupted
         /\ GoesTo("note") /\ x'.count = x.count
         /\ live' \in Folder /\ backups' \in [Ids -> Backup]
         /\ live'[File] = 0 /\ \A n \in Names \ {File} : live'[n] = live[n]
         /\ \A b \in Ids \ {x.id} : backups'[b] = backups[b]
         /\ backups'[x.id].manifest = backups[x.id].manifest
         /\ backups'[x.id].lines = backups[x.id].lines
         /\ backups'[x.id].old[File] = live[File]
         /\ \A n \in Names \ {File} : backups'[x.id].old[n] = backups[x.id].old[n]
<1>1. x.pc = "move" /\ live[File] # 0 /\ UNCHANGED <<crashes, history>> /\ restore' = Disturbed
      /\ backups' = [backups EXCEPT ![x.id].old[File] = live[File]]
      /\ live' = [live EXCEPT ![File] = 0] /\ extraction' = [x EXCEPT !.pc = "note"]
  BY DEF MoveExisting
<1>2. GoesTo("note") /\ x'.count = x.count /\ Interrupted
  BY <1>1, ExtractionGoes, DisturbedIs
<1>3. x.id \in Ids /\ File \in Names
  BY <1>1, ExtractionIs DEF TypeInv, Counted, Extracting
<1>4. live \in [Names -> Versions] /\ backups \in [Ids -> Backup]
  BY DEF TypeInv, BackupTypeOK, Folder
<1>5. live' \in Folder /\ live'[File] = 0 /\ \A n \in Names \ {File} : live'[n] = live[n]
  BY <1>1, <1>3, <1>4, VersionsAre DEF Folder
<1>6. backups[x.id] \in Backup /\ backups[x.id].old \in [Names -> Versions]
  BY <1>3, <1>4 DEF Backup, Folder
<1>7. /\ backups'[x.id] = [backups[x.id] EXCEPT !.old = [@ EXCEPT ![File] = live[File]]]
      /\ \A b \in Ids \ {x.id} : backups'[b] = backups[b]
  BY <1>1, <1>3, <1>4
<1> DEFINE moved == [backups[x.id].old EXCEPT ![File] = live[File]]
<1>12. /\ moved \in Folder /\ moved[File] = live[File]
       /\ \A n \in Names \ {File} : moved[n] = backups[x.id].old[n]
  BY <1>3, <1>4, <1>6 DEF Folder
<1>13. backups'[x.id] = [backups[x.id] EXCEPT !.old = moved]
  BY <1>7
<1> HIDE DEF moved
<1>14. /\ backups'[x.id] \in Backup /\ backups'[x.id].old = moved
       /\ backups'[x.id].manifest = backups[x.id].manifest
       /\ backups'[x.id].lines = backups[x.id].lines
  BY <1>6, <1>12, <1>13 DEF Backup
<1>8. /\ backups'[x.id] \in Backup
      /\ backups'[x.id].manifest = backups[x.id].manifest
      /\ backups'[x.id].lines = backups[x.id].lines
      /\ backups'[x.id].old[File] = live[File]
      /\ \A n \in Names \ {File} : backups'[x.id].old[n] = backups[x.id].old[n]
  BY <1>12, <1>14
<1>9. backups' \in [Ids -> Backup]
  BY <1>1, <1>3, <1>4, <1>7, <1>8
<1>10. QED  BY <1>1, <1>2, <1>5, <1>7, <1>8, <1>9

(* The manifest of the extraction at work has one line more, if it is there.   *)
Notes(tag) ==
  /\ backups' \in [Ids -> Backup] /\ \A b \in Ids \ {x.id} : backups'[b] = backups[b]
  /\ backups'[x.id].manifest = backups[x.id].manifest
  /\ backups'[x.id].old = backups[x.id].old
  /\ ~backups[x.id].manifest => backups'[x.id].lines = backups[x.id].lines
  /\ backups[x.id].manifest =>
       /\ Named(backups'[x.id].lines) = Named(backups[x.id].lines) \cup {File}
       /\ Range(backups[x.id].lines) \cup {[tag |-> tag, name |-> File]}
            \subseteq Range(backups'[x.id].lines)
       /\ \A i \in Listed(backups'[x.id].lines, "A") :
            \/ i \in Listed(backups[x.id].lines, "A") /\ backups'[x.id].lines[i] = backups[x.id].lines[i]
            \/ tag = "A" /\ backups'[x.id].lines[i].name = File

LEMMA NotedIs ==
  ASSUME TypeInv, x.pc \in {"note", "add"}, NEW tag \in {"A", "O"}, backups' = Noted(tag)
  PROVE  Notes(tag)
<1> DEFINE line == [tag |-> tag, name |-> File]
           lines == backups[x.id].lines
<1>1. x.id \in Ids /\ File \in Names
  BY ExtractionIs DEF TypeInv, Counted, Extracting
<1>2. line \in Line /\ line.tag = tag /\ line.name = File
  BY <1>1 DEF Line
<1>3. backups \in [Ids -> Backup] /\ lines \in Seq(Line) /\ backups[x.id].manifest \in BOOLEAN
      /\ backups[x.id] \in Backup
  BY <1>1, BackupIs DEF TypeInv, BackupTypeOK
<1>4. \A b \in Ids \ {x.id} : backups'[b] = backups[b]
  BY <1>3 DEF Noted
<1>5. CASE ~backups[x.id].manifest
  <2>1. backups' = [backups EXCEPT ![x.id].lines = @]
    BY <1>5 DEF Noted
  <2>2. backups'[x.id] = [backups[x.id] EXCEPT !.lines = @]
    BY <1>1, <1>3, <2>1
  <2>3. backups'[x.id] = backups[x.id]
    BY <1>3, <2>2 DEF Backup
  <2>4. backups' \in [Ids -> Backup]
    BY <1>1, <1>3, <1>4, <2>1, <2>3
  <2>5. QED  BY <1>4, <1>5, <2>3, <2>4 DEF Notes
<1>6. CASE backups[x.id].manifest
  <2>1. backups' = [backups EXCEPT ![x.id].lines = Append(@, line)]
    BY <1>6 DEF Noted
  <2>2. backups'[x.id] = [backups[x.id] EXCEPT !.lines = Append(@, line)]
    BY <1>1, <1>3, <2>1
  <2>3. Append(lines, line) \in Seq(Line) /\ Len(lines) \in Nat
        /\ Len(Append(lines, line)) = Len(lines) + 1
        /\ Append(lines, line)[Len(lines) + 1] = line
        /\ \A i \in 1 .. Len(lines) : Append(lines, line)[i] = lines[i]
        /\ DOMAIN lines = 1 .. Len(lines)
        /\ DOMAIN Append(lines, line) = 1 .. Len(lines) + 1
    BY <1>2, <1>3
  <2>4. /\ backups'[x.id] \in Backup /\ backups'[x.id].lines = Append(lines, line)
        /\ backups'[x.id].manifest = backups[x.id].manifest
        /\ backups'[x.id].old = backups[x.id].old
    BY <1>3, <2>2, <2>3 DEF Backup
  <2>5. backups' \in [Ids -> Backup]
    BY <1>1, <1>3, <1>4, <2>1, <2>4
  <2> HIDE DEF line, lines
  <2>6. \A i \in DOMAIN Append(lines, line) : i \in DOMAIN lines \/ i = Len(lines) + 1
    BY <2>3
  <2>7. Len(lines) + 1 \in DOMAIN Append(lines, line)
        /\ \A i \in DOMAIN lines : i \in DOMAIN Append(lines, line)
    BY <2>3
  <2>8. Named(Append(lines, line)) = Named(lines) \cup {File}
    BY <1>2, <2>3, <2>6, <2>7 DEF Named
  <2>9. Range(lines) \cup {line} \subseteq Range(Append(lines, line))
    BY <2>3, <2>7 DEF Range
  <2>10. \A i \in Listed(Append(lines, line), "A") :
           \/ i \in Listed(lines, "A") /\ Append(lines, line)[i] = lines[i]
           \/ tag = "A" /\ Append(lines, line)[i].name = File
    BY <1>2, <2>3, <2>6 DEF Listed
  <2>11. QED  BY <1>4, <1>6, <2>4, <2>5, <2>8, <2>9, <2>10 DEF Notes, lines, line
<1>7. QED  BY <1>5, <1>6

LEMMA NoteEffect ==
  ASSUME TypeInv, NoteOld \/ NoteAdded
  PROVE  /\ UNCHANGED <<live, restore, crashes, history>> /\ GoesTo("place")
         /\ x'.count = x.count + 1
         /\ \/ x.pc = "note" /\ Notes("O")
            \/ x.pc = "add" /\ Notes("A")
<1>1. CASE NoteOld
  <2>1. x.pc = "note" /\ Notes("O")
    BY <1>1, NotedIs DEF NoteOld
  <2>2. QED  BY <1>1, <2>1, ExtractionGoes DEF NoteOld
<1>2. CASE NoteAdded
  <2>1. x.pc = "add" /\ Notes("A")
    BY <1>2, NotedIs DEF NoteAdded
  <2>2. QED  BY <1>2, <2>1, ExtractionGoes DEF NoteAdded
<1>3. QED  BY <1>1, <1>2

LEMMA PlaceEffect ==
  ASSUME TypeInv, Place
  PROVE  /\ x.pc = "place" /\ x.todo # <<>> /\ UNCHANGED <<backups, crashes, history>>
         /\ Interrupted
         /\ live' \in Folder /\ live'[File] = x.next
         /\ \A n \in Names \ {File} : live'[n] = live[n]
         /\ x' \in Extraction /\ x'.pc = "file" /\ x'.id = x.id /\ x'.todo = Tail(x.todo)
         /\ x'.count = x.count /\ x'.next = x.next + 1
<1>1. x.pc = "place" /\ UNCHANGED <<backups, crashes, history>> /\ restore' = Disturbed
      /\ live' = [live EXCEPT ![File] = x.next]
      /\ extraction' = [x EXCEPT !.pc = "file", !.todo = Tail(@), !.next = @ + 1]
  BY DEF Place
<1>2. x.todo # <<>> /\ x.id \in Ids /\ File \in Names /\ Tail(x.todo) \in Seq(Names)
      /\ x.next \in Nat /\ x \in Extraction /\ Len(x.todo) \in Nat \ {0}
  BY <1>1, ExtractionIs DEF TypeInv, Counted, Extracting
<1>3. x.next \in Versions
  <2>1. x.next >= 2 /\ x.next + Len(x.todo) <= 2 + MaxEntries * x.id
    BY DEF TypeInv, Counted
  <2>2. MaxEntries * x.id <= MaxEntries * MaxBackups /\ MaxEntries * x.id \in Nat
        /\ MaxEntries * MaxBackups \in Nat
    BY <1>2, BackupAssumption DEF Ids
  <2> HIDE DEF x
  <2>3. QED  BY <1>2, <2>1, <2>2 DEF Versions
<1>4. live \in [Names -> Versions]
  BY DEF TypeInv, BackupTypeOK, Folder
<1>5. live' \in Folder /\ live'[File] = x.next /\ \A n \in Names \ {File} : live'[n] = live[n]
  BY <1>1, <1>2, <1>3, <1>4 DEF Folder
<1>6. x' \in Extraction /\ x'.pc = "file" /\ x'.id = x.id /\ x'.todo = Tail(x.todo)
      /\ x'.count = x.count /\ x'.next = x.next + 1
  <2>1. x.next + 1 \in Nat
    BY <1>2
  <2>2. QED  BY <1>1, <1>2, <2>1 DEF Extraction
<1>7. QED  BY <1>1, <1>2, <1>5, <1>6, DisturbedIs

LEMMA StopEffect ==
  ASSUME TypeInv, Stop
  PROVE  /\ x.pc \in {"file", "move", "add", "place"} /\ GoesTo("close") /\ x'.count = x.count
         /\ UNCHANGED <<live, backups, restore, crashes, history>>
BY ExtractionGoes DEF Stop

(* A backup is dropped, or stays as it is. *)
MayDrop ==
  /\ backups' \in [Ids -> Backup]
  /\ \A b \in Ids : backups'[b] = backups[b] \/ backups'[b] = NoBackup

LEMMA CloseEffect ==
  ASSUME TypeInv, Close
  PROVE  /\ x.pc = "close" /\ GoesTo("idle") /\ x'.count = x.count /\ MayDrop
         /\ \A b \in Ids \ {x.id} : backups'[b] = backups[b]
         /\ backups'[x.id] = backups[x.id] \/ (x.count = 0 /\ backups'[x.id] = NoBackup)
         /\ after' \in [Ids -> Folder] /\ after'[x.id] = live
         /\ \A b \in Ids \ {x.id} : after'[b] = after[b]
         /\ UNCHANGED <<live, restore, crashes, before, regular, unlisted>>
<1>1. x.pc = "close" /\ GoesTo("idle") /\ x'.count = x.count /\ x.id \in Ids
  BY ExtractionGoes, ExtractionIs DEF Close, Extracting
<1>2. backups \in [Ids -> Backup] /\ after \in [Ids -> Folder] /\ live \in Folder
  BY DEF TypeInv, BackupTypeOK
<1>3. /\ \/ backups' = backups
         \/ x.count = 0 /\ backups' = [backups EXCEPT ![x.id] = NoBackup]
      /\ after' = [after EXCEPT ![x.id] = live]
      /\ UNCHANGED <<live, restore, crashes, before, regular, unlisted>>
  BY DEF Close
<1>4. QED  BY <1>1, <1>2, <1>3, VersionsAre DEF MayDrop

-----------------------------------------------------------------------------
(* The steps of a restore.                                                  *)

OthersGo(r) ==
  /\ restore' \in [Restorers -> Restore]
  /\ \A s \in Restorers \ {r} :
       SameWork(s) /\ (restore'[s] = restore[s] \/ restore'[s].alone = FALSE)

OwnStep(r, pc) ==
  /\ OthersGo(r) /\ restore'[r].pc = pc
  /\ restore'[r].id = restore[r].id /\ restore'[r].lines = restore[r].lines
  /\ restore'[r].alone = restore[r].alone /\ restore'[r].fits = restore[r].fits
  /\ UNCHANGED <<extraction, crashes, history>>

Ends(r) ==
  /\ OthersGo(r) /\ restore'[r] = Idle
  /\ UNCHANGED <<live, backups, extraction, crashes, history>>

LEMMA OthersAre ==
  ASSUME TypeInv, NEW r \in Restorers, NEW new \in Restore
  PROVE  /\ restore' = [restore EXCEPT ![r] = new] => OthersGo(r) /\ restore'[r] = new
         /\ restore' = [Others(r) EXCEPT ![r] = new] =>
              /\ OthersGo(r) /\ restore'[r] = new
              /\ \A s \in Restorers \ {r} : restore'[s].alone = FALSE
         /\ Others(r)[r] = restore[r]
<1>1. restore \in [Restorers -> Restore]
  BY DEF TypeInv, BackupTypeOK
<1>2. /\ Others(r) \in [Restorers -> Restore] /\ Others(r)[r] = restore[r]
      /\ \A s \in Restorers \ {r} : Others(r)[s] = [restore[s] EXCEPT !.alone = FALSE]
  <2>1. \A s \in Restorers \ {r} : Others(r)[s] = [restore[s] EXCEPT !.alone = FALSE]
    BY DEF Others
  <2>2. Others(r)[r] = restore[r]
    BY DEF Others
  <2>3. ASSUME NEW s \in Restorers
        PROVE  [restore[s] EXCEPT !.alone = FALSE] \in Restore
    <3>1. restore[s] \in Restore
      BY <1>1
    <3>2. QED  BY <3>1 DEF Restore
  <2>4. Others(r) \in [Restorers -> Restore]
    BY <1>1, <2>3 DEF Others
  <2>5. QED  BY <2>1, <2>2, <2>4
<1>3. ASSUME NEW s \in Restorers
      PROVE  /\ [restore[s] EXCEPT !.alone = FALSE].pc = restore[s].pc
             /\ [restore[s] EXCEPT !.alone = FALSE].id = restore[s].id
             /\ [restore[s] EXCEPT !.alone = FALSE].lines = restore[s].lines
             /\ [restore[s] EXCEPT !.alone = FALSE].added = restore[s].added
             /\ [restore[s] EXCEPT !.alone = FALSE].old = restore[s].old
             /\ [restore[s] EXCEPT !.alone = FALSE].ok = restore[s].ok
             /\ [restore[s] EXCEPT !.alone = FALSE].alone = FALSE
  <2>1. restore[s] \in Restore
    BY <1>1
  <2>2. QED  BY <2>1 DEF Restore
<1>4. ASSUME restore' = [restore EXCEPT ![r] = new]
      PROVE  OthersGo(r) /\ restore'[r] = new
  BY <1>1, <1>4 DEF OthersGo, SameWork
<1>5. ASSUME restore' = [Others(r) EXCEPT ![r] = new]
      PROVE  /\ OthersGo(r) /\ restore'[r] = new
             /\ \A s \in Restorers \ {r} : restore'[s].alone = FALSE
  <2>1. restore' \in [Restorers -> Restore] /\ restore'[r] = new
        /\ \A s \in Restorers \ {r} : restore'[s] = [restore[s] EXCEPT !.alone = FALSE]
    BY <1>2, <1>5
  <2> HIDE DEF Others
  <2>2. ASSUME NEW s \in Restorers \ {r}
        PROVE  SameWork(s) /\ restore'[s].alone = FALSE
    <3>1. restore'[s] = [restore[s] EXCEPT !.alone = FALSE]
      BY <2>1
    <3>2. QED  BY <1>3, <3>1 DEF SameWork
  <2>3. QED  BY <2>1, <2>2 DEF OthersGo
<1>6. QED  BY <1>2, <1>4, <1>5

(* A restore begins with what the manifest says. *)
StartsRestore(r, b) ==
  /\ restore[r].pc = "idle" /\ backups[b].manifest
  /\ UNCHANGED <<live, backups, extraction, crashes, before, after, unlisted>>
  /\ OthersGo(r) /\ \A s \in Restorers \ {r} : restore'[s].alone = FALSE
  /\ restore'[r].pc = "delete" /\ restore'[r].id = b /\ restore'[r].lines = backups[b].lines
  /\ restore'[r].added = Listed(backups[b].lines, "A")
  /\ restore'[r].old = Listed(backups[b].lines, "O") /\ restore'[r].ok = FALSE
  /\ restore'[r].alone => x.pc = "idle" /\ \A s \in Restorers : restore[s].pc = "idle"
  /\ restore'[r].fits => live = after[b]
  /\ regular' \in [Ids -> BOOLEAN]
  /\ \A c \in Ids : regular'[c] => regular[c] /\ ~(Extracting /\ c = x.id)

LEMMA RestoreBeginEffect ==
  ASSUME TypeInv, NEW r \in Restorers, NEW b \in Ids, RestoreBegin(r, b)
  PROVE  StartsRestore(r, b)
<1> DEFINE new == [pc |-> "delete", id |-> b, lines |-> backups[b].lines,
                   added |-> Listed(backups[b].lines, "A"), old |-> Listed(backups[b].lines, "O"),
                   alone |-> x.pc = "idle" /\ \A s \in Restorers : restore[s].pc = "idle",
                   fits |-> live = after[b], ok |-> FALSE]
<1>1. backups[b].lines \in Seq(Line) /\ DOMAIN backups[b].lines \subseteq Nat
  BY BackupIs
<1>2. new \in Restore
  <2>1. Listed(backups[b].lines, "A") \in SUBSET Nat /\ Listed(backups[b].lines, "O") \in SUBSET Nat
    BY <1>1 DEF Listed
  <2>2. (x.pc = "idle" /\ \A s \in Restorers : restore[s].pc = "idle") \in BOOLEAN
        /\ (live = after[b]) \in BOOLEAN
    OBVIOUS
  <2>3. QED  BY <1>1, <2>1, <2>2 DEF Restore
<1>3. restore' = [Others(r) EXCEPT ![r] = new]
  BY Zenon DEF RestoreBegin
<1>4. /\ restore[r].pc = "idle" /\ backups[b].manifest
      /\ UNCHANGED <<live, backups, extraction, crashes, before, after, unlisted>>
      /\ regular' = [c \in Ids |-> regular[c] /\ ~(x.pc # "idle" /\ c = x.id)]
  BY DEF RestoreBegin
<1>5. OthersGo(r) /\ restore'[r] = new /\ \A s \in Restorers \ {r} : restore'[s].alone = FALSE
  BY <1>2, <1>3, OthersAre
<1>6. /\ new.pc = "delete" /\ new.id = b /\ new.lines = backups[b].lines
      /\ new.added = Listed(backups[b].lines, "A")
      /\ new.old = Listed(backups[b].lines, "O") /\ new.ok = FALSE
      /\ new.alone => x.pc = "idle" /\ \A s \in Restorers : restore[s].pc = "idle"
      /\ new.fits => live = after[b]
  OBVIOUS
<1> HIDE DEF new
<1>7. /\ regular' \in [Ids -> BOOLEAN]
      /\ \A c \in Ids : regular'[c] => regular[c] /\ ~(Extracting /\ c = x.id)
  <2>1. regular \in [Ids -> BOOLEAN]
    BY DEF TypeInv, BackupTypeOK
  <2>2. QED  BY <1>4, <2>1 DEF Extracting
<1>8. QED  BY <1>4, <1>5, <1>6, <1>7 DEF StartsRestore

LEMMA OwnIs ==
  ASSUME TypeInv, NEW r \in Restorers, NEW new \in Restore,
         new.id = restore[r].id, new.lines = restore[r].lines,
         new.alone = restore[r].alone, new.fits = restore[r].fits,
         \/ restore' = [restore EXCEPT ![r] = new]
         \/ restore' = [Others(r) EXCEPT ![r] = new],
         UNCHANGED <<extraction, crashes, history>>
  PROVE  OwnStep(r, new.pc) /\ restore'[r] = new
BY OthersAre DEF OwnStep

LEMMA EndIs ==
  ASSUME TypeInv, NEW r \in Restorers, restore' = [restore EXCEPT ![r] = Idle],
         UNCHANGED <<live, backups, extraction, crashes, history>>
  PROVE  Ends(r)
BY OthersAre, VersionsAre DEF Ends

LEMMA DeleteAddedEffect ==
  ASSUME TypeInv, NEW r \in Restorers, DeleteAdded(r)
  PROVE  \E i \in restore[r].added :
           /\ restore[r].pc = "delete" /\ OwnStep(r, "delete") /\ UNCHANGED backups
           /\ restore'[r].added = restore[r].added \ {i}
           /\ restore'[r].old = restore[r].old /\ restore'[r].ok = restore[r].ok
           /\ restore[r].lines[i].name \in Names
           /\ live' \in Folder /\ live'[restore[r].lines[i].name] = 0
           /\ \A n \in Names \ {restore[r].lines[i].name} : live'[n] = live[n]
<1> DEFINE i == Max(restore[r].added)
           new == [restore[r] EXCEPT !.pc = "delete", !.added = @ \ {i}, !.old = @, !.ok = @]
<1>1. restore[r].pc = "delete" /\ restore[r].added # {} /\ UNCHANGED <<backups, extraction, crashes, history>>
      /\ live' = [live EXCEPT ![restore[r].lines[i].name] = 0]
      /\ restore' = [Others(r) EXCEPT ![r].added = @ \ {i}]
  BY DEF DeleteAdded
<1>2. i \in restore[r].added /\ restore[r].lines[i].name \in Names /\ restore[r] \in Restore
      /\ restore \in [Restorers -> Restore] /\ live \in [Names -> Versions]
  BY <1>1, RestoreIs DEF TypeInv, BackupTypeOK, Folder
<1> HIDE DEF i
<1>3. restore[r].added \ {i} \in SUBSET Nat /\ restore[r].old \in SUBSET Nat
      /\ restore[r].ok \in BOOLEAN
  BY <1>2 DEF Restore
<1>4. new = [restore[r] EXCEPT !.added = @ \ {i}]
  BY <1>1, <1>2 DEF Restore
<1>5. restore' = [Others(r) EXCEPT ![r] = new]
  <2>1. Others(r)[r] = restore[r] /\ r \in DOMAIN Others(r)
    BY OthersAre, VersionsAre DEF Others
  <2>2. restore' = [Others(r) EXCEPT ![r] = [Others(r)[r] EXCEPT !.added = @ \ {i}]]
    BY <1>1
  <2> HIDE DEF Others, new
  <2>3. QED  BY <1>4, <2>1, <2>2
<1>9. new \in Restore /\ new.pc = "delete" /\ new.added = restore[r].added \ {i}
      /\ new.old = restore[r].old /\ new.ok = restore[r].ok
      /\ new.id = restore[r].id /\ new.lines = restore[r].lines
      /\ new.alone = restore[r].alone /\ new.fits = restore[r].fits
  BY <1>2, <1>3 DEF Restore
<1>6. /\ OwnStep(r, "delete") /\ restore'[r].added = restore[r].added \ {i}
      /\ restore'[r].old = restore[r].old /\ restore'[r].ok = restore[r].ok
  <2> HIDE DEF new
  <2>1. OwnStep(r, new.pc) /\ restore'[r] = new
    BY <1>1, <1>5, <1>9, OwnIs
  <2>2. QED  BY <1>9, <2>1
<1>7. live' \in Folder /\ live'[restore[r].lines[i].name] = 0
      /\ \A n \in Names \ {restore[r].lines[i].name} : live'[n] = live[n]
  BY <1>1, <1>2, VersionsAre DEF Folder
<1>8. QED  BY <1>1, <1>2, <1>6, <1>7

LEMMA AddedGoneEffect ==
  ASSUME TypeInv, NEW r \in Restorers, AddedGone(r)
  PROVE  /\ restore[r].pc = "delete" /\ restore[r].added = {} /\ OwnStep(r, "check")
         /\ restore'[r].added = {} /\ restore'[r].old = restore[r].old
         /\ restore'[r].ok = restore[r].ok /\ UNCHANGED <<live, backups>>
<1> DEFINE new == [restore[r] EXCEPT !.pc = "check", !.added = @, !.old = @, !.ok = @]
<1>1. restore[r].pc = "delete" /\ restore[r].added = {}
      /\ UNCHANGED <<live, backups, extraction, crashes, history>>
      /\ restore' = [restore EXCEPT ![r].pc = "check"]
  BY DEF AddedGone
<1>2. restore[r] \in Restore /\ restore \in [Restorers -> Restore]
  BY RestoreIs DEF TypeInv, BackupTypeOK
<1>3. restore[r].added \in SUBSET Nat /\ restore[r].old \in SUBSET Nat /\ restore[r].ok \in BOOLEAN
  BY <1>2 DEF Restore
<1>4. new = [restore[r] EXCEPT !.pc = "check"]
  BY <1>2 DEF Restore
<1>5. restore' = [restore EXCEPT ![r] = new]
  BY <1>1, <1>2, <1>4
<1>6. new \in Restore /\ new.pc = "check" /\ new.added = restore[r].added
      /\ new.old = restore[r].old /\ new.ok = restore[r].ok
      /\ new.id = restore[r].id /\ new.lines = restore[r].lines
      /\ new.alone = restore[r].alone /\ new.fits = restore[r].fits
  BY <1>2, <1>3 DEF Restore
<1> HIDE DEF new
<1>7. OwnStep(r, new.pc) /\ restore'[r] = new
  BY <1>1, <1>5, <1>6, OwnIs
<1>8. QED  BY <1>1, <1>6, <1>7

LEMMA CheckOldEffect ==
  ASSUME TypeInv, NEW r \in Restorers, CheckOld(r)
  PROVE  /\ restore[r].pc = "check" /\ restore[r].old # {} /\ UNCHANGED <<live, backups>>
         /\ \/ Ends(r)
            \/ /\ OwnStep(r, "clear") /\ backups[restore[r].id].old[OldName(r)] # 0
               /\ restore'[r].added = restore[r].added /\ restore'[r].old = restore[r].old
               /\ restore'[r].ok = restore[r].ok
<1> DEFINE new == [restore[r] EXCEPT !.pc = "clear", !.added = @, !.old = @, !.ok = @]
           next == IF backups[restore[r].id].old[OldName(r)] # 0
                     THEN [restore[r] EXCEPT !.pc = "clear"] ELSE Idle
<1>1. restore[r].pc = "check" /\ restore[r].old # {}
      /\ UNCHANGED <<live, backups, extraction, crashes, history>>
      /\ restore' = [restore EXCEPT ![r] = next]
  BY DEF CheckOld
<1>2. restore[r] \in Restore /\ restore \in [Restorers -> Restore]
  BY RestoreIs DEF TypeInv, BackupTypeOK
<1>3. restore[r].added \in SUBSET Nat /\ restore[r].old \in SUBSET Nat /\ restore[r].ok \in BOOLEAN
  BY <1>2 DEF Restore
<1>4. new = [restore[r] EXCEPT !.pc = "clear"]
  BY <1>2 DEF Restore
<1>8. new \in Restore /\ new.pc = "clear" /\ new.added = restore[r].added
      /\ new.old = restore[r].old /\ new.ok = restore[r].ok
      /\ new.id = restore[r].id /\ new.lines = restore[r].lines
      /\ new.alone = restore[r].alone /\ new.fits = restore[r].fits
  BY <1>2, <1>3 DEF Restore
<1>5. CASE backups[restore[r].id].old[OldName(r)] # 0
  <2>1. restore' = [restore EXCEPT ![r] = new]
    BY <1>1, <1>4, <1>5
  <2> HIDE DEF new, next
  <2>2. OwnStep(r, new.pc) /\ restore'[r] = new
    BY <1>1, <1>8, <2>1, OwnIs
  <2>3. QED  BY <1>1, <1>5, <1>8, <2>2
<1>6. CASE backups[restore[r].id].old[OldName(r)] = 0
  BY <1>1, <1>6, EndIs
<1>7. QED  BY <1>5, <1>6

LEMMA ClearLiveEffect ==
  ASSUME TypeInv, NEW r \in Restorers, ClearLive(r)
  PROVE  /\ restore[r].pc = "clear" /\ restore[r].old # {} /\ OwnStep(r, "put")
         /\ UNCHANGED backups
         /\ restore'[r].added = restore[r].added /\ restore'[r].old = restore[r].old
         /\ restore'[r].ok = restore[r].ok /\ OldName(r) \in Names
         /\ live' \in Folder /\ live'[OldName(r)] = 0
         /\ \A n \in Names \ {OldName(r)} : live'[n] = live[n]
<1> DEFINE new == [restore[r] EXCEPT !.pc = "put", !.added = @, !.old = @, !.ok = @]
<1>1. restore[r].pc = "clear" /\ UNCHANGED <<backups, extraction, crashes, history>>
      /\ live' = [live EXCEPT ![OldName(r)] = 0]
      /\ restore' = [Others(r) EXCEPT ![r].pc = "put"]
  BY DEF ClearLive
<1>2. restore[r].old # {}
  BY <1>1 DEF TypeInv, Reading, Reads
<1>3. OldName(r) \in Names /\ restore[r] \in Restore /\ restore \in [Restorers -> Restore]
      /\ live \in [Names -> Versions]
  BY <1>2, RestoreIs DEF TypeInv, BackupTypeOK, Folder
<1>4. restore[r].added \in SUBSET Nat /\ restore[r].old \in SUBSET Nat /\ restore[r].ok \in BOOLEAN
  BY <1>3 DEF Restore
<1>5. new = [restore[r] EXCEPT !.pc = "put"]
  BY <1>3 DEF Restore
<1>6. restore' = [Others(r) EXCEPT ![r] = new]
  <2>1. Others(r)[r] = restore[r] /\ r \in DOMAIN Others(r)
    BY OthersAre, VersionsAre DEF Others
  <2>2. restore' = [Others(r) EXCEPT ![r] = [Others(r)[r] EXCEPT !.pc = "put"]]
    BY <1>1
  <2> HIDE DEF Others, new
  <2>3. QED  BY <1>5, <2>1, <2>2
<1>7. live' \in Folder /\ live'[OldName(r)] = 0 /\ \A n \in Names \ {OldName(r)} : live'[n] = live[n]
  BY <1>1, <1>3, VersionsAre DEF Folder
<1>8. new \in Restore /\ new.pc = "put" /\ new.added = restore[r].added
      /\ new.old = restore[r].old /\ new.ok = restore[r].ok
      /\ new.id = restore[r].id /\ new.lines = restore[r].lines
      /\ new.alone = restore[r].alone /\ new.fits = restore[r].fits
  BY <1>3, <1>4 DEF Restore
<1> HIDE DEF new
<1>9. OwnStep(r, new.pc) /\ restore'[r] = new
  BY <1>1, <1>6, <1>8, OwnIs
<1>10. QED  BY <1>1, <1>2, <1>3, <1>7, <1>8, <1>9

LEMMA PutBackEffect ==
  ASSUME TypeInv, NEW r \in Restorers, PutBack(r)
  PROVE  /\ restore[r].pc = "put" /\ restore[r].old # {} /\ restore[r].id \in Ids
         /\ OldName(r) \in Names /\ NextOld(r) \in restore[r].old
         /\ \/ Ends(r) /\ backups[restore[r].id].old[OldName(r)] = 0
            \/ /\ OwnStep(r, "check") /\ restore'[r].added = restore[r].added
               /\ restore'[r].old = restore[r].old \ {NextOld(r)} /\ restore'[r].ok = restore[r].ok
               /\ backups[restore[r].id].old[OldName(r)] # 0
               /\ live' \in Folder /\ live'[OldName(r)] = backups[restore[r].id].old[OldName(r)]
               /\ \A n \in Names \ {OldName(r)} : live'[n] = live[n]
               /\ backups' \in [Ids -> Backup]
               /\ \A b \in Ids \ {restore[r].id} : backups'[b] = backups[b]
               /\ backups'[restore[r].id].manifest = backups[restore[r].id].manifest
               /\ backups'[restore[r].id].lines = backups[restore[r].id].lines
               /\ backups'[restore[r].id].old[OldName(r)] = 0
               /\ \A n \in Names \ {OldName(r)} :
                    backups'[restore[r].id].old[n] = backups[restore[r].id].old[n]
<1> DEFINE b == restore[r].id
           n == OldName(r)
           i == NextOld(r)
           new == [restore[r] EXCEPT !.pc = "check", !.added = @, !.old = @ \ {i}, !.ok = @]
<1>1. restore[r].pc = "put" /\ UNCHANGED <<extraction, crashes, history>>
      /\ \/ /\ backups[b].old[n] = 0 /\ restore' = [restore EXCEPT ![r] = Idle]
            /\ UNCHANGED <<live, backups>>
         \/ /\ backups[b].old[n] # 0 /\ live' = [live EXCEPT ![n] = backups[b].old[n]]
            /\ backups' = [backups EXCEPT ![b].old[n] = 0]
            /\ restore' = [Others(r) EXCEPT ![r].pc = "check", ![r].old = @ \ {i}]
  BY DEF PutBack
<1>2. restore[r].old # {} /\ b \in Ids
  BY <1>1 DEF TypeInv, Reading, Reads
<1>3. n \in Names /\ i \in restore[r].old /\ restore[r] \in Restore
      /\ restore \in [Restorers -> Restore] /\ live \in [Names -> Versions]
      /\ backups \in [Ids -> Backup]
  BY <1>2, RestoreIs DEF TypeInv, BackupTypeOK, Folder
<1> HIDE DEF n, i, b
<1>4. restore[r].added \in SUBSET Nat /\ restore[r].old \ {i} \in SUBSET Nat
      /\ restore[r].ok \in BOOLEAN
  BY <1>3 DEF Restore
<1>5. CASE backups[b].old[n] = 0
  <2>1. Ends(r)
    BY <1>1, <1>5, EndIs
  <2>2. QED  BY <1>1, <1>2, <1>3, <1>5, <2>1 DEF b, n, i
<1>6. CASE backups[b].old[n] # 0
  <2>1. live' = [live EXCEPT ![n] = backups[b].old[n]]
        /\ backups' = [backups EXCEPT ![b].old[n] = 0]
        /\ restore' = [Others(r) EXCEPT ![r].pc = "check", ![r].old = @ \ {i}]
    BY <1>1, <1>6
  <2>2. new = [restore[r] EXCEPT !.pc = "check", !.old = @ \ {i}]
    BY <1>3 DEF Restore
  <2>3. restore' = [Others(r) EXCEPT ![r] = new]
    <3>1. Others(r)[r] = restore[r] /\ r \in DOMAIN Others(r)
      BY OthersAre, VersionsAre DEF Others
    <3>2. restore' = [Others(r) EXCEPT ![r] = [Others(r)[r] EXCEPT !.pc = "check", !.old = @ \ {i}]]
      BY <2>1, <3>1 DEF Others
    <3> HIDE DEF Others, new
    <3>3. QED  BY <2>2, <3>1, <3>2
  <2>4. OwnStep(r, "check") /\ restore'[r].added = restore[r].added
        /\ restore'[r].old = restore[r].old \ {i} /\ restore'[r].ok = restore[r].ok
    <3>1. new \in Restore /\ new.pc = "check" /\ new.added = restore[r].added
          /\ new.old = restore[r].old \ {i} /\ new.ok = restore[r].ok
          /\ new.id = restore[r].id /\ new.lines = restore[r].lines
          /\ new.alone = restore[r].alone /\ new.fits = restore[r].fits
      BY <1>3, <1>4 DEF Restore
    <3> HIDE DEF new
    <3>2. OwnStep(r, new.pc) /\ restore'[r] = new
      BY <1>1, <2>3, <3>1, OwnIs
    <3>3. QED  BY <3>1, <3>2
  <2>5. backups[b] \in Backup /\ backups[b].old \in [Names -> Versions]
    BY <1>2, <1>3 DEF Backup, Folder
  <2>6. live' \in Folder /\ live'[n] = backups[b].old[n] /\ \A m \in Names \ {n} : live'[m] = live[m]
    BY <1>3, <2>1, <2>5 DEF Folder
  <2> DEFINE rest == [backups[b].old EXCEPT ![n] = 0]
  <2>7. rest \in Folder /\ rest[n] = 0 /\ \A m \in Names \ {n} : rest[m] = backups[b].old[m]
    BY <1>3, <2>5, VersionsAre DEF Folder
  <2>8. backups'[b] = [backups[b] EXCEPT !.old = rest]
        /\ \A c \in Ids \ {b} : backups'[c] = backups[c]
    BY <1>2, <1>3, <2>1
  <2> HIDE DEF rest
  <2>9. /\ backups'[b] \in Backup /\ backups'[b].old = rest
        /\ backups'[b].manifest = backups[b].manifest /\ backups'[b].lines = backups[b].lines
    BY <2>5, <2>7, <2>8 DEF Backup
  <2>10. backups' \in [Ids -> Backup]
    BY <1>2, <1>3, <2>1, <2>8, <2>9
  <2>11. QED  BY <1>1, <1>2, <1>3, <1>6, <2>4, <2>6, <2>7, <2>8, <2>9, <2>10 DEF b, n, i
<1>7. QED  BY <1>5, <1>6

LEMMA DropEffect ==
  ASSUME TypeInv, NEW r \in Restorers, DropBackup(r)
  PROVE  /\ restore[r].pc = "check" /\ restore[r].old = {} /\ OwnStep(r, "drop")
         /\ UNCHANGED live /\ MayDrop
         /\ restore'[r].added = restore[r].added /\ restore'[r].old = {}
         /\ restore'[r].ok = TRUE
<1> DEFINE new == [restore[r] EXCEPT !.pc = "drop", !.added = @, !.old = @, !.ok = TRUE]
<1>1. restore[r].pc = "check" /\ restore[r].old = {} /\ UNCHANGED <<live, extraction, crashes, history>>
      /\ backups' = [backups EXCEPT ![restore[r].id] = NoBackup]
      /\ restore' = [Others(r) EXCEPT ![r].pc = "drop", ![r].ok = TRUE]
  BY DEF DropBackup
<1>2. restore[r] \in Restore /\ restore \in [Restorers -> Restore] /\ backups \in [Ids -> Backup]
  BY RestoreIs DEF TypeInv, BackupTypeOK
<1>3. restore[r].added \in SUBSET Nat /\ restore[r].old \in SUBSET Nat
  BY <1>2 DEF Restore
<1>4. new = [restore[r] EXCEPT !.pc = "drop", !.ok = TRUE]
  BY <1>2 DEF Restore
<1>5. restore' = [Others(r) EXCEPT ![r] = new]
  <2>1. Others(r)[r] = restore[r] /\ r \in DOMAIN Others(r)
    BY OthersAre, VersionsAre DEF Others
  <2>2. restore' = [Others(r) EXCEPT ![r] = [Others(r)[r] EXCEPT !.pc = "drop", !.ok = TRUE]]
    BY <1>1, <2>1 DEF Others
  <2> HIDE DEF Others, new
  <2>3. QED  BY <1>4, <2>1, <2>2
<1>6. OwnStep(r, "drop") /\ restore'[r].added = restore[r].added
      /\ restore'[r].old = restore[r].old /\ restore'[r].ok = TRUE
  <2>1. new \in Restore /\ new.pc = "drop" /\ new.added = restore[r].added
        /\ new.old = restore[r].old /\ new.ok = TRUE
        /\ new.id = restore[r].id /\ new.lines = restore[r].lines
        /\ new.alone = restore[r].alone /\ new.fits = restore[r].fits
    BY <1>2, <1>3 DEF Restore
  <2> HIDE DEF new
  <2>2. OwnStep(r, new.pc) /\ restore'[r] = new
    BY <1>1, <1>5, <2>1, OwnIs
  <2>3. QED  BY <2>1, <2>2
<1>7. MayDrop
  BY <1>1, <1>2, VersionsAre DEF MayDrop
<1>8. QED  BY <1>1, <1>6, <1>7

LEMMA EndEffect ==
  ASSUME TypeInv, NEW r \in Restorers, RestoreDone(r) \/ RestoreFails(r)
  PROVE  Ends(r)
BY EndIs DEF RestoreDone, RestoreFails

-----------------------------------------------------------------------------
(* Removal and the end of the program.                                       *)

LEMMA RemoveEffect ==
  ASSUME TypeInv, NEW bs, RemoveBackups(bs)
  PROVE  MayDrop /\ Interrupted /\ UNCHANGED <<live, extraction, crashes, history>>
<1>1. backups \in [Ids -> Backup]
  BY DEF TypeInv, BackupTypeOK
<1>2. QED  BY <1>1, DisturbedIs, VersionsAre DEF RemoveBackups, MayDrop

LEMMA CrashEffect ==
  ASSUME TypeInv, Crash
  PROVE  /\ crashes' = crashes + 1 /\ crashes < MaxCrashes /\ GoesTo("idle") /\ x'.count = x.count
         /\ restore' \in [Restorers -> Restore] /\ \A r \in Restorers : restore'[r] = Idle
         /\ after' \in [Ids -> Folder] /\ unlisted' \in [Ids -> SUBSET Names]
         /\ \A b \in Ids : /\ unlisted[b] \subseteq unlisted'[b]
                           /\ b # x.id \/ ~Extracting => after'[b] = after[b]
         /\ Extracting => after'[x.id] = live
         /\ x.pc = "note" => File \in unlisted'[x.id]
         /\ UNCHANGED <<live, backups, before, regular>>
<1>1. /\ crashes' = crashes + 1 /\ crashes < MaxCrashes /\ extraction' = [x EXCEPT !.pc = "idle"]
      /\ restore' = [r \in Restorers |-> Idle] /\ UNCHANGED <<live, backups, before, regular>>
      /\ after' = IF x.pc = "idle" THEN after ELSE [after EXCEPT ![x.id] = live]
      /\ unlisted' = IF x.pc = "note" THEN [unlisted EXCEPT ![x.id] = @ \cup {File}] ELSE unlisted
  BY DEF Crash
<1>2. /\ after \in [Ids -> Folder] /\ live \in Folder /\ unlisted \in [Ids -> SUBSET Names]
      /\ Extracting => x.id \in Ids
      /\ x.pc = "note" => File \in Names
  BY ExtractionIs DEF TypeInv, BackupTypeOK, Counted
<1>3. /\ after' \in [Ids -> Folder] /\ (Extracting => after'[x.id] = live)
      /\ \A b \in Ids : b # x.id \/ ~Extracting => after'[b] = after[b]
  BY <1>1, <1>2 DEF Extracting
<1>5. /\ unlisted' \in [Ids -> SUBSET Names] /\ \A b \in Ids : unlisted[b] \subseteq unlisted'[b]
      /\ x.pc = "note" => File \in unlisted'[x.id]
  <2>1. CASE x.pc = "note"
    BY <1>1, <1>2, <2>1 DEF Extracting
  <2>2. CASE x.pc # "note"
    BY <1>1, <1>2, <2>2
  <2>3. QED  BY <2>1, <2>2
<1>4. QED  BY <1>1, <1>3, <1>5, ExtractionGoes, VersionsAre

-----------------------------------------------------------------------------
(* Types, counters, and what restores have read.                             *)

LEMMA OthersRead ==
  ASSUME TypeInv, NEW r \in Restorers, SameWork(r)
  PROVE  Reads(r)'
BY DEF TypeInv, Reading, Reads, SameWork

LEMMA IdleReads ==
  ASSUME NEW r \in Restorers, restore'[r] = Idle
  PROVE  Reads(r)'
BY DEF Reads, Idle, Listed

LEMMA ReadingStays ==
  ASSUME TypeInv, Interrupted \/ UNCHANGED restore
  PROVE  restore' \in [Restorers -> Restore] /\ Reading'
BY OthersRead DEF Interrupted, TypeInv, BackupTypeOK, Reading, SameWork

LEMMA ReadingEnds ==
  ASSUME TypeInv, NEW r \in Restorers, Ends(r)
  PROVE  restore' \in [Restorers -> Restore] /\ Reading'
BY OthersRead, IdleReads DEF Ends, OthersGo, Reading

LEMMA ReadingGoesOn ==
  ASSUME TypeInv, NEW r \in Restorers, NEW pc, OwnStep(r, pc), Reads(r)'
  PROVE  restore' \in [Restorers -> Restore] /\ Reading'
BY OthersRead DEF OwnStep, OthersGo, Reading

LEMMA CountedGoes ==
  ASSUME TypeInv, NEW pc, GoesTo(pc), x.pc # "idle",
         pc \in {"move", "note", "add", "place"} => x.todo # <<>>
  PROVE  Counted'
<1>1. Counted /\ x.id \in Ids
  BY ExtractionIs DEF TypeInv, Extracting
<1>2. x'.pc = pc /\ x'.id = x.id /\ x'.todo = x.todo /\ x'.next = x.next /\ MaxEntries' = MaxEntries
  BY DEF GoesTo
<1>3. Extracting' => x'.id \in Ids'
  BY <1>1, <1>2 DEF Ids
<1>4. x'.next >= 2 /\ x'.next + Len(x'.todo) <= 2 + MaxEntries * x'.id
  BY <1>1, <1>2 DEF Counted
<1>5. QED  BY <1>2, <1>3, <1>4 DEF Counted

LEMMA ExtractionTyped ==
  ASSUME TypeInv, ExtractionStep
  PROVE  TypeInv'
<1>1. BackupTypeOK /\ Counted /\ Reading /\ x.todo \in Seq(Names) /\ x.next \in Nat /\ x.id \in Nat
      /\ Len(x.todo) \in Nat
  BY ExtractionIs DEF TypeInv
<1>2. ASSUME NEW b \in Ids, NEW style \in Styles, BackupBegin(b, style)
      PROVE  TypeInv'
  <2>0. Begins(b)
    BY <1>2, BeginEffect
  <2>1. BackupTypeOK'
    <3>1. /\ live' = live /\ crashes' = crashes /\ after' = after /\ unlisted' = unlisted
          /\ backups' \in [Ids -> Backup] /\ x' \in Extraction
          /\ regular' \in [Ids -> BOOLEAN] /\ before' \in [Ids -> Folder]
          /\ restore' \in [Restorers -> Restore]
      BY <2>0 DEF Begins, Interrupted
    <3>2. QED  BY <1>1, <3>1 DEF BackupTypeOK
  <2>2. Counted'
    <3>1. b = x.id + 1 /\ x'.pc = "file" /\ x'.id = b /\ x'.next = x.next
          /\ Len(x'.todo) <= MaxEntries /\ x'.todo \in Seq(Names)
      BY <2>0 DEF Begins
    <3>2. x.next >= 2 /\ x.next + Len(x.todo) <= 2 + MaxEntries * x.id
      BY <1>1 DEF Counted
    <3>9. MaxEntries \in Nat /\ Len(x'.todo) \in Nat /\ x.id \in Nat
      BY <1>1, <3>1, BackupAssumption
    <3>3. /\ MaxEntries * (x.id + 1) = MaxEntries * x.id + MaxEntries /\ MaxEntries * x.id \in Nat
          /\ MaxEntries \in Nat /\ Len(x'.todo) \in Nat
      <4> DEFINE k == x.id
      <4>1. k \in Nat
        BY <3>9
      <4> HIDE DEF k
      <4>2. MaxEntries * (k + 1) = MaxEntries * k + MaxEntries /\ MaxEntries * k \in Nat
        BY <3>9, <4>1
      <4>3. QED  BY <3>9, <4>2 DEF k
    <3>6. MaxEntries * x'.id = MaxEntries * x.id + MaxEntries
      BY <3>1, <3>3
    <3> DEFINE m == MaxEntries * x.id
               n == x.next
    <3>7. m \in Nat /\ n \in Nat /\ n + Len(x.todo) <= 2 + m
      BY <1>1, <3>2, <3>3
    <3> HIDE DEF m, n
    <3>8. n + Len(x'.todo) <= 2 + (m + MaxEntries)
      BY <1>1, <3>1, <3>3, <3>7
    <3>4. x'.next + Len(x'.todo) <= 2 + MaxEntries * x'.id
      BY <3>1, <3>6, <3>8 DEF m, n
    <3>5. QED  BY <1>2, <3>1, <3>2, <3>4 DEF Counted, Extracting
  <2>3. Reading'
    BY <2>0, ReadingStays DEF Begins
  <2>4. QED  BY <2>1, <2>2, <2>3 DEF TypeInv
<1>3. CASE LookAt
  <2>1. BackupTypeOK' /\ Counted'
    BY <1>1, <1>3, LookAtEffect, CountedGoes DEF BackupTypeOK, GoesTo, history
  <2>2. QED  BY <1>3, <2>1, LookAtEffect, ReadingStays DEF TypeInv
<1>4. CASE MoveExisting
  <2>1. x.todo # <<>> /\ x.pc = "move"
    BY <1>1, <1>4, MoveEffect DEF Counted
  <2>2. BackupTypeOK'
    BY <1>1, <1>4, MoveEffect DEF BackupTypeOK, GoesTo, Interrupted, history
  <2>3. Counted'
    BY <1>4, <2>1, MoveEffect, CountedGoes
  <2>4. QED  BY <1>4, <2>2, <2>3, MoveEffect, ReadingStays DEF TypeInv
<1>5. CASE NoteOld \/ NoteAdded
  <2>1. x.todo # <<>> /\ x.pc \in {"note", "add"}
    BY <1>1, <1>5, NoteEffect DEF Counted
  <2>2. BackupTypeOK'
    BY <1>1, <1>5, NoteEffect DEF BackupTypeOK, GoesTo, Notes, history
  <2>3. Counted'
    BY <1>5, <2>1, NoteEffect, CountedGoes
  <2>4. QED  BY <1>5, <2>2, <2>3, NoteEffect, ReadingStays DEF TypeInv
<1>6. CASE Place
  <2>1. BackupTypeOK'
    BY <1>1, <1>6, PlaceEffect DEF BackupTypeOK, Interrupted, history
  <2>2. Counted'
    <3>1. x.todo # <<>> /\ x.pc = "place" /\ x'.pc = "file" /\ x'.id = x.id
          /\ x'.todo = Tail(x.todo) /\ x'.next = x.next + 1
      BY <1>6, PlaceEffect
    <3>2. Len(x'.todo) = Len(x.todo) - 1
      BY <3>1, ExtractionIs
    <3>3. x.next >= 2 /\ x.next + Len(x.todo) <= 2 + MaxEntries * x.id /\ x.id \in Ids
      BY <1>1, <3>1 DEF Counted, Extracting
    <3>4. MaxEntries * x.id \in Nat
      BY <1>1, BackupAssumption
    <3> HIDE DEF x
    <3>5. x'.next >= 2 /\ x'.next + Len(x'.todo) <= 2 + MaxEntries * x'.id
      BY <1>1, <3>1, <3>2, <3>3, <3>4
    <3>6. QED  BY <3>1, <3>3, <3>5 DEF Counted, Extracting, Ids
  <2>3. QED  BY <1>6, <2>1, <2>2, PlaceEffect, ReadingStays DEF TypeInv
<1>7. CASE Stop
  <2>1. BackupTypeOK'
    BY <1>1, <1>7, StopEffect DEF BackupTypeOK, GoesTo, history
  <2>2. Counted'
    BY <1>7, StopEffect, CountedGoes
  <2>3. QED  BY <1>7, <2>1, <2>2, StopEffect, ReadingStays DEF TypeInv
<1>8. CASE Close
  <2>1. BackupTypeOK'
    BY <1>1, <1>8, CloseEffect DEF BackupTypeOK, GoesTo, MayDrop
  <2>2. Counted'
    BY <1>8, CloseEffect, CountedGoes
  <2>3. QED  BY <1>8, <2>1, <2>2, CloseEffect, ReadingStays DEF TypeInv
<1>9. QED  BY <1>2, <1>3, <1>4, <1>5, <1>6, <1>7, <1>8 DEF ExtractionStep

LEMMA CountedStays ==
  ASSUME TypeInv, UNCHANGED extraction
  PROVE  Counted' /\ x' \in Extraction
<1>1. Counted /\ x \in Extraction
  BY DEF TypeInv, BackupTypeOK
<1>2. QED  BY <1>1 DEF Counted, Extracting, Ids, Extraction

LEMMA RestoreTyped ==
  ASSUME TypeInv, NEW r \in Restorers, RestoreStep(r)
  PROVE  TypeInv'
<1>1. BackupTypeOK /\ Reads(r) /\ restore[r].added \in SUBSET Nat
  BY RestoreIs DEF TypeInv, Reading
<1>2. ASSUME NEW b \in Ids, RestoreBegin(r, b)
      PROVE  TypeInv'
  <2>0. StartsRestore(r, b)
    BY <1>2, RestoreBeginEffect
  <2>1. /\ UNCHANGED <<live, backups, extraction, crashes, before, after, unlisted>>
        /\ OthersGo(r) /\ regular' \in [Ids -> BOOLEAN]
        /\ restore'[r].pc = "delete" /\ restore'[r].id = b /\ restore'[r].lines = backups[b].lines
        /\ restore'[r].added = Listed(backups[b].lines, "A")
        /\ restore'[r].old = Listed(backups[b].lines, "O") /\ restore'[r].ok = FALSE
    BY <2>0 DEF StartsRestore
  <2>2. Reads(r)'
    BY <2>1 DEF Reads
  <2>3. Reading' /\ restore' \in [Restorers -> Restore]
    BY <2>1, <2>2, OthersRead DEF OthersGo, Reading
  <2>4. BackupTypeOK'
    BY <1>1, <2>1, <2>3, CountedStays DEF BackupTypeOK
  <2>5. QED  BY <2>1, <2>3, <2>4, CountedStays DEF TypeInv
<1>3. ASSUME restore' \in [Restorers -> Restore], Reading', UNCHANGED <<extraction, crashes, history>>,
             live' \in Folder, backups' \in [Ids -> Backup]
      PROVE  TypeInv'
  <2>1. BackupTypeOK'
    BY <1>1, <1>3, CountedStays DEF BackupTypeOK, history
  <2>2. QED  BY <1>3, <2>1, CountedStays DEF TypeInv
<1>4. live \in Folder /\ backups \in [Ids -> Backup]
  BY <1>1 DEF BackupTypeOK
<1>5. ASSUME Ends(r)
      PROVE  TypeInv'
  <2>1. Reading' /\ restore' \in [Restorers -> Restore]
    BY <1>5, ReadingEnds
  <2>2. UNCHANGED <<live, backups, extraction, crashes, history>>
    BY <1>5 DEF Ends
  <2>3. QED  BY <1>3, <1>4, <2>1, <2>2
<1>6. ASSUME NEW pc, OwnStep(r, pc), Reads(r)', live' \in Folder, backups' \in [Ids -> Backup]
      PROVE  TypeInv'
  <2>1. Reading' /\ restore' \in [Restorers -> Restore]
    BY <1>6, ReadingGoesOn
  <2>2. UNCHANGED <<extraction, crashes, history>>
    BY <1>6 DEF OwnStep
  <2>3. QED  BY <1>3, <1>6, <2>1, <2>2
<1>7. CASE DeleteAdded(r)
  <2>1. PICK i \in restore[r].added :
           /\ restore[r].pc = "delete" /\ OwnStep(r, "delete") /\ UNCHANGED backups
           /\ restore'[r].added = restore[r].added \ {i}
           /\ restore'[r].old = restore[r].old /\ restore'[r].ok = restore[r].ok
           /\ live' \in Folder
    BY <1>7, DeleteAddedEffect
  <2>2. Reads(r)'
    BY <1>1, <2>1 DEF Reads, OwnStep
  <2>3. QED  BY <1>4, <1>6, <2>1, <2>2
<1>8. CASE AddedGone(r)
  <2>1. Reads(r)'
    BY <1>1, <1>8, AddedGoneEffect DEF Reads, OwnStep
  <2>2. QED  BY <1>4, <1>6, <1>8, <2>1, AddedGoneEffect
<1>9. CASE CheckOld(r)
  <2>1. CASE OwnStep(r, "clear")
    <3>1. Reads(r)'
      BY <1>1, <1>9, <2>1, CheckOldEffect DEF Reads, OwnStep, Ends, Idle
    <3>2. QED  BY <1>4, <1>6, <1>9, <2>1, <3>1, CheckOldEffect
  <2>2. QED  BY <1>5, <1>9, <2>1, CheckOldEffect
<1>10. CASE ClearLive(r)
  <2>1. Reads(r)'
    BY <1>1, <1>10, ClearLiveEffect DEF Reads, OwnStep
  <2>2. QED  BY <1>4, <1>6, <1>10, <2>1, ClearLiveEffect
<1>11. CASE PutBack(r)
  <2>1. CASE Ends(r)
    BY <1>5, <2>1
  <2>2. CASE ~Ends(r)
    <3>1. /\ OwnStep(r, "check") /\ restore'[r].added = restore[r].added /\ restore[r].pc = "put"
          /\ restore'[r].old = restore[r].old \ {NextOld(r)} /\ restore'[r].ok = restore[r].ok
          /\ live' \in Folder /\ backups' \in [Ids -> Backup]
      BY <1>11, <2>2, PutBackEffect
    <3>2. Reads(r)'
      BY <1>1, <3>1 DEF Reads, OwnStep
    <3>3. QED  BY <1>6, <3>1, <3>2
  <2>3. QED  BY <2>1, <2>2
<1>12. CASE DropBackup(r)
  <2>1. Reads(r)'
    BY <1>1, <1>12, DropEffect DEF Reads, OwnStep
  <2>2. backups' \in [Ids -> Backup]
    BY <1>12, DropEffect DEF MayDrop
  <2>3. QED  BY <1>4, <1>6, <1>12, <2>1, <2>2, DropEffect
<1>13. CASE RestoreDone(r) \/ RestoreFails(r)
  BY <1>5, <1>13, EndEffect
<1>14. QED
  BY <1>2, <1>7, <1>8, <1>9, <1>10, <1>11, <1>12, <1>13 DEF RestoreStep

LEMMA TypeStep ==
  ASSUME TypeInv, BackupNext
  PROVE  TypeInv'
<1>1. BackupTypeOK /\ live \in Folder /\ regular \in [Ids -> BOOLEAN] /\ crashes \in 0 .. MaxCrashes
  BY DEF TypeInv, BackupTypeOK
<1>2. ASSUME NEW bs, RemoveBackups(bs)
      PROVE  TypeInv'
  <2>1. restore' \in [Restorers -> Restore] /\ Reading' /\ backups' \in [Ids -> Backup]
    BY <1>2, RemoveEffect, ReadingStays DEF MayDrop
  <2>2. BackupTypeOK'
    BY <1>1, <1>2, <2>1, RemoveEffect, CountedStays DEF BackupTypeOK, history
  <2>3. QED  BY <1>2, <2>1, <2>2, RemoveEffect, CountedStays DEF TypeInv
<1>3. CASE Crash
  <2>1. Reading'
    BY <1>3, CrashEffect, IdleReads DEF Reading
  <2>2. crashes' \in 0 .. MaxCrashes
    BY <1>1, <1>3, CrashEffect, BackupAssumption
  <2>3. BackupTypeOK'
    BY <1>1, <1>3, <2>2, CrashEffect DEF BackupTypeOK, GoesTo
  <2>4. Counted'
    <3>1. Counted /\ GoesTo("idle")
      BY <1>3, CrashEffect DEF TypeInv
    <3>2. QED  BY <3>1 DEF Counted, Extracting, GoesTo
  <2>5. QED  BY <2>1, <2>3, <2>4 DEF TypeInv
<1>4. QED  BY <1>2, <1>3, ExtractionTyped, RestoreTyped DEF BackupNext

-----------------------------------------------------------------------------
(* What lies in a backup is listed, and lies nowhere else.                   *)

(* Only moving a file there adds to a backup. *)
Shrinks(b) ==
  \A n \in Names :
    /\ backups'[b].old[n] \in {0, backups[b].old[n]}
    /\ backups'[b].old[n] # 0 /\ backups'[b].manifest =>
         backups[b].manifest /\ Range(backups[b].lines) \subseteq Range(backups'[b].lines)

LEMMA Unchanged == \A b : UNCHANGED backups => Shrinks(b)
BY DEF Shrinks

LEMMA DropShrinks ==
  ASSUME TypeInv, MayDrop, NEW b \in Ids
  PROVE  Shrinks(b)
BY DEF Shrinks, MayDrop, NoBackup, Empty

LEMMA RestoreShrinks ==
  ASSUME TypeInv, NEW r \in Restorers, RestoreStep(r), NEW b \in Ids
  PROVE  Shrinks(b)
<1>1. CASE PutBack(r)
  <2>1. UNCHANGED backups \/ ~Ends(r)
    BY DEF Ends
  <2>2. CASE ~Ends(r)
    <3>1. /\ \A c \in Ids \ {restore[r].id} : backups'[c] = backups[c]
          /\ backups'[restore[r].id].manifest = backups[restore[r].id].manifest
          /\ backups'[restore[r].id].lines = backups[restore[r].id].lines
          /\ backups'[restore[r].id].old[OldName(r)] = 0
          /\ \A n \in Names \ {OldName(r)} :
               backups'[restore[r].id].old[n] = backups[restore[r].id].old[n]
      BY <1>1, <2>2, PutBackEffect
    <3>2. CASE b = restore[r].id
      BY <3>1, <3>2 DEF Shrinks
    <3>3. CASE b # restore[r].id
      BY <3>1, <3>3 DEF Shrinks
    <3>4. QED  BY <3>2, <3>3
  <2>3. QED  BY <2>1, <2>2, Unchanged
<1>2. CASE DropBackup(r)
  BY <1>2, DropEffect, DropShrinks
<1>3. CASE ~PutBack(r) /\ ~DropBackup(r)
  <2>1. UNCHANGED backups
    BY <1>3 DEF RestoreStep, RestoreBegin, DeleteAdded, AddedGone, CheckOld, ClearLive,
                RestoreDone, RestoreFails
  <2>2. QED  BY <2>1, Unchanged
<1>4. QED  BY <1>1, <1>2, <1>3

LEMMA ExtractionShrinks ==
  ASSUME TypeInv, ExtractionStep, ~MoveExisting, NEW b \in Ids
  PROVE  Shrinks(b)
<1>1. ASSUME NEW c \in Ids, NEW style \in Styles, BackupBegin(c, style)
      PROVE  Shrinks(b)
  <2>0. (\A d \in Ids \ {c} : backups'[d] = backups[d]) /\ \A n \in Names : backups'[c].old[n] = 0
    <3>1. Begins(c)
      BY <1>1, BeginEffect
    <3>2. QED  BY <3>1 DEF Begins
  <2>1. CASE b = c
    BY <2>0, <2>1 DEF Shrinks
  <2>2. CASE b # c
    BY <2>0, <2>2 DEF Shrinks
  <2>3. QED  BY <2>1, <2>2
<1>2. CASE NoteOld \/ NoteAdded
  <2>1. PICK tag : Notes(tag)
    BY <1>2, NoteEffect
  <2>2. CASE b = x.id
    BY <2>1, <2>2, BackupIs DEF Shrinks, Notes
  <2>3. CASE b # x.id
    BY <2>1, <2>3 DEF Shrinks, Notes
  <2>4. QED  BY <2>2, <2>3
<1>3. CASE Close
  BY <1>3, CloseEffect, DropShrinks
<1>4. CASE LookAt \/ Place \/ Stop
  <2>1. UNCHANGED backups
    BY <1>4 DEF LookAt, Place, Stop
  <2>2. QED  BY <2>1, Unchanged
<1>5. QED  BY <1>1, <1>2, <1>3, <1>4 DEF ExtractionStep

LEMMA AllShrink ==
  ASSUME TypeInv, BackupNext, ~MoveExisting, NEW b \in Ids
  PROVE  Shrinks(b)
<1>1. CASE Crash
  BY <1>1, CrashEffect, Unchanged
<1>2. ASSUME NEW bs, RemoveBackups(bs)
      PROVE  Shrinks(b)
  BY <1>2, RemoveEffect, DropShrinks
<1>3. QED  BY <1>1, <1>2, ExtractionShrinks, RestoreShrinks DEF BackupNext

Moving(b, n) == x.pc = "note" /\ x.id = b /\ File = n
HasLine(b, n) == [tag |-> "O", name |-> n] \in Range(backups[b].lines)

LEMMA UnlistedStays ==
  ASSUME TypeInv, BackupNext, NEW b \in Ids
  PROVE  unlisted[b] \subseteq unlisted'[b]
<1>1. CASE Crash
  BY <1>1, CrashEffect
<1>2. CASE ~Crash
  <2>1. UNCHANGED unlisted
    BY <1>2 DEF BackupNext, RemoveBackups, RestoreStep, RestoreBegin, DeleteAdded, AddedGone,
           CheckOld, ClearLive, PutBack, DropBackup, RestoreDone, RestoreFails,
           ExtractionStep, LookAt, MoveExisting, NoteOld, NoteAdded, Place, Stop, Close,
           BackupBegin, history
  <2>2. QED  BY <2>1
<1>3. QED  BY <1>1, <1>2

LEMMA OldIsListedStep ==
  ASSUME TypeInv, OldIsListed, BackupNext
  PROVE  OldIsListed'
<1> SUFFICES ASSUME NEW b \in Ids, NEW n \in Names, n \notin unlisted'[b],
                    backups'[b].manifest, backups'[b].old[n] # 0, ~Moving(b, n)'
             PROVE  HasLine(b, n)'
  BY DEF OldIsListed, Ids, Moving, HasLine, File
<1>0. n \notin unlisted[b]
  BY UnlistedStays
<1>1. backups[b].manifest /\ backups[b].old[n] # 0 /\ ~Moving(b, n) => HasLine(b, n)
  BY <1>0 DEF OldIsListed, Moving, HasLine
<1>2. CASE MoveExisting
  <2>1. ~Moving(b, n)
    BY <1>2, MoveEffect DEF Moving
  <2>2. CASE b = x.id /\ n = File
    BY <1>2, <2>2, MoveEffect DEF Moving, GoesTo, File
  <2>3. CASE b = x.id /\ n # File
    BY <1>1, <1>2, <2>1, <2>3, MoveEffect DEF HasLine
  <2>4. CASE b # x.id
    BY <1>1, <1>2, <2>1, <2>4, MoveEffect DEF HasLine
  <2>5. QED  BY <2>2, <2>3, <2>4
<1>3. CASE ~MoveExisting
  <2>1. backups[b].old[n] # 0 /\ backups[b].manifest
        /\ Range(backups[b].lines) \subseteq Range(backups'[b].lines)
    BY <1>3, AllShrink DEF Shrinks
  <2>2. CASE ~Moving(b, n)
    BY <1>1, <2>1, <2>2 DEF HasLine
  <2>3. CASE Moving(b, n)
    <3>1. CASE NoteOld
      <4>1. Notes("O") /\ b = x.id /\ n = File
        BY <2>3, <3>1, NoteEffect DEF Moving
      <4>2. QED  BY <2>1, <4>1 DEF Notes, HasLine
    <3>2. CASE UNCHANGED extraction
      BY <2>3, <3>2 DEF Moving, File
    <3>3. CASE Crash
      BY <2>3, <3>3, CrashEffect DEF Moving
    <3>4. CASE ExtractionStep /\ ~NoteOld
      <4>1. x.pc = "note"
        BY <2>3 DEF Moving
      <4>2. QED
        BY <3>4, <4>1 DEF ExtractionStep, LookAt, MoveExisting, NoteAdded, Place, Stop, Close,
                          BackupBegin
    <3>5. QED
      BY <3>1, <3>2, <3>3, <3>4
         DEF BackupNext, RemoveBackups, RestoreStep, RestoreBegin, DeleteAdded, AddedGone,
             CheckOld, ClearLive, PutBack, DropBackup, RestoreDone, RestoreFails
  <2>4. QED  BY <2>2, <2>3
<1>4. QED  BY <1>2, <1>3

LEMMA OnePlaceShrinks ==
  ASSUME TypeInv, OnePlace, \A b \in Ids : Shrinks(b), x'.next = x.next,
         \A n \in Names : live'[n] \in {0, live[n]}
  PROVE  OnePlace'
<1> SUFFICES ASSUME NEW n \in Names, NEW b \in Ids
             PROVE  /\ live'[n] < x'.next /\ backups'[b].old[n] < x'.next
                    /\ live'[n] # 0 => backups'[b].old[n] # live'[n]
                    /\ \A c \in Ids \ {b} :
                         backups'[b].old[n] # 0 => backups'[b].old[n] # backups'[c].old[n]
  BY DEF OnePlace, Ids
<1>1. x.next \in Nat /\ x.next >= 2
  BY ExtractionIs DEF TypeInv, Counted
<1>2. live'[n] \in {0, live[n]} /\ \A c \in Ids : backups'[c].old[n] \in {0, backups[c].old[n]}
  BY DEF Shrinks
<1>3. live[n] < x.next /\ backups[b].old[n] < x.next
  BY DEF OnePlace
<1>4. live'[n] < x'.next /\ backups'[b].old[n] < x'.next
  BY <1>1, <1>2, <1>3
<1>5. live'[n] # 0 => backups'[b].old[n] # live'[n]
  BY <1>2 DEF OnePlace
<1>6. \A c \in Ids \ {b} : backups'[b].old[n] # 0 => backups'[b].old[n] # backups'[c].old[n]
  BY <1>2 DEF OnePlace
<1>7. QED  BY <1>4, <1>5, <1>6

LEMMA OnePlaceMoves ==
  ASSUME TypeInv, OnePlace, MoveExisting
  PROVE  OnePlace'
<1>1. /\ live[File] # 0 /\ GoesTo("note") /\ live'[File] = 0
      /\ \A n \in Names \ {File} : live'[n] = live[n]
      /\ \A b \in Ids \ {x.id} : backups'[b] = backups[b]
      /\ backups'[x.id].old[File] = live[File]
      /\ \A n \in Names \ {File} : backups'[x.id].old[n] = backups[x.id].old[n]
      /\ x.next \in Nat /\ x.next >= 2
  BY MoveEffect, ExtractionIs DEF TypeInv, Counted
<1> SUFFICES ASSUME NEW n \in Names, NEW b \in Ids
             PROVE  /\ live'[n] < x'.next /\ backups'[b].old[n] < x'.next
                    /\ live'[n] # 0 => backups'[b].old[n] # live'[n]
                    /\ \A c \in Ids \ {b} :
                         backups'[b].old[n] # 0 => backups'[b].old[n] # backups'[c].old[n]
  BY DEF OnePlace, Ids
<1>2. /\ live[n] < x.next /\ backups[b].old[n] < x.next
      /\ live[n] # 0 => \A c \in Ids : backups[c].old[n] # live[n]
      /\ \A c \in Ids \ {b} : backups[b].old[n] # 0 => backups[b].old[n] # backups[c].old[n]
  BY DEF OnePlace
<1>3. CASE n # File
  <2>1. live'[n] = live[n] /\ \A c \in Ids : backups'[c].old[n] = backups[c].old[n]
    BY <1>1, <1>3
  <2>2. QED  BY <1>1, <1>2, <2>1 DEF GoesTo
<1>4. CASE n = File
  <2>1. live'[n] = 0 /\ backups'[x.id].old[n] = live[n] /\ live[n] # 0
        /\ \A c \in Ids \ {x.id} : backups'[c].old[n] = backups[c].old[n]
    BY <1>1, <1>4
  <2>2. live'[n] < x'.next /\ backups'[b].old[n] < x'.next
    BY <1>1, <1>2, <2>1 DEF GoesTo
  <2>3. \A c \in Ids \ {b} : backups'[b].old[n] # 0 => backups'[b].old[n] # backups'[c].old[n]
    BY <1>2, <2>1
  <2>4. QED  BY <2>1, <2>2, <2>3
<1>5. QED  BY <1>3, <1>4

LEMMA OnePlacePlaces ==
  ASSUME TypeInv, OnePlace, Place
  PROVE  OnePlace'
<1>1. /\ UNCHANGED backups /\ live'[File] = x.next /\ x'.next = x.next + 1
      /\ \A n \in Names \ {File} : live'[n] = live[n]
      /\ x.next \in Nat /\ x.next >= 2
  BY PlaceEffect, ExtractionIs DEF TypeInv, Counted
<1> SUFFICES ASSUME NEW n \in Names, NEW b \in Ids
             PROVE  /\ live'[n] < x'.next /\ backups'[b].old[n] < x'.next
                    /\ live'[n] # 0 => backups'[b].old[n] # live'[n]
                    /\ \A c \in Ids \ {b} :
                         backups'[b].old[n] # 0 => backups'[b].old[n] # backups'[c].old[n]
  BY DEF OnePlace, Ids
<1>2. /\ live[n] < x.next /\ backups[b].old[n] < x.next
      /\ live[n] # 0 => backups[b].old[n] # live[n]
      /\ \A c \in Ids \ {b} : backups[b].old[n] # 0 => backups[b].old[n] # backups[c].old[n]
      /\ live[n] \in Nat /\ backups[b].old[n] \in Nat
  BY BackupIs, VersionsAre DEF OnePlace
<1>3. live'[n] = live[n] \/ live'[n] = x.next
  BY <1>1
<1>4. QED  BY <1>1, <1>2, <1>3

LEMMA OnePlacePuts ==
  ASSUME TypeInv, OnePlace, NEW r \in Restorers, PutBack(r), ~Ends(r)
  PROVE  OnePlace'
<1> DEFINE k == restore[r].id
           m == OldName(r)
<1>1. /\ k \in Ids /\ m \in Names /\ UNCHANGED extraction
      /\ live'[m] = backups[k].old[m] /\ \A n \in Names \ {m} : live'[n] = live[n]
      /\ \A b \in Ids \ {k} : backups'[b] = backups[b]
      /\ backups'[k].old[m] = 0
      /\ \A n \in Names \ {m} : backups'[k].old[n] = backups[k].old[n]
      /\ x.next \in Nat /\ x.next >= 2
  BY PutBackEffect, ExtractionIs DEF TypeInv, Counted, OwnStep
<1> HIDE DEF k, m
<1> SUFFICES ASSUME NEW n \in Names, NEW b \in Ids
             PROVE  /\ live'[n] < x'.next /\ backups'[b].old[n] < x'.next
                    /\ live'[n] # 0 => backups'[b].old[n] # live'[n]
                    /\ \A c \in Ids \ {b} :
                         backups'[b].old[n] # 0 => backups'[b].old[n] # backups'[c].old[n]
  BY DEF OnePlace, Ids
<1>2. /\ live[n] < x.next /\ \A c \in Ids : backups[c].old[n] < x.next
      /\ live[n] # 0 => \A c \in Ids : backups[c].old[n] # live[n]
      /\ \A c, d \in Ids : c # d /\ backups[d].old[n] # 0 => backups[d].old[n] # backups[c].old[n]
  BY DEF OnePlace
<1>3. CASE n # m
  <2>1. live'[n] = live[n] /\ \A c \in Ids : backups'[c].old[n] = backups[c].old[n]
    BY <1>1, <1>3
  <2>2. QED  BY <1>1, <1>2, <2>1
<1>4. CASE n = m
  <2>1. live'[n] = backups[k].old[n] /\ backups'[k].old[n] = 0
        /\ \A c \in Ids \ {k} : backups'[c].old[n] = backups[c].old[n]
    BY <1>1, <1>4
  <2>2. live'[n] < x'.next /\ backups'[b].old[n] < x'.next
    BY <1>1, <1>2, <2>1
  <2>3. live'[n] # 0 => backups'[b].old[n] # live'[n]
    BY <1>1, <1>2, <2>1
  <2>4. \A c \in Ids \ {b} : backups'[b].old[n] # 0 => backups'[b].old[n] # backups'[c].old[n]
    BY <1>2, <2>1
  <2>5. QED  BY <2>2, <2>3, <2>4
<1>5. QED  BY <1>3, <1>4

LEMMA OnePlaceStep ==
  ASSUME TypeInv, OnePlace, BackupNext
  PROVE  OnePlace'
<1>1. CASE MoveExisting
  BY <1>1, OnePlaceMoves
<1>2. CASE Place
  BY <1>2, OnePlacePlaces
<1>3. ASSUME x'.next = x.next, \A n \in Names : live'[n] \in {0, live[n]}, ~MoveExisting
      PROVE  OnePlace'
  BY <1>3, OnePlaceShrinks, AllShrink
<1>4. CASE ExtractionStep /\ ~MoveExisting /\ ~Place
  <2>1. UNCHANGED live /\ x'.next = x.next
    <3>1. CASE LookAt \/ NoteOld \/ NoteAdded \/ Stop \/ Close
      BY <3>1, LookAtEffect, NoteEffect, StopEffect, CloseEffect DEF GoesTo
    <3>2. ASSUME NEW b \in Ids, NEW style \in Styles, BackupBegin(b, style)
          PROVE  UNCHANGED live /\ x'.next = x.next
      BY <3>2, BeginEffect DEF Begins
    <3>3. QED  BY <1>4, <3>1, <3>2 DEF ExtractionStep
  <2>2. QED  BY <1>3, <1>4, <2>1
<1>5. ASSUME NEW r \in Restorers, RestoreStep(r)
      PROVE  OnePlace'
  <2>0. UNCHANGED extraction /\ (MoveExisting => OnePlace')
    BY <1>1, <1>5 DEF RestoreStep, RestoreBegin, DeleteAdded, AddedGone, CheckOld, ClearLive,
                      PutBack, DropBackup, RestoreDone, RestoreFails
  <2>1. CASE PutBack(r) /\ ~Ends(r)
    BY <2>1, OnePlacePuts
  <2>2. CASE Ends(r)
    BY <1>3, <2>0, <2>2 DEF Ends
  <2>3. CASE DeleteAdded(r)
    <3>1. \A n \in Names : live'[n] \in {0, live[n]}
      BY <2>3, DeleteAddedEffect
    <3>2. QED  BY <1>3, <2>0, <3>1
  <2>4. CASE ClearLive(r)
    <3>1. \A n \in Names : live'[n] \in {0, live[n]}
      BY <2>4, ClearLiveEffect
    <3>2. QED  BY <1>3, <2>0, <3>1
  <2>5. CASE ~PutBack(r) /\ ~DeleteAdded(r) /\ ~ClearLive(r)
    <3>1. UNCHANGED live
      BY <1>5, <2>5 DEF RestoreStep, RestoreBegin, AddedGone, CheckOld, DropBackup, RestoreDone,
                        RestoreFails
    <3>2. QED  BY <1>3, <2>0, <3>1
  <2>6. QED  BY <2>1, <2>2, <2>3, <2>4, <2>5
<1>6. ASSUME NEW bs, RemoveBackups(bs)
      PROVE  OnePlace'
  BY <1>1, <1>3, <1>6, RemoveEffect
<1>7. CASE Crash
  BY <1>1, <1>3, <1>7, CrashEffect DEF GoesTo
<1>8. QED  BY <1>1, <1>2, <1>4, <1>5, <1>6, <1>7 DEF BackupNext

-----------------------------------------------------------------------------
(* The extraction at work.                                                  *)

ExtractionInv == Untouched /\ ChangesAreListed

LEMMA ExtractionBegins ==
  ASSUME TypeInv, NEW b \in Ids, NEW style \in Styles, BackupBegin(b, style)
  PROVE  ExtractionInv'
<1>1. /\ UNCHANGED live /\ backups'[b].manifest = TRUE
      /\ \A n \in Names : backups'[b].old[n] = 0
      /\ x'.pc = "file" /\ x'.id = b /\ x'.count = 0 /\ x'.todo \in Seq(Names)
      /\ regular'[b] => /\ \A r \in Restorers : restore[r].pc = "idle"
                        /\ \A i, j \in 1 .. Len(x'.todo) : x'.todo[i] = x'.todo[j] => i = j
      /\ before'[b] = live /\ Interrupted
  <2>1. Begins(b)
    BY BeginEffect
  <2>2. QED  BY <2>1 DEF Begins
<1>2. \A i \in 1 .. Len(x'.todo) : x'.todo[i] \in Names
  BY <1>1
<1>3. \A r \in Restorers : restore'[r].pc = restore[r].pc
  BY <1>1 DEF Interrupted, SameWork
<1>4. Untouched'
  BY <1>1, <1>2, <1>3 DEF Untouched, Extracting, Ahead
<1>5. ChangesAreListed'
  BY <1>1 DEF ChangesAreListed, Extracting
<1>6. QED  BY <1>4, <1>5 DEF ExtractionInv

LEMMA LookAtKeeps ==
  ASSUME TypeInv, ExtractionInv, LookAt
  PROVE  ExtractionInv'
<1>1. /\ x.pc = "file" /\ x.todo # <<>> /\ UNCHANGED <<live, backups, restore, before, regular>>
      /\ x'.count = x.count /\ x'.id = x.id /\ x'.todo = x.todo /\ File' = File
      /\ \/ x'.pc = "move" /\ live[File] # 0
         \/ x'.pc = "add" /\ live[File] = 0
  BY LookAtEffect DEF GoesTo, history, File
<1>2. Untouched'
  BY <1>1 DEF ExtractionInv, Untouched, Extracting, Ahead
<1>3. ChangesAreListed'
  BY <1>1 DEF ExtractionInv, ChangesAreListed, Extracting
<1>4. QED  BY <1>2, <1>3 DEF ExtractionInv

LEMMA MoveKeeps ==
  ASSUME TypeInv, ExtractionInv, MoveExisting
  PROVE  ExtractionInv'
<1>1. /\ x.pc = "move" /\ UNCHANGED <<before, regular>> /\ Interrupted /\ x.todo # <<>>
      /\ x'.pc = "note" /\ x'.count = x.count /\ x'.id = x.id /\ x'.todo = x.todo /\ File' = File
      /\ live'[File] = 0 /\ \A n \in Names \ {File} : live'[n] = live[n]
      /\ backups'[x.id].manifest = backups[x.id].manifest
      /\ backups'[x.id].lines = backups[x.id].lines
      /\ \A n \in Names \ {File} : backups'[x.id].old[n] = backups[x.id].old[n]
  BY MoveEffect DEF GoesTo, history, File, TypeInv, Counted
<1>2. x.todo \in Seq(Names) /\ File = x.todo[1] /\ File \in Names /\ Len(x.todo) \in Nat \ {0}
  BY <1>1, ExtractionIs
<1>3. \A i \in 1 .. Len(x.todo) : x.todo[i] \in Names
  BY <1>2
<1>4. ASSUME regular[x.id]
      PROVE  Untouched'
  <2>1. /\ \A r \in Restorers : restore[r].pc = "idle"
        /\ \A i, j \in 1 .. Len(x.todo) : x.todo[i] = x.todo[j] => i = j
        /\ \A i \in 1 .. Len(x.todo) :
             backups[x.id].old[x.todo[i]] = 0 /\ live[x.todo[i]] = before[x.id][x.todo[i]]
    BY <1>1, <1>4 DEF ExtractionInv, Untouched, Extracting, Ahead
  <2>2. \A r \in Restorers : restore'[r].pc = "idle"
    BY <1>1, <2>1 DEF Interrupted, SameWork
  <2>3. \A i \in 1 .. Len(x.todo) : i # 1 => x.todo[i] # File
    BY <1>2, <2>1
  <2>4. \A i \in 1 .. Len(x.todo) : i # 1 =>
          backups'[x.id].old[x.todo[i]] = 0 /\ live'[x.todo[i]] = before[x.id][x.todo[i]]
    BY <1>1, <1>3, <2>1, <2>3
  <2>5. QED  BY <1>1, <2>1, <2>2, <2>4 DEF Untouched, Extracting, Ahead
<1>5. Untouched'
  BY <1>1, <1>4 DEF Untouched
<1>6. ChangesAreListed'
  BY <1>1 DEF ExtractionInv, ChangesAreListed, Extracting
<1>7. QED  BY <1>5, <1>6 DEF ExtractionInv

LEMMA NoteKeeps ==
  ASSUME TypeInv, ExtractionInv, NoteOld \/ NoteAdded
  PROVE  ExtractionInv'
<1>1. /\ UNCHANGED <<live, restore, before, regular>> /\ x'.pc = "place"
      /\ x'.count = x.count + 1 /\ x'.id = x.id /\ x'.todo = x.todo /\ File' = File
      /\ x.pc \in {"note", "add"} /\ x.count \in Nat
      /\ backups'[x.id].manifest = backups[x.id].manifest
      /\ backups'[x.id].old = backups[x.id].old
      /\ backups[x.id].manifest =>
           Named(backups'[x.id].lines) = Named(backups[x.id].lines) \cup {File}
  BY NoteEffect, ExtractionIs DEF GoesTo, history, File, Notes
<1>2. Untouched'
  <2>1. x'.count > 0 /\ x'.count # 0
    BY <1>1
  <2>2. QED  BY <1>1, <2>1 DEF ExtractionInv, Untouched, Extracting, Ahead
<1>3. ChangesAreListed'
  BY <1>1 DEF ExtractionInv, ChangesAreListed, Extracting
<1>4. QED  BY <1>2, <1>3 DEF ExtractionInv

LEMMA PlaceKeeps ==
  ASSUME TypeInv, ExtractionInv, Place
  PROVE  ExtractionInv'
<1>1. /\ x.pc = "place" /\ x.todo # <<>> /\ UNCHANGED <<backups, before, regular>> /\ Interrupted
      /\ \A n \in Names \ {File} : live'[n] = live[n]
      /\ x'.pc = "file" /\ x'.id = x.id /\ x'.todo = Tail(x.todo) /\ x'.count = x.count
  BY PlaceEffect DEF history
<1>2. /\ x.todo \in Seq(Names) /\ File = x.todo[1] /\ Len(x.todo) \in Nat \ {0}
      /\ Len(x'.todo) = Len(x.todo) - 1
      /\ \A i \in 1 .. Len(x.todo) - 1 : x'.todo[i] = x.todo[i + 1]
      /\ x.count \in Nat
  BY <1>1, ExtractionIs
<1>3. \A i \in 1 .. Len(x.todo) : x.todo[i] \in Names
  BY <1>2
<1>4. ASSUME regular[x.id]
      PROVE  Untouched'
  <2>1. /\ \A r \in Restorers : restore[r].pc = "idle"
        /\ \A i, j \in 1 .. Len(x.todo) : x.todo[i] = x.todo[j] => i = j
        /\ \A i \in 1 .. Len(x.todo) : i # 1 =>
             backups[x.id].old[x.todo[i]] = 0 /\ live[x.todo[i]] = before[x.id][x.todo[i]]
        /\ x.count > 0
    BY <1>1, <1>4 DEF ExtractionInv, Untouched, Extracting, Ahead
  <2>2. \A r \in Restorers : restore'[r].pc = "idle"
    BY <1>1, <2>1 DEF Interrupted, SameWork
  <2>3. ASSUME NEW i \in 1 .. Len(x'.todo)
        PROVE  i + 1 \in 1 .. Len(x.todo) /\ x'.todo[i] = x.todo[i + 1] /\ i + 1 # 1
    BY <1>2
  <2>4. \A i, j \in 1 .. Len(x'.todo) : x'.todo[i] = x'.todo[j] => i = j
    <3>1. SUFFICES ASSUME NEW i \in 1 .. Len(x'.todo), NEW j \in 1 .. Len(x'.todo),
                          x'.todo[i] = x'.todo[j]
                   PROVE  i = j
      OBVIOUS
    <3>2. i + 1 = j + 1
      BY <2>1, <2>3, <3>1
    <3>3. QED  BY <1>2, <3>2
  <2>5. \A i \in 1 .. Len(x'.todo) :
          backups'[x.id].old[x'.todo[i]] = 0 /\ live'[x'.todo[i]] = before[x.id][x'.todo[i]]
    <3>1. SUFFICES ASSUME NEW i \in 1 .. Len(x'.todo)
                   PROVE  /\ backups'[x.id].old[x'.todo[i]] = 0
                          /\ live'[x'.todo[i]] = before[x.id][x'.todo[i]]
      OBVIOUS
    <3>2. i + 1 \in 1 .. Len(x.todo) /\ x'.todo[i] = x.todo[i + 1] /\ i + 1 # 1
      BY <2>3
    <3>3. x.todo[i + 1] # File /\ x.todo[i + 1] \in Names
      BY <1>2, <1>3, <2>1, <3>2
    <3>4. QED  BY <1>1, <2>1, <3>2, <3>3
  <2>6. x'.count # 0
    BY <1>1, <1>2, <2>1
  <2>7. QED  BY <1>1, <2>2, <2>4, <2>5, <2>6 DEF Untouched, Extracting
<1>5. Untouched'
  BY <1>1, <1>4 DEF Untouched
<1>6. ChangesAreListed'
  BY <1>1 DEF ExtractionInv, ChangesAreListed, Extracting
<1>7. QED  BY <1>5, <1>6 DEF ExtractionInv

LEMMA StopKeeps ==
  ASSUME TypeInv, ExtractionInv, Stop
  PROVE  ExtractionInv'
<1>1. /\ x.pc \in {"file", "move", "add", "place"} /\ x'.pc = "close" /\ x'.count = x.count
      /\ x'.id = x.id /\ x'.todo = x.todo /\ File' = File
      /\ UNCHANGED <<live, backups, restore, before, regular>>
  BY StopEffect DEF GoesTo, history, File
<1>2. Untouched'
  BY <1>1 DEF ExtractionInv, Untouched, Extracting, Ahead
<1>3. ChangesAreListed'
  BY <1>1 DEF ExtractionInv, ChangesAreListed, Extracting
<1>4. QED  BY <1>2, <1>3 DEF ExtractionInv

LEMMA RestoreKeepsExtraction ==
  ASSUME TypeInv, ExtractionInv, NEW r \in Restorers, RestoreStep(r)
  PROVE  ExtractionInv'
<1>1. UNCHANGED extraction
  BY DEF RestoreStep, RestoreBegin, DeleteAdded, AddedGone, CheckOld, ClearLive,
         PutBack, DropBackup, RestoreDone, RestoreFails
<1>2. SUFFICES ~(Extracting /\ regular'[x.id])
  BY <1>1 DEF ExtractionInv, Untouched, ChangesAreListed, Extracting
<1>3. SUFFICES ASSUME Extracting, regular'[x.id]
               PROVE  FALSE
  OBVIOUS
<1>4. x.id \in Ids
  BY <1>3, ExtractionIs
<1>5. CASE \E b \in Ids : RestoreBegin(r, b)
  <2>1. PICK b \in Ids : RestoreBegin(r, b)
    BY <1>5
  <2>2. StartsRestore(r, b)
    BY <2>1, RestoreBeginEffect
  <2>3. QED  BY <1>3, <1>4, <2>2 DEF StartsRestore
<1>6. CASE ~\E b \in Ids : RestoreBegin(r, b)
  <2>1. UNCHANGED regular /\ restore[r].pc # "idle"
    BY <1>6 DEF RestoreStep, DeleteAdded, AddedGone, CheckOld, ClearLive,
                PutBack, DropBackup, RestoreDone, RestoreFails, history
  <2>2. QED  BY <1>3, <2>1 DEF ExtractionInv, Untouched
<1>7. QED  BY <1>5, <1>6

LEMMA RemoveKeepsExtraction ==
  ASSUME TypeInv, ExtractionInv, NEW bs, RemoveBackups(bs)
  PROVE  ExtractionInv'
<1>1. MayDrop /\ Interrupted /\ UNCHANGED <<live, extraction, before, regular>>
  BY RemoveEffect DEF history
<1>2. \A r \in Restorers : restore'[r].pc = restore[r].pc
  BY <1>1 DEF Interrupted, SameWork
<1>3. File' = File /\ x' = x
  BY <1>1 DEF File
<1>4. Extracting => x.id \in Ids /\ \/ backups'[x.id] = backups[x.id]
                                    \/ /\ ~backups'[x.id].manifest
                                       /\ \A n \in Names : backups'[x.id].old[n] = 0
  BY <1>1, ExtractionIs DEF MayDrop, NoBackup, Empty
<1>5. x.todo # <<>> => File \in Names
  BY ExtractionIs
<1>6. \A i \in 1 .. Len(x.todo) : x.todo[i] \in Names
  BY ExtractionIs
<1>7. Untouched'
  <2>1. CASE Extracting /\ regular[x.id]
    <3>1. CASE backups'[x.id] = backups[x.id]
      BY <1>1, <1>2, <1>3, <2>1, <3>1 DEF ExtractionInv, Untouched, Extracting, Ahead
    <3>2. CASE \A n \in Names : backups'[x.id].old[n] = 0
      BY <1>1, <1>2, <1>3, <1>6, <2>1, <3>2 DEF ExtractionInv, Untouched, Extracting, Ahead
    <3>3. QED  BY <1>4, <2>1, <3>1, <3>2
  <2>2. QED  BY <1>1, <2>1 DEF Untouched, Extracting
<1>8. ChangesAreListed'
  BY <1>1, <1>3, <1>4 DEF ExtractionInv, ChangesAreListed, Extracting
<1>9. QED  BY <1>7, <1>8 DEF ExtractionInv

LEMMA ExtractionInvStep ==
  ASSUME TypeInv, ExtractionInv, BackupNext
  PROVE  ExtractionInv'
<1>1. CASE Close \/ Crash
  <2>1. ~Extracting'
    BY <1>1, CloseEffect, CrashEffect DEF GoesTo, Extracting
  <2>2. QED  BY <2>1 DEF ExtractionInv, Untouched, ChangesAreListed
<1>2. QED
  BY <1>1, ExtractionBegins, LookAtKeeps, MoveKeeps, NoteKeeps, PlaceKeeps, StopKeeps,
     RestoreKeepsExtraction, RemoveKeepsExtraction DEF BackupNext, ExtractionStep

-----------------------------------------------------------------------------
(* The backups tell what was there.                                          *)

(* Nothing is added to a backup. *)
Stays(b) ==
  /\ before'[b] = before[b]
  /\ \A n \in Names : backups'[b].old[n] \in {0, backups[b].old[n]}
  /\ \/ backups'[b].manifest = backups[b].manifest /\ backups'[b].lines = backups[b].lines
     \/ ~backups'[b].manifest /\ backups'[b].lines = <<>>

LEMMA FaithfulStays ==
  ASSUME TypeInv, NEW b \in Ids, FaithfulTo(b), Stays(b),
         Closed(b)' => Closed(b) /\ after'[b] = after[b]
  PROVE  FaithfulTo(b)'
<1>1. \A n \in Names : backups'[b].old[n] \in {0, before'[b][n]}
  BY DEF Stays, FaithfulTo
<1>2. CASE backups'[b].manifest = backups[b].manifest /\ backups'[b].lines = backups[b].lines
  BY <1>1, <1>2 DEF Stays, FaithfulTo
<1>3. CASE ~backups'[b].manifest /\ backups'[b].lines = <<>>
  BY <1>1, <1>3 DEF FaithfulTo, Closed, Listed
<1>4. QED  BY <1>2, <1>3 DEF Stays

LEMMA DroppedStays ==
  ASSUME TypeInv, NEW b \in Ids, before'[b] = before[b],
         backups'[b] = backups[b] \/ backups'[b] = NoBackup
  PROVE  Stays(b)
BY DEF Stays, NoBackup, Empty

LEMMA RestoreStays ==
  ASSUME TypeInv, NEW r \in Restorers, RestoreStep(r), NEW b \in Ids
  PROVE  Stays(b) /\ UNCHANGED <<extraction, after, unlisted>> /\ (regular'[b] => regular[b])
<1>1. UNCHANGED <<extraction, before, after, unlisted>>
  BY DEF RestoreStep, RestoreBegin, DeleteAdded, AddedGone, CheckOld, ClearLive,
         PutBack, DropBackup, RestoreDone, RestoreFails, history
<1>2. regular'[b] => regular[b]
  <2>1. CASE \E c \in Ids : RestoreBegin(r, c)
    <3>1. PICK c \in Ids : RestoreBegin(r, c)
      BY <2>1
    <3>2. StartsRestore(r, c)
      BY <3>1, RestoreBeginEffect
    <3>3. QED  BY <3>2 DEF StartsRestore
  <2>2. CASE ~\E c \in Ids : RestoreBegin(r, c)
    BY <2>2 DEF RestoreStep, DeleteAdded, AddedGone, CheckOld, ClearLive,
                PutBack, DropBackup, RestoreDone, RestoreFails, history
  <2>3. QED  BY <2>1, <2>2
<1>3. CASE PutBack(r) /\ ~Ends(r)
  <2>1. /\ \A c \in Ids \ {restore[r].id} : backups'[c] = backups[c]
        /\ backups'[restore[r].id].manifest = backups[restore[r].id].manifest
        /\ backups'[restore[r].id].lines = backups[restore[r].id].lines
    BY <1>3, PutBackEffect
  <2>2. backups'[b].manifest = backups[b].manifest /\ backups'[b].lines = backups[b].lines
    BY <2>1
  <2>3. QED  BY <1>1, <1>2, <2>2, RestoreShrinks DEF Stays, Shrinks
<1>4. CASE DropBackup(r)
  BY <1>1, <1>2, <1>4, DropEffect, DroppedStays DEF MayDrop
<1>5. CASE ~DropBackup(r) /\ ~(PutBack(r) /\ ~Ends(r))
  <2>1. UNCHANGED backups
    BY <1>5 DEF RestoreStep, RestoreBegin, DeleteAdded, AddedGone, CheckOld, ClearLive,
                RestoreDone, RestoreFails, Ends
  <2>2. QED  BY <1>1, <1>2, <2>1, DroppedStays
<1>6. QED  BY <1>3, <1>4, <1>5

LEMMA FaithfulBegins ==
  ASSUME TypeInv, Faithful, NEW c \in Ids, NEW style \in Styles, BackupBegin(c, style)
  PROVE  Faithful'
<1>1. /\ x.pc = "idle" /\ c = x.id + 1 /\ x'.pc = "file" /\ x'.id = c /\ UNCHANGED <<after, unlisted>>
      /\ \A d \in Ids \ {c} :
           backups'[d] = backups[d] /\ regular'[d] = regular[d] /\ before'[d] = before[d]
      /\ backups'[c].lines = <<>> /\ \A n \in Names : backups'[c].old[n] = 0
  <2>1. Begins(c)
    BY BeginEffect
  <2>2. QED  BY <2>1 DEF Begins
<1>5. x.id \in Nat
  BY ExtractionIs
<1> SUFFICES ASSUME NEW b \in Ids
             PROVE  (b > x'.id => ~backups'[b].manifest) /\ (regular'[b] => FaithfulTo(b)')
  BY DEF Faithful, Ids
<1>2. CASE b = c
  <2>1. ~Closed(b)'
    BY <1>1, <1>2 DEF Closed, Extracting
  <2>2. b \in Nat /\ ~(b > x'.id)
    BY <1>1, <1>2, <1>5 DEF Ids
  <2>3. QED  BY <1>1, <1>2, <2>1, <2>2 DEF FaithfulTo, Listed
<1>3. CASE b # c
  <2>1. b \in Nat /\ (b > x'.id => b > x.id)
    BY <1>1, <1>3, <1>5 DEF Ids
  <2>2. Closed(b)' => Closed(b) /\ after'[b] = after[b]
    BY <1>1, <1>3 DEF Closed, Extracting
  <2>3. Stays(b)
    BY <1>1, <1>3, DroppedStays
  <2>4. QED  BY <1>1, <1>3, <2>1, <2>2, <2>3, FaithfulStays DEF Faithful
<1>4. QED  BY <1>2, <1>3

(* A step within an extraction: the other backups stay as they are. *)
LEMMA FaithfulGoes ==
  ASSUME TypeInv, Faithful, Extracting, NEW pc, GoesTo(pc), UNCHANGED <<before, regular>>,
         \A b \in Ids : unlisted[b] \subseteq unlisted'[b],
         \A b \in Ids \ {x.id} : backups'[b] = backups[b] /\ after'[b] = after[b],
         regular[x.id] => FaithfulTo(x.id)'
  PROVE  Faithful'
<1> SUFFICES ASSUME NEW b \in Ids
             PROVE  (b > x'.id => ~backups'[b].manifest) /\ (regular'[b] => FaithfulTo(b)')
  BY DEF Faithful, Ids
<1>1. x'.id = x.id /\ x.id \in Nat
  BY ExtractionIs DEF GoesTo
<1>2. CASE b = x.id
  <2>1. ~(b > x'.id)
    BY <1>1, <1>2
  <2>2. QED  BY <1>1, <1>2, <2>1 DEF FaithfulTo, Closed
<1>3. CASE b # x.id
  <2>1. Closed(b)' => Closed(b) /\ after'[b] = after[b]
    BY <1>1, <1>3 DEF Closed
  <2>2. Stays(b)
    BY <1>3, DroppedStays
  <2>3. QED  BY <1>1, <1>3, <2>1, <2>2, FaithfulStays DEF Faithful
<1>4. QED  BY <1>2, <1>3

LEMMA FaithfulMoves ==
  ASSUME TypeInv, ExtractionInv, Faithful, MoveExisting
  PROVE  Faithful'
<1>1. /\ x.pc = "move" /\ GoesTo("note") /\ UNCHANGED <<before, after, regular, unlisted>>
      /\ \A b \in Ids \ {x.id} : backups'[b] = backups[b]
      /\ backups'[x.id].lines = backups[x.id].lines
      /\ backups'[x.id].old[File] = live[File]
      /\ \A n \in Names \ {File} : backups'[x.id].old[n] = backups[x.id].old[n]
      /\ x.todo # <<>>
  BY MoveEffect DEF history, TypeInv, Counted
<1>2. Extracting /\ x.id \in Ids
  BY <1>1, ExtractionIs DEF Extracting
<1>3. ASSUME regular[x.id]
      PROVE  FaithfulTo(x.id)'
  <2>1. File = x.todo[1] /\ 1 \in 1 .. Len(x.todo)
    BY <1>1, ExtractionIs
  <2>2. live[File] = before[x.id][File]
    BY <1>1, <1>2, <1>3, <2>1 DEF ExtractionInv, Untouched, Ahead
  <2>3. FaithfulTo(x.id)
    BY <1>2, <1>3 DEF Faithful
  <2>4. \A n \in Names : backups'[x.id].old[n] \in {0, before'[x.id][n]}
    BY <1>1, <2>2, <2>3 DEF FaithfulTo
  <2>5. x'.id = x.id /\ ~Closed(x.id)'
    BY <1>1 DEF GoesTo, Closed, Extracting
  <2>6. QED  BY <1>1, <2>3, <2>4, <2>5 DEF FaithfulTo
<1>4. QED  BY <1>1, <1>2, <1>3, FaithfulGoes

LEMMA FaithfulNotes ==
  ASSUME TypeInv, ExtractionInv, Faithful, NoteOld \/ NoteAdded
  PROVE  Faithful'
<1>1. /\ GoesTo("place") /\ UNCHANGED <<live, before, after, regular, unlisted>>
      /\ \A b \in Ids \ {x.id} : backups'[b] = backups[b]
      /\ backups'[x.id].old = backups[x.id].old
      /\ ~backups[x.id].manifest => backups'[x.id].lines = backups[x.id].lines
      /\ x.pc \in {"note", "add"} /\ x.todo # <<>>
      /\ backups[x.id].manifest => \A i \in Listed(backups'[x.id].lines, "A") :
            \/ i \in Listed(backups[x.id].lines, "A") /\ backups'[x.id].lines[i] = backups[x.id].lines[i]
            \/ x.pc = "add" /\ backups'[x.id].lines[i].name = File
  BY NoteEffect DEF history, Notes, TypeInv, Counted
<1>2. Extracting /\ x.id \in Ids
  BY <1>1, ExtractionIs DEF Extracting
<1>3. ASSUME regular[x.id]
      PROVE  FaithfulTo(x.id)'
  <2>1. File = x.todo[1] /\ 1 \in 1 .. Len(x.todo)
    BY <1>1, ExtractionIs
  <2>2. x.pc = "add" => before[x.id][File] = 0
    BY <1>1, <1>2, <1>3, <2>1 DEF ExtractionInv, Untouched, Ahead
  <2>3. FaithfulTo(x.id)
    BY <1>2, <1>3 DEF Faithful
  <2>4. ASSUME NEW i \in Listed(backups'[x.id].lines, "A")
        PROVE  before'[x.id][backups'[x.id].lines[i].name] = 0
    BY <1>1, <2>2, <2>3 DEF FaithfulTo
  <2>5. x'.id = x.id /\ ~Closed(x.id)'
    BY <1>1 DEF GoesTo, Closed, Extracting
  <2>6. QED  BY <1>1, <2>3, <2>4, <2>5 DEF FaithfulTo
<1>4. QED  BY <1>1, <1>2, <1>3, FaithfulGoes

LEMMA FaithfulCloses ==
  ASSUME TypeInv, ExtractionInv, Faithful, Close
  PROVE  Faithful'
<1>1. /\ x.pc = "close" /\ GoesTo("idle") /\ UNCHANGED <<live, before, regular, unlisted>>
      /\ \A b \in Ids \ {x.id} : backups'[b] = backups[b] /\ after'[b] = after[b]
      /\ backups'[x.id] = backups[x.id] \/ backups'[x.id] = NoBackup
      /\ after'[x.id] = live
  BY CloseEffect
<1>2. Extracting /\ x.id \in Ids
  BY <1>1, ExtractionIs DEF Extracting
<1>3. ASSUME regular[x.id]
      PROVE  FaithfulTo(x.id)'
  <2>1. FaithfulTo(x.id)
    BY <1>2, <1>3 DEF Faithful
  <2>2. CASE backups'[x.id] = NoBackup
    BY <1>1, <2>2 DEF FaithfulTo, Closed, Listed, NoBackup, Empty, GoesTo
  <2>3. CASE backups'[x.id] = backups[x.id]
    <3>1. backups[x.id].manifest =>
            \A n \in Names : n \in Named(backups[x.id].lines) \/ live[n] = before[x.id][n]
      BY <1>1, <1>2, <1>3 DEF ExtractionInv, ChangesAreListed
    <3>2. x'.id = x.id
      BY <1>1 DEF GoesTo
    <3>3. QED  BY <1>1, <2>1, <2>3, <3>1, <3>2 DEF FaithfulTo, Closed
  <2>4. QED  BY <1>1, <2>2, <2>3
<1>4. QED  BY <1>1, <1>2, <1>3, FaithfulGoes

(* A kill is like a close that drops nothing, unless a file is being moved.  *)
LEMMA FaithfulCrashes ==
  ASSUME TypeInv, ExtractionInv, Faithful, Crash
  PROVE  Faithful'
<1>1. /\ GoesTo("idle") /\ UNCHANGED <<live, backups, before, regular>>
      /\ \A b \in Ids : /\ unlisted[b] \subseteq unlisted'[b]
                        /\ b # x.id \/ ~Extracting => after'[b] = after[b]
      /\ Extracting => after'[x.id] = live
      /\ x.pc = "note" => File \in unlisted'[x.id]
  BY CrashEffect
<1>2. CASE Extracting
  <2>1. x.id \in Ids
    BY <1>2, ExtractionIs
  <2>2. ASSUME regular[x.id]
        PROVE  FaithfulTo(x.id)'
    <3>1. FaithfulTo(x.id) /\ x'.id = x.id
      BY <1>1, <2>1, <2>2 DEF Faithful, GoesTo
    <3>2. Closed(x.id)' => x.pc # "note" /\ backups[x.id].manifest
      BY <1>1, <3>1 DEF Closed
    <3>3. x.pc # "note" /\ backups[x.id].manifest =>
            \A n \in Names : n \in Named(backups[x.id].lines) \/ live[n] = before[x.id][n]
      BY <1>2, <2>2 DEF ExtractionInv, ChangesAreListed
    <3>4. QED  BY <1>1, <1>2, <3>1, <3>2, <3>3 DEF FaithfulTo
  <2>3. QED  BY <1>1, <1>2, <2>2, FaithfulGoes
<1>3. CASE ~Extracting
  <2>1. \A b \in Ids : Stays(b) /\ (Closed(b)' => Closed(b) /\ after'[b] = after[b])
    BY <1>1, <1>3, DroppedStays DEF Closed
  <2>2. x'.id = x.id /\ Ids' = Ids
    BY <1>1 DEF GoesTo, Ids
  <2>3. QED  BY <1>1, <2>1, <2>2, FaithfulStays DEF Faithful, Stays
<1>4. QED  BY <1>2, <1>3

LEMMA FaithfulStep ==
  ASSUME TypeInv, ExtractionInv, Faithful, BackupNext
  PROVE  Faithful'
<1>1. ASSUME x'.id = x.id, \A b \in Ids : Stays(b) /\ (regular'[b] => regular[b])
                                            /\ (Closed(b)' => Closed(b) /\ after'[b] = after[b])
      PROVE  Faithful'
  <2> SUFFICES ASSUME NEW b \in Ids
               PROVE  (b > x'.id => ~backups'[b].manifest) /\ (regular'[b] => FaithfulTo(b)')
    BY DEF Faithful, Ids
  <2>1. b > x'.id => ~backups'[b].manifest
    BY <1>1 DEF Faithful, Stays
  <2>2. regular'[b] => FaithfulTo(b)'
    BY <1>1, FaithfulStays DEF Faithful
  <2>3. QED  BY <2>1, <2>2
<1>2. CASE LookAt \/ Stop \/ Place
  <2>1. x'.id = x.id /\ Extracting /\ Extracting' /\ UNCHANGED <<backups, before, after, regular, unlisted>>
    BY <1>2, LookAtEffect, StopEffect, PlaceEffect DEF GoesTo, history, Extracting
  <2>2. \A b \in Ids : Closed(b)' => Closed(b)
    BY <2>1 DEF Closed
  <2>3. QED  BY <1>1, <2>1, <2>2, DroppedStays
<1>3. ASSUME NEW r \in Restorers, RestoreStep(r)
      PROVE  Faithful'
  <2>1. \A b \in Ids : Stays(b) /\ UNCHANGED <<extraction, after, unlisted>> /\ (regular'[b] => regular[b])
    BY <1>3, RestoreStays
  <2>2. \A b \in Ids : Closed(b)' => Closed(b)
    BY <2>1 DEF Closed, Extracting, Stays
  <2>3. UNCHANGED extraction
    BY <1>3 DEF RestoreStep, RestoreBegin, DeleteAdded, AddedGone, CheckOld, ClearLive,
                PutBack, DropBackup, RestoreDone, RestoreFails
  <2>4. QED  BY <1>1, <2>1, <2>2, <2>3
<1>4. ASSUME NEW bs, RemoveBackups(bs)
      PROVE  Faithful'
  <2>1. UNCHANGED <<extraction, before, after, regular, unlisted>> /\ MayDrop
    BY <1>4, RemoveEffect DEF history
  <2>2. \A b \in Ids : Stays(b)
    BY <2>1, DroppedStays DEF MayDrop
  <2>3. \A b \in Ids : Closed(b)' => Closed(b)
    BY <2>1, <2>2 DEF Closed, Extracting, Stays
  <2>4. QED  BY <1>1, <2>1, <2>2, <2>3
<1>5. CASE Crash
  BY <1>5, FaithfulCrashes
<1>6. QED
  BY <1>2, <1>3, <1>4, <1>5, FaithfulBegins, FaithfulMoves, FaithfulNotes, FaithfulCloses
     DEF BackupNext, ExtractionStep

-----------------------------------------------------------------------------
(* What restores have read, and how far one that is alone has come.           *)

LEMMA RestoreGoes ==
  ASSUME TypeInv, NEW r \in Restorers, RestoreStep(r), ~\E b \in Ids : RestoreBegin(r, b)
  PROVE  /\ OthersGo(r) /\ restore[r].pc # "idle" /\ UNCHANGED <<extraction, crashes, history>>
         /\ Ends(r) \/ \E pc : OwnStep(r, pc)
<1>1. Ends(r) \/ \E pc : OwnStep(r, pc)
  BY DeleteAddedEffect, AddedGoneEffect, CheckOldEffect, ClearLiveEffect, PutBackEffect,
     DropEffect, EndEffect DEF RestoreStep
<1>2. restore[r].pc # "idle"
  BY DEF RestoreStep, DeleteAdded, AddedGone, CheckOld, ClearLive, PutBack, DropBackup,
         RestoreDone, RestoreFails
<1>3. QED  BY <1>1, <1>2 DEF Ends, OwnStep

LEMMA ReadStays ==
  ASSUME NEW r \in Restorers, ReadTruly(r),
         restore'[r].pc # "idle" =>
           /\ restore[r].pc # "idle" /\ restore'[r].id = restore[r].id
           /\ restore'[r].lines = restore[r].lines
           /\ regular'[restore[r].id] =>
                regular[restore[r].id] /\ before'[restore[r].id] = before[restore[r].id]
  PROVE  ReadTruly(r)'
BY DEF ReadTruly

LEMMA ReadsStep ==
  ASSUME TypeInv, Faithful, ReadsFaithfully, BackupNext
  PROVE  ReadsFaithfully'
<1>1. ASSUME UNCHANGED <<before, regular>>, Interrupted \/ UNCHANGED restore
      PROVE  ReadsFaithfully'
  BY <1>1, ReadStays DEF ReadsFaithfully, Interrupted, SameWork
<1>2. ASSUME NEW b \in Ids, NEW style \in Styles, BackupBegin(b, style)
      PROVE  ReadsFaithfully'
  <2>1. /\ Interrupted
        /\ regular'[b] => \A r \in Restorers : restore[r].pc = "idle"
        /\ \A c \in Ids \ {b} : regular'[c] = regular[c] /\ before'[c] = before[c]
    <3>1. Begins(b)
      BY <1>2, BeginEffect
    <3>2. QED  BY <3>1 DEF Begins
  <2>2. \A r \in Restorers : restore[r].pc # "idle" => restore[r].id \in Ids
    BY DEF TypeInv, Reading, Reads
  <2>3. QED  BY <2>1, <2>2, ReadStays DEF ReadsFaithfully, Interrupted, SameWork
<1>3. CASE LookAt \/ MoveExisting \/ NoteOld \/ NoteAdded \/ Place \/ Stop \/ Close
  BY <1>1, <1>3, LookAtEffect, MoveEffect, NoteEffect, PlaceEffect, StopEffect, CloseEffect DEF history
<1>4. ASSUME NEW bs, RemoveBackups(bs)
      PROVE  ReadsFaithfully'
  BY <1>1, <1>4, RemoveEffect DEF history
<1>5. CASE Crash
  BY <1>5, CrashEffect DEF ReadsFaithfully, ReadTruly, Idle
<1>6. ASSUME NEW r \in Restorers, NEW b \in Ids, RestoreBegin(r, b)
      PROVE  ReadsFaithfully'
  <2>1. /\ UNCHANGED <<before>> /\ OthersGo(r) /\ restore'[r].id = b
        /\ restore'[r].lines = backups[b].lines /\ \A c \in Ids : regular'[c] => regular[c]
    <3>1. StartsRestore(r, b)
      BY <1>6, RestoreBeginEffect
    <3>2. QED  BY <3>1 DEF StartsRestore
  <2>2. ReadTruly(r)'
    BY <2>1 DEF Faithful, FaithfulTo, ReadTruly
  <2>3. \A s \in Restorers : restore[s].pc # "idle" => restore[s].id \in Ids
    BY DEF TypeInv, Reading, Reads
  <2>4. \A s \in Restorers \ {r} : ReadTruly(s)'
    BY <2>1, <2>3, ReadStays DEF OthersGo, SameWork, ReadsFaithfully
  <2>5. QED  BY <2>2, <2>4 DEF ReadsFaithfully
<1>7. ASSUME NEW r \in Restorers, RestoreStep(r), ~\E b \in Ids : RestoreBegin(r, b)
      PROVE  ReadsFaithfully'
  <2>1. /\ OthersGo(r) /\ UNCHANGED <<before, regular>> /\ restore[r].pc # "idle"
        /\ Ends(r) \/ \E pc : OwnStep(r, pc)
    BY <1>7, RestoreGoes DEF history
  <2>2. ReadTruly(r)'
    BY <2>1, ReadStays DEF ReadsFaithfully, Ends, OwnStep, Idle
  <2>3. \A s \in Restorers \ {r} : ReadTruly(s)'
    BY <2>1, ReadStays DEF OthersGo, SameWork, ReadsFaithfully
  <2>4. QED  BY <2>2, <2>3 DEF ReadsFaithfully
<1>8. QED
  BY <1>2, <1>3, <1>4, <1>5, <1>6, <1>7 DEF BackupNext, ExtractionStep, RestoreStep

LEMMA OthersEndAlone ==
  ASSUME TypeInv, BackupNext, NEW r \in Restorers, AloneWorks(r), ~RestoreStep(r)
  PROVE  AloneWorks(r)'
<1> SUFFICES ASSUME Alone(r)'
             PROVE  FALSE
  BY DEF AloneWorks
<1>1. CASE Interrupted
  BY <1>1 DEF Interrupted, Alone
<1>2. ASSUME Extracting, UNCHANGED restore
      PROVE  FALSE
  BY <1>2 DEF AloneWorks, Alone
<1>3. CASE LookAt \/ NoteOld \/ NoteAdded \/ Stop \/ Close
  BY <1>2, <1>3, LookAtEffect, NoteEffect, StopEffect, CloseEffect DEF Extracting
<1>4. CASE Crash
  BY <1>4, CrashEffect DEF Alone, Idle
<1>5. ASSUME NEW s \in Restorers \ {r}, RestoreStep(s)
      PROVE  FALSE
  <2>1. CASE \E b \in Ids : RestoreBegin(s, b)
    <3>1. PICK b \in Ids : RestoreBegin(s, b)
      BY <2>1
    <3>2. StartsRestore(s, b)
      BY <3>1, RestoreBeginEffect
    <3>3. restore'[r].alone = FALSE
      BY <3>2 DEF StartsRestore
    <3>4. QED  BY <3>3 DEF Alone
  <2>2. CASE ~\E b \in Ids : RestoreBegin(s, b)
    <3>1. OthersGo(s) /\ restore[s].pc # "idle"
      BY <1>5, <2>2, RestoreGoes
    <3>2. restore'[r] = restore[r]
      BY <3>1 DEF OthersGo, Alone
    <3>3. QED  BY <1>5, <3>1, <3>2 DEF AloneWorks, Alone
  <2>3. QED  BY <2>1, <2>2
<1>6. ASSUME NEW b \in Ids, NEW style \in Styles, BackupBegin(b, style)
      PROVE  FALSE
  <2>1. Begins(b)
    BY <1>6, BeginEffect
  <2>2. QED  BY <1>1, <2>1 DEF Begins
<1>7. QED
  BY <1>1, <1>3, <1>4, <1>5, <1>6, MoveEffect, PlaceEffect, RemoveEffect
     DEF BackupNext, ExtractionStep

(* What a step of the restore that is alone must do for it to be so still. *)
LEMMA AloneGoesOn ==
  ASSUME TypeInv, NEW r \in Restorers, AloneWorks(r), restore[r].pc # "idle",
         NEW pc, OwnStep(r, pc),
         Alone(r) =>
           /\ pc \in {"clear", "put"} =>
                OldName(r)' = OldName(r) /\ backups'[restore[r].id].old[OldName(r)] # 0
           /\ pc = "put" => live'[OldName(r)] = 0
           /\ Undoing(r) /\ Progress(r) => Progress(r)'
  PROVE  AloneWorks(r)'
<1>1. /\ restore'[r].pc = pc /\ restore'[r].alone = restore[r].alone /\ x' = x /\ unlisted' = unlisted
      /\ restore'[r].id = restore[r].id /\ restore'[r].fits = restore[r].fits /\ regular' = regular
      /\ \A s \in Restorers \ {r} : restore'[s].pc = restore[s].pc
  BY DEF OwnStep, OthersGo, SameWork, history
<1>2. SUFFICES ASSUME Alone(r)'
               PROVE  /\ ~Extracting' /\ \A s \in Restorers \ {r} : restore'[s].pc = "idle"
                      /\ pc \in {"clear", "put"} => backups'[restore[r].id].old[OldName(r)'] # 0
                      /\ pc = "put" => live'[OldName(r)'] = 0
                      /\ Undoing(r)' => Progress(r)'
  BY <1>1 DEF AloneWorks
<1>3. Alone(r) /\ (Undoing(r)' => Undoing(r))
  BY <1>1, <1>2 DEF Alone, Undoing
<1>4. QED  BY <1>1, <1>3 DEF AloneWorks, Extracting

LEMMA PlacesAre ==
  ASSUME TypeInv, NEW r \in Restorers, NEW tag, NEW i \in Listed(restore[r].lines, tag)
  PROVE  restore[r].lines[i].name \in Names /\ restore[r].lines[i].name \in Named(restore[r].lines)
<1>1. restore[r].lines \in Seq(Line)
  BY RestoreIs
<1>2. QED  BY <1>1, ListedIs DEF Named, Listed

LEMMA AloneBegins ==
  ASSUME TypeInv, Faithful, NEW r \in Restorers, NEW b \in Ids, RestoreBegin(r, b)
  PROVE  AloneWorks(r)'
<1>0. StartsRestore(r, b)
  BY RestoreBeginEffect
<1>1. /\ backups[b].manifest /\ UNCHANGED <<live, backups, extraction, crashes, before, after, unlisted>>
      /\ OthersGo(r) /\ restore'[r].pc = "delete" /\ restore'[r].id = b
      /\ restore'[r].lines = backups[b].lines
      /\ restore'[r].added = Listed(backups[b].lines, "A")
      /\ restore'[r].old = Listed(backups[b].lines, "O")
      /\ restore'[r].alone => x.pc = "idle" /\ \A s \in Restorers : restore[s].pc = "idle"
      /\ restore'[r].fits => live = after[b]
      /\ regular'[b] => regular[b]
  BY <1>0 DEF StartsRestore
<1>2. SUFFICES ASSUME Alone(r)'
               PROVE  /\ ~Extracting' /\ \A s \in Restorers \ {r} : restore'[s].pc = "idle"
                      /\ Undoing(r)' => Progress(r)'
  BY <1>1 DEF AloneWorks
<1>3. x.pc = "idle" /\ \A s \in Restorers : restore[s].pc = "idle"
  BY <1>1, <1>2 DEF Alone
<1>4. ~Extracting' /\ \A s \in Restorers \ {r} : restore'[s].pc = "idle"
  BY <1>1, <1>3 DEF Extracting, OthersGo, SameWork
<1>5. ASSUME Undoing(r)'
      PROVE  Progress(r)'
  <2>1. live = after[b] /\ unlisted[b] = {} /\ regular[b]
    BY <1>1, <1>5 DEF Undoing
  <2>2. Closed(b)
    BY <1>1, <1>3, <2>1 DEF Closed, Extracting
  <2>3. \A n \in Names : n \in Named(backups[b].lines) \/ live[n] = before[b][n]
    BY <2>1, <2>2 DEF Faithful, FaithfulTo
  <2>4. QED  BY <1>1, <2>3 DEF Progress
<1>6. QED  BY <1>4, <1>5

LEMMA AloneDeletes ==
  ASSUME TypeInv, NEW r \in Restorers, AloneWorks(r), DeleteAdded(r)
  PROVE  AloneWorks(r)'
<1> DEFINE lines == restore[r].lines
<1>1. PICK i \in restore[r].added :
        /\ restore[r].pc = "delete" /\ OwnStep(r, "delete") /\ UNCHANGED backups
        /\ restore'[r].added = restore[r].added \ {i} /\ restore'[r].old = restore[r].old
        /\ live'[lines[i].name] = 0 /\ \A n \in Names \ {lines[i].name} : live'[n] = live[n]
  BY DeleteAddedEffect
<1>2. restore'[r].lines = lines /\ restore'[r].id = restore[r].id /\ UNCHANGED before
  BY <1>1 DEF OwnStep, history
<1>3. i \in Listed(lines, "A") /\ restore[r].old = Listed(lines, "O")
  BY <1>1 DEF TypeInv, Reading, Reads
<1>4. ASSUME Progress(r)
      PROVE  Progress(r)'
  <2>1. \A n \in Names : n \in Named(lines) \/ live'[n] = before[restore[r].id][n]
    BY <1>1, <1>3, <1>4, PlacesAre DEF Progress
  <2>2. ASSUME NEW j \in Listed(lines, "A") \ restore'[r].added
        PROVE  live'[lines[j].name] = 0
    <3>1. lines[j].name \in Names /\ (j = i \/ j \notin restore[r].added)
      BY <1>1, <2>2, PlacesAre
    <3>2. QED  BY <1>1, <1>4, <3>1 DEF Progress
  <2>3. QED  BY <1>1, <1>2, <1>3, <2>1, <2>2 DEF Progress
<1>5. QED  BY <1>1, <1>4, AloneGoesOn

LEMMA AloneLooks ==
  ASSUME TypeInv, NEW r \in Restorers, AloneWorks(r), AddedGone(r) \/ CheckOld(r)
  PROVE  AloneWorks(r)'
<1>1. CASE Ends(r)
  BY <1>1 DEF AloneWorks, Alone, Ends, Idle
<1>2. CASE ~Ends(r)
  <2>1. PICK pc \in {"check", "clear"} :
          /\ OwnStep(r, pc) /\ restore[r].pc # "idle" /\ UNCHANGED <<live, backups>>
          /\ restore'[r].added = restore[r].added /\ restore'[r].old = restore[r].old
          /\ pc = "clear" => backups[restore[r].id].old[OldName(r)] # 0
    BY <1>2, AddedGoneEffect, CheckOldEffect
  <2>2. restore'[r].lines = restore[r].lines /\ restore'[r].id = restore[r].id /\ UNCHANGED before
    BY <2>1 DEF OwnStep, history
  <2>3. OldName(r)' = OldName(r)
    BY <2>1, <2>2 DEF OldName, NextOld
  <2>4. Progress(r) => Progress(r)'
    BY <2>1, <2>2 DEF Progress
  <2>5. QED  BY <2>1, <2>3, <2>4, AloneGoesOn
<1>3. QED  BY <1>1, <1>2

LEMMA AloneClears ==
  ASSUME TypeInv, NEW r \in Restorers, AloneWorks(r), ClearLive(r)
  PROVE  AloneWorks(r)'
<1> DEFINE lines == restore[r].lines
           k == restore[r].id
           m == OldName(r)
<1>1. /\ restore[r].pc = "clear" /\ OwnStep(r, "put") /\ UNCHANGED backups
      /\ restore'[r].added = restore[r].added /\ restore'[r].old = restore[r].old
      /\ restore[r].old # {} /\ live'[m] = 0 /\ \A n \in Names \ {m} : live'[n] = live[n]
  BY ClearLiveEffect
<1>2. restore'[r].lines = lines /\ restore'[r].id = k /\ UNCHANGED before
  BY <1>1 DEF OwnStep, history
<1>3. OldName(r)' = m
  BY <1>1, <1>2 DEF OldName, NextOld
<1>4. NextOld(r) \in Listed(lines, "O")
  BY <1>1, RestoreIs DEF TypeInv, Reading, Reads
<1>5. m \in Names /\ m \in Named(lines)
  BY <1>4, PlacesAre DEF OldName
<1>6. ASSUME Alone(r)
      PROVE  backups[k].old[m] # 0
  BY <1>1, <1>6 DEF AloneWorks
<1>7. ASSUME Alone(r), Progress(r)
      PROVE  Progress(r)'
  <2>1. \A n \in Names : n \in Named(lines) \/ live'[n] = before[k][n]
    BY <1>1, <1>5, <1>7 DEF Progress
  <2>2. ASSUME NEW j \in Listed(lines, "A") \ restore[r].added
        PROVE  live'[lines[j].name] = 0
    BY <1>1, <1>7, <2>2, PlacesAre DEF Progress
  <2>3. ASSUME NEW j \in Listed(lines, "O") \ restore[r].old
        PROVE  live'[lines[j].name] = before[k][lines[j].name] /\ backups[k].old[lines[j].name] = 0
    <3>1. lines[j].name \in Names
      BY PlacesAre
    <3>2. live[lines[j].name] = before[k][lines[j].name] /\ backups[k].old[lines[j].name] = 0
      BY <1>7 DEF Progress
    <3>3. lines[j].name # m
      BY <1>6, <1>7, <3>2
    <3>4. live'[lines[j].name] = live[lines[j].name]
      <4> DEFINE n == lines[j].name
      <4>1. n \in Names \ {m}
        BY <3>1, <3>3
      <4> HIDE DEF n, m, lines
      <4>2. live'[n] = live[n]
        BY <1>1, <4>1
      <4>3. QED  BY <4>2 DEF n
    <3>5. QED  BY <3>2, <3>4
  <2>4. restore'[r].added = restore[r].added /\ restore'[r].old = restore[r].old
        /\ backups' = backups
    BY <1>1
  <2>5. restore'[r].lines = lines /\ before'[restore'[r].id] = before[k] /\ restore'[r].id = k
    BY <1>2
  <2> HIDE DEF lines, k, m
  <2>6. QED  BY <2>1, <2>2, <2>3, <2>4, <2>5 DEF Progress
<1>8. QED  BY <1>1, <1>3, <1>6, <1>7, AloneGoesOn

LEMMA AlonePuts ==
  ASSUME TypeInv, Faithful, ReadsFaithfully, NEW r \in Restorers, AloneWorks(r), PutBack(r)
  PROVE  AloneWorks(r)'
<1> DEFINE lines == restore[r].lines
           k == restore[r].id
           m == OldName(r)
<1>1. CASE Ends(r)
  BY <1>1 DEF AloneWorks, Alone, Ends, Idle
<1>2. CASE ~Ends(r)
  <2>1. /\ restore[r].pc = "put" /\ OwnStep(r, "check") /\ k \in Ids /\ m \in Names
        /\ restore[r].old # {} /\ restore'[r].added = restore[r].added
        /\ restore'[r].old = restore[r].old \ {NextOld(r)}
        /\ backups[k].old[m] # 0
        /\ live'[m] = backups[k].old[m] /\ \A n \in Names \ {m} : live'[n] = live[n]
        /\ backups'[k].old[m] = 0
        /\ \A n \in Names \ {m} : backups'[k].old[n] = backups[k].old[n]
    BY <1>2, PutBackEffect
  <2>2. restore'[r].lines = lines /\ restore'[r].id = k /\ UNCHANGED before
    BY <2>1 DEF OwnStep, history
  <2>3. NextOld(r) \in Listed(lines, "O")
    BY <2>1, RestoreIs DEF TypeInv, Reading, Reads
  <2>4. m \in Named(lines) /\ m = lines[NextOld(r)].name
    BY <2>3, PlacesAre DEF OldName
  <2>5. ASSUME Undoing(r), Progress(r)
        PROVE  Progress(r)'
    <3>1. backups[k].old[m] = before[k][m]
      BY <2>1, <2>5 DEF Faithful, FaithfulTo, Undoing
    <3>2. \A j \in Listed(lines, "A") : before[k][lines[j].name] = 0
      BY <2>1, <2>5 DEF ReadsFaithfully, ReadTruly, Undoing
    <3>3. \A n \in Names : n \in Named(lines) \/ live'[n] = before[k][n]
      BY <2>1, <2>4, <2>5 DEF Progress
    <3>4. ASSUME NEW j \in Listed(lines, "A") \ restore[r].added
          PROVE  live'[lines[j].name] = 0
      <4>1. lines[j].name \in Names /\ lines[j].name # m
        BY <2>1, <3>1, <3>2, <3>4, PlacesAre
      <4>2. QED  BY <2>1, <2>5, <3>4, <4>1 DEF Progress
    <3>5. ASSUME NEW j \in Listed(lines, "O") \ restore'[r].old
          PROVE  live'[lines[j].name] = before[k][lines[j].name] /\ backups'[k].old[lines[j].name] = 0
      <4>1. lines[j].name \in Names
        BY <3>5, PlacesAre
      <4>2. CASE lines[j].name = m
        BY <2>1, <3>1, <4>2
      <4>3. CASE lines[j].name # m
        <5>1. j \in Listed(lines, "O") \ restore[r].old
          BY <2>1, <2>4, <3>5, <4>3
        <5>2. QED  BY <2>1, <2>5, <4>1, <4>3, <5>1 DEF Progress
      <4>4. QED  BY <4>2, <4>3
    <3>6. restore'[r].added = restore[r].added
      BY <2>1
    <3> HIDE DEF lines, k, m
    <3>7. restore'[r].lines = lines /\ before'[restore'[r].id] = before[k] /\ restore'[r].id = k
      BY <2>2
    <3>8. QED  BY <3>3, <3>4, <3>5, <3>6, <3>7 DEF Progress
  <2>6. QED  BY <2>1, <2>5, AloneGoesOn
<1>3. QED  BY <1>1, <1>2

LEMMA AloneDrops ==
  ASSUME TypeInv, NEW r \in Restorers, AloneWorks(r), DropBackup(r)
  PROVE  AloneWorks(r)'
<1>1. /\ restore[r].pc = "check" /\ OwnStep(r, "drop") /\ UNCHANGED live /\ MayDrop
      /\ restore'[r].added = restore[r].added /\ restore'[r].old = {} /\ restore[r].old = {}
      /\ restore[r].id \in Ids
  BY DropEffect DEF TypeInv, Reading, Reads
<1>2. restore'[r].lines = restore[r].lines /\ restore'[r].id = restore[r].id /\ UNCHANGED before
  BY <1>1 DEF OwnStep, history
<1>3. \A n \in Names : backups'[restore[r].id].old[n] \in {0, backups[restore[r].id].old[n]}
  BY <1>1 DEF MayDrop, NoBackup, Empty
<1>4. ASSUME Progress(r)
      PROVE  Progress(r)'
  <2>1. ASSUME NEW j \in Listed(restore[r].lines, "O")
        PROVE  backups'[restore[r].id].old[restore[r].lines[j].name] = 0
    BY <1>1, <1>3, <1>4, PlacesAre DEF Progress
  <2>2. QED  BY <1>1, <1>2, <1>4, <2>1 DEF Progress
<1>5. QED  BY <1>1, <1>4, AloneGoesOn

LEMMA AloneStep ==
  ASSUME TypeInv, Faithful, ReadsFaithfully, BackupNext, NEW r \in Restorers, AloneWorks(r)
  PROVE  AloneWorks(r)'
<1>1. CASE RestoreDone(r) \/ RestoreFails(r)
  BY <1>1, EndEffect DEF AloneWorks, Alone, Ends, Idle
<1>2. QED
  BY <1>1, OthersEndAlone, AloneBegins, AloneDeletes, AloneLooks, AloneClears, AlonePuts,
     AloneDrops DEF RestoreStep

-----------------------------------------------------------------------------
(* The invariant holds.                                                     *)

LEMMA BackupAtStart ==
  ASSUME BackupInit
  PROVE  BackupInv
<1>1. /\ live \in [Names -> {0, 1}] /\ backups = [b \in Ids |-> NoBackup]
      /\ x = [pc |-> "idle", id |-> 0, todo |-> <<>>, count |-> 0, next |-> 2]
      /\ restore = [r \in Restorers |-> Idle] /\ crashes = 0
      /\ before = [b \in Ids |-> Empty] /\ after = [b \in Ids |-> Empty]
      /\ regular = [b \in Ids |-> TRUE] /\ unlisted = [b \in Ids |-> {}]
  BY DEF BackupInit
<1>2. /\ x.pc = "idle" /\ x.id = 0 /\ x.todo = <<>> /\ x.count = 0 /\ x.next = 2
      /\ \A r \in Restorers : restore[r] = Idle
      /\ \A b \in Ids : backups[b] = NoBackup /\ before[b] = Empty
  BY <1>1
<1>3. BackupTypeOK
  <2>1. 1 \in Versions
    <3>1. MaxEntries * MaxBackups \in Nat
      BY BackupAssumption
    <3>2. QED  BY <3>1 DEF Versions
  <2>2. live \in Folder
    BY <1>1, <2>1, VersionsAre DEF Folder
  <2>3. backups \in [Ids -> Backup] /\ before \in [Ids -> Folder] /\ after \in [Ids -> Folder]
        /\ restore \in [Restorers -> Restore] /\ regular \in [Ids -> BOOLEAN]
        /\ unlisted \in [Ids -> SUBSET Names]
    BY <1>1, VersionsAre
  <2>4. extraction \in Extraction
    <3>1. <<>> \in Seq(Names)
      OBVIOUS
    <3>2. QED  BY <1>1, <3>1 DEF Extraction
  <2>5. crashes \in 0 .. MaxCrashes
    BY <1>1, BackupAssumption
  <2>6. QED  BY <2>2, <2>3, <2>4, <2>5 DEF BackupTypeOK
<1>4. Counted
  <2>1. MaxEntries * 0 = 0 /\ Len(x.todo) = 0
    BY <1>2, BackupAssumption
  <2>2. QED  BY <1>2, <2>1 DEF Counted, Extracting
<1>5. Reading
  BY <1>2 DEF Reading, Reads, Idle
<1>6. OnePlace
  <2>1. \A n \in Names : live[n] \in {0, 1}
    BY <1>1
  <2>2. \A n \in Names, b \in Ids : backups[b].old[n] = 0
    BY <1>2 DEF NoBackup, Empty
  <2>3. QED  BY <1>2, <2>1, <2>2 DEF OnePlace
<1>7. Untouched /\ ChangesAreListed
  BY <1>2 DEF Untouched, ChangesAreListed, Extracting
<1>8. Faithful
  BY <1>2 DEF Faithful, FaithfulTo, Closed, NoBackup, Empty, Listed
<1>9. ReadsFaithfully /\ \A r \in Restorers : AloneWorks(r)
  BY <1>2 DEF ReadsFaithfully, ReadTruly, AloneWorks, Alone, Idle
<1>10. OldIsListed
  BY <1>2 DEF OldIsListed, NoBackup
<1>11. QED  BY <1>3, <1>4, <1>5, <1>6, <1>7, <1>8, <1>9, <1>10 DEF BackupInv

LEMMA BackupStep ==
  ASSUME BackupInv, [BackupNext]_backupVars
  PROVE  BackupInv'
<1>1. CASE BackupNext
  <2>1. TypeInv /\ ExtractionInv /\ OnePlace /\ Faithful /\ ReadsFaithfully /\ OldIsListed
        /\ \A r \in Restorers : AloneWorks(r)
    BY DEF BackupInv, TypeInv, ExtractionInv
  <2>2. TypeInv' /\ ExtractionInv' /\ OnePlace' /\ Faithful' /\ ReadsFaithfully' /\ OldIsListed'
    BY <1>1, <2>1, TypeStep, ExtractionInvStep, OnePlaceStep, FaithfulStep, ReadsStep,
       OldIsListedStep
  <2>3. ASSUME NEW r \in Restorers
        PROVE  AloneWorks(r)'
    BY <1>1, <2>1, AloneStep
  <2>4. QED  BY <2>2, <2>3 DEF BackupInv, TypeInv, ExtractionInv
<1>2. CASE UNCHANGED backupVars
  <2>1. /\ live' = live /\ backups' = backups /\ extraction' = extraction /\ restore' = restore
        /\ crashes' = crashes /\ before' = before /\ after' = after /\ regular' = regular
        /\ unlisted' = unlisted
    BY <1>2 DEF backupVars
  <2>2. /\ BackupTypeOK' /\ Counted' /\ Reading' /\ OnePlace'
    BY <2>1 DEF BackupInv, BackupTypeOK, Counted, Reading, Reads, OnePlace, Extracting
  <2>3. /\ Untouched' /\ ChangesAreListed' /\ OldIsListed'
    BY <2>1 DEF BackupInv, Untouched, ChangesAreListed, OldIsListed, Extracting, Ahead, File
  <2>4. Faithful' /\ ReadsFaithfully'
    <3>1. \A b \in Ids : FaithfulTo(b)' <=> FaithfulTo(b)
      BY <2>1 DEF FaithfulTo, Closed, Extracting
    <3>2. \A r \in Restorers : ReadTruly(r)' <=> ReadTruly(r)
      BY <2>1 DEF ReadTruly
    <3>3. Ids' = Ids /\ x' = x
      BY <2>1 DEF Ids
    <3>4. QED  BY <2>1, <3>1, <3>2, <3>3 DEF BackupInv, Faithful, ReadsFaithfully
  <2>5. \A r \in Restorers : AloneWorks(r)'
    <3>1. \A r \in Restorers : Progress(r)' <=> Progress(r)
      BY <2>1 DEF Progress
    <3>2. \A r \in Restorers : OldName(r)' = OldName(r)
      BY <2>1 DEF OldName, NextOld
    <3>3. \A r \in Restorers : AloneWorks(r)' <=> AloneWorks(r)
      BY <2>1, <3>1, <3>2 DEF AloneWorks, Alone, Undoing, Extracting
    <3>4. QED  BY <3>3 DEF BackupInv
  <2>6. QED  BY <2>2, <2>3, <2>4, <2>5 DEF BackupInv
<1>3. QED  BY <1>1, <1>2

(* Between any two steps of an extraction, of restores and removals that may  *)
(* overlap it and each other, and of kills, the target folder, the backups    *)
(* and their manifests agree as described above.                             *)
THEOREM BackupInvariant == BackupSpec => []BackupInv
<1>1. BackupInit => BackupInv
  BY BackupAtStart
<1>2. BackupInv /\ [BackupNext]_backupVars => BackupInv'
  BY BackupStep
<1>3. QED  BY <1>1, <1>2, PTL DEF BackupSpec

(* Every variable of the backups has its type: no version is given out that   *)
(* the bounds do not allow, no restore works on a backup that never was.      *)
THEOREM BackupTypeCorrect == BackupSpec => []BackupTypeOK
<1>1. BackupInv => BackupTypeOK
  BY DEF BackupInv
<1>2. QED  BY <1>1, BackupInvariant, PTL

-----------------------------------------------------------------------------
(* What it gives.                                                           *)

(* archive_backup_move_existing renames first and writes the manifest line    *)
(* after, but whatever lies in a backup that can be listed has its line, so    *)
(* that a restore finds it, after kills too: all but the one file that is      *)
(* between the two now, or was when the program was killed.                   *)
THEOREM WhatIsBackedUpIsListed == BackupSpec => []OldIsListed
<1>1. BackupInv => OldIsListed
  BY DEF BackupInv
<1>2. QED  BY <1>1, BackupInvariant, PTL

LEMMA DoneIsUndone ==
  ASSUME BackupInv
  PROVE  RestoreUndoes
<1> SUFFICES ASSUME NEW r \in Restorers, Undone(r), unlisted[restore[r].id] = {},
                    regular[restore[r].id]
             PROVE  live = before[restore[r].id]
  BY DEF RestoreUndoes
<1> DEFINE lines == restore[r].lines
           was == before[restore[r].id]
<1>1. TypeInv
  BY DEF BackupInv, TypeInv
<1>2. restore[r].pc = "drop" /\ restore[r].added = {} /\ restore[r].old = {} /\ restore[r].id \in Ids
  BY <1>1 DEF Undone, TypeInv, Reading, Reads
<1>3. Progress(r)
  BY <1>2 DEF BackupInv, AloneWorks, Alone, Undoing, Undone
<1>4. \A i \in Listed(lines, "A") : was[lines[i].name] = 0
  BY <1>2 DEF BackupInv, ReadsFaithfully, ReadTruly
<1>5. ASSUME NEW n \in Names
      PROVE  live[n] = was[n]
  <2>1. CASE n \notin Named(lines)
    BY <1>3, <2>1 DEF Progress
  <2>2. CASE n \in Named(lines)
    <3>1. PICK i \in DOMAIN lines : lines[i].name = n
      BY <2>2 DEF Named
    <3>2. lines[i] \in Line
      <4>1. lines \in Seq(Line)
        BY <1>1, RestoreIs
      <4>2. QED  BY <4>1
    <3>3. CASE lines[i].tag = "A"
      <4>1. i \in Listed(lines, "A") \ restore[r].added
        BY <1>2, <3>3 DEF Listed
      <4>2. QED  BY <1>3, <1>4, <3>1, <4>1 DEF Progress
    <3>4. CASE lines[i].tag = "O"
      <4>1. i \in Listed(lines, "O") \ restore[r].old
        BY <1>2, <3>4 DEF Listed
      <4>2. QED  BY <1>3, <3>1, <4>1 DEF Progress
    <3>5. QED  BY <3>2, <3>3, <3>4 DEF Line
  <2>3. QED  BY <2>1, <2>2
<1>6. live \in [Names -> Versions] /\ was \in [Names -> Versions]
  BY <1>1, <1>2 DEF TypeInv, BackupTypeOK, Folder
<1> HIDE DEF was
<1>7. live = was
  BY <1>5, <1>6
<1>8. QED  BY <1>7 DEF was

(* A restore that reports success and that nothing disturbed leaves the target *)
(* folder exactly as it was before the extraction: the added files are gone,   *)
(* the replaced ones are back, and nothing else was touched.  It holds for an   *)
(* extraction that was killed as well, unless that left a file unlisted.       *)
THEOREM RestoresUndo == BackupSpec => []RestoreUndoes
<1>1. BackupInv => RestoreUndoes
  BY DoneIsUndone
<1>2. QED  BY <1>1, BackupInvariant, PTL

KeepsAll ==
  ExtractionStep /\ x.pc # "idle" /\ regular[x.id] =>
    \A n \in Names : Kept(n) \ {0} \subseteq Kept(n)'

LEMMA ExtractionKeepsAll ==
  ASSUME BackupInv, BackupNext
  PROVE  KeepsAll
<1> SUFFICES ASSUME ExtractionStep, Extracting, regular[x.id], NEW n \in Names
             PROVE  Kept(n) \ {0} \subseteq Kept(n)'
  BY DEF KeepsAll, Extracting
<1>1. TypeInv /\ Untouched /\ x.id \in Ids
  <2>1. TypeInv /\ Untouched
    BY DEF BackupInv, TypeInv
  <2>2. QED  BY <2>1, ExtractionIs
<1>2. CASE LookAt \/ NoteOld \/ NoteAdded \/ Stop
  <2>1. UNCHANGED live
    BY <1>1, <1>2, LookAtEffect, NoteEffect, StopEffect
  <2>2. \A b \in Ids : backups'[b].old = backups[b].old
    BY <1>1, <1>2, LookAtEffect, NoteEffect, StopEffect DEF Notes
  <2>3. QED  BY <2>1, <2>2 DEF Kept, Ids
<1>3. CASE MoveExisting
  <2>1. /\ x.pc = "move" /\ live[File] # 0 /\ x.todo # <<>>
        /\ \A m \in Names \ {File} : live'[m] = live[m]
        /\ \A b \in Ids \ {x.id} : backups'[b] = backups[b]
        /\ backups'[x.id].old[File] = live[File]
        /\ \A m \in Names \ {File} : backups'[x.id].old[m] = backups[x.id].old[m]
    BY <1>1, <1>3, MoveEffect DEF TypeInv, Counted
  <2>2. CASE n # File
    <3>1. live'[n] = live[n] /\ \A b \in Ids : backups'[b].old[n] = backups[b].old[n]
      BY <2>1, <2>2
    <3>2. QED  BY <3>1 DEF Kept, Ids
  <2>3. CASE n = File
    <3>1. n = x.todo[1] /\ 1 \in 1 .. Len(x.todo)
      BY <1>1, <2>1, <2>3, ExtractionIs
    <3>2. backups[x.id].old[n] = 0
      BY <1>1, <2>1, <3>1 DEF Untouched, Ahead
    <3>3. \A b \in Ids : backups[b].old[n] # 0 => backups'[b].old[n] = backups[b].old[n]
      BY <2>1, <3>2
    <3>4. backups'[x.id].old[n] = live[n]
      BY <2>1, <2>3
    <3>5. QED  BY <1>1, <3>3, <3>4 DEF Kept, Ids
  <2>4. QED  BY <2>2, <2>3
<1>4. CASE Place
  <2>1. x.pc = "place" /\ UNCHANGED backups /\ \A m \in Names \ {File} : live'[m] = live[m]
    BY <1>1, <1>4, PlaceEffect
  <2>2. live[File] = 0
    BY <1>1, <2>1 DEF Untouched
  <2>3. live[n] # 0 => live'[n] = live[n]
    BY <2>1, <2>2
  <2>4. QED  BY <2>1, <2>3 DEF Kept, Ids
<1>5. CASE Close
  <2>1. /\ x.pc = "close" /\ UNCHANGED live
        /\ \A b \in Ids \ {x.id} : backups'[b] = backups[b]
        /\ backups'[x.id] = backups[x.id] \/ x.count = 0
    BY <1>1, <1>5, CloseEffect
  <2>2. x.count = 0 => backups[x.id].old[n] = 0
    BY <1>1, <2>1 DEF Untouched
  <2>3. \A b \in Ids : backups[b].old[n] # 0 => backups'[b].old[n] = backups[b].old[n]
    BY <2>1, <2>2
  <2>4. QED  BY <2>1, <2>3 DEF Kept, Ids
<1>6. ~\E b \in Ids, style \in Styles : BackupBegin(b, style)
  BY DEF BackupBegin, Extracting
<1>7. QED  BY <1>2, <1>3, <1>4, <1>5, <1>6 DEF ExtractionStep

Spares ==
  \A r \in Restorers, n \in Names :
    restore[r].pc # "idle" /\ restore[r].alone /\ regular[restore[r].id] => ~DeletesOriginal(r, n)

LEMMA RestoreSpares ==
  ASSUME BackupInv, BackupNext
  PROVE  Spares
<1> SUFFICES ASSUME NEW r \in Restorers, NEW n \in Names, Alone(r), regular[restore[r].id],
                    RestoreStep(r), live[n] # 0, live'[n] # live[n],
                    live[n] = before[restore[r].id][n]
             PROVE  FALSE
  BY DEF Spares, DeletesOriginal, Alone
<1>1. TypeInv /\ AloneWorks(r) /\ Faithful /\ ReadTruly(r) /\ OnePlace
  BY DEF BackupInv, TypeInv, ReadsFaithfully
<1>2. restore[r].pc # "idle" /\ restore[r].id \in Ids
  BY <1>1 DEF Alone, TypeInv, Reading, Reads
<1>3. CASE DeleteAdded(r)
  <2>1. PICK i \in restore[r].added :
          \A m \in Names \ {restore[r].lines[i].name} : live'[m] = live[m]
    BY <1>1, <1>3, DeleteAddedEffect
  <2>2. n = restore[r].lines[i].name /\ i \in Listed(restore[r].lines, "A")
    BY <1>1, <2>1 DEF TypeInv, Reading, Reads
  <2>3. QED  BY <1>1, <1>2, <2>2 DEF ReadTruly
<1>4. CASE ClearLive(r)
  <2>1. restore[r].pc = "clear" /\ n = OldName(r)
    BY <1>1, <1>4, ClearLiveEffect
  <2>2. backups[restore[r].id].old[n] # 0
    BY <1>1, <2>1 DEF AloneWorks
  <2>3. backups[restore[r].id].old[n] = live[n]
    BY <1>1, <1>2, <2>2 DEF Faithful, FaithfulTo
  <2>4. QED  BY <1>1, <1>2, <2>3 DEF OnePlace
<1>5. CASE PutBack(r)
  <2>1. CASE Ends(r)
    BY <2>1 DEF Ends
  <2>2. CASE ~Ends(r)
    <3>1. restore[r].pc = "put" /\ n = OldName(r)
      BY <1>1, <1>5, <2>2, PutBackEffect
    <3>2. QED  BY <1>1, <3>1 DEF AloneWorks
  <2>3. QED  BY <2>1, <2>2
<1>6. CASE ~DeleteAdded(r) /\ ~ClearLive(r) /\ ~PutBack(r)
  BY <1>2, <1>6 DEF RestoreStep, RestoreBegin, AddedGone, CheckOld, DropBackup, RestoreDone,
                    RestoreFails
<1>7. QED  BY <1>3, <1>4, <1>5, <1>6

(* No step of an extraction that nothing overlaps loses a file, whether it     *)
(* moves one away, places one or closes the backup; and no restore that is     *)
(* alone deletes a file from before it, though it clears the way for each file *)
(* it puts back and may be stopped and begun anew at any point.               *)
THEOREM OriginalsStay == BackupSpec => OriginalsSurvive
<1>1. BackupInv /\ [BackupNext]_backupVars => [KeepsAll]_backupVars
  BY ExtractionKeepsAll
<1>2. BackupInv /\ [BackupNext]_backupVars => [Spares]_backupVars
  BY RestoreSpares
<1>3. BackupSpec => [][KeepsAll]_backupVars /\ [][Spares]_backupVars
  BY <1>1, <1>2, BackupInvariant, PTL DEF BackupSpec
<1>4. QED
  BY <1>3 DEF OriginalsSurvive, ExtractionLosesNothing, RestoreSparesOriginals, KeepsAll, Spares
==============================================================================
