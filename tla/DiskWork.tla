------------------------------ MODULE DiskWork -------------------------------
(***************************************************************************)
(* What works on the disk's files, one machine at a time: the zip reader     *)
(* (ZipStream), the body of a RAR upload (RarUpload), the backup of what an  *)
(* extraction overwrites (ArchiveBackup), the preparing of an extracted app  *)
(* (AppPrepare), copy, move and delete (FileOps), and the upload of a file   *)
(* (QueuedUpload).  A behaviour is one of the six; they share no variable,   *)
(* and the other five stay as they are.                                      *)
(***************************************************************************)
EXTENDS ArchiveBackup, ZipStream, RarUpload, AppPrepare, FileOps, QueuedUpload

VARIABLE view   \* the one that runs

NoBackups == BackupInit /\ live = Empty
NoZip ==
  /\ archive = <<>> /\ selection = [extract |-> <<>>, strip |-> <<>>] /\ backup = FALSE
  /\ input = [items |-> <<>>, pos |-> 0, end |-> 0] /\ zipCancel = FALSE
  /\ folder = [files |-> <<>>, dirs |-> {}, part |-> <<>>, saved |-> [files |-> <<>>, dirs |-> {}]]
  /\ parser = NewParser /\ zipResult = "none" /\ blame = "nobody" /\ originals = {}
NoRar == RarInit /\ body = (CHOOSE b \in RarBodies : TRUE) /\ wire = <<>>
NoPrepare ==
  /\ disk = <<>> /\ prepare = [w \in Preparers |-> Waiting]
  /\ prepareCancel = FALSE /\ announced = {}
NoFileOps ==
  /\ devices = 1 /\ aliased = FALSE /\ links = {} /\ folders = {}
  /\ file = [p \in Places |-> [n \in EntryNames |-> None]]
  /\ op = [o \in Ops |-> NewOp] /\ had = Nothing /\ hadTo = Nothing
NoUpload == UploadInit /\ ~chunked /\ target = NoFile

DiskWorkInit ==
  \/ view = "backup" /\ BackupInit /\ NoZip /\ NoRar /\ NoPrepare /\ NoFileOps /\ NoUpload
  \/ view = "zip" /\ NoBackups /\ ZipInit /\ NoRar /\ NoPrepare /\ NoFileOps /\ NoUpload
  \/ view = "rar" /\ NoBackups /\ NoZip /\ RarInit /\ NoPrepare /\ NoFileOps /\ NoUpload
  \/ view = "prepare" /\ NoBackups /\ NoZip /\ NoRar /\ PrepareInit /\ NoFileOps /\ NoUpload
  \/ view = "files" /\ NoBackups /\ NoZip /\ NoRar /\ NoPrepare /\ FileOpsInit /\ NoUpload
  \/ /\ view = "upload" /\ UploadInit
     /\ NoBackups /\ NoZip /\ NoRar /\ NoPrepare /\ NoFileOps

BackupStep == /\ view = "backup" /\ BackupNext
              /\ UNCHANGED <<view, zipVars, rarVars, prepareVars, opVars, uploadVars>>
ZipStep == /\ view = "zip" /\ ZipNext
           /\ UNCHANGED <<view, backupVars, rarVars, prepareVars, opVars, uploadVars>>
RarStep == /\ view = "rar" /\ RarNext
           /\ UNCHANGED <<view, backupVars, zipVars, prepareVars, opVars, uploadVars>>
PrepareStep == /\ view = "prepare" /\ PrepareNext
               /\ UNCHANGED <<view, backupVars, zipVars, rarVars, opVars, uploadVars>>
FilesStep == /\ view = "files" /\ FileOpsNext
             /\ UNCHANGED <<view, backupVars, zipVars, rarVars, prepareVars, uploadVars>>
UploadStep == /\ view = "upload" /\ UploadNext
              /\ UNCHANGED <<view, backupVars, zipVars, rarVars, prepareVars, opVars>>

DiskWorkNext ==
  BackupStep \/ ZipStep \/ RarStep \/ PrepareStep \/ FilesStep \/ UploadStep
DiskWorkSpec ==
  DiskWorkInit /\ [][DiskWorkNext]_
                    <<view, backupVars, zipVars, rarVars, prepareVars, opVars, uploadVars>>
=============================================================================
