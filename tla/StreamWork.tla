----------------------------- MODULE StreamWork ------------------------------
(***************************************************************************)
(* What carries an archive from its upload to the disk, one machine at a     *)
(* time: the pipe between the threads that receive and extract (ArchivePipe), *)
(* and the logs that tell what became of an operation (OperationLogs).  A     *)
(* behaviour is one of them; they share no variable, and the others stay as   *)
(* they are.                                                                *)
(***************************************************************************)
EXTENDS ArchivePipe, OperationLogs

CONSTANT KindMixes   \* bound: which kinds of uploads meet

VARIABLE view   \* the one that runs

NoUploads == PipeInit /\ kind = [u \in Uploads |-> CHOOSE k \in Kinds : TRUE]
NoLogs == LogsInit /\ \A o \in Operations : operation[o].kind = "stream"

StreamWorkInit ==
  \/ view = "pipe" /\ PipeInit /\ Range(kind) \in KindMixes /\ NoLogs
  \/ view = "logs" /\ NoUploads /\ LogsInit

PipeStep == view = "pipe" /\ PipeNext /\ UNCHANGED <<view, logVars>>
LogsStep == view = "logs" /\ LogsNext /\ UNCHANGED <<view, pipeVars>>

StreamWorkNext == PipeStep \/ LogsStep
StreamWorkSpec == StreamWorkInit /\ [][StreamWorkNext]_<<view, pipeVars, logVars>>
=============================================================================
