------------------------------ MODULE BlockPool ------------------------------
(***************************************************************************)
(* The block pipeline of PFS compression and decompression.  The job's      *)
(* thread (main) fills slots of an array with the blocks of an image in     *)
(* order, worker threads code the slots that are READY in any order, and     *)
(* main writes them to the output in order again.  One mutex and one         *)
(* condition variable, always broadcast, guard the slots' states; a slot's   *)
(* buffers are used outside the lock by whoever its state gives it to.       *)
(*                                                                          *)
(* Two users: compress_nested_to_pfsc, whose workers can fail to start and   *)
(* which can delete the source's files as their blocks are written, and      *)
(* pfs_extract_file_parallel, whose workers can fail on a block.             *)
(*                                                                          *)
(* Blocks are numbered from 0; the content of a buffer is the number of the  *)
(* block it came from.  A critical section is one step.                      *)
(***************************************************************************)
EXTENDS Naturals, Sequences, FiniteSetsExt

CONSTANTS Workers,
          BlockCount,  \* blocks of the image (or of the file)
          SlotCount,   \* slots of the pool
          PoolKinds,       \* the users modelled: "compress", "decompress"
          FileEnds,    \* delete_stream: where each source file's blocks end
          NoBlock

ASSUME PoolAssumption ==
  /\ BlockCount \in Nat \ {0} /\ SlotCount \in 1 .. BlockCount
  /\ PoolKinds \subseteq {"compress", "decompress"}
  /\ FileEnds \in Seq(1 .. BlockCount)
  /\ \A i, j \in 1 .. Len(FileEnds) : i <= j => FileEnds[i] <= FileEnds[j]
  /\ NoBlock \notin Nat

VARIABLES
  kind,       \* which of the two uses the pool
  slot,       \* pfsc_slot_t / pfs_block_slot_t
  error,      \* pool.error
  stop,       \* pool.stop
  asleep,     \* the threads in pthread_cond_wait
  worker,     \* the worker threads
  main,       \* where the job's thread is
  nextRead, nextWrite,
  buffered,   \* the blocks in the output buffer
  written,        \* the blocks in the output file
  deleted,    \* how many source files are deleted (next_delete_index)
  result

blockVars == <<kind, slot, error, stop, asleep, worker, main, nextRead, nextWrite,
          buffered, written, deleted, result>>
poolVars == <<slot, error, stop, asleep>>
outVars  == <<buffered, written>>

Main    == "main"
PoolBlocks  == 0 .. BlockCount - 1
Slots   == 0 .. SlotCount - 1
Content == PoolBlocks \cup {NoBlock}
Slot    == [state : {"free", "filling", "ready", "busy", "done"},
            index : Content, raw : Content, coded : Content]
Worker  == [pc : {"none", "new", "look", "code", "finish", "failed", "exit"},
            slot : Slots \cup {NoBlock}]

(* calloc, pthread_mutex_init: nothing runs, nothing is held.               *)
PoolInit ==
  /\ kind \in PoolKinds
  /\ slot = [i \in Slots |-> [state |-> "free", index |-> NoBlock, raw |-> NoBlock, coded |-> NoBlock]]
  /\ error = FALSE /\ stop = FALSE /\ asleep = {}
  /\ worker = [w \in Workers |-> [pc |-> "none", slot |-> NoBlock]]
  /\ main = "spawn" /\ nextRead = 0 /\ nextWrite = 0
  /\ buffered = <<>> /\ written = <<>> /\ deleted = 0 /\ result = "running"

Broadcast == asleep' = {}
Sleep(t)  == asleep' = asleep \cup {t}

Cell(b) == b % SlotCount

(* goto done: the pool is stopped and joined.                               *)
GoToDone ==
  /\ main' = "stop" /\ result' = "failed"

----------------------------------------------------------------------------
(* The worker threads: pfsc_worker_main, pfsc_decode_worker_main.           *)

(* The compressor's state cannot be allocated: pfsc_pool_set_error.         *)
WorkerStart(w) ==
  /\ worker[w].pc = "new"
  /\ \/ /\ worker' = [worker EXCEPT ![w].pc = "look"]
        /\ UNCHANGED poolVars
     \/ /\ kind = "compress"
        /\ worker' = [worker EXCEPT ![w].pc = "exit"]
        /\ error' = TRUE /\ stop' = TRUE /\ Broadcast /\ UNCHANGED slot
  /\ UNCHANGED <<main, nextRead, nextWrite, outVars, deleted, result>>

ReadySlots == {i \in Slots : slot[i].state = "ready"}

Look(w) ==
  /\ worker[w].pc = "look" /\ w \notin asleep
  /\ \/ /\ stop
        /\ worker' = [worker EXCEPT ![w].pc = "exit"]
        /\ UNCHANGED <<slot, asleep>>
     \/ /\ ~stop /\ ReadySlots = {}
        /\ Sleep(w)
        /\ UNCHANGED <<slot, worker>>
     \/ /\ ~stop /\ ReadySlots # {}
        /\ slot' = [slot EXCEPT ![Min(ReadySlots)].state = "busy"]
        /\ worker' = [worker EXCEPT ![w] = [pc |-> "code", slot |-> Min(ReadySlots)]]
        /\ UNCHANGED asleep
  /\ UNCHANGED <<error, stop, main, nextRead, nextWrite, outVars, deleted, result>>

(* Outside the lock: the slot's block is compressed, or read and inflated,   *)
(* which can fail.                                                          *)
Code(w) ==
  /\ worker[w].pc = "code"
  /\ \/ /\ slot' = [slot EXCEPT ![worker[w].slot].coded = slot[worker[w].slot].raw]
        /\ worker' = [worker EXCEPT ![w].pc = "finish"]
     \/ /\ kind = "decompress"
        /\ worker' = [worker EXCEPT ![w].pc = "failed"]
        /\ UNCHANGED slot
  /\ UNCHANGED <<error, stop, asleep, main, nextRead, nextWrite, outVars, deleted, result>>

Finish(w) ==
  /\ worker[w].pc \in {"finish", "failed"}
  /\ slot' = [slot EXCEPT ![worker[w].slot].state = "done"]
  /\ LET bad == worker[w].pc = "failed"
     IN /\ error' = (error \/ bad) /\ stop' = (stop \/ bad)
        /\ worker' = [worker EXCEPT ![w] = [pc |-> IF bad THEN "exit" ELSE "look", slot |-> NoBlock]]
  /\ Broadcast
  /\ UNCHANGED <<main, nextRead, nextWrite, outVars, deleted, result>>

----------------------------------------------------------------------------
(* The job's thread.                                                        *)

Spawn ==
  /\ main = "spawn"
  /\ \/ \E w \in Workers :
          /\ worker[w].pc = "none"
          /\ worker' = [worker EXCEPT ![w].pc = "new"]
          /\ main' = IF \A v \in Workers \ {w} : worker[v].pc # "none" THEN "loop" ELSE main
          /\ UNCHANGED result
     \/ GoToDone /\ UNCHANGED worker       \* pthread_create fails
  /\ UNCHANGED <<poolVars, nextRead, nextWrite, outVars, deleted>>

(* Mutant: one block too many in flight. *)
CanReadTooFar == nextRead < BlockCount /\ nextRead - nextWrite <= SlotCount

CanRead == nextRead < BlockCount /\ nextRead - nextWrite < SlotCount

(* The next slot is reserved, once it is free.                              *)
Reserve ==
  LET i == Cell(nextRead) IN
  /\ main = "loop" /\ Main \notin asleep /\ nextWrite < BlockCount /\ CanRead
  /\ \/ error /\ GoToDone /\ UNCHANGED <<slot, asleep>>
     \/ /\ ~error /\ slot[i].state # "free"
        /\ Sleep(Main) /\ UNCHANGED <<slot, main, result>>
     \/ /\ ~error /\ slot[i].state = "free"
        /\ slot' = [slot EXCEPT ![i] = [state |-> "filling", index |-> nextRead,
                                        raw |-> NoBlock, coded |-> NoBlock]]
        /\ main' = "fill"
        /\ UNCHANGED <<asleep, result>>
  /\ UNCHANGED <<error, stop, worker, nextRead, nextWrite, outVars, deleted>>

(* A block whose source file is deleted can no longer be read.              *)
Readable(b) == \A f \in 1 .. deleted : b >= FileEnds[f]

(* Outside the lock: job_cancelled(), virtual_reader_read.                   *)
Fill ==
  LET i == Cell(nextRead) IN
  /\ main = "fill"
  /\ \/ /\ slot' = [slot EXCEPT ![i].state = "free"]      \* cancelled, a read error
        /\ Broadcast /\ GoToDone
     \/ /\ Readable(nextRead)
        /\ slot' = [slot EXCEPT ![i].raw = nextRead]
        /\ main' = "publish"
        /\ UNCHANGED <<asleep, result>>
  /\ UNCHANGED <<error, stop, worker, nextRead, nextWrite, outVars, deleted>>

Publish ==
  /\ main = "publish"
  /\ slot' = [slot EXCEPT ![Cell(nextRead)].state = "ready"]
  /\ Broadcast
  /\ nextRead' = nextRead + 1
  /\ main' = "loop"
  /\ UNCHANGED <<error, stop, worker, nextWrite, outVars, deleted, result>>

(* Mutant: a slot is written though its block is not coded yet. *)
HoldsAny(i) == slot[i].state \in {"done", "busy"}

HoldsNext(i) == slot[i].state = "done" /\ slot[i].index = nextWrite

Collect ==
  /\ main = "loop" /\ Main \notin asleep /\ nextWrite < BlockCount /\ ~CanRead
  /\ \/ error /\ GoToDone /\ UNCHANGED asleep
     \/ ~error /\ ~HoldsNext(Cell(nextWrite)) /\ Sleep(Main) /\ UNCHANGED <<main, result>>
     \/ ~error /\ HoldsNext(Cell(nextWrite)) /\ main' = "write" /\ UNCHANGED <<asleep, result>>
  /\ UNCHANGED <<slot, error, stop, worker, nextRead, nextWrite, outVars, deleted>>

(* pfsc_output_buffer_write, pfs_stream_buffer_write: the block fits, or the *)
(* buffer is flushed first; a flush can fail.                               *)
Write ==
  LET b == slot[Cell(nextWrite)].coded IN
  /\ main = "write"
  /\ \/ /\ \/ buffered' = Append(buffered, b) /\ UNCHANGED written
           \/ buffered' = <<b>> /\ written' = written \o buffered
        /\ main' = "release" /\ UNCHANGED result
     \/ GoToDone /\ UNCHANGED outVars
  /\ UNCHANGED <<poolVars, worker, nextRead, nextWrite, deleted>>

Release ==
  /\ main = "release"
  /\ slot' = [slot EXCEPT ![Cell(nextWrite)].state = "free"]
  /\ Broadcast
  /\ main' = "delete"
  /\ UNCHANGED <<error, stop, worker, nextRead, nextWrite, outVars, deleted, result>>

(* delete_stream; the decompressor deletes nothing here.                    *)
Undeleted == IF kind = "compress" THEN deleted + 1 .. Len(FileEnds) ELSE {}

(* The source files all of whose blocks are complete, but not deleted yet.   *)
PoolCommitted(completed) == {f \in Undeleted : FileEnds[f] <= completed}

(* Mutant: the buffer is not flushed first. *)
FlushNothing == UNCHANGED outVars

FlushBuffer == written' = written \o buffered /\ buffered' = <<>>

(* delete_committed_source_files, then the next block.  The flush or an      *)
(* unlink can fail, with some files gone.                                   *)
DeleteWritten ==
  LET files == PoolCommitted(nextWrite + 1) IN
  /\ main = "delete"
  /\ IF files = {} THEN UNCHANGED <<outVars, deleted>>
                   ELSE FlushBuffer /\ deleted' = Max(files)
  /\ nextWrite' = nextWrite + 1
  /\ main' = "loop"
  /\ UNCHANGED <<poolVars, worker, nextRead, result>>

DeleteFails ==
  LET files == PoolCommitted(nextWrite + 1) IN
  /\ main = "delete" /\ files # {}
  /\ \/ UNCHANGED <<outVars, deleted>>
     \/ FlushBuffer /\ deleted' \in {f - 1 : f \in files}
  /\ GoToDone
  /\ UNCHANGED <<poolVars, worker, nextRead, nextWrite>>

(* Every block is written: the compressor stops the pool first, the          *)
(* decompressor flushes first.                                              *)
LoopEnds ==
  /\ main = "loop" /\ nextWrite = BlockCount
  /\ main' = IF kind = "compress" THEN "stop" ELSE "flush"
  /\ UNCHANGED <<poolVars, worker, nextRead, nextWrite, outVars, deleted, result>>

(* The last flush; the compressor's header with the offset table follows.    *)
(* Then `done', where both stop and join whoever is left.                    *)
Flush ==
  /\ main = "flush"
  /\ \/ FlushBuffer /\ result' = "ok"
     \/ UNCHANGED outVars /\ result' = "failed"
     \/ FlushBuffer /\ kind = "compress" /\ result' = "failed"    \* the header
  /\ main' = "stop"
  /\ UNCHANGED <<poolVars, worker, nextRead, nextWrite, deleted>>

(* Mutant: stop is set, the sleeping workers are not told. *)
StopPoolSilently ==
  /\ main = "stop"
  /\ stop' = TRUE /\ UNCHANGED asleep
  /\ main' = "join"
  /\ UNCHANGED <<slot, error, worker, nextRead, nextWrite, outVars, deleted, result>>

StopPool ==
  /\ main = "stop"
  /\ stop' = TRUE /\ Broadcast
  /\ main' = "join"
  /\ UNCHANGED <<slot, error, worker, nextRead, nextWrite, outVars, deleted, result>>

(* Mutant: a worker in the middle of a block is not waited for. *)
JoinedEarly == \A w \in Workers : worker[w].pc # "look"

WorkersJoined == \A w \in Workers : worker[w].pc \in {"none", "exit"}

(* pthread_join; then the condition, the mutex and the slots are freed.     *)
Join ==
  /\ main = "join" /\ WorkersJoined
  /\ main' = IF result = "running" THEN "flush" ELSE "over"
  /\ UNCHANGED <<poolVars, worker, nextRead, nextWrite, outVars, deleted, result>>

----------------------------------------------------------------------------
MainStep == \/ Spawn \/ Reserve \/ Fill \/ Publish \/ Collect \/ Write \/ Release
            \/ DeleteWritten \/ DeleteFails \/ LoopEnds \/ Flush \/ StopPool \/ Join
WorkerStep(w) == WorkerStart(w) \/ Look(w) \/ Code(w) \/ Finish(w)

PoolNext == (MainStep \/ \E w \in Workers : WorkerStep(w)) /\ UNCHANGED kind

PoolSpec == PoolInit /\ [][PoolNext]_blockVars
(* Every thread that can run is run.                                        *)
FairPoolSpec == PoolSpec /\ WF_blockVars(MainStep /\ UNCHANGED kind) /\ \A w \in Workers : WF_blockVars(WorkerStep(w) /\ UNCHANGED kind)

----------------------------------------------------------------------------
(* The state stays in the types of the code's structures.                   *)
PoolTypeOK ==
  /\ kind \in PoolKinds
  /\ slot \in [Slots -> Slot] /\ error \in BOOLEAN /\ stop \in BOOLEAN
  /\ asleep \subseteq Workers \cup {Main}
  /\ worker \in [Workers -> Worker]
  /\ main \in {"spawn", "loop", "fill", "publish", "write", "release", "delete",
               "flush", "stop", "join", "over"}
  /\ nextRead \in 0 .. BlockCount /\ nextWrite \in 0 .. BlockCount
  /\ buffered \in Seq(Content) /\ written \in Seq(Content)
  /\ deleted \in 0 .. Len(FileEnds)
  /\ result \in {"running", "ok", "failed"}

(* The slots whose buffers the job's thread is using outside the lock.       *)
MainHolds == IF main \in {"fill", "publish"} THEN {Cell(nextRead)}
             ELSE IF main \in {"write", "release"} THEN {Cell(nextWrite)} ELSE {}
WorkerHolds(w) == IF worker[w].pc \in {"code", "finish", "failed"} THEN {worker[w].slot} ELSE {}

(* The buffers of a slot are used by one thread at a time, though nobody     *)
(* holds the lock while they are filled, coded and written; and when the job  *)
(* frees them every worker has left.                                        *)
SlotHasOneUser ==
  /\ \A w \in Workers : WorkerHolds(w) \cap MainHolds = {}
  /\ \A v, w \in Workers : v # w => WorkerHolds(v) \cap WorkerHolds(w) = {}
  /\ main \in {"over", "flush"} /\ (kind = "compress" \/ main = "over")
       => \A w \in Workers : worker[w].pc \in {"none", "exit"}

(* A source file is unlinked only when each of its blocks is in the output    *)
(* file, not in the output buffer or in a slot: a cancelled, failed or       *)
(* killed streaming compression has every block in one place or the other.   *)
DeletedIsWritten ==
  deleted > 0 => \A b \in 0 .. FileEnds[deleted] - 1 : \E i \in 1 .. Len(written) : written[i] = b

(* The job is an ordered output: blocks reach the file in order, none is      *)
(* missed, repeated or mixed up, and success means a whole image.            *)
Ordered == INSTANCE OrderedOutput WITH
             out <- written, result <- IF main = "over" THEN result ELSE "running"
PoolIsOrdered == Ordered!Spec
=============================================================================
