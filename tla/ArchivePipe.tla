----------------------------- MODULE ArchivePipe -----------------------------
(***************************************************************************)
(* Streaming extraction: an archive is unpacked while it arrives.  Each     *)
(* upload has a handler thread that parses and extracts, and a producer     *)
(* thread that receives the body, joined by a bounded ring buffer (the      *)
(* pipe) on the handler's stack.  Requests that cancel run on threads of    *)
(* their own: they store g_job.cancel, copy the pipe and socket registered  *)
(* in g_archive_upload_pipe/fd, unlock, and only then cancel the pipe and   *)
(* shut the socket down.                                                    *)
(*                                                                          *)
(* Three users of the pipe: "zip" (upload_zip), "rar" (upload_rar) and      *)
(* "local" (a zip on the console, its producer reads a file).  Bytes of the *)
(* body are numbered; error texts are left out.  What a thread does while   *)
(* it holds pipe->lock is one step.                                         *)
(***************************************************************************)
EXTENDS Naturals

CONSTANTS Uploads, Cancellers, Kinds,
          Cap,        \* ARCHIVE_PIPE_SIZE
          Body,       \* bytes in the body
          Entries,    \* bytes before the central directory of a zip
          Initial,    \* bytes received along with the headers
          RecvSize,   \* ZIP_PIPE_READ_SIZE: the most a recv() returns
          ReadSize,   \* ZIP_STREAM_BUF_SIZE: the most the handler reads at once
          None        \* NULL, fd -1

AllKinds == {"zip", "rar", "local"}

ASSUME PipeAssumption ==
  /\ Cap \in Nat \ {0} /\ RecvSize \in Nat \ {0} /\ ReadSize \in Nat \ {0}
  /\ Body \in Nat \ {0} /\ Entries \in 1 .. Body /\ Initial \in 0 .. Body
  /\ Kinds \subseteq AllKinds
  /\ None \notin Uploads

VARIABLES
  busy, cancel,   \* g_job.busy, g_job.cancel
  active,         \* g_archive_upload_pipe, g_archive_upload_fd
  kind, earlier,   \* per upload: its kind; the uploads over before it began
  pipe,           \* per upload: zip_pipe_t
  handler,        \* per upload: the thread that extracts
  producer,       \* per upload: the thread that fills the pipe
  sock,           \* per upload: its connection
  canceller       \* per cancelling request: where it is, what it copied

pipeVars == <<busy, cancel, active, kind, earlier, pipe, handler, producer, sock, canceller>>

Bytes == 0 .. Body

Pipe == [live : BOOLEAN, buf : [0 .. Cap - 1 -> Bytes], rpos : 0 .. Cap - 1,
         wpos : 0 .. Cap - 1, used : 0 .. Cap, done : BOOLEAN, cancel : BOOLEAN]

NoPipe == [live |-> FALSE, buf |-> [i \in 0 .. Cap - 1 |-> 0], rpos |-> 0,
           wpos |-> 0, used |-> 0, done |-> FALSE, cancel |-> FALSE]

HandlerPCs == {"new", "manifest", "mrecv", "spawn", "fill", "read", "wait", "parse",
               "failed", "shut", "join", "end", "destroy", "reply", "gone"}
Handler == [pc : HandlerPCs, got : Bytes, drain : BOOLEAN,
            result : {"none", "ok", "failed"}]

ProducerPCs == {"none", "new", "loop", "recv", "write", "wait", "last", "clear", "exit"}
Producer == [pc : ProducerPCs, taken : Bytes, sent : Bytes]

Target == [pipe : Uploads \cup {None}, fd : Uploads \cup {None}]
NoTarget == [pipe |-> None, fd |-> None]
Canceller == [pc : {"idle", "stored", "pipe", "fd", "done"}, target : Target]

Least(a, b) == IF a < b THEN a ELSE b

(* Nothing runs: g_job and g_archive_upload_* as the program starts. *)
PipeInit ==
  /\ busy = FALSE /\ cancel = FALSE /\ active = NoTarget
  /\ kind \in [Uploads -> Kinds] /\ earlier = [u \in Uploads |-> {}]
  /\ pipe = [u \in Uploads |-> NoPipe]
  /\ handler = [u \in Uploads |-> [pc |-> "new", got |-> 0, drain |-> FALSE, result |-> "none"]]
  /\ producer = [u \in Uploads |-> [pc |-> "none", taken |-> 0, sent |-> 0]]
  /\ sock = [u \in Uploads |-> "open"]
  /\ canceller = [c \in Cancellers |-> [pc |-> "idle", target |-> NoTarget]]

----------------------------------------------------------------------------
(* The parts of the pipe: signals, and the wake-ups of a broadcast.         *)

WakeHandler(u)  == [handler EXCEPT ![u].pc = IF @ = "wait" THEN "read" ELSE @]
WakeProducer(u) == [producer EXCEPT ![u].pc = IF @ = "wait" THEN "write" ELSE @]

(* Mutant: done is set, nobody is woken. *)
FinishPipeSilently(u) ==
  /\ pipe' = [pipe EXCEPT ![u].done = TRUE]
  /\ UNCHANGED handler

(* zip_pipe_finish and zip_pipe_set_error: done, and everybody is woken.    *)
FinishPipe(u) ==
  /\ pipe' = [pipe EXCEPT ![u].done = TRUE]
  /\ handler' = WakeHandler(u)

(* zip_pipe_cancel. *)
CancelPipe(u) == pipe' = [pipe EXCEPT ![u].done = TRUE, ![u].cancel = TRUE]

(* The first n numbered bytes after `from' are put at the write position.   *)
Put(q, from, n) ==
  [q EXCEPT !.buf = [i \in 0 .. Cap - 1 |->
                       IF i \in q.wpos .. q.wpos + n - 1 THEN from + 1 + i - q.wpos ELSE @[i]],
            !.wpos = (q.wpos + n) % Cap,
            !.used = @ + n]

Take(q, n) == [q EXCEPT !.rpos = (@ + n) % Cap, !.used = @ - n]

(* Mutant: only the free space limits a copy, not the end of the buffer. *)
RoomAcrossTheEnd(q, size) == Least(size, Cap - q.used)

(* What fits without wrapping: take > free_space, take > contiguous.        *)
Room(q, size) == Least(size, Least(Cap - q.used, Cap - q.wpos))
Avail(q)      == Least(ReadSize, Least(q.used, Cap - q.rpos))

----------------------------------------------------------------------------
(* The producer thread: zip_upload_producer, zip_file_producer.             *)

(* archive_upload_set_active, then the bytes that came with the headers.    *)
SetActive(u) ==
  /\ producer[u].pc = "new"
  /\ active' = [pipe |-> u, fd |-> IF kind[u] = "local" THEN None ELSE u]
  /\ LET n == IF kind[u] = "local" THEN 0 ELSE Initial
     IN producer' = [producer EXCEPT ![u].taken = n,
                                     ![u].pc = IF n > 0 THEN "write" ELSE "loop"]
  /\ UNCHANGED <<busy, cancel, kind, earlier, pipe, handler, sock, canceller>>

(* while(remaining > 0 && !job_cancelled()) *)
Loop(u) ==
  /\ producer[u].pc = "loop"
  /\ producer' = [producer EXCEPT ![u].pc =
                    IF producer[u].taken < Body /\ ~cancel THEN "recv" ELSE "last"]
  /\ UNCHANGED <<busy, cancel, active, kind, earlier, pipe, handler, sock, canceller>>

Recv(u) ==
  /\ producer[u].pc = "recv" /\ sock[u] = "open"
  /\ \E n \in 1 .. Least(RecvSize, Body - producer[u].taken) :
       producer' = [producer EXCEPT ![u].taken = @ + n, ![u].pc = "write"]
  /\ UNCHANGED <<busy, cancel, active, kind, earlier, pipe, handler, sock, canceller>>

(* recv() fails or returns 0: the connection was shut down, the client went *)
(* away, the file is short.                                                 *)
RecvError(u) ==
  /\ producer[u].pc = "recv"
  /\ FinishPipe(u)
  /\ producer' = [producer EXCEPT ![u].pc = "clear"]
  /\ UNCHANGED <<busy, cancel, active, kind, earlier, sock, canceller>>

(* One turn of zip_pipe_write.  It gives up without a word on done, cancel  *)
(* or job_cancelled(): no error, no broadcast.                              *)
WriteGivesUp(u) ==
  /\ producer[u].pc = "write"
  /\ pipe[u].done \/ pipe[u].cancel \/ cancel
  /\ producer' = [producer EXCEPT ![u].pc = "clear"]
  /\ UNCHANGED <<busy, cancel, active, kind, earlier, pipe, handler, sock, canceller>>

WriteWaits(u) ==
  /\ producer[u].pc = "write"
  /\ pipe[u].used = Cap /\ ~pipe[u].done /\ ~pipe[u].cancel /\ ~cancel
  /\ producer' = [producer EXCEPT ![u].pc = "wait"]
  /\ UNCHANGED <<busy, cancel, active, kind, earlier, pipe, handler, sock, canceller>>

WriteCopies(u) ==
  /\ producer[u].pc = "write"
  /\ pipe[u].used < Cap /\ ~pipe[u].done /\ ~pipe[u].cancel /\ ~cancel
  /\ LET n == Room(pipe[u], producer[u].taken - producer[u].sent)
     IN /\ pipe' = [pipe EXCEPT ![u] = Put(@, producer[u].sent, n)]
        /\ producer' = [producer EXCEPT ![u].sent = @ + n,
                          ![u].pc = IF producer[u].sent + n < producer[u].taken
                                    THEN "write" ELSE "loop"]
  /\ handler' = WakeHandler(u)
  /\ UNCHANGED <<busy, cancel, active, kind, earlier, sock, canceller>>

(* All was sent, or the loop saw the cancel: finish or set_error.           *)
LastWrite(u) ==
  /\ producer[u].pc = "last"
  /\ FinishPipe(u)
  /\ producer' = [producer EXCEPT ![u].pc = "clear"]
  /\ UNCHANGED <<busy, cancel, active, kind, earlier, sock, canceller>>

(* Mutant: the pipe stays registered after its producer. *)
ClearActiveNever(u) ==
  /\ producer[u].pc = "clear"
  /\ producer' = [producer EXCEPT ![u].pc = "exit"]
  /\ UNCHANGED <<busy, cancel, active, kind, earlier, pipe, handler, sock, canceller>>

(* archive_upload_clear_active: only if the registered pair is still ours.  *)
ClearActive(u) ==
  /\ producer[u].pc = "clear"
  /\ active' = IF active.pipe = u THEN NoTarget ELSE active
  /\ producer' = [producer EXCEPT ![u].pc = "exit"]
  /\ UNCHANGED <<busy, cancel, kind, earlier, pipe, handler, sock, canceller>>

----------------------------------------------------------------------------
(* The handler thread.                                                      *)

At(u, pc) == handler[u].pc = pc
Go(u, pc) == handler' = [handler EXCEPT ![u].pc = pc]

(* job_begin (its own races are in ActivityQueue), and for a rar the socket *)
(* is registered before the manifest is read.                               *)
BeginUpload(u) ==
  /\ At(u, "new") /\ ~busy
  /\ busy' = TRUE /\ cancel' = FALSE
  /\ active' = IF kind[u] = "rar" THEN [pipe |-> None, fd |-> u] ELSE active
  /\ Go(u, IF kind[u] = "rar" THEN "manifest" ELSE "spawn")
  /\ earlier' = [earlier EXCEPT ![u] = {v \in Uploads : At(v, "gone")}]
  /\ UNCHANGED <<kind, pipe, producer, sock, canceller>>

Refused(u) ==
  /\ At(u, "new") /\ busy
  /\ Go(u, "reply")
  /\ UNCHANGED <<busy, cancel, active, kind, earlier, pipe, producer, sock, canceller>>

(* rar_parse_manifest, before the pipe exists: body_reader_read looks for a *)
(* cancel, then blocks in recv().                                           *)
ManifestCheck(u) ==
  /\ At(u, "manifest") /\ ~cancel
  /\ Go(u, "mrecv")
  /\ UNCHANGED <<busy, cancel, active, kind, earlier, pipe, producer, sock, canceller>>

ManifestRead(u) ==
  /\ At(u, "mrecv") /\ sock[u] = "open"
  /\ Go(u, "spawn")
  /\ UNCHANGED <<busy, cancel, active, kind, earlier, pipe, producer, sock, canceller>>

(* Cancelled, cut short or malformed: unregister, job_end, answer.          *)
ManifestBad(u) ==
  /\ At(u, "mrecv") \/ (At(u, "manifest") /\ cancel)
  /\ active' = IF active = [pipe |-> None, fd |-> u] THEN NoTarget ELSE active
  /\ handler' = [handler EXCEPT ![u].pc = "end", ![u].result = "failed"]
  /\ UNCHANGED <<busy, cancel, kind, earlier, pipe, producer, sock, canceller>>

(* zip_pipe_init and pthread_create of the producer. *)
Spawn(u) ==
  /\ At(u, "spawn")
  /\ pipe' = [pipe EXCEPT ![u] = [NoPipe EXCEPT !.live = TRUE]]
  /\ producer' = [producer EXCEPT ![u].pc = "new"]
  /\ Go(u, "fill")
  /\ UNCHANGED <<busy, cancel, active, kind, earlier, sock, canceller>>

(* No memory or no thread: the job ends where it is. *)
SpawnFails(u) ==
  /\ At(u, "spawn")
  /\ active' = IF active = [pipe |-> None, fd |-> u] THEN NoTarget ELSE active
  /\ handler' = [handler EXCEPT ![u].pc = "end", ![u].result = "failed"]
  /\ UNCHANGED <<busy, cancel, kind, earlier, pipe, producer, sock, canceller>>

Fails(u) == handler' = [handler EXCEPT ![u].pc = "failed", ![u].result = "failed"]

(* The archive is good even if nothing more comes: zip_stream_drain ends on *)
(* anything, rar_pipe_drain_remaining must see every byte.                  *)
Succeeds(u) == handler' = [handler EXCEPT ![u].pc = "join", ![u].result = "ok"]

(* zip_stream_fill, rar_stream_read_cb: job_cancelled() first.              *)
Fill(u) ==
  /\ At(u, "fill")
  /\ \/ /\ cancel /\ ~handler[u].drain
        /\ Fails(u)
     \/ /\ cancel /\ handler[u].drain
        /\ IF kind[u] = "rar" THEN Go(u, "read") ELSE Succeeds(u)
     \/ /\ ~cancel
        /\ Go(u, "read")
  /\ UNCHANGED <<busy, cancel, active, kind, earlier, pipe, producer, sock, canceller>>

ReadWaits(u) ==
  /\ At(u, "read")
  /\ pipe[u].used = 0 /\ ~pipe[u].done /\ ~pipe[u].cancel /\ ~cancel
  /\ Go(u, "wait")
  /\ UNCHANGED <<busy, cancel, active, kind, earlier, pipe, producer, sock, canceller>>

(* Mutant: a rar drain ends like a zip drain, whatever is missing. *)
ReadEndsGood(u) ==
  /\ At(u, "read")
  /\ pipe[u].used = 0 /\ (pipe[u].done \/ pipe[u].cancel \/ cancel)
  /\ pipe' = [pipe EXCEPT ![u].cancel = @ \/ cancel]
  /\ IF handler[u].drain THEN Succeeds(u) ELSE Fails(u)
  /\ UNCHANGED <<busy, cancel, active, kind, earlier, producer, sock, canceller>>

(* Nothing left: 0 or -1 to the caller, "short zip data" or the error.      *)
ReadEnds(u) ==
  /\ At(u, "read")
  /\ pipe[u].used = 0 /\ (pipe[u].done \/ pipe[u].cancel \/ cancel)
  /\ pipe' = [pipe EXCEPT ![u].cancel = @ \/ cancel]
  /\ IF handler[u].drain /\ kind[u] # "rar" THEN Succeeds(u) ELSE Fails(u)
  /\ UNCHANGED <<busy, cancel, active, kind, earlier, producer, sock, canceller>>

ReadTakes(u) ==
  /\ At(u, "read") /\ pipe[u].used > 0
  /\ LET n == Avail(pipe[u])
     IN /\ pipe' = [pipe EXCEPT ![u] = Take(@, n)]
        /\ handler' = [handler EXCEPT ![u].got = @ + n, ![u].pc = "parse"]
  /\ producer' = WakeProducer(u)
  /\ UNCHANGED <<busy, cancel, active, kind, earlier, sock, canceller>>

(* zip_process_archive / rar_extract_stream with what was read: more is     *)
(* needed, the entries are out, or the archive is bad.                      *)
NeedsMore(u) ==
  /\ At(u, "parse") /\ ~handler[u].drain
  /\ handler[u].got < IF kind[u] = "rar" THEN Body ELSE Entries
  /\ Go(u, "fill")
  /\ UNCHANGED <<busy, cancel, active, kind, earlier, pipe, producer, sock, canceller>>

Extracted(u) ==
  /\ At(u, "parse")
  /\ handler[u].got >= Entries
  /\ IF kind[u] = "rar" /\ handler[u].got = Body
       THEN Succeeds(u)
       ELSE handler' = [handler EXCEPT ![u].pc = "fill", ![u].drain = TRUE]
  /\ UNCHANGED <<busy, cancel, active, kind, earlier, pipe, producer, sock, canceller>>

BadArchive(u) ==
  /\ At(u, "parse") /\ ~handler[u].drain
  /\ Fails(u)
  /\ UNCHANGED <<busy, cancel, active, kind, earlier, pipe, producer, sock, canceller>>

(* rar_stream_cancel_cb while unpacking: the pipe is cancelled at once.     *)
RarCancelled(u) ==
  /\ At(u, "parse") /\ kind[u] = "rar" /\ ~handler[u].drain /\ cancel
  /\ CancelPipe(u)
  /\ producer' = WakeProducer(u)
  /\ Fails(u)
  /\ UNCHANGED <<busy, cancel, active, kind, earlier, sock, canceller>>

(* rc != 0: the producer is told, then its recv() is ended.                 *)
StopPipe(u) ==
  /\ At(u, "failed")
  /\ CancelPipe(u)
  /\ producer' = WakeProducer(u)
  /\ Go(u, IF kind[u] = "local" THEN "join" ELSE "shut")
  /\ UNCHANGED <<busy, cancel, active, kind, earlier, sock, canceller>>

ShutRead(u) ==
  /\ At(u, "shut")
  /\ sock' = [sock EXCEPT ![u] = "shut"]
  /\ Go(u, "join")
  /\ UNCHANGED <<busy, cancel, active, kind, earlier, pipe, producer, canceller>>

(* Mutant: the producer is not joined. *)
JoinUnchecked(u) ==
  /\ At(u, "join")
  /\ IF kind[u] = "zip"
       THEN Go(u, "end")
       ELSE \E r \in {handler[u].result, "failed"} :
              handler' = [handler EXCEPT ![u].pc = "destroy", ![u].result = r]
  /\ UNCHANGED <<busy, cancel, active, kind, earlier, pipe, producer, sock, canceller>>

(* pthread_join; staged files are placed, which may fail.                   *)
Join(u) ==
  /\ At(u, "join") /\ producer[u].pc = "exit"
  /\ IF kind[u] = "zip"
       THEN Go(u, "end")
       ELSE \E r \in {handler[u].result, "failed"} :
              handler' = [handler EXCEPT ![u].pc = "destroy", ![u].result = r]
  /\ UNCHANGED <<busy, cancel, active, kind, earlier, pipe, producer, sock, canceller>>

(* An uploaded zip frees the job slot before it destroys its pipe.          *)
JobEnd(u) ==
  /\ At(u, "end")
  /\ busy' = FALSE
  /\ Go(u, IF pipe[u].live THEN "destroy" ELSE "reply")
  /\ UNCHANGED <<cancel, active, kind, earlier, pipe, producer, sock, canceller>>

Destroy(u) ==
  /\ At(u, "destroy")
  /\ pipe' = [pipe EXCEPT ![u] = NoPipe]
  /\ Go(u, IF kind[u] = "zip" THEN "reply" ELSE "end")
  /\ UNCHANGED <<busy, cancel, active, kind, earlier, producer, sock, canceller>>

(* The response, shutdown(fd, SHUT_RDWR), close(fd).                        *)
Reply(u) ==
  /\ At(u, "reply")
  /\ sock' = [sock EXCEPT ![u] = "shut"]
  /\ Go(u, "gone")
  /\ UNCHANGED <<busy, cancel, active, kind, earlier, pipe, producer, canceller>>

----------------------------------------------------------------------------
(* A request that cancels: cancel_handler, activity_cancel_handler, poll.   *)

CancelStore(c) ==
  /\ canceller[c].pc = "idle"
  /\ cancel' = TRUE
  /\ canceller' = [canceller EXCEPT ![c].pc = "stored"]
  /\ UNCHANGED <<busy, active, kind, earlier, pipe, handler, producer, sock>>

CancelLook(c) ==
  /\ canceller[c].pc = "stored"
  /\ canceller' = [canceller EXCEPT ![c] = [pc |-> "pipe", target |-> active]]
  /\ UNCHANGED <<busy, cancel, active, kind, earlier, pipe, handler, producer, sock>>

(* Where a copied pipe pointer leads: its upload while the pipe lives.      *)
(* Later the memory may hold nothing of interest or the pipe of an upload   *)
(* that began after the first was over; the same goes for a closed fd.      *)
Heirs(u, alive) ==
  IF u \in alive THEN {u} ELSE {None} \cup {v \in alive : u \in earlier[v]}

LivePipes == {u \in Uploads : pipe[u].live}
Connected == {u \in Uploads : ~At(u, "gone")}

CancelsPipe(c) ==
  /\ canceller[c].pc = "pipe"
  /\ canceller' = [canceller EXCEPT ![c].pc = "fd"]
  /\ \E u \in IF canceller[c].target.pipe = None THEN {None}
              ELSE Heirs(canceller[c].target.pipe, LivePipes) :
       IF u = None
         THEN UNCHANGED <<pipe, handler, producer>>
         ELSE /\ CancelPipe(u)
              /\ handler' = WakeHandler(u)
              /\ producer' = WakeProducer(u)
  /\ UNCHANGED <<busy, cancel, active, kind, earlier, sock>>

ShutsDown(c) ==
  /\ canceller[c].pc = "fd"
  /\ canceller' = [canceller EXCEPT ![c] = [pc |-> "done", target |-> NoTarget]]
  /\ \E u \in IF canceller[c].target.fd = None THEN {None}
              ELSE Heirs(canceller[c].target.fd, Connected) :
       sock' = IF u = None THEN sock ELSE [sock EXCEPT ![u] = "shut"]
  /\ UNCHANGED <<busy, cancel, active, kind, earlier, pipe, handler, producer>>

----------------------------------------------------------------------------
ProducerStep(u) ==
  \/ SetActive(u) \/ Loop(u) \/ Recv(u) \/ RecvError(u) \/ WriteGivesUp(u)
  \/ WriteWaits(u) \/ WriteCopies(u) \/ LastWrite(u) \/ ClearActive(u)

HandlerStep(u) ==
  \/ Refused(u) \/ ManifestCheck(u) \/ ManifestRead(u) \/ ManifestBad(u)
  \/ Spawn(u) \/ SpawnFails(u)
  \/ Fill(u) \/ ReadWaits(u) \/ ReadEnds(u) \/ ReadTakes(u) \/ NeedsMore(u)
  \/ Extracted(u) \/ BadArchive(u) \/ RarCancelled(u) \/ StopPipe(u) \/ ShutRead(u)
  \/ Join(u) \/ JobEnd(u) \/ Destroy(u) \/ Reply(u)

CancellerStep(c) == CancelLook(c) \/ CancelsPipe(c) \/ ShutsDown(c)

PipeNext ==
  \/ \E u \in Uploads : BeginUpload(u) \/ ProducerStep(u) \/ HandlerStep(u)
  \/ \E c \in Cancellers : CancelStore(c) \/ CancellerStep(c)

PipeSpec == PipeInit /\ [][PipeNext]_pipeVars

(* Threads run on; nobody has to cancel.  There is no receive timeout, so a *)
(* client that falls silent is allowed: only a file, or a connection that   *)
(* was shut down, is sure to be read from.                                  *)
MustRead(u) == kind[u] = "local" \/ sock[u] = "shut"

ProducerRuns(u) ==
  \/ SetActive(u) \/ Loop(u) \/ WriteGivesUp(u) \/ WriteWaits(u) \/ WriteCopies(u)
  \/ LastWrite(u) \/ ClearActive(u)
  \/ MustRead(u) /\ (Recv(u) \/ RecvError(u))

HandlerRuns(u) ==
  \/ HandlerStep(u) /\ ~At(u, "mrecv")
  \/ sock[u] = "shut" /\ ManifestBad(u)

FairPipeSpec ==
  /\ PipeSpec
  /\ \A u \in Uploads : WF_pipeVars(ProducerRuns(u)) /\ WF_pipeVars(HandlerRuns(u))
  /\ \A c \in Cancellers : WF_pipeVars(CancellerStep(c))

----------------------------------------------------------------------------
(* Every variable has its type. *)
PipeTypeOK ==
  /\ busy \in BOOLEAN /\ cancel \in BOOLEAN /\ active \in Target
  /\ kind \in [Uploads -> AllKinds] /\ earlier \in [Uploads -> SUBSET Uploads]
  /\ pipe \in [Uploads -> Pipe] /\ handler \in [Uploads -> Handler]
  /\ producer \in [Uploads -> Producer] /\ sock \in [Uploads -> {"open", "shut"}]
  /\ canceller \in [Cancellers -> Canceller]

(* The ring buffer is a stream: between the bytes the handler has and the   *)
(* bytes the producer has put in, it holds exactly the missing ones, in     *)
(* order from the read position, across the wrap.                           *)
RingHoldsStream ==
  \A u \in Uploads : pipe[u].live =>
    LET q == pipe[u]
    IN /\ handler[u].got + q.used = producer[u].sent
       /\ producer[u].sent <= producer[u].taken
       /\ q.wpos = (q.rpos + q.used) % Cap
       /\ \A i \in 0 .. q.used - 1 : q.buf[(q.rpos + i) % Cap] = handler[u].got + 1 + i

(* The registered pipe exists and belongs to the job in the slot: a cancel  *)
(* that looks there while it holds the lock finds a pipe it may use.        *)
RegisteredPipeIsLive ==
  active.pipe # None =>
    /\ busy /\ pipe[active.pipe].live
    /\ ~\E u \in Uploads : u # active.pipe /\ producer[u].pc \notin {"none", "exit"}

(* Neither thread of an upload uses the pipe after it was destroyed.        *)
PipeOutlivesItsThreads ==
  \A u \in Uploads :
    /\ producer[u].pc \notin {"none", "exit"} => pipe[u].live
    /\ handler[u].pc \in {"fill", "read", "wait", "parse", "failed"} => pipe[u].live

(* Whoever may touch a pipe finds it alive: a canceller the one that is      *)
(* registered, the threads of an upload their own.                          *)
PipeLivesWhileUsed == RegisteredPipeIsLive /\ PipeOutlivesItsThreads

(* An upload reported as extracted was received far enough: every byte of   *)
(* a rar, every entry of a zip.                                             *)
SuccessIsComplete ==
  \A u \in Uploads : handler[u].result = "ok" =>
    handler[u].got >= IF kind[u] = "rar" THEN Body ELSE Entries


(* A thread sleeps for good only after a cancel: without one, a sleeping    *)
(* handler has a producer that will wake it, and a sleeping producer has a  *)
(* handler that will.                                                       *)
SleepersHaveWakers ==
  \A u \in Uploads : ~cancel =>
    /\ At(u, "wait") => producer[u].pc \notin {"exit", "clear", "wait"}
    /\ producer[u].pc = "wait" =>
         handler[u].pc \in {"fill", "read", "parse", "failed"}

(* A job is running for upload u. *)
Running(u) == handler[u].pc \notin {"new", "reply", "gone", "destroy"} \/ (At(u, "destroy") /\ kind[u] # "zip")

(* What README.md says of a cancel: cooperative, the job checks for it      *)
(* during an upload and an archive extraction, so it stops.                 *)
CancelEndsUpload ==
  \A u \in Uploads : (Running(u) /\ cancel) ~> ~Running(u)
=============================================================================
