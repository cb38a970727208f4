# A verification of PS5 File Explorer

This directory holds TLA+ specifications of the program in this repository, the
TLC configurations that check them on small instances, and proofs about most of
its machines that TLAPS checks for every instance.

1. [The system](#1-the-system): components, state, interactions, hard behaviours
2. [The modules](#2-the-modules) and how they correspond to the code
3. [What the runs check](#3-what-the-runs-check), with bounds and what they show
4. [Fairness](#4-fairness)
5. [Proofs](#5-proofs)
6. [Where the code falls short](#6-where-the-code-falls-short): the findings, and
   behaviours a property had to step around
7. [What is not modelled](#7-what-is-not-modelled)
8. [Plan](#8-plan)

Paths such as `transfer.c:3617` are below `src/src/`, `files.html` is
`src/assets/files.html`. `PROJECT.json` gives for every definition the lines it
models and for every property the run that checks it and a mutation of the code
that breaks it. Definitions whose comment starts with "Mutant:" are those
mutations; nothing else uses them.

To repeat a check: `tlc -config activity_queue.cfg MCActivityQueue`, and
`tlapm ActivityQueue_proofs.tla`.

## 1. The system

A file manager that runs on the console as one process: an HTTP server with one
detached thread per connection, background threads for long jobs, and a web page
(`files.html`) whose script owns most of the protocol. There is no event loop
and no database. State is a handful of static structures under mutexes, the
file system, and what each browser tab remembers.

| Component | State | Operations | Who it meets |
|---|---|---|---|
| Activity queue (`transfer.c` 800-1050, 3484-3910; `files.html` 2900-3400) | `g_activity`: an array of items with status, sequence number, client, lease, heartbeat and start times; per tab `localQueue` and the activity it runs | enqueue, poll, progress, complete, cancel, clear | handlers of uploads and conversions validate leases and finish items; polls look at `g_job.busy` |
| Job slot (`transfer.c` 590-735) | `g_job`: `busy` and `cancel` (atomics), counters, error, log name | `job_begin` (compare and swap, then reset), `job_cancelled`, `job_end`, cancel requests | every zip, rar, compress, decompress and prepare job, queued or not |
| Streaming extraction (`zip_archive.c`, `rar_transfer.c`) | a ring buffer on the handler's stack with mutex and two conditions; `g_archive_upload_pipe/fd` | producer receives, handler extracts, a cancel finds the pipe and wakes both | job slot, backups, the client's connection |
| ZIP reader (`zip_archive.c`) | a buffered stream, the parser's place in it | local headers, zip64 fields, stored and deflated payloads, data descriptors, part files | the pipe before it, the backup behind it |
| RAR upload (`rar_transfer.c`) | a body reader, a manifest of volumes | the manifest is read by the handler, the volumes by the producer from where that ended | the pipe, the unrar library |
| Overwrite backups (`archive_common.c`) | a directory per extraction: saved files, a manifest of `O` and `A` lines | save before overwrite, restore, remove, remove all | extraction; restore requests take no job slot |
| App detection and prepare (`archive_common.c`) | the file system | search a folder for an app or a patch, merge it into `<title>-app`, set permissions, delete the rest | job slot, or none right after an upload; backups |
| Conversions (`pfs_compress.c`, `pfs_decompress.c`) | source folder, `.tmp`, image, output folder | compress, decompress with the policies keep, remove after, stream | job slot; each uses a block pool |
| Images (`pfs_compress.c`, `pfs_decompress.c`) | the words of a PFS or an exFAT image | layout from a list of files, streaming of its blocks; reading of inodes, directories, clusters | the conversions |
| Block pools (`pfs_compress.c` 2180-2520, `pfs_decompress.c` 1040-1350) | array of slots, `error`, `stop`, one mutex, one condition | fill in order, code in any order, write in order | output buffer, deletion of source files |
| Codecs (`miniz`) | a compressor per block; a decompressor that stops and goes on anywhere | deflate whole blocks, inflate blocks and streams of archives | blocks of images, the ZIP reader |
| File operations (`transfer.c` 1560-1850, 2463-2540) | the file system only | copy, move, delete: one detached thread each, any number at once | uploads, each other |
| Uploads (`transfer.c` 4060-4385, `files.html` 4600-4960) | a temporary file beside the target; the tab's chunk workers | whole file in one request, or chunks, then completion by rename | activity queue (lease per request) |
| Operation logs (`transfer.c`) | files below `logs`, `g_job.log_path`, a name per item | create, rewrite on a report, list from queue and directory, clear | job slot, queue, every operation |
| Handoff (`lite_main.c` 210-330) | processes on one port | probe, busy check, shutdown, wait, listen | HTTP server, job slot of the old process |
| HTTP server (`websrv_lite.c`) | `g_websrv_srvfd`, the exit flag, the descriptors of the process | accept, read head and body, dispatch, download, shut down, listen again | everything |
| Web page, file list (`files.html`) | path, entries, selection, listings under way, timers | open, refresh, select, delete, move, upload, new folder, poll | listing requests, operations that end later |

Components without state of their own to get wrong, or not written here
(dialogs, launcher installer, diagnostics, MIME types and assets, unrar), are
listed in `PROJECT.json` with the reason they are left out.

### What is hard

- **Decisions outlive the lock they were made under.** Handlers unlock
  `g_activity` and act later: a lease is checked once and used for hours, a
  cancel is decided in the queue and stored in the job slot, an outcome is
  logged before the item is finished (`transfer.c:1008`, `3834`, `3873`).
- **Two owners.** The server believes an item runs until its heartbeat and its
  start are old *and* the job slot is free; the tab believes so until its
  script says otherwise. Offers repeat, reports get lost, tabs close.
- **Sleeping threads.** Pipe and pools wait on conditions with no timeout;
  every error path has to wake somebody.
- **Half-done work on disk.** Backups, conversions, moves and uploads are
  sequences of renames, writes and deletions between which the process can be
  killed, and some of them delete the only copy of the user's data on purpose.
- **Work outside the slot.** Copies, moves, deletions, uploads, restores are
  seen by no lock and not by the handoff's busy check.
- **Formats written here and read there.** An image is laid out by one file and
  read by another; a stream is cut anywhere by the network, by a window, by a
  buffer.
- **Numbers that are given out again.** A descriptor that one thread closes may
  be another's by then; a path in the page is joined to a name at the moment of
  a click, and listings are under way.

`PROJECT.json` lists 40 hazards at their lines with the properties meant to catch them.

## 2. The modules

| Module | Models | Uses |
|---|---|---|
| `ActivityQueue` | activity queue, job slot, tabs | instance of `RunQueue` |
| `RunQueue` | abstract: a queue that runs one item at a time, oldest first | |
| `ArchivePipe` | ring buffer, producer, handler, cancel requests | |
| `OperationLogs` | who names, writes, reports to, lists and clears logs | |
| `StreamWork` | *view:* `ArchivePipe`, `OperationLogs` | both |
| `ZipStream` | the reader of zip streams | |
| `RarUpload` | the body of a RAR upload: manifest, producer, extractor | |
| `ArchiveBackup` | extraction into a folder with backups, restores, removals, kills | |
| `AppPrepare` | detection of an app in a folder, merge, cleanup | |
| `FileOps` | copy, move, delete workers on two folders | |
| `QueuedUpload` | one queued upload with its chunk workers and re-offers | |
| `DiskWork` | *view:* the six above | all six |
| `AppCompress`, `AppDecompress` | the files of a conversion through failures, cancels and kills | |
| `AppConversions` | both, one after the other: there and back | `AppCompress`, instance of `AppDecompress` |
| `AppTree`, `PfsImage`, `ExfatImage` | functions: the words of an image, and what is read from them | each other |
| `AppImage` | an app made into an image block by block and unpacked again | these |
| `Huffman`, `Deflate`, `Inflate` | functions and a coroutine: miniz | each other |
| `CompressedData` | blocks of an image and entries of an archive, compressed and read in pieces | these |
| `BlockPool` | block pools of both conversions | instance of `OrderedOutput` |
| `OrderedOutput` | abstract: blocks reach the file in order and the job ends | |
| `Handoff` | instances taking over the port | |
| `Background` | *view:* `AppConversions`, `AppImage`, `CompressedData`, `BlockPool`, `Handoff` | all five |
| `Browser` | the file list of a tab | |
| `HttpServer` | listener, connections, descriptors | |
| `Requests` | *view:* `Browser`, `HttpServer` | both |
| `Background_proofs` | TLAPS proofs about `AppConversions`, `Handoff` and `BlockPool` | these |
| `DiskWork_proofs` | TLAPS proofs about `FileOps`, `QueuedUpload` and `RarUpload` | these |
| `Requests_proofs` | TLAPS proofs about `HttpServer` and `Browser` | these |
| other `..._proofs` | TLAPS proofs about the module they are named after | that module |
| `MC...` | constants and symmetry for TLC | |

The four views put machines side by side that share no variable: a behaviour
starts as one of them, the variable `view` says which, and the others stay as
they are. A run of a view explores the instance of each machine in turn, and
nothing else: what the machines say of each other is in the machines (the lease in
`QueuedUpload`, the slot in `Handoff`, the pipe in `RarUpload`).

Common conventions. A thread's program counter is the `pc` field of its record
(or a variable `pc`). What the code does while it holds one mutex is one action;
what follows the unlock is another. System calls that change the file system are
an action each. A failing call is a disjunct or an action of its own. Bounds that
the code does not have are named constants (`MaxSeq`, `MaxJobs`, `MaxAttempts`,
`MaxEntries`, `MaxBackups`, `MaxCrashes`, `MaxClicks`, `MaxActs`, `MaxLists`,
`MaxListens`, `MaxClears`) and appear only in guards of actions
that start something new. History variables and
fields are marked as such where declared; no guard reads them, except
`FileOps!put`, which is also a bound. (`ArchivePipe!before` is no history: it says
whose stack and descriptor a late canceller may meet in place of those it copied.)

**ActivityQueue.** `items` is `g_activity.items`; an item's `age` and `started`
are seconds since the last heartbeat and since the start, saturating one past
the timeouts they are compared with. `pc[t]`, `req[t]` are the handler of one
request; a tab has at most `active[c]` to run. `Enqueue`/`EnqueueReply`,
`PollSend`/`PollServe`/`PollReply`, `WorkSend` ... `WorkReply` and
`CompleteSend` ... `CompleteReply` split a request into sending, handling and
answering, so that anything can come in between and an answer can reach a tab
that has moved on or closed. `Swept` is what every poll does first: it gives up
the tab's items it no longer owns and others' that have gone silent. `JobBegin`
and `JobReset` are the two halves of `job_begin`. `LocalJob` is a job outside
the queue. `Tick` is time.

**ArchivePipe.** Bytes of the body are numbered, `pipe[u].buf` holds numbers, so
a lost, repeated or misplaced byte shows. Three users differ in where the body
comes from and in tear-down: `zip` (a request), `rar` (a request with a
manifest), `local` (a file on the console). A cancelling request is three steps:
store the flag, copy the registration under the lock, then cancel and shut down
what was copied.

**OperationLogs.** An operation is of one of the five kinds that name logs at
different moments (before, within or after the slot; by themselves). A log is
whose text it has and whether that says "running". `listing` is a poll taken
apart: the queue's part under the lock, then the directory's log by log. The answer
holds `ListLimit` logs at most, the newest; which of them that are is left open. A
directory that cannot be opened gives none.

**ZipStream.** The stream is a sequence of items (signature, header, a payload
byte, a descriptor's word); the buffer's end is chosen with each read, which is
how it is cut. A deflated byte is the number of bytes it makes the decompressor
put out, so that a full window with input used up exists. `blame` tells failures
that came from outside from the reader's own. `folder.saved` is the tree below the
backup's `old`, with what the files in it held: `Aside` moves a file there, or a folder with
all that is in it, unless `rename` refuses to (`CanSave`). `originals` is history: the
files that were there before. The manifest of that backup is `ArchiveBackup`'s.

**RarUpload.** Units of a body are numbered; `taken` is what the reader consumed,
`buffered` what had come with the headers, `wire` what is to come. The extractor
reads and ends as it likes.

**ArchiveBackup.** A folder maps names to versions. `MoveExisting`, `NoteOld`,
`NoteAdded` and `Place` are one rename or one manifest line each, so that a kill
(`Crash`) can fall between them; `Close` ends an extraction. `unlisted` is history: the
file that a kill caught between its rename and its line. `Styles` are the two
callers: entries placed as they come, or a staged tree merged. A restore reads the
manifest (`RestoreBegin`) and keeps the lines as it read them; what it has still to
delete (`added`) and to put back (`old`) are sets of places in them, as the code goes
through the file twice.

**AppPrepare.** A disk maps paths to nodes that remember the path they were made
with, so that moving is told from deleting. The probe's choice of app, patch and
target are functions of a disk; the merge, the chmods and the cleanup are steps.
Two prepares, one as a job and one inside an upload's request, may overlap. A disk
is a tree, and no path of it has the name of a backup folder that is still to be made
(`PrepareAssumption`). `announced` is history: the files that a probe counted as extra
before anything was touched. So is `apart`, which notes at the probe whether the plan
merges anything into the app's own folder, into the folder that the cleanup deletes, or
touches a backup; both properties are of a prepare that is `Undisturbed`: apart, and
not overlapped by another one. Section 6 says what the others do.

**FileOps.** Two places that may be on one device or two, or be one directory
reached by two paths, one folder of a few
entries in each. `listed` and `seen` are a `DIR*`: a name that appears after
`opendir` may or may not be returned. A write is torn until it is whole.
`output` follows the open inode: a file unlinked or renamed away under a writer
keeps being written where it went.

**QueuedUpload.** A file of `N` pieces; a temporary file is the set of pieces
written and where it ends. `attempt` counts how often the item was offered to
the tab; `reqs` is the set of requests the server works on, and those of an attempt
live on after the tab has given it up. The
activity queue is reduced to `leased`.

**AppCompress / AppDecompress / AppConversions.** An app of numbered files; an
image has the set of files whose blocks it holds and the set its tables name.
Streaming decompression cuts the image from the end (`cut`). `AppConversions`
lets a behaviour compress in several jobs and then unpack the result, if it holds every
file, in several. `taken` notes what the folder, or the image, held when the last job was
started on it: that is what the job must not lose.

**AppTree / PfsImage / ExfatImage / AppImage.** An app maps paths to sizes. An image
is a sequence of words of eight bytes that say what was written there, so that a
reader that looks a word too early sees what it would mistake it for. Numbering,
the path table with its collisions, directories, extents, clusters, FAT and
bitmap are computed as the code does; `AppImage` packs block by block, deleting
sources if it streams, and unpacks, cutting the image if it streams.

**Huffman / Deflate / Inflate / CompressedData.** The formats of miniz with small
numbers (a `Format`): four letters for 256, codes of three bits for fifteen, a
dictionary of 16 for 32768. `Inflate` is the coroutine with its registers: it can
stop in any place for lack of input or room and goes on there. `CompressedData` is
a behaviour of calls, with the block cache of the image reader and the window of
the zip reader.

**BlockPool.** Buffers hold the number of the block they came from. `asleep`
is the set of threads in `pthread_cond_wait`; a broadcast empties it. `kind`
selects compression (workers can fail to start; streamed deletion) or
decompression (workers can fail on a block).

**Handoff.** Instances of the program with the stage their `main` is in; jobs are
of two kinds, holding the slot or apart from it. Every question of
`handoff_existing_server` may go unanswered. `before` lists the jobs that began before an
instance's busy check was over, at the injection or after it; `saidIdle` notes which
server answered that check with idle.

**Browser.** `at` is `state.path`, `entries` the folder and the names of the last
listing that was drawn, `lists` the listings under way in the order they were
asked for, `alarm` and `reveal` the two timers. An act takes its path and its names
when the click does. `right` notes whether the user could have meant it.

**HttpServer.** `fds` says who opened each descriptor; `open` and `accept` give the
lowest free one and `close` takes a number. The listener goes through
`websrv_listen` and back to `main`'s loop; a connection's head and body come in
pieces of any size. The accept loop's last close is a step of its own, and threads
run on until `main` has returned. Requests that other components serve (archives,
apps, the queue) are of kind "other": their handler ends or keeps the thread for good,
as `pipe_stranded` shows one doing. `stray` notes where a close hit another's
descriptor.

## 3. What the runs check

Every run explores its instance completely. Where one run covers several
instances, its MC module starts each behaviour in one of them and keeps to it:
`MCActivityQueue` plays the `Scenes` its cfg names, with `scene` saying which and
`alone` naming the tab of the scene with one tab. Deadlock checking is off throughout:
bounded instances run out of things to start, and a stopped job or a silent
client is a legal end; what must not stop is stated as a liveness property or as
`SleepersHaveWakers`.

| Run | Instance | Checks |
|---|---|---|
| `activity_queue` | 2 handler threads, 2 slots; 2 tabs with 2 upload items, or 1 tab with a zip and a compress item and jobs outside the queue | one item runs at a time; ids unique and leases exact; nobody carries an outdated lease of a running item; the job slot is a lock; a cancel is never taken back from a running job; refinement of `RunQueue` |
| `activity_live` | 2 tabs, 1 thread, 2 zip items, fair | every item is run or given up while one tab stays open |
| `stream_work` | *pipe:* 2 uploads of 3 bytes in a ring of 2, 1 cancelling request; *logs:* 2 operations, 1 slot of the queue, 1 clear | the ring is a stream; no thread of an upload uses a destroyed pipe; success means the bytes arrived; sleepers have wakers; a log tells of its own operation and no longer than it runs; a list leaves none out before it has the 2 logs asked for |
| `disk_work` | *zip:* archives of one of 30 entries and none or one of 5 behind it, into an empty folder or one with a file, cut anywhere; *RAR:* bodies of 5 units, good and bad; *backup:* 2 names, archives of 2 entries, both styles, 2 restores, 1 kill; *prepare:* 13 disks, 6 folders, 2 preparers; *files:* 2 operations on 2 entries, one device or two or one directory by two paths; *upload:* 3 pieces, 2 workers, 2 attempts | entries arrive as they were packed, and what they replace is in the backup; a RAR is placed whole or not at all; what is saved is listed, a restore undoes, nothing of before is lost; a prepare that nothing disturbs deletes only extras and leaves nothing to prepare; a move alone loses nothing, overlapping copies that all succeed are complete; done means placed |
| `background` | *jobs:* 3 files, 2 jobs each way, all policies; *words:* the apps of `MCAppImage` in both formats; *octets:* 48 texts of up to 32 letters in pieces of 1, 5 and all octets; *pool:* 3 workers, 6 blocks, 3 slots, 2 source files, both users, fair; *handoff:* 3 instances, both kinds of jobs, fair | no job loses a file of what it was started on, nothing half written passes for whole; an image unpacks to the app; what was deflated is inflated; slots have one user, only written blocks' files are deleted, refinement of `OrderedOutput`, termination; one server at a time and in the end, jobs of the slot that began before the busy check was answered survive |
| `requests` | *page:* 2 folders, 1 name, 3 clicks, 1 act, 2 listings, fair; *server:* 2 connections, 3 descriptors, bodies of up to 2 units, 2 listens, fair | acts are on rows the user saw; the list comes to show what the folder holds; threads close what they opened as long as the server serves; an upload answered as good was given its body; connections end, but for those another component's handler keeps |
| `pipe_stranded` | 1 upload, 2 cancelling requests, fair | *violated*: a cancel ends the upload |
| `zip_deflate_end` | deflated archives | *violated*: they are extracted |
| `app_many_files` | an app of one inode more than a block of them holds | *violated*: it unpacks |
| `handoff_kills_copy` | 3 instances | *violated*: copies survive |
| `prepare_own_files` | a patch extracted into its app | *violated*: only extras are deleted |
| `copy_onto_itself` | 1 copy between two paths of one directory | *violated*: it leaves its source alone |

**Why these bounds.** They are the least at which the interesting cases exist.
Two tabs and two threads give every pairwise race of handlers, including two
requests of one tab; two slots with two items give a full queue, and a slot emptied by
`Clear` and used again while requests that refer to its last item are in flight. That a
slot is overwritten without being cleared takes three items; the theorems cover it.
The timeouts are 0, meaning "older than a second that may or may not have
passed": every order of heartbeat, tick and sweep exists. A third tab would add
another sweeper that can do nothing the second cannot; the theorems cover any
number. A ring of 2 with reads of up to 2 and 3 bytes wraps in the middle of a
read and of a write, is full and is empty. The second upload exists for the
canceller that meets its successor; `KindMixes` leaves out pairs of kinds whose
meeting shows nothing new. One slot of the queue makes the second operation's item
overwrite the first's before that is reported; two logs in an answer are fewer than the
six that two operations may leave. Six blocks in three slots go round the
window twice, three workers leave one idle; two source files end inside and at
the end of the window. Two entries in an archive are enough for "the same name
twice", for failing on the second of two and for a header right behind a
descriptor; the second may be a file with the name of a folder that the first, or a file of
before, lies in. A RAR body of five units is cut in the manifest, between manifest and
volumes, and in each volume. Three files and two jobs let a
conversion be broken off, resumed and finished. The apps are chosen so that a
hash collides, a directory fills a cluster to its end, a file ends at a block's end, a
tree is empty. Texts of 32 letters go round a dictionary of 16 twice. Three
instances let two injections meet. Two operations give all pairs of copy, move
and delete in both directions. Two attempts with two
workers put up to four late handlers against a live attempt. Two listings cross; three
descriptors for two connections make a number be given out again at once.

Symmetry sets (tabs, threads, uploads, names, restores) are used only
in runs that check safety.

## 4. Fairness

- `ActivityQueue!Fairness`: handler threads run on (weak fairness per thread; an
  upload has a last chunk, so `UploadDone` comes in place of ever more chunks),
  a second always passes, and an open tab keeps polling and its script goes on.
  The last two are strong, because a tab needs a free thread of the instance's
  few; the code creates one per connection. Nothing makes a user submit, cancel,
  close or clear; a lost request may repeat but not for ever. `QueueMoves` asks for
  nothing if all tabs are closed: the queue is swept only by polls.
- `ArchivePipe!FairPipeSpec`: threads run on, and reads return from a file or from a
  socket that was shut down. Not from an open socket: there is no `SO_RCVTIMEO`
  (`zip_archive.c:297`) and a client may fall silent.
- `BackgroundSpec`: the threads of a pool run on, the mutex is fair enough
  (`FairPoolSpec`); requests of an injection are answered or time out, and a server told
  to stop stops (`FairHandoffSpec`). The conversions, which users start, get none.
- `RequestsSpec`: timers ring, polls are made, a listing that was asked for comes and an
  act that runs ends; the listening thread runs on, and so does each connection's thread,
  except in another component's handler, of which nothing is supposed. That supposes clients that send on or close: one
  that falls silent in a head or a body keeps its thread. Nobody has to click.

`Handoff`'s properties are stated for behaviours in which no request has
timed out, no accept has failed and no two injections met (`quiet`); section 6
says what happens otherwise. Only that jobs are spared is stated beyond them, for a
server that has itself answered the busy check.

## 5. Proofs

The theorems are about each machine by itself (`Spec`, `PipeSpec`, `BackupSpec`, ...),
for every value of its constants that satisfies the module's named assumption: numbers
are numbers and not zero where the code's are not, sets of kinds are of known
kinds, "nobody" is not a tab. Numbers of tabs, threads, uploads, names, requests,
workers, instances and descriptors are arbitrary; none of them has to be finite.

| Theorem | States | Module |
|---|---|---|
| `TypeCorrect` | `[]TypeOK` | `ActivityQueue_proofs` |
| `OneItemRuns`, `LeasesAreTheirOwn` | `[]AtMostOneRunning`, `[]LeasesAndIds` | |
| `JobSlotExclusive` | `[]JobExclusive` | |
| `QueueImplementsRunQueue` | `ImplementsRunQueue` | |
| `CancelIsKept` | `CancelStays` (action property) | |
| `LeasesAreCurrent` | `[]LeaseHoldersAgree` | |
| `PipeTypeCorrect` | `[]PipeTypeOK` | `ArchivePipe_proofs` |
| `RingIsStream` | `[]RingHoldsStream` | |
| `PipeLives` | `[]PipeLivesWhileUsed` | |
| `ExtractedIsComplete` | `[]SuccessIsComplete` | |
| `SleepersAreWoken` | `[]SleepersHaveWakers` | |
| `LogsTypeCorrect` | `[]LogsTypeOK` | `OperationLogs_proofs` |
| `LogsAreTheirOwn` | `[]LogsTellOfTheirOwn` | |
| `ListsAreComplete` | `[]NothingDropsOut` | |
| `BackupTypeCorrect` | `[]BackupTypeOK` | `ArchiveBackup_proofs` |
| `WhatIsBackedUpIsListed` | `[]OldIsListed` | |
| `RestoresUndo` | `[]RestoreUndoes` | |
| `OriginalsStay` | `OriginalsSurvive` (action property) | |
| `PoolTypeCorrect` | `[]PoolTypeOK` | `Background_proofs` |
| `SlotsHaveOneUser` | `[]SlotHasOneUser` | |
| `DeletedFilesAreWritten` | `[]DeletedIsWritten` | |
| `PoolImplementsOrderedOutput` | `PoolIsOrdered` (refinement) | |
| `ConversionTypeCorrect` | `[]BothTypeOK` | |
| `ConversionsReplaceWholes` | `[]WholeReplacesWhole` | |
| `NoFileIsLost` | `[]NothingLost` | |
| `HandoffTypeCorrect` | `[]HandoffTypeOK` | |
| `OneServerAtATime` | `[]AtMostOneServer` | |
| `SlotJobsAreSpared` | `ReinjectionSparesJobs` (action property) | |
| `FileOpsTypeCorrect` | `[]FileOpsTypeOK` | `DiskWork_proofs` |
| `MovesLoseNothing` | `[]MoveLosesNothing` | |
| `SuccessesAreComplete` | `[]SuccessIsComplete` | |
| `UploadTypeCorrect` | `[]UploadTypeOK` | |
| `UploadsArrive` | `[]UploadArrives` | |
| `RarInvariant`, `ArchivesAreTakenWhole` | `[]RarInv`, `[]RarIsTakenWhole` | |
| `PrepareTypeCorrect` | `[]PrepareTypeOK` | `AppPrepare_proofs` |
| `OnlyExtrasGo` | `PrepareDeletesOnlyExtras` (action property) | |
| `PreparedIsPrepared` | `[]PreparedStays` | |
| `HttpTypeCorrect` | `[]HttpTypeOK` | `Requests_proofs` |
| `ThreadsCloseTheirOwn` | `[]ClosesItsOwn` | |
| `BodiesAreWhole` | `[]BodyIsWhole` | |
| `BrowserTypeCorrect` | `[]BrowserTypeOK` | |
| `OnlyWhatIsShown` | `[]ActsOnWhatIsShown` | |

None of the properties is inductive. For each machine one invariant is, and TLC
checked each on the machine's instance before it was proved.

*The queue.* `TypeOK` is not inductive alone: an item finished with outcome "none"
would have no status. `ResultKnown` is the missing part: a request about to
finish an item, and a tab about to complete one, know the outcome. What an action does to the items is put once and for all into lemma
`Steps`: every step is `Quiet` (each item keeps its status, ends, or its slot is
emptied), or submits, or starts one. `AtMostOneRunning` and `LeasesAndIds` then need three
cases each instead of thirty. `LeasesAndIds` carries the bounds by `nextId` and
`nextLease` that make a new id or lease different from all others.
For the refinement, a quiet step retires the ids that left (`Gone`); a submission adds
`nextId`; a start gives up some ids and starts the least of those left. The proof
needs that no id both waits and runs, which is where uniqueness of ids comes in.
`LeaseHoldersAgree` says something of requests in flight and tabs, and
is inductive only with `HoldersTrusted`: nobody holds a lease of an item that
waits, or of an id not given out. Lemma `CurrentStays` shows that what a holder
knows stays true whatever the queue does; `RequestsCome` and `TabsComeStep` show
that ids and leases are only ever copied from a request, a tab or a running item.
`JobExclusive` is inductive with `TypeOK`; `CancelIsKept` follows,
since only `JobReset` clears the flag and only the winner of the slot gets there.

*The pipe* (`PipeInv`). `Good` is about one upload: its phase (what each thread
may do before the pipe exists, while it does and after the producer was joined), the
ring (`wpos = (rpos + used) % Cap`, and the cells from `rpos` on hold the bytes after
the last one read), the balance of bytes taken, sent, buffered and read, and that a
sleeper's condition is false while a thread that left the pipe has said so or the job was
cancelled. Two parts speak of all uploads: one at most has the slot, and the registered
pipe's producer is at work. What a ring is after a read or a write that wraps is
a handful of lemmas about `%`.

*Logs* (`LogsInv`). Who is between `job_begin` and `job_end` has the slot, and the name in
the slot is that operation's own; an operation asks for the name once, so what another was told
of it is never forgotten, and the logs of an operation that is not `Mistaken` are written by
nobody else. A log that says "running" has somebody at work who will write the
outcome, and an item has no log but one its operation was told of or its report made. The
operation a poll is followed for is over: it takes no step that changes it, gets no item, and
its logs stay until the answer. A candidate goes only when as many as asked for stay
(`CandidateKept`), so that the answer is full from then on.

*Backups* (`BackupInv`). A version lies in one place only (the folder or one
backup), so that a file that is still in its backup is not the one in the folder.
Of the extraction at work: names it has not come to are as they were, those it has
come to differ only as its lines tell, and whatever is in the backup has a
line, but for the file being moved. A kill ends an extraction as a close does, unless it
falls on that file; what is `unlisted` then stays so. Of a restore that works alone on what the extraction left: it is the only one, so
what it has put back stays, and when nothing is left to delete and to put back the folder
is as before. `OriginalsStay` needs more than the invariant: a lemma for each
step that removes a version from the folder, that it is kept or was not of before.

*The pool* (`PoolInv`). The blocks from `nextWrite` to `nextRead` are a window no longer than the array, each in
a slot of its own; a slot's state, the worker that has it and the block its buffers hold
go together; what has been written is the sequence of all blocks below `nextWrite`, split
into the file and the output buffer. Deleted files end at or before what was flushed. The refinement maps a flush to the output of
the buffered blocks and every other step to a stutter or an end.

*Conversions* (`ConversionInv`, of `CompressInv` and `UnpackInv`). The temporary file
and the buffer hold what is through; a job works on all that there was when it was started
(`taken`), and only streaming takes from that before the result is in place; every file of it
is in one of the places. Nothing is supposed of what earlier jobs left; what a job may
destroy of theirs is in section 6.

*Handoff* (`HandoffInv`). That a listening instance is alone rests on the new one having found
nobody, so the invariant follows the one instance that is taking over from its injection to its
listen; that a job is spared rests on the busy check having asked the
server the job runs on, so it ties the jobs that are running while an instance asks
(`before`) to that server. In other handoffs than quiet ones the answer itself does (`saidIdle`).

*File operations* (`FileOpsInv`). Two arguments side by side. Of an operation that nothing
overlaps (`LoneAt`): while it copies, the source is as it was and what it has visited
is at the target or it has noted a failure, so that deleting starts only when everything
has arrived (`Arrived`). Of operations that all go one way
(`OneWay`), as long as none has failed: the source only shrinks, all who write one name write
the same content, and a name that an operation started with is at the target, being
written, or still in the source and ahead of that operation (`NoneMissing`). Moves of a folder
onto itself are a case of their own (`OntoItself`): on one device they rename or fail.

*Uploads* (`UploadInv`). What a live attempt's requests have written and have still to write
make up the file (`ChunksOnTheirWay`); a request that was heard is over; no request of
the attempt renames twice. With `crossed` (a handler of an older attempt touched
the file) only the types are left: section 6.

*The server* (`HttpInv`). Each open descriptor has one thread that will close it: the
connection its socket and its file, the listener its socket, or the request that took it out of
`g_websrv_srvfd`. The last close of the accept loop is outside, as in the
property. Of a body, the handler has been given a prefix, and the head's length bounds it.

*RAR uploads* (`RarInv`). A body is the numbers of its units, so that what was read, what is in
the pipe, what waits in the buffer and what is on the wire are runs of numbers that
follow each other (`WireFollows`, `SinceFeeder`): the pipe holds what lies between what the
extractor has had and what the feeder has still to send, and the feeder sends what the manifest's
reader left in its buffer before what comes next. The end is reached only with nothing left,
which is where the checked sum of the volumes' sizes comes in.

*The file list* (`BrowserInv`). Only the listing that was asked for last is not `old`, and it is of
the folder the tab is at; so the rows are of that folder once no listing is under way, unless an
answer was overtaken; and what is selected is among the rows, unless a listing failed. Every path that
changes one of the three (navigation, an answer, a removed row, a timer) keeps them together.

*Preparing an app* (`PrepareInv`, `AppInv`). A tree of paths is moved entry by entry, so most
of the proof is about sequences: `PrefixIs`, `PrefixChain`, `RebaseTwice`, `RebaseOrder` say what
is under what after a move, and `MoveIs` what a step that saves, then moves, does to a
disk. Of a prepare that has not probed yet, or is `Undisturbed` and at work (`Watched`), the
invariant says: what lies outside the new backup folder is a tree (`Treelike`), so that a path
whose folder is there leads through folders; nothing lies in the backup yet (`Fresh`) or
nothing where an entry still to be moved would be saved (`BackupOK`: what `MoveTo` puts aside
never hits what was put aside before); what is under the scanned folder is a folder, was
announced, or is still to be moved (`OnlyExtrasLeft`). The last is what makes the cleanup
harmless, and an entry that the merge puts into the scanned folder breaks it: the first
attempt, for every prepare, failed there, which is how the finding
`prepare_own_files` came about and why the property is of plans that are `Apart`. That the second
probe says "prepared" needs more: `AppIs` follows `eboot.bin` and `param.json` from the app's
folder to the target through the merge, the target is in the title's home or there is nothing
in that home, and `ProbedAgain` shows that of all candidates of such a folder the best is
the folder itself.

Least and greatest elements of sets of numbers (the next block, the lowest free descriptor, the
largest file left) come from `WFMin` of the library's well-founded induction in
lemmas `LeastNumber` and `MaxIsGreatest`, since its induction theorems proper take an operator.

Model-checked only:

- all liveness (fairness and `ENABLED` are outside the prover's reach): `QueueMoves`,
  `PoolEnds`, `OneServerInTheEnd`, `ViewCatchesUp`, `ConnectionsEnd`;
- what functions over data compute (`ImageIsApp`, `InflateUndoesDeflate`): their
  modules use `RECURSIVE` operators, and induction over data is not available;
- `ZipUnpacks`: what a reader makes of an archive is stated for the archives of `MCZipStream`.
  Its sequences of entries and of items are of any length, and that the reader's place in the
  items corresponds to a prefix of the entries is an induction over both.

## 6. Where the code falls short

Six runs end in a violation.

- **A cancel can strand an upload** (`pipe_stranded`). The producer sees the
  cancel flag in `zip_pipe_write`, unregisters the pipe and exits without setting
  `done` or signalling; if the canceller has not yet looked at the registration
  it finds nothing to cancel; the handler sleeps on the empty pipe for good,
  holding the job slot (`zip_archive.c:219-222`). The README says that cancels
  are cooperative and that jobs check for them.
- **Some deflated entries are refused** (`zip_deflate_end`). The reader asks for
  more input whenever its buffer is used up, and calls a stream short that has none left
  (`zip_archive.c:888`), though the decompressor may have output pending behind a full
  window: the last symbol crossed its end.
- **Apps of many files cannot be unpacked** (`app_many_files`). The compressor puts 390
  inodes in a block and leaves 16 bytes unused; the reader looks for inode `n` as if there
  were no gap (`pfs_decompress.c:698`).
- **Reinjection kills a copy** (`handoff_kills_copy`). The busy check asks for
  the job slot, which copies, moves, deletions and uploads do not hold
  (`lite_main.c:254`, `transfer.c:2463`); `docs/FIRMWARE_TESTING.md:149` expects
  that an active copy survives.
- **A prepare deletes what it has just placed** (`prepare_own_files`). The cleanup deletes
  the scanned folder as a whole (`archive_common.c:1883`), and is held back only when the
  target lies in that folder (`1562-1574`), not when the folder lies in the target. A patch
  extracted into the installed app, `app/fix/in`, that brings a folder `fix` is merged into
  `app/fix` and deleted with it; the answer is "patch applied". The page announces that extra
  files "outside the app folder will be deleted" (`files.html:1895`) and that "unrelated files
  will remain" (`1883`).
- **A copy empties its source** (`copy_onto_itself`). Source and destination are
  compared as strings (`transfer.c:1779`); two paths of one directory pass, and every
  file is opened with `O_TRUNC` before it is read.

The properties of the passing runs name the conditions under which they hold.
These are the behaviours they exclude; all are reachable in the models:

- *Job slot.* A cancel stored between the compare-and-swap and the reset
  (`transfer.c:652-655`) is erased. A cancel stored after the queue was unlocked
  may hit the next job (`3873`). `waitJobIdle` may show another job's outcome
  (`files.html:4244`).
- *Queue.* A poll sent before the answer to an enqueue does not own the new item,
  and the server abandons it (`transfer.c:3583`).
- *Pipe.* The canceller uses pipe and descriptor after it has unlocked
  (`zip_archive.c:206`); by then they may be a later upload's, or nobody's. A silent client keeps the job slot.
- *Logs.* Handlers of uploads give the slot back before they ask for the job's log
  (`zip_archive.c:1323-1324`, `rar_transfer.c:843-844`) and may be told the
  next job's (`Mistaken`). A log of a killed process says "running" for ever.
- *Backups.* An archive that names a file twice overwrites the saved original
  (`archive_common.c:267`). A kill between rename and manifest line leaves one
  file unlisted (`271`, `unlisted`); a restore of that backup does not put it back, reports
  success and deletes the backup with the file in it (`582`). A restore that failed half way cannot be repeated to
  the end. Restores take no slot and may overlap an extraction.
- *Zip.* With a backup, an archive with a file `p/f` and behind it a file `p` is reported as
  extracted, but `p/f` lies in the backup, whose folder `p` went there whole
  (`zip_archive.c:1070`); without one the same archive fails.
- *Prepare.* Two that overlap (a job, and one in an upload's request) may each scan, merge
  or delete what the other has just placed: neither looks for the other
  (`transfer.c:2160`). A prepare of a folder below `.bfpilot-backups` takes a saved app for an
  extracted one, and leaves the backup's manifest without its files.
- *Conversions.* `NothingLost` is about what a job was started on, and says nothing of
  files that only an earlier job's result has. A job started over what a broken streaming
  one left truncates the temporary image, or removes the temporary folder, that has the only
  copy (`pfs_compress.c:2840`, `pfs_decompress.c:2032`). A job that is started with the
  overwrite flag after a removal that stopped half way (policy "after",
  `pfs_compress.c:2886-2891`) packs the files that are left, and renames their image over the
  one that has them all (`2874`). The policy "after" removes files added since the scan. Nothing is
  synced to disk, so a power loss is not covered; a kill of the process is.
- *Handoff.* A job of the slot that begins after the busy check was answered and before the
  old process ends is killed with it (`lite_main.c:300-309`): nothing holds the slot meanwhile, and
  `main` does not look again before it returns.
  No answer within a second counts as idle (`257`). If the
  answer to a shutdown is lost the new instance gives up while the old one stops:
  nobody serves. With `SO_REUSEPORT` two instances may serve if a probe times
  out, an accept fails and the listener is opened again, or injections overlap.
- *File operations.* A failed copy unlinks its target, also one that was there
  before (`transfer.c:1657`). A move across devices deletes files that were added
  after it had passed, and links (`1808`, `1692`). `README.md:225-227` promises cancellation of copies and
  moves; their workers never look at the flag, which is also why no cancel appears
  in `FileOps`.
- *Uploads.* A handler of an attempt given up can remove, rename or truncate the
  temporary file of the attempt that follows; the size check does not notice the
  hole (`crossed`). A chunk that failed may be shown as cancelled. Temporary
  files may stay behind.
- *Page.* After a listing that failed, what was selected before it stays selected
  though nothing is shown. Two refreshes that cross may leave the
  entries of one folder under the path of the other; an act then joins them. Names of a move
  that ends are taken from whatever list is displayed. With the side panel on its paths,
  polls bring no logs, and the ends of copies, moves and deletions go unnoticed. The first
  poll, and the first after a clear, reports no ends. A path that is being typed drops
  the refresh that was due.
- *Server.* The accept loop and the shutdown request both close the listening
  descriptor (`websrv_lite.c:759` and `165`), in either order; another thread may have
  been given that number in between, and its file or connection is closed under it while
  `main` logs and returns. `ClosesItsOwn` ends with the accept loop.

## 7. What is not modelled

- The unrar library: it reads as it likes and ends as it likes. The console's services
  (installer, notifications, symbol look-up) and diagnostics.
- Encryption, CRCs, the bytes of names and of `param.json`. Of miniz: lazy parsing, the
  fast path of other builds, flushes in mid-stream, and the header check
  of windows that wrap, none of which this program reaches.
- Parsing of HTTP targets and their arguments, routing, MIME types, assets.
- Downloads and status texts, beyond what they do to descriptors and job slot.
- Renaming, mkdir, chmod and checksums: one system call each, or read-only.
- Uploads of several files in an item (each goes the way `QueuedUpload` shows).
- Dialogs, menus, players, sorting and drawing of the page.

Weak memory is not modelled: the flags shared without a lock are atomics.

## 8. Plan

Done: inventory; all components but those of section 7 modelled and checked; the queue,
pipe, logs, backups, pools, conversions, handoff, file operations, uploads of files and of RAR
archives, app preparation, the server and the file list proved.

Next, in this order:

1. *Prove.* `ZipUnpacks`, for archives of any number of entries; `ClosesItsOwn` for a
   `Handoff` of servers.
2. *Relate.* `QueuedUpload` as a refinement of the part of `ActivityQueue` it
   abstracts; `RarUpload`'s queue as what `ArchivePipe` implements.
