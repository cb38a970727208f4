------------------------------ MODULE RarUpload ------------------------------
(***************************************************************************)
(* A RAR upload: a request body that is a manifest (the volumes and their   *)
(* sizes) followed by the volumes' bytes.  The first bytes of the body came *)
(* with the request's headers and end anywhere: in the manifest, in the     *)
(* volumes, at the end.  The handler reads the manifest itself and gives    *)
(* what is left, buffered and not yet received, to the producer thread,     *)
(* which feeds the pipe that the extractor reads (ArchivePipe has the pipe  *)
(* and its threads' waits; here it is a queue).  The extractor (unrar) is   *)
(* external: it reads as it likes and ends as it likes.                     *)
(***************************************************************************)
EXTENDS Naturals, Sequences, SequencesExt

CONSTANTS
  RarBodies   \* [manifest : units, claim : data_size, sizes : volumes, data : units]

ASSUME RarAssumption == \A b \in RarBodies : {b.manifest, b.claim, b.data} \subseteq Nat

VARIABLES
  body,       \* the body's shape
  taken,      \* body_reader: units it took (consumed)
  buffered,   \* the units that came with the headers
  wire,       \* the units the client has yet to deliver, in order
  connected,  \* recv can still block: neither side has shut the socket
  feeder,     \* producer thread: [pc, todo, left]
  queue,      \* the pipe: [units, done, failed]
  extractor,  \* [pc, left, fed, files, err]
  rarCancel   \* g_job.cancel

rarVars == <<body, taken, buffered, wire, connected, feeder, queue, extractor, rarCancel>>

AllUnits(b)  == 1 .. (b.manifest + b.data)
DataUnits(b) == [i \in 1 .. b.data |-> b.manifest + i]
Upto(m, n)   == [i \in 1 .. (n - m) |-> m + i]

NoError  == ""
NoFeeder == [pc |-> "none", todo |-> <<>>, left |-> 0]
NoQueue  == [units |-> <<>>, done |-> FALSE, failed |-> FALSE]

RarInit ==
  /\ body \in RarBodies
  /\ taken = 0
  /\ \E k \in {0} \cup AllUnits(body) :
       /\ buffered = Upto(0, k)
       /\ wire = Upto(k, body.manifest + body.data)
  /\ connected = TRUE
  /\ feeder = NoFeeder /\ queue = NoQueue
  /\ extractor = [pc |-> "manifest", left |-> 0, fed |-> <<>>, files |-> FALSE, err |-> NoError]
  /\ rarCancel = FALSE

Remaining == body.manifest + body.data - taken
InBuffer  == taken < Len(buffered)
KeepBody  == UNCHANGED <<body, buffered, rarCancel>>
Turn(pc)  == extractor' = [extractor EXCEPT !.pc = pc]
Ends(err) == extractor' = [extractor EXCEPT !.pc = "failed", !.err = err]

(* body_reader_read of a unit: the buffered ones first, then recv. *)
ReadUnit ==
  /\ Remaining > 0
  /\ InBuffer \/ wire # <<>>
  /\ wire' = IF InBuffer THEN wire ELSE Tail(wire)
  /\ taken' = taken + 1
RecvEnds == Remaining > 0 /\ ~InBuffer /\ ~connected

(* rar_parse_manifest: read_exact, unit by unit.                            *)
ReadManifest ==
  /\ extractor.pc = "manifest" /\ taken < body.manifest /\ ~rarCancel
  /\ ReadUnit
  /\ UNCHANGED <<connected, feeder, queue, extractor>> /\ KeepBody

ManifestShort ==
  /\ extractor.pc = "manifest" /\ taken < body.manifest
  /\ rarCancel \/ RecvEnds
  /\ IF rarCancel THEN Ends("cancelled")
     ELSE extractor' = [extractor EXCEPT !.pc = "drainBody", !.err = "manifest"]
  /\ UNCHANGED <<taken, wire, connected, feeder, queue>> /\ KeepBody

(* Mutant: only the manifest itself is compared with the volumes. *)
ManifestSums == FoldSeq(LAMBDA n, s : n + s, 0, body.sizes) = body.claim

(* The check that ends rar_parse_manifest. *)
ManifestFits ==
  LET sum == FoldSeq(LAMBDA n, s : n + s, 0, body.sizes)
  IN sum = body.claim /\ Remaining = body.claim

(* Mutant: the producer starts at the first buffered byte. *)
BufferedFromStart == buffered

(* buffered_pos, buffered_size *)
BufferedRest == SubSeq(buffered, taken + 1, Len(buffered))

(* The manifest is good: stage folder, pipe and producer.                   *)
StartFeeder ==
  /\ extractor.pc = "manifest" /\ taken = body.manifest
  /\ IF ManifestFits
       THEN /\ feeder' = [pc |-> "run", todo |-> BufferedRest, left |-> Remaining]
            /\ extractor' = [extractor EXCEPT !.pc = "extract", !.left = body.claim]
       ELSE /\ extractor' = [extractor EXCEPT !.pc = "drainBody", !.err = "manifest"]
            /\ UNCHANGED feeder
  /\ UNCHANGED <<taken, wire, connected, queue>> /\ KeepBody

(* No memory or folder, and the body is drained; no thread, and the socket   *)
(* is shut: refused before the producer runs.                               *)
StartFails ==
  /\ extractor.pc = "manifest" /\ taken = body.manifest /\ ManifestFits
  /\ \/ /\ extractor' = [extractor EXCEPT !.pc = "drainBody", !.err = "start"]
        /\ UNCHANGED <<wire, connected>>
     \/ Ends("start") /\ connected' = FALSE /\ wire' = <<>>
  /\ UNCHANGED <<taken, feeder, queue>> /\ KeepBody

(* body_reader_drain: until a read gives nothing.                           *)
DrainBody ==
  /\ extractor.pc = "drainBody"
  /\ \/ ReadUnit /\ ~rarCancel /\ UNCHANGED extractor
     \/ /\ Remaining = 0 \/ RecvEnds \/ rarCancel
        /\ Turn("failed") /\ UNCHANGED <<taken, wire>>
  /\ UNCHANGED <<connected, feeder, queue>> /\ KeepBody

----------------------------------------------------------------------------
(* zip_upload_producer                                                      *)
FeedBuffered ==
  /\ feeder.pc = "run" /\ feeder.todo # <<>>
  /\ IF queue.failed
       THEN feeder' = [feeder EXCEPT !.pc = "exit"] /\ UNCHANGED queue
       ELSE /\ queue' = [queue EXCEPT !.units = Append(@, Head(feeder.todo))]
            /\ feeder' = [feeder EXCEPT !.todo = Tail(@), !.left = @ - 1]
  /\ UNCHANGED <<taken, wire, connected, extractor>> /\ KeepBody

FeedReceived ==
  /\ feeder.pc = "run" /\ feeder.todo = <<>> /\ feeder.left > 0 /\ wire # <<>> /\ ~rarCancel
  /\ wire' = Tail(wire)
  /\ IF queue.failed
       THEN feeder' = [feeder EXCEPT !.pc = "exit"] /\ UNCHANGED queue
       ELSE /\ queue' = [queue EXCEPT !.units = Append(@, Head(wire))]
            /\ feeder' = [feeder EXCEPT !.left = @ - 1]
  /\ UNCHANGED <<taken, connected, extractor>> /\ KeepBody

(* All given: finish.  Cancelled, or the socket ended: an error.            *)
FeederStops ==
  /\ feeder.pc = "run" /\ feeder.todo = <<>>
  /\ \/ feeder.left = 0 /\ ~rarCancel /\ queue' = [queue EXCEPT !.done = TRUE]
     \/ /\ rarCancel \/ (feeder.left > 0 /\ ~connected)
        /\ queue' = [queue EXCEPT !.done = TRUE, !.failed = TRUE]
  /\ feeder' = [feeder EXCEPT !.pc = "exit"]
  /\ UNCHANGED <<taken, wire, connected, extractor>> /\ KeepBody

----------------------------------------------------------------------------
(* rar_stream_read_cb and rar_pipe_drain_remaining: a unit of the pipe.     *)
TakeUnit ==
  /\ extractor.left > 0 /\ queue.units # <<>>
  /\ queue' = [queue EXCEPT !.units = Tail(@)]
  /\ extractor' = [extractor EXCEPT !.left = @ - 1, !.fed = Append(@, Head(queue.units))]

NoUnit == queue.units = <<>> /\ (queue.done \/ rarCancel)

UnrarReads ==
  /\ extractor.pc = "extract" /\ ~rarCancel
  /\ TakeUnit
  /\ UNCHANGED <<taken, wire, connected, feeder>> /\ KeepBody

UnrarWrites ==
  /\ extractor.pc = "extract" /\ ~extractor.files
  /\ extractor' = [extractor EXCEPT !.files = TRUE]
  /\ UNCHANGED <<taken, wire, connected, feeder, queue>> /\ KeepBody

(* "extract recovered generic fatal"                                        *)
Recovered(err) == extractor.left = 0 /\ err = "generic" /\ extractor.files

(* unrar ends, well or not: rar_normalize_stream_error names the error.     *)
UnrarEnds(code) ==
  LET err == IF code = NoError THEN NoError
             ELSE IF rarCancel THEN "cancelled"
             ELSE IF queue.failed THEN "interrupted"
             ELSE code
  IN /\ extractor.pc = "extract"
     /\ IF err = NoError \/ Recovered(err) THEN Turn("drain") ELSE Ends(err)
     /\ UNCHANGED <<taken, wire, connected, feeder, queue>> /\ KeepBody

(* Mutant: what unrar did not want is left in the pipe. *)
LeaveRest ==
  /\ extractor.pc = "drain"
  /\ Turn("join")
  /\ UNCHANGED <<taken, wire, connected, feeder, queue>> /\ KeepBody

DrainPipe ==
  /\ extractor.pc = "drain"
  /\ \/ TakeUnit
     \/ extractor.left > 0 /\ NoUnit /\ Ends("interrupted") /\ UNCHANGED queue
     \/ extractor.left = 0 /\ Turn("join") /\ UNCHANGED queue
  /\ UNCHANGED <<taken, wire, connected, feeder>> /\ KeepBody

(* zip_pipe_cancel, shutdown(SHUT_RD). *)
StopFeeder ==
  /\ extractor.pc = "failed" /\ feeder.pc # "none" /\ ~queue.failed
  /\ queue' = [queue EXCEPT !.done = TRUE, !.failed = TRUE]
  /\ connected' = FALSE /\ wire' = <<>>
  /\ UNCHANGED <<taken, feeder, extractor>> /\ KeepBody

(* pthread_join, then the stage folder is placed, or deleted. *)
PlaceRar ==
  /\ extractor.pc = "join" /\ feeder.pc = "exit"
  /\ \/ Turn("ok")
     \/ extractor' = [extractor EXCEPT !.pc = "unplaced", !.err = "place"]
  /\ UNCHANGED <<taken, wire, connected, feeder, queue>> /\ KeepBody

----------------------------------------------------------------------------
(* The client goes away; a cancel stores the flag, then shuts the socket.   *)
HangUp ==
  /\ connected /\ connected' = FALSE
  /\ \E n \in 0 .. Len(wire) : wire' = SubSeq(wire, 1, n)
  /\ UNCHANGED <<body, taken, buffered, feeder, queue, extractor, rarCancel>>
CancelRar ==
  /\ ~rarCancel /\ rarCancel' = TRUE
  /\ UNCHANGED <<body, taken, buffered, wire, connected, feeder, queue, extractor>>

RarNext ==
  \/ ReadManifest \/ ManifestShort \/ StartFeeder \/ StartFails \/ DrainBody
  \/ FeedBuffered \/ FeedReceived \/ FeederStops
  \/ UnrarReads \/ UnrarWrites \/ (\E code \in {NoError, "generic", "other"} : UnrarEnds(code))
  \/ DrainPipe \/ StopFeeder \/ PlaceRar \/ HangUp \/ CancelRar

RarSpec == RarInit /\ [][RarNext]_rarVars

----------------------------------------------------------------------------
(* However much of the body came with the headers, and however the reads    *)
(* are cut, the extractor is given the volumes' bytes: all of them in order *)
(* as far as it read, and no byte of the manifest.                          *)
RarFeedsTheVolumes == IsPrefix(extractor.fed, DataUnits(body))

(* An upload that succeeds took the whole body, whose length is what its    *)
(* manifest says: an interrupted or cancelled one is never placed because   *)
(* the extractor had left some files or saw no need to read on.             *)
RarSuccessTookAll ==
  extractor.pc \in {"join", "ok"} =>
    /\ extractor.fed = DataUnits(body)
    /\ body.data = body.claim

(* What is taken for the archive is the archive: its bytes in order, and to the  *)
(* last one if the upload succeeds.                                          *)
RarIsTakenWhole == RarFeedsTheVolumes /\ RarSuccessTookAll
=============================================================================
