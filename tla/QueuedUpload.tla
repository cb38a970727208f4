----------------------------- MODULE QueuedUpload -----------------------------
(***************************************************************************)
(* The upload of one file as an item of the activity queue.  The tab sends    *)
(* it in one request, or in chunks from several workers and then a request    *)
(* that completes it; the server writes to a temporary file beside the target *)
(* and renames it.  The item is offered again while the server believes it    *)
(* runs, so an attempt may follow one whose end the server never heard of,    *)
(* with handlers of the earlier one still at work.                            *)
(*                                                                          *)
(* The queue is reduced to whether the item's lease is current.  A file is    *)
(* its pieces: which of them have been written, and where it ends.            *)
(***************************************************************************)
EXTENDS Naturals, FiniteSets

CONSTANTS N,           \* pieces of the file: chunks, or what one recv brings
          Concurrency, \* UPLOAD_CHUNK_CONCURRENCY
          MaxAttempts  \* bound: times the item is offered

ASSUME UploadAssumption ==
  N \in Nat \ {0} /\ Concurrency \in Nat \ {0} /\ MaxAttempts \in Nat

VARIABLES
  chunked,  \* the tab sends chunks
  leased,   \* the item is RUNNING under the tab's lease
  temp,     \* the temporary file
  target,   \* the file at its final path
  tab,      \* the tab that uploads
  reqs,     \* its requests, and the server threads that handle them
  crossed   \* history: a handler of an attempt given up has removed, renamed or
            \* truncated the temporary file of a later one

uploadVars == <<chunked, leased, temp, target, tab, reqs, crossed>>
bothFiles == <<temp, target>>

Attempts == 1 .. MaxAttempts
Pieces   == IF chunked THEN 1 .. N ELSE {1}   \* requests that carry the file
Complete == N + 1                             \* upload-complete
Units    == 1 .. N + 1

(* A file: whether it is there, which pieces are written, where it ends.      *)
UploadFile == [there : BOOLEAN, written : SUBSET (1 .. N), size : 0 .. N]
NoFile == [there |-> FALSE, written |-> {}, size |-> 0]
WholeFile == [there |-> TRUE, written |-> 1 .. N, size |-> N]
Cut(f, n) == [f EXCEPT !.written = {}, !.size = n, !.there = TRUE]
Plus(f, n) == [f EXCEPT !.written = @ \cup {n}, !.size = IF n > @ THEN n ELSE @]

(* at: where the inode lies that the handler has open.  done: pieces of a      *)
(* single request that are written.  heard: the tab waits for it no longer; a   *)
(* request that is over is forgotten then.                                     *)
Req == [attempt : Attempts, unit : Units,
        pc : {"sent", "leased", "open", "full", "checked", "bad", "ok", "failed"},
        at : {"temp", "target", "gone"}, done : 0 .. N, heard : BOOLEAN]

UploadTab == [pc : {"idle", "sending", "placing", "ending"}, attempt : 0 .. MaxAttempts,
              next : 1 .. N + 1,
              stopped : BOOLEAN,  \* a request failed or the user cancelled: no more are sent
              done : BOOLEAN]     \* the upload was last shown as done

UploadInit ==
  /\ chunked \in BOOLEAN /\ leased = TRUE
  /\ temp = NoFile
  /\ target \in {NoFile, [NoFile EXCEPT !.there = TRUE]}
  /\ tab = [pc |-> "idle", attempt |-> 0, next |-> 1, stopped |-> FALSE, done |-> FALSE]
  /\ reqs = {}
  /\ crossed = FALSE

Now == tab.attempt
Pending == {r \in reqs : r.attempt = Now /\ ~r.heard}
Remember(rs) == reqs' = {r \in rs : ~(r.heard /\ r.pc \in {"ok", "failed"})}
Becomes(r, s) == Remember((reqs \ {r}) \cup {s})
Goes(r, pc) == Becomes(r, [r EXCEPT !.pc = pc])
Closes(r, pc) == Becomes(r, [r EXCEPT !.pc = pc, !.at = "gone", !.done = 0])
Late(r) == crossed' = (crossed \/ r.attempt # Now)

----------------------------------------------------------------------------
(* The tab.                                                                 *)

(* A poll offers the item, for the first time or again.                      *)
Offer ==
  /\ tab.pc = "idle" /\ leased /\ Now < MaxAttempts
  /\ tab' = [tab EXCEPT !.pc = "sending", !.attempt = @ + 1]
  /\ UNCHANGED <<chunked, leased, bothFiles, reqs, crossed>>

Sends(u) == reqs' = reqs \cup {[attempt |-> Now, unit |-> u, pc |-> "sent", at |-> "gone",
                                done |-> 0, heard |-> FALSE]}

(* A worker takes the next chunk; the single request is the first of one.     *)
Send ==
  /\ tab.pc = "sending" /\ ~tab.stopped
  /\ tab.next \in Pieces /\ Cardinality(Pending) < Concurrency
  /\ Sends(tab.next)
  /\ tab' = [tab EXCEPT !.next = @ + 1]
  /\ UNCHANGED <<chunked, leased, bothFiles, crossed>>

HearOk(r) ==
  /\ tab.pc = "sending" /\ r.pc = "ok"
  /\ reqs' = reqs \ {r}
  /\ UNCHANGED <<chunked, leased, bothFiles, tab, crossed>>

(* The tab lets go of every request; the server may notice, or never.         *)
Abort == Remember((reqs \ Pending) \cup {[r EXCEPT !.heard = TRUE] : r \in Pending})

(* Mutant: the other workers go on, and the failed chunk is forgotten. *)
HearErrorGoesOn(r) ==
  /\ tab.pc = "sending" /\ r.pc # "ok"
  /\ Becomes(r, [r EXCEPT !.heard = TRUE])
  /\ UNCHANGED <<chunked, leased, bothFiles, tab, crossed>>

(* An error answer, or a connection that broke while the server worked on:     *)
(* the first failure ends them all.                                          *)
HearError(r) ==
  /\ tab.pc = "sending"
  /\ tab' = [tab EXCEPT !.stopped = TRUE]
  /\ Abort
  /\ UNCHANGED <<chunked, leased, bothFiles, crossed>>

(* The user cancels; that the server hears of it is Retire.                   *)
Cancel ==
  /\ tab.pc \in {"sending", "placing"} /\ ~tab.stopped
  /\ tab' = [tab EXCEPT !.stopped = TRUE]
  /\ IF tab.pc = "sending" THEN Abort ELSE UNCHANGED reqs
  /\ UNCHANGED <<chunked, leased, bothFiles, crossed>>

(* What the item is shown as: done, unless it failed or was cancelled.        *)
Shows(ok) ==
  tab' = [tab EXCEPT !.pc = "ending", !.done = ok /\ ~tab.stopped,
                     !.next = 1, !.stopped = FALSE]

(* All workers have ended: the upload is completed if no chunk failed.  Which  *)
(* error is shown, that of the chunk or of a request aborted for its sake,     *)
(* depends on the worker's number.                                           *)
Settle ==
  /\ tab.pc = "sending" /\ Pending = {}
  /\ tab.stopped \/ tab.next \notin Pieces
  /\ IF tab.stopped \/ ~chunked THEN Shows(TRUE) /\ UNCHANGED reqs
     ELSE Sends(Complete) /\ tab' = [tab EXCEPT !.pc = "placing"]
  /\ UNCHANGED <<chunked, leased, bothFiles, crossed>>

HearPlaced ==
  /\ tab.pc = "placing"
  /\ \/ (\E r \in Pending : r.pc = "ok") /\ Shows(TRUE)
     \/ Shows(FALSE)
  /\ Abort
  /\ UNCHANGED <<chunked, leased, bothFiles, crossed>>

(* activity/complete arrives, or is lost.                                    *)
Report ==
  /\ tab.pc = "ending"
  /\ tab' = [tab EXCEPT !.pc = "idle"]
  /\ leased' \in {FALSE, leased}
  /\ UNCHANGED <<chunked, bothFiles, reqs, crossed>>

(* The item is cancelled, or given up for want of a heartbeat.                *)
Retire ==
  /\ leased /\ leased' = FALSE
  /\ UNCHANGED <<chunked, bothFiles, tab, reqs, crossed>>

----------------------------------------------------------------------------
(* The server.  A request may get lost, or its lease be refused.              *)

Refused(r) ==
  /\ r.pc = "sent"
  /\ Goes(r, "failed")
  /\ UNCHANGED <<chunked, leased, bothFiles, tab, crossed>>

(* activity_validate_lease: asked once, at the start.                         *)
Leased(r) ==
  /\ r.pc = "sent" /\ leased
  /\ Goes(r, "leased")
  /\ UNCHANGED <<chunked, leased, bothFiles, tab, crossed>>

(* Where an inode lies after the temporary file is renamed or removed.        *)
LiesAt(at, to) == IF at = "temp" THEN to
                  ELSE IF at = "target" /\ to = "target" THEN "gone" ELSE at

(* The handler of r moves the temporary file, with whoever has it open, and ends. *)
EndsMoving(r, to, pc) ==
  /\ temp' = NoFile
  /\ Remember({[q EXCEPT !.at = LiesAt(@, to)] :
                 q \in (reqs \ {r}) \cup {[r EXCEPT !.pc = pc]}})
  /\ Late(r)

RemoveTemp(r) == EndsMoving(r, "gone", "failed") /\ UNCHANGED target

(* A chunk keeps what the temporary file holds, and the first gives it its     *)
(* size; the single request starts it anew.                                  *)
TempOpened(u) == IF ~chunked THEN Cut(temp, 0)
                 ELSE [temp EXCEPT !.there = TRUE, !.size = IF u = 1 THEN N ELSE @]

OpenTemp(r) ==
  /\ r.pc = "leased" /\ r.unit # Complete
  /\ temp' = TempOpened(r.unit)
  /\ Becomes(r, [r EXCEPT !.pc = "open", !.at = "temp"])
  /\ IF chunked THEN UNCHANGED crossed ELSE Late(r)
  /\ UNCHANGED <<chunked, leased, target, tab>>

(* It cannot be opened; or there is no buffer, or no room for the size: then a  *)
(* chunk leaves the file, the single request removes it.                     *)
OpenTempFails(r) ==
  /\ r.pc = "leased" /\ r.unit # Complete
  /\ \/ /\ IF chunked THEN temp' \in {temp, [temp EXCEPT !.there = TRUE], TempOpened(r.unit)}
           ELSE UNCHANGED temp
        /\ Goes(r, "failed")
        /\ UNCHANGED <<target, crossed>>
     \/ ~chunked /\ RemoveTemp(r)
  /\ UNCHANGED <<chunked, leased, tab>>

(* Piece n goes to the inode, wherever it lies by now.                        *)
Writes(r, n) ==
  /\ temp'   = IF r.at = "temp" THEN Plus(temp, n) ELSE temp
  /\ target' = IF r.at = "target" THEN Plus(target, n) ELSE target

WriteChunk(r) ==
  /\ chunked /\ r.pc = "open"
  /\ Writes(r, r.unit)
  /\ Closes(r, "ok")
  /\ UNCHANGED <<chunked, leased, tab, crossed>>

WriteSingle(r) ==
  /\ ~chunked /\ r.pc = "open"
  /\ Writes(r, r.done + 1)
  /\ Becomes(r, [r EXCEPT !.done = @ + 1, !.pc = IF r.done + 1 = N THEN "full" ELSE @])
  /\ UNCHANGED <<chunked, leased, tab, crossed>>

(* recv or write fails.                                                      *)
PieceFails(r) ==
  /\ r.pc = "open"
  /\ Closes(r, "bad")
  /\ UNCHANGED <<chunked, leased, bothFiles, tab, crossed>>

(* After the rest of the body is drained.                                    *)
DropTemp(r) ==
  /\ r.pc = "bad"
  /\ RemoveTemp(r)
  /\ UNCHANGED <<chunked, leased, tab>>

SizeFits == temp.size = N

(* upload_complete_handler looks at the temporary file.                       *)
CheckSize(r) ==
  /\ r.pc = "leased" /\ r.unit = Complete
  /\ IF temp.there /\ ~SizeFits THEN RemoveTemp(r)
     ELSE /\ Goes(r, IF temp.there THEN "checked" ELSE "failed")
          /\ UNCHANGED <<bothFiles, crossed>>
  /\ UNCHANGED <<chunked, leased, tab>>

(* Mutant: that the rename failed is not noticed. *)
RenameUnchecked(r) ==
  /\ r.pc \in {"full", "checked"}
  /\ EndsMoving(r, "gone", "ok")
  /\ UNCHANGED <<chunked, leased, target, tab>>

(* rename to the final path; if that fails the temporary file goes.           *)
RenameTemp(r) ==
  /\ r.pc \in {"full", "checked"}
  /\ \/ temp.there /\ target' = temp /\ EndsMoving(r, "target", "ok")
     \/ RemoveTemp(r)
  /\ UNCHANGED <<chunked, leased, tab>>

----------------------------------------------------------------------------
Client ==
  \/ Offer \/ Send \/ Cancel \/ Settle \/ HearPlaced \/ Report
  \/ \E r \in Pending : HearOk(r) \/ HearError(r)

UploadHandler(r) ==
  \/ Refused(r) \/ Leased(r) \/ OpenTemp(r) \/ OpenTempFails(r) \/ WriteChunk(r)
  \/ WriteSingle(r) \/ PieceFails(r) \/ DropTemp(r) \/ CheckSize(r) \/ RenameTemp(r)

Server == \E r \in reqs : UploadHandler(r)

UploadNext == Client \/ Server \/ Retire
UploadSpec == UploadInit /\ [][UploadNext]_uploadVars

----------------------------------------------------------------------------
(* Files, requests and the tab keep the shape the code gives them; a temporary *)
(* file never ends past the file that is sent.                               *)
UploadTypeOK ==
  /\ chunked \in BOOLEAN /\ leased \in BOOLEAN /\ crossed \in BOOLEAN
  /\ temp \in UploadFile /\ target \in UploadFile /\ tab \in UploadTab
  /\ reqs \subseteq Req

(* The final path holds what it held, or the whole new file, whatever fails,   *)
(* is cancelled or lost, and though chunks of two attempts mix; unless a        *)
(* handler of the attempt given up removes, renames or truncates the temporary *)
(* file under the later one, which the size check does not notice.            *)
TargetIsWhole == crossed \/ target.size = 0 \/ target = WholeFile

(* An upload the tab reports as done is at its final path.                    *)
SuccessIsPlaced == tab.done => crossed \/ target = WholeFile

(* Uploads arrive whole: what is at the final path, and what is said of it.   *)
UploadArrives == TargetIsWhole /\ SuccessIsPlaced
=============================================================================
