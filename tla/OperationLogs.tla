--------------------------- MODULE OperationLogs ----------------------------
(***************************************************************************)
(* The logs of operations below /data/FileExplorer/logs, and who names, who *)
(* writes and who lists them.  A job's log is created by job_begin, its name *)
(* kept in g_job.log_path for as long as the next job has not come; uploads  *)
(* of archives ask for the name when they have given the slot back, other    *)
(* jobs while they hold it.  The tab sends that name with its report, and    *)
(* the report writes that log anew.  Copies name their logs themselves.  The *)
(* list that a poll answers is taken from the queue under its lock and then  *)
(* from the directory, log by log; the user may have all of it cleared.      *)
(*                                                                          *)
(* When an item is offered and whom its lease belongs to is ActivityQueue's  *)
(* matter: here one item runs at a time.  A log is named by the operation it *)
(* was created for and told apart by a number: operation_log_make_path       *)
(* counts.                                                                   *)
(***************************************************************************)
EXTENDS Naturals, FiniteSets, Functions

CONSTANTS Operations,   \* what users start
          OperationKinds,  \* a subset of AllOperationKinds
          QueueSize,    \* ACTIVITY_MAX
          ListLimit,    \* how many logs a poll asks for, ACTIVITY_LOG_LIMIT_MAX at most
          MaxClears     \* bound: how often the list is cleared

(* "stream": the upload of an archive; "app": compress, decompress, prepare;  *)
(* "files": an upload without a job; "local": a job outside the queue, such as *)
(* the extraction of an archive on the disk; "copy": copy, move, delete.      *)
AllOperationKinds == {"stream", "app", "files", "local", "copy"}
Queued == {"stream", "app", "files"}

ASSUME OperationsAssumption ==
  /\ OperationKinds \subseteq AllOperationKinds
  /\ QueueSize \in Nat /\ ListLimit \in Nat /\ MaxClears \in Nat

VARIABLES
  operation,  \* per operation: its kind, where its handler or worker is, whether its
              \* tab reports it, the log it was told of
  holder,     \* g_job.busy: {} or the operation that has the slot
  logPath,    \* g_job.log_path: {} or the log it names
  logs,       \* the log files: whose text each has, and whether that says "running"
  queue,      \* g_activity.items: the item of each slot
  listing,    \* the poll that is being answered, as far as one operation is concerned
  clearing    \* whether a clear is under way, and how many there were

logVars == <<operation, holder, logPath, logs, queue, listing, clearing>>

LogNames  == Operations \X {1, 2, 3}  \* made by the job, at its end, for the report
QueueSlots == 1 .. QueueSize
OwnLogs(o) == {o} \X {1, 2, 3}
NoItem   == [of |-> {}, status |-> "empty", log |-> {}]
(* A poll followed for an operation: whether its item was listed, the logs it  *)
(* must still come by, the names not yet read, the candidates.               *)
NoPoll   == [of |-> {}, item |-> FALSE, owed |-> {}, unread |-> {}, candidates |-> {}]

OperationPCs == {"new", "queued", "offered", "begun", "asks", "work", "ended",
                 "freed", "told", "over"}
TabPCs == {"idle", "report", "nameless", "found", "missing", "rewritten", "written"}

LogsTypeOK ==
  /\ \A o \in Operations :
       /\ operation[o].kind \in OperationKinds /\ operation[o].pc \in OperationPCs
       /\ operation[o].tab \in TabPCs /\ operation[o].told \subseteq LogNames
  /\ holder \subseteq Operations /\ logPath \subseteq LogNames
  /\ DOMAIN logs \subseteq LogNames
  /\ \A s \in QueueSlots : queue[s].of \subseteq Operations /\ queue[s].log \subseteq LogNames

LogsInit ==
  /\ \E k \in [Operations -> OperationKinds] :
       operation = [o \in Operations |->
                      [kind |-> k[o], pc |-> "new", tab |-> "idle", told |-> {}]]
  /\ holder = {} /\ logPath = {} /\ logs = <<>>
  /\ queue = [s \in QueueSlots |-> NoItem]
  /\ listing = NoPoll /\ clearing = [on |-> FALSE, count |-> 0]

----------------------------------------------------------------------------
(* The queue's items, as far as they have to do with logs.                  *)

ItemsOf(o)   == {s \in QueueSlots : queue[s].of = {o}}
Runs(o)      == \E s \in ItemsOf(o) : queue[s].status = "running"
HasLog(name) == \E s \in QueueSlots : queue[s].log = {name}

OperationGoes(o, from, to) ==
  operation[o].pc = from /\ operation' = [operation EXCEPT ![o].pc = to]
TabGoes(o, from, to) ==
  operation[o].tab = from /\ operation' = [operation EXCEPT ![o].tab = to]

(* activity_finish_queue: the item is found by its id whatever its status; a *)
(* name that is not there leaves the one the item has.                      *)
FinishItem(o, name) ==
  queue' = [s \in QueueSlots |->
              IF s \notin ItemsOf(o) THEN queue[s]
              ELSE [queue[s] EXCEPT !.status = "over", !.log = IF name = {} THEN @ ELSE name]]

(* activity_defer_queue_success: only an item that runs. *)
DeferItem(o, name) ==
  queue' = [s \in QueueSlots |->
              IF s \in ItemsOf(o) /\ queue[s].status = "running" /\ name # {}
              THEN [queue[s] EXCEPT !.log = name] ELSE queue[s]]

(* The slot an item is put into: the first unused one, or the first whose   *)
(* item is over.                                                            *)
First(S) == {s \in S : \A r \in S : s <= r}
With(status) == {s \in QueueSlots : queue[s].status = status}
Taken == IF With("empty") # {} THEN First(With("empty")) ELSE First(With("over"))

(* Mutant: the slot's fields are set one by one, and the log's name is forgotten. *)
EnqueueKeepsLog(o) ==
  /\ operation[o].kind \in Queued /\ OperationGoes(o, "new", "queued")
  /\ \E s \in Taken : queue' = [queue EXCEPT ![s].of = {o}, ![s].status = "queued"]
  /\ UNCHANGED <<holder, logPath, logs, listing, clearing>>

EnqueueOperation(o) ==
  /\ operation[o].kind \in Queued /\ OperationGoes(o, "new", "queued")
  /\ \E s \in Taken :
       queue' = [queue EXCEPT ![s] = [of |-> {o}, status |-> "queued", log |-> {}]]
  /\ UNCHANGED <<holder, logPath, logs, listing, clearing>>

(* A poll of the tab starts the item: nothing runs and the slot is free.    *)
OfferItem(o) ==
  /\ OperationGoes(o, "queued", "offered")
  /\ holder = {} /\ With("running") = {}
  /\ \E s \in ItemsOf(o) : /\ queue[s].status = "queued"
                           /\ queue' = [queue EXCEPT ![s].status = "running"]
  /\ UNCHANGED <<holder, logPath, logs, listing, clearing>>

(* The user cancels the item, or its tab loses it: no log is named.         *)
DropItem(o) ==
  /\ \E s \in ItemsOf(o) : /\ queue[s].status \in {"queued", "running"}
                           /\ queue' = [queue EXCEPT ![s].status = "over"]
  /\ operation' = [operation EXCEPT ![o].pc = IF @ = "queued" THEN "over" ELSE @]
  /\ UNCHANGED <<holder, logPath, logs, listing, clearing>>

----------------------------------------------------------------------------
(* A job: job_begin, job_log_name, job_end.                                 *)

WriteLog(o, name, running) ==
  logs' = [n \in DOMAIN logs \cup name |->
             IF n \in name THEN [of |-> o, running |-> running] ELSE logs[n]]

(* The compare-and-swap of job_begin.  A handler that is refused ends there,  *)
(* and the tab of its item reports that it failed.                          *)
TakeSlot(o) ==
  /\ \/ operation[o].kind \in {"stream", "app"} /\ operation[o].pc = "offered"
     \/ operation[o].kind = "local" /\ operation[o].pc = "new"
  /\ IF holder = {}
     THEN holder' = {o} /\ operation' = [operation EXCEPT ![o].pc = "begun"]
     ELSE /\ operation' = [operation EXCEPT ![o] =
               [@ EXCEPT !.tab = IF operation[o].kind = "local" THEN "idle" ELSE "nameless",
                         !.pc = "over"]]
          /\ UNCHANGED holder
  /\ UNCHANGED <<logPath, logs, queue, listing, clearing>>

(* The lock of job_begin, and the log that says "running"; a log whose        *)
(* directory cannot be made has no name.  job_set_target writes it again.     *)
NameLog(o) ==
  /\ OperationGoes(o, "begun", IF operation[o].kind = "app" THEN "asks" ELSE "work")
  /\ logPath' \in {{<<o, 1>>}, {}} /\ WriteLog(o, logPath', TRUE)
  /\ UNCHANGED <<holder, queue, listing, clearing>>
SetTarget(o) ==
  /\ operation[o].pc = "work" /\ operation[o].kind # "copy" /\ WriteLog(o, logPath, TRUE)
  /\ UNCHANGED <<operation, holder, logPath, queue, listing, clearing>>

(* The name a handler is told: whatever g_job.log_path holds now. *)
AskName(o, from, to) ==
  /\ operation[o].pc = from
  /\ operation' = [operation EXCEPT ![o] = [@ EXCEPT !.pc = to, !.told = logPath]]
  /\ UNCHANGED <<holder, logPath, logs, queue, listing, clearing>>

(* Compress, decompress and prepare ask before they start their thread.      *)
AskFirst(o) == AskName(o, "asks", "work")

(* Mutant: the slot is given back first, and the log's name looked up after. *)
LogOutcomeLate(o) ==
  /\ operation[o].pc = "work" /\ operation[o].kind # "copy"
  /\ IF o \in holder
     THEN holder' = {} /\ UNCHANGED <<operation, logs>>
     ELSE /\ operation' = [operation EXCEPT ![o].pc = "ended"]
          /\ WriteLog(o, IF logPath = {} THEN {<<o, 2>>} ELSE logPath, FALSE)
          /\ UNCHANGED holder
  /\ UNCHANGED <<logPath, queue, listing, clearing>>

(* job_end_with_extra: the outcome is logged, where there is a log and else   *)
(* in one made now; then the slot is given back.                            *)
LogOutcome(o) ==
  /\ OperationGoes(o, "work", "ended") /\ operation[o].kind # "copy"
  /\ WriteLog(o, IF logPath = {} THEN {<<o, 2>>} ELSE logPath, FALSE)
  /\ UNCHANGED <<holder, logPath, queue, listing, clearing>>

FreeSlot(o) ==
  /\ operation[o].pc = "ended" /\ holder' = holder \ {o}
  /\ operation' = [operation EXCEPT ![o] =
       [@ EXCEPT !.tab = IF operation[o].kind = "app" THEN "report" ELSE operation[o].tab,
                 !.pc  = IF operation[o].kind = "stream" THEN "freed" ELSE "over"]]
  /\ UNCHANGED <<logPath, logs, queue, listing, clearing>>

(* The handler of an upload asks when it has given the slot back; it finishes *)
(* the item, or leaves that to a tab that will offer to prepare the app.      *)
AskLate(o) == AskName(o, "freed", "told")
SettleItem(o) ==
  /\ operation[o].pc = "told"
  /\ \/ /\ FinishItem(o, operation[o].told)
        /\ operation' = [operation EXCEPT ![o].pc = "over"]
     \/ /\ DeferItem(o, operation[o].told)
        /\ operation' = [operation EXCEPT ![o] =
             [@ EXCEPT !.tab = IF operation[o].tab = "idle" THEN "report" ELSE operation[o].tab,
                       !.pc = "over"]]
  /\ UNCHANGED <<holder, logPath, logs, listing, clearing>>

(* An upload without a job has only its tab's report, and the tab of an archive *)
(* whose request broke reports though the handler is still at work.          *)
SendFiles(o) ==
  /\ operation[o].kind = "files" /\ operation[o].pc = "offered"
  /\ operation' = [operation EXCEPT ![o] = [@ EXCEPT !.tab = "nameless", !.pc = "over"]]
  /\ UNCHANGED <<holder, logPath, logs, queue, listing, clearing>>
RequestBreaks(o) ==
  /\ operation[o].kind = "stream" /\ operation[o].pc \in {"begun", "work", "ended"}
  /\ TabGoes(o, "idle", "nameless")
  /\ UNCHANGED <<holder, logPath, logs, queue, listing, clearing>>

----------------------------------------------------------------------------
(* activity_complete_handler: the lease, the log, the item.                 *)

(* A tab whose request failed was not told a name and sends none.            *)
CheckReport(o) ==
  /\ operation[o].tab \in {"report", "nameless"}
  /\ operation' = [operation EXCEPT ![o].tab =
       IF ~Runs(o) THEN "idle"
       ELSE IF @ = "report" /\ operation[o].told # {} /\ operation[o].told \subseteq DOMAIN logs
            THEN "found" ELSE "missing"]
  /\ UNCHANGED <<holder, logPath, logs, queue, listing, clearing>>

ReportLog(o) ==
  /\ \/ TabGoes(o, "found", "rewritten") /\ WriteLog(o, operation[o].told, FALSE)
     \/ TabGoes(o, "missing", "written") /\ WriteLog(o, {<<o, 3>>}, FALSE)
  /\ UNCHANGED <<holder, logPath, queue, listing, clearing>>
FinishReport(o) ==
  /\ \/ TabGoes(o, "rewritten", "idle") /\ FinishItem(o, operation[o].told)
     \/ TabGoes(o, "written", "idle") /\ FinishItem(o, {<<o, 3>>})
  /\ UNCHANGED <<holder, logPath, logs, listing, clearing>>

----------------------------------------------------------------------------
(* Copy, move and delete have a log of their own from the start.             *)

CopyStarts(o) ==
  /\ operation[o].kind = "copy" /\ OperationGoes(o, "new", "work")
  /\ WriteLog(o, {<<o, 1>>}, TRUE)
  /\ UNCHANGED <<holder, logPath, queue, listing, clearing>>
CopyProgress(o) ==
  /\ operation[o].kind = "copy" /\ operation[o].pc = "work" /\ WriteLog(o, {<<o, 1>>}, TRUE)
  /\ UNCHANGED <<operation, holder, logPath, queue, listing, clearing>>
CopyEnds(o) ==
  /\ operation[o].kind = "copy" /\ OperationGoes(o, "work", "over")
  /\ WriteLog(o, {<<o, 1>>}, FALSE)
  /\ UNCHANGED <<holder, logPath, queue, listing, clearing>>

----------------------------------------------------------------------------
(* activity_poll_handler: the items under the lock, then the directory.      *)

Ended(o) == operation[o].pc = "over" /\ operation[o].tab = "idle"

(* A poll is followed for an operation that is over and that the user could    *)
(* have seen, had he looked now.                                            *)
ListItems(o) ==
  /\ listing = NoPoll /\ Ended(o) /\ ~clearing.on
  /\ ItemsOf(o) # {} \/ OwnLogs(o) \cap DOMAIN logs # {}
  /\ listing' = [of |-> {o}, item |-> ItemsOf(o) # {}, owed |-> OwnLogs(o) \cap DOMAIN logs,
                 unread |-> LogNames, candidates |-> {}]
  /\ UNCHANGED <<operation, holder, logPath, logs, queue, clearing>>

(* The directory cannot be made or opened, or there is no memory for the       *)
(* candidates: the answer has the items only.                               *)
ListNoLogs ==
  /\ listing # NoPoll /\ listing.unread = LogNames /\ listing' = NoPoll
  /\ UNCHANGED <<operation, holder, logPath, logs, queue, clearing>>

(* Mutant: a candidate goes already when the list is full. *)
NewestBut(names) ==
  IF Cardinality(names) < ListLimit THEN {names} ELSE {names \ {n} : n \in names}

(* Of more candidates than were asked for the oldest goes.  Which one that is  *)
(* depends on the clock and on who wrote last, and is left open.             *)
Newest(names) ==
  IF Cardinality(names) <= ListLimit THEN {names} ELSE {names \ {n} : n \in names}

(* Readdir returns the logs in any order, those made meanwhile or not.  lstat,  *)
(* and activity_queue_has_log_locked under the lock.                         *)
ListLog(name) ==
  /\ name \in listing.unread /\ name \in DOMAIN logs \cup listing.owed
  /\ LET shown == {n \in {name} : n \in DOMAIN logs /\ ~HasLog(n)}
     IN \E kept \in Newest(listing.candidates \cup shown) :
          listing' = [listing EXCEPT !.owed = @ \ {name}, !.unread = @ \ {name},
                                    !.candidates = kept]
  /\ UNCHANGED <<operation, holder, logPath, logs, queue, clearing>>

AnswerPoll ==
  /\ listing # NoPoll /\ (listing.item \/ listing.owed = {}) /\ listing' = NoPoll
  /\ UNCHANGED <<operation, holder, logPath, logs, queue, clearing>>

(* activity_clear_handler: the items that are over, then each log readdir     *)
(* returns, unless it cannot be unlinked.  A poll under way may miss them.    *)
ClearItems ==
  /\ ~clearing.on /\ clearing.count < MaxClears
  /\ queue' = [s \in QueueSlots |-> IF queue[s].status = "over" THEN NoItem ELSE queue[s]]
  /\ clearing' = [on |-> TRUE, count |-> clearing.count + 1]
  /\ listing' = NoPoll
  /\ UNCHANGED <<operation, holder, logPath, logs>>
ClearLog(name) ==
  /\ clearing.on /\ name \in DOMAIN logs
  /\ logs' = Restrict(logs, DOMAIN logs \ {name})
  /\ UNCHANGED <<operation, holder, logPath, queue, listing, clearing>>
ClearEnds ==
  /\ clearing.on /\ clearing' = [clearing EXCEPT !.on = FALSE]
  /\ UNCHANGED <<operation, holder, logPath, logs, queue, listing>>

----------------------------------------------------------------------------
JobLogStep(o) ==
  \/ TakeSlot(o) \/ NameLog(o) \/ SetTarget(o) \/ AskFirst(o)
  \/ LogOutcome(o) \/ FreeSlot(o) \/ AskLate(o) \/ SettleItem(o)
QueueLogStep(o) ==
  \/ EnqueueOperation(o) \/ OfferItem(o) \/ DropItem(o) \/ SendFiles(o) \/ RequestBreaks(o)
  \/ CheckReport(o) \/ ReportLog(o) \/ FinishReport(o)
CopyLogStep(o) == CopyStarts(o) \/ CopyProgress(o) \/ CopyEnds(o)

LogsNext ==
  \/ \E o \in Operations : JobLogStep(o) \/ QueueLogStep(o) \/ CopyLogStep(o) \/ ListItems(o)
  \/ ListNoLogs \/ AnswerPoll \/ ClearItems \/ ClearEnds
  \/ \E name \in LogNames : ListLog(name) \/ ClearLog(name)

LogsSpec == LogsInit /\ [][LogsNext]_logVars

----------------------------------------------------------------------------
(* The handler of an upload asks for the name of its log when another job may *)
(* have the slot: these are the operations whose log another took for its own. *)
Mistaken == {o \in Operations :
               \E p \in Operations \ {o} : OwnLogs(o) \cap operation[p].told # {}}

(* What becomes of an operation can be read: each log tells of the operation   *)
(* it was made for, says "running" no longer than that runs, and while nothing *)
(* was cleared an operation that had a job or a report has left one.  (Logs of *)
(* operations whose name another was told are excepted.)                      *)
LogsTellOfTheirOwn ==
  \A o \in Operations \ Mistaken :
    /\ \A n \in OwnLogs(o) \cap DOMAIN logs :
         logs[n].of = o /\ (operation[o].pc = "over" => ~logs[n].running)
    /\ operation[o].pc = "ended" /\ clearing.count = 0 => OwnLogs(o) \cap DOMAIN logs # {}

(* The list leaves out nobody while there is room: whatever was over and could *)
(* be seen when a poll began is in the answer as an item or as a log, or the    *)
(* answer has as many logs as were asked for; though meanwhile items are        *)
(* finished, slots used again and logs written anew.  (A poll that cannot read   *)
(* the directory is none, and a log whose name another was told is excepted.)   *)
InAnswer == listing.item \/ \E o \in listing.of : OwnLogs(o) \cap listing.candidates # {}
NothingDropsOut ==
  listing # NoPoll /\ listing.owed = {} =>
    InAnswer \/ Cardinality(listing.candidates) = ListLimit \/ listing.of \subseteq Mistaken
=============================================================================
