---------------------------- MODULE ActivityQueue ----------------------------
(***************************************************************************)
(* The Activity queue (g_activity), the job slot (g_job.busy/cancel) and    *)
(* the browser tabs that drive them.  Each HTTP request is served by its    *)
(* own thread; what a handler does while it holds g_activity.lock is one    *)
(* step, what it does after unlocking is another, so everything another     *)
(* request can do in between is explored.                                   *)
(*                                                                          *)
(* Three kinds of items: "zip" (zip and rar uploads: the handler runs the   *)
(* job and finishes or defers the item), "compress" (compress, decompress,  *)
(* prepare: a background job, the tab completes the item) and "upload" (no  *)
(* job, the tab completes the item).                                        *)
(*                                                                          *)
(* Time is kept as ages: seconds since the last heartbeat and since the     *)
(* start, counted no further than one past the timeout they are compared    *)
(* with.                                                                    *)
(***************************************************************************)
EXTENDS Naturals, FiniteSets

CONSTANTS Clients,           \* browser tabs (clientId)
          Threads,           \* threads serving requests at the same time
          LocalThreads,      \* bound: those that may serve a job outside the queue
          NSlots,            \* ACTIVITY_MAX
          Kinds,             \* the kinds of items the tabs submit
          HeartbeatTimeout,  \* ACTIVITY_HEARTBEAT_TIMEOUT
          StartTimeout,      \* ACTIVITY_RUNNING_START_TIMEOUT
          MaxSeq,            \* bound: items submitted in a behaviour
          Nobody             \* no client

AllKinds == {"zip", "compress", "upload"}

ASSUME ConstantsAssumption ==
  /\ NSlots \in Nat /\ HeartbeatTimeout \in Nat /\ StartTimeout \in Nat
  /\ MaxSeq \in Nat
  /\ Kinds \subseteq AllKinds /\ LocalThreads \subseteq Threads
  /\ Nobody \notin Clients

VARIABLES
  items, nextId, nextLease,  \* g_activity
  busy, cancel, jobErr,      \* g_job.busy, g_job.cancel, g_job.error
  pc, req,                   \* per thread: where its handler is, its request
  alive, local, active       \* per tab: open, localQueue ids, the item it runs

queueVars  == <<items, nextId, nextLease>>
jobVars    == <<busy, cancel, jobErr>>
threadVars == <<pc, req>>
tabVars    == <<alive, local, active>>
vars == <<items, nextId, nextLease, busy, cancel, jobErr, pc, req, alive, local, active>>

Slots    == 1 .. NSlots
Terminal == {"success", "failed", "cancelled", "abandoned"}
Live     == {"queued", "running"}
Statuses == {"empty"} \cup Live \cup Terminal
Results  == {"none", "success", "failed", "cancelled"}

Ages   == 0 .. HeartbeatTimeout + 1  \* seconds since the last heartbeat
Starts == 0 .. StartTimeout + 1      \* seconds since the start

Item == [status : Statuses, seq : Nat, client : Clients \cup {Nobody},
         kind : AllKinds \cup {"none"}, lease : Nat,
         age : Ages, started : Starts]

EmptyItem == [status |-> "empty", seq |-> 0, client |-> Nobody, kind |-> "none",
              lease |-> 0, age |-> 0, started |-> 0]

PCs == {"idle", "enqueued", "poll", "pollcancel", "polled", "actcancel",
        "jobcancel", "upload", "begin", "reset", "run", "end", "finish",
        "worked", "complete", "completed"}

Request == [client : Clients \cup {Nobody}, id : Nat, lease : Nat,
            kind : AllKinds \cup {"none"}, owned : SUBSET Nat, res : Results]

NoRequest == [client |-> Nobody, id |-> 0, lease |-> 0, kind |-> "none",
              owned |-> {}, res |-> "none"]

Phases == {"none", "start", "sent", "wait", "finish", "finishing"}
Activity == [id : Nat, lease : Nat, kind : AllKinds \cup {"none"},
             phase : Phases, res : Results]
NoActivity == [id |-> 0, lease |-> 0, kind |-> "none", phase |-> "none", res |-> "none"]

Init ==
  /\ items = [s \in Slots |-> EmptyItem]
  /\ nextId = 1 /\ nextLease = 1
  /\ busy = FALSE /\ cancel = FALSE /\ jobErr = "none"
  /\ pc = [t \in Threads |-> "idle"]
  /\ req = [t \in Threads |-> NoRequest]
  /\ alive = [c \in Clients |-> TRUE]
  /\ local = [c \in Clients |-> {}]
  /\ active = [c \in Clients |-> NoActivity]

-----------------------------------------------------------------------------
(* What the handlers do to items.                                          *)

With(st) == {s \in Slots : items[s].status = st}
IsFound(s, id) == items[s].status # "empty" /\ items[s].seq = id

(* Mutant: the lease outlives the item. *)
FinishedKeepsLease(it, st) == [it EXCEPT !.status = st, !.age = 0, !.started = 0]

Finished(it, st) ==
  [it EXCEPT !.status = st, !.lease = 0, !.age = 0, !.started = 0]

(* activity_finish_queue and activity_complete_handler look the item up by  *)
(* its id and do not ask whether it still runs.                             *)
FinishQueue(id, res) ==
  items' = [s \in Slots |-> IF IsFound(s, id) THEN Finished(items[s], res) ELSE items[s]]

Heartbeat(id) ==
  items' = [s \in Slots |-> IF IsFound(s, id) THEN [items[s] EXCEPT !.age = 0]
                                              ELSE items[s]]

LeaseIsCurrent(a) ==
  \E s \in Slots : /\ items[s].status = "running"
                   /\ items[s].seq = a.id
                   /\ items[s].lease = a.lease
                   /\ items[s].kind = a.kind

Goto(t, label) == pc' = [pc EXCEPT ![t] = label]
Serve(t, label, r) == Goto(t, label) /\ req' = [req EXCEPT ![t] = r]
Done(t) == Serve(t, "idle", NoRequest)

RequestOf(c, a) == [client |-> c, id |-> a.id, lease |-> a.lease, kind |-> a.kind,
                    owned |-> {}, res |-> "none"]

-----------------------------------------------------------------------------
(* Submitting: an unused slot is taken first, then the first finished item   *)
(* is overwritten; with neither the request is refused (409).               *)

Reusable == IF With("empty") # {} THEN With("empty")
            ELSE UNION {With(st) : st \in Terminal}

Enqueue(c, t, k) ==
  /\ alive[c] /\ pc[t] = "idle" /\ nextId <= MaxSeq
  /\ \E s \in Reusable :
       /\ \A r \in Reusable : s <= r
       /\ items' = [items EXCEPT ![s] =
            [EmptyItem EXCEPT !.status = "queued", !.seq = nextId, !.client = c, !.kind = k]]
  /\ nextId' = nextId + 1
  /\ Serve(t, "enqueued", [NoRequest EXCEPT !.client = c, !.id = nextId])
  /\ UNCHANGED <<nextLease, jobVars, tabVars>>

(* The tab learns the id: only from now on does it name it as owned.        *)
EnqueueReply(t) ==
  /\ pc[t] = "enqueued"
  /\ LET c == req[t].client
     IN  local' = IF alive[c] THEN [local EXCEPT ![c] = @ \cup {req[t].id}] ELSE local
  /\ Done(t)
  /\ UNCHANGED <<queueVars, jobVars, alive, active>>

-----------------------------------------------------------------------------
(* Polling.  The request carries the ids the tab owned when it was sent.    *)

PollSend(c, t) ==
  /\ alive[c] /\ pc[t] = "idle"
  /\ Serve(t, "poll", [NoRequest EXCEPT !.client = c, !.owned = local[c]])
  /\ UNCHANGED <<queueVars, jobVars, tabVars>>

Disowned(it, r) == it.client = r.client /\ it.seq \notin r.owned

(* Mutant: only a tab's own polls give its items up. *)
NeverSilent(it, r) == FALSE

Silent(it, r) ==
  /\ it.client # r.client
  /\ it.age > HeartbeatTimeout
  /\ it.status = "running" => ~busy /\ it.started > StartTimeout

GivenUp(it, r) == it.status \in Live /\ (Disowned(it, r) \/ Silent(it, r))

Swept(r) ==
  [s \in Slots |->
     IF GivenUp(items[s], r) THEN Finished(items[s], "abandoned")
     ELSE IF items[s].status \in Live /\ items[s].client = r.client
          THEN [items[s] EXCEPT !.age = 0]
     ELSE items[s]]

PollServed(t, swept, it) ==
  LET sweptRunning == \E s \in Slots : items[s].status = "running" /\ GivenUp(items[s], req[t])
  IN  Serve(t, IF sweptRunning THEN "pollcancel" ELSE "polled",
            [req[t] EXCEPT !.id = it.seq, !.lease = it.lease, !.kind = it.kind,
                           !.owned = {}])

RunningIn(swept) == {s \in Slots : swept[s].status = "running"}
QueuedIn(swept)  == {s \in Slots : swept[s].status = "queued"}
(* Mutant: any waiting item will do. *)
AnyNext(swept, s) == s \in QueuedIn(swept)

IsNext(swept, s)  == s \in QueuedIn(swept) /\ \A r \in QueuedIn(swept) : swept[s].seq <= swept[r].seq

(* Mutant: whoever polls is handed the running item's lease. *)
ReofferToAnyone(t) ==
  /\ pc[t] = "poll"
  /\ LET swept == Swept(req[t])
     IN  \E s \in RunningIn(swept) :
           /\ items' = swept
           /\ PollServed(t, swept, swept[s])
  /\ UNCHANGED <<nextId, nextLease, jobVars, tabVars>>

(* A tab whose item runs is handed its lease again.                        *)
PollReoffer(t) ==
  /\ pc[t] = "poll"
  /\ LET swept == Swept(req[t])
     IN  \E s \in RunningIn(swept) :
           /\ swept[s].client = req[t].client
           /\ items' = swept
           /\ PollServed(t, swept, swept[s])
  /\ UNCHANGED <<nextId, nextLease, jobVars, tabVars>>

(* Mutant: the running item is not looked for. *)
MayStartAnother(swept, c) ==
  {s \in Slots : ~busy /\ IsNext(swept, s) /\ swept[s].client = c}

MayStart(swept, c) ==
  {s \in Slots : /\ RunningIn(swept) = {} /\ ~busy
                 /\ IsNext(swept, s) /\ swept[s].client = c}

(* The head of the queue starts, when nothing runs and it is the poller's.  *)
PollStart(t) ==
  /\ pc[t] = "poll"
  /\ LET swept == Swept(req[t])
     IN  \E s \in MayStart(swept, req[t].client) :
           LET it == [swept[s] EXCEPT !.status = "running", !.age = 0, !.started = 0,
                                      !.lease = nextLease]
           IN  /\ items' = [swept EXCEPT ![s] = it]
               /\ PollServed(t, swept, it)
  /\ nextLease' = nextLease + 1
  /\ UNCHANGED <<nextId, jobVars, tabVars>>

PollNothing(t) ==
  /\ pc[t] = "poll"
  /\ LET swept == Swept(req[t])
     IN  /\ \A s \in RunningIn(swept) : swept[s].client # req[t].client
         /\ MayStart(swept, req[t].client) = {}
         /\ items' = swept
         /\ PollServed(t, swept, EmptyItem)
  /\ UNCHANGED <<nextId, nextLease, jobVars, tabVars>>

(* startQueuedActivity: an offered item is taken only by a tab that has it   *)
(* and runs nothing.                                                        *)
PollReply(t) ==
  /\ pc[t] = "polled"
  /\ LET r == req[t]
     IN  active' = IF alive[r.client] /\ active[r.client].id = 0
                      /\ r.id # 0 /\ r.id \in local[r.client]
                   THEN [active EXCEPT ![r.client] =
                           [id |-> r.id, lease |-> r.lease, kind |-> r.kind,
                            phase |-> "start", res |-> "none"]]
                   ELSE active
  /\ Done(t)
  /\ UNCHANGED <<queueVars, jobVars, alive, local>>

-----------------------------------------------------------------------------
(* Cancelling.  The item is finished under the lock; g_job.cancel is set     *)
(* after it is released, by activity/cancel and by a poll that gave up the   *)
(* running item alike.  job/cancel sets it when it has seen the job busy.    *)

ActivityCancel(c, t, s) ==
  /\ alive[c] /\ pc[t] = "idle"
  /\ items[s].status \in Live /\ items[s].client = c
  /\ items' = [items EXCEPT ![s] = Finished(@, "cancelled")]
  /\ IF items[s].status = "running"
     THEN Serve(t, "actcancel", [NoRequest EXCEPT !.id = items[s].seq])
     ELSE UNCHANGED threadVars
  /\ UNCHANGED <<nextId, nextLease, jobVars, tabVars>>

JobCancel(t) ==
  /\ pc[t] = "idle" /\ busy
  /\ Goto(t, "jobcancel")
  /\ UNCHANGED <<queueVars, jobVars, req, tabVars>>

StoreCancel(t) ==
  /\ pc[t] \in {"pollcancel", "actcancel", "jobcancel"}
  /\ cancel' = TRUE
  /\ IF pc[t] = "pollcancel" THEN Goto(t, "polled") /\ UNCHANGED req ELSE Done(t)
  /\ UNCHANGED <<queueVars, busy, jobErr, tabVars>>

-----------------------------------------------------------------------------
(* Running an item.  activity_validate_lease holds the lock only while it    *)
(* looks; everything after it happens later.                                *)

SetPhase(c, phase, res) ==
  active' = [active EXCEPT ![c].phase = phase, ![c].res = res]

WorkSend(c, t) ==
  /\ alive[c] /\ active[c].phase = "start" /\ pc[t] = "idle"
  /\ LET a == active[c]
     IN  IF LeaseIsCurrent(a)
         THEN /\ Heartbeat(a.id)
              /\ Serve(t, IF a.kind = "upload" THEN "upload" ELSE "begin", RequestOf(c, a))
              /\ SetPhase(c, "sent", "none")
         ELSE /\ SetPhase(c, "finish", "failed")
              /\ UNCHANGED <<items, threadVars>>
  /\ UNCHANGED <<nextId, nextLease, jobVars, alive, local>>

(* Every further chunk of an upload shows the lease again.                  *)
UploadChunk(t) ==
  /\ pc[t] = "upload"
  /\ IF LeaseIsCurrent(req[t])
     THEN Heartbeat(req[t].id) /\ UNCHANGED threadVars
     ELSE Serve(t, "worked", [req[t] EXCEPT !.res = "failed"]) /\ UNCHANGED items
  /\ UNCHANGED <<nextId, nextLease, jobVars, tabVars>>

(* Mutant: the outcome is a status the server does not know. *)
UploadDoneUnknown(t) ==
  /\ pc[t] = "upload"
  /\ Serve(t, "worked", [req[t] EXCEPT !.res = "error"])
  /\ UNCHANGED <<queueVars, jobVars, tabVars>>

UploadDone(t) ==
  /\ pc[t] = "upload"
  /\ \E res \in {"success", "failed"} : Serve(t, "worked", [req[t] EXCEPT !.res = res])
  /\ UNCHANGED <<queueVars, jobVars, tabVars>>

(* A job started outside the queue: extracting a local archive, preparing    *)
(* or compressing without a lease.                                          *)
LocalJob(t) ==
  /\ t \in LocalThreads /\ pc[t] = "idle"
  /\ Goto(t, "begin")
  /\ UNCHANGED <<queueVars, jobVars, req, tabVars>>

(* Mutant: the flag is stored without comparing it first. *)
JobBeginUnchecked(t) ==
  /\ pc[t] = "begin"
  /\ busy' = TRUE
  /\ Goto(t, "reset")
  /\ UNCHANGED <<queueVars, cancel, jobErr, req, tabVars>>

(* job_begin: the compare-and-swap, then the reset of what the last job left *)
(* behind, the cancel flag with it.                                         *)
JobBegin(t) ==
  /\ pc[t] = "begin" /\ ~busy
  /\ busy' = TRUE
  /\ Goto(t, "reset")
  /\ UNCHANGED <<queueVars, cancel, jobErr, req, tabVars>>

(* Mutant: the cancel flag is reset before the slot is won. *)
JobRefusedResets(t) ==
  /\ pc[t] = "begin" /\ busy
  /\ cancel' = FALSE
  /\ IF req[t].id = 0 THEN Done(t) ELSE Serve(t, "finish", [req[t] EXCEPT !.res = "failed"])
  /\ UNCHANGED <<queueVars, busy, jobErr, tabVars>>

JobRefused(t) ==
  /\ pc[t] = "begin" /\ busy
  /\ IF req[t].id = 0 THEN Done(t)
     ELSE Serve(t, IF req[t].kind = "zip" THEN "finish" ELSE "worked",
                [req[t] EXCEPT !.res = "failed"])
  /\ UNCHANGED <<queueVars, jobVars, tabVars>>

AwaitsReply(c, id) == alive[c] /\ active[c].id = id /\ active[c].phase = "sent"

JobReset(t) ==
  /\ pc[t] = "reset"
  /\ cancel' = FALSE /\ jobErr' = "none"
  /\ Goto(t, "run")
  /\ LET r == req[t]
     IN  IF r.kind = "compress" /\ AwaitsReply(r.client, r.id)
         THEN SetPhase(r.client, "wait", "none")
         ELSE UNCHANGED active
  /\ UNCHANGED <<queueVars, busy, req, alive, local>>

(* A job finds the cancel flag set at one of its checks, or gets to its end  *)
(* (past its last check) whatever the flag says.                            *)
JobCancelled(t) ==
  /\ pc[t] = "run" /\ cancel
  /\ Serve(t, "end", [req[t] EXCEPT !.res = "cancelled"])
  /\ UNCHANGED <<queueVars, jobVars, tabVars>>

JobFinished(t) ==
  /\ pc[t] = "run"
  /\ \E res \in {"success", "failed"} : Serve(t, "end", [req[t] EXCEPT !.res = res])
  /\ UNCHANGED <<queueVars, jobVars, tabVars>>

JobEnd(t) ==
  /\ pc[t] = "end"
  /\ busy' = FALSE
  /\ jobErr' = IF req[t].res = "success" THEN jobErr ELSE req[t].res
  /\ IF req[t].kind = "zip" THEN Goto(t, "finish") /\ UNCHANGED req ELSE Done(t)
  /\ UNCHANGED <<queueVars, cancel, tabVars>>

(* The handler of a zip or rar upload finishes its item itself, unless all   *)
(* went well: then the tab completes it (deferActivity).                    *)
FinishItem(t) ==
  /\ pc[t] = "finish"
  /\ IF req[t].res = "success" THEN Heartbeat(req[t].id)
     ELSE FinishQueue(req[t].id, req[t].res)
  /\ Goto(t, "worked")
  /\ UNCHANGED <<nextId, nextLease, jobVars, req, tabVars>>

WorkReply(t) ==
  /\ pc[t] = "worked"
  /\ LET r == req[t]
     IN  IF AwaitsReply(r.client, r.id) THEN SetPhase(r.client, "finish", r.res)
         ELSE UNCHANGED active
  /\ Done(t)
  /\ UNCHANGED <<queueVars, jobVars, alive, local>>

(* The connection breaks, or the user aborts the upload; the handler runs on. *)
WorkLost(c) ==
  /\ alive[c] /\ active[c].phase = "sent"
  /\ \E res \in {"failed", "cancelled"} : SetPhase(c, "finish", res)
  /\ UNCHANGED <<queueVars, jobVars, threadVars, alive, local>>

(* waitJobIdle: the tab takes the state of the job slot, once it is idle, for *)
(* the outcome of its own job.                                              *)
WaitIdle(c) ==
  /\ alive[c] /\ active[c].phase = "wait" /\ ~busy
  /\ SetPhase(c, "finish", IF jobErr = "none" THEN "success" ELSE jobErr)
  /\ UNCHANGED <<queueVars, jobVars, threadVars, alive, local>>

-----------------------------------------------------------------------------
(* Completing.  The lease is checked, the log is written, and only then is   *)
(* the item finished, under the lock again but without a second check.       *)

(* finishLocalActivity: the tab keeps an item that did not succeed, to retry. *)
Settled(c, res) ==
  /\ active' = [active EXCEPT ![c] = NoActivity]
  /\ local' = [local EXCEPT ![c] = IF res = "success" THEN @ \ {active[c].id} ELSE @]

CompleteSend(c, t) ==
  /\ alive[c] /\ active[c].phase = "finish" /\ pc[t] = "idle"
  /\ LET a == active[c]
     IN  IF LeaseIsCurrent(a)
         THEN /\ Heartbeat(a.id)
              /\ Serve(t, "complete", [RequestOf(c, a) EXCEPT !.res = a.res])
              /\ SetPhase(c, "finishing", a.res)
              /\ UNCHANGED local
         ELSE Settled(c, a.res) /\ UNCHANGED <<items, threadVars>>
  /\ UNCHANGED <<nextId, nextLease, jobVars, alive>>

CompleteItem(t) ==
  /\ pc[t] = "complete"
  /\ FinishQueue(req[t].id, req[t].res)
  /\ Goto(t, "completed")
  /\ UNCHANGED <<nextId, nextLease, jobVars, req, tabVars>>

CompleteReply(t) ==
  /\ pc[t] = "completed"
  /\ LET r == req[t]
     IN  IF alive[r.client] /\ active[r.client].id = r.id /\ active[r.client].phase = "finishing"
         THEN Settled(r.client, r.res)
         ELSE UNCHANGED <<local, active>>
  /\ Done(t)
  /\ UNCHANGED <<queueVars, jobVars, alive>>

(* The complete request is lost before it reaches the server: the tab        *)
(* ignores the error.                                                       *)
CompleteLost(c) ==
  /\ alive[c] /\ active[c].phase = "finish" /\ \E t \in Threads : pc[t] = "idle"
  /\ Settled(c, active[c].res)
  /\ UNCHANGED <<queueVars, jobVars, threadVars, alive>>

-----------------------------------------------------------------------------
(* activity/progress: a heartbeat by lease.                                 *)
Progress(c) ==
  /\ alive[c] /\ active[c].id # 0 /\ LeaseIsCurrent(active[c])
  /\ Heartbeat(active[c].id)
  /\ UNCHANGED <<nextId, nextLease, jobVars, threadVars, tabVars>>

(* activity/clear empties the slots of finished items.                      *)
Clear ==
  /\ items' = [s \in Slots |-> IF items[s].status \in Terminal THEN EmptyItem ELSE items[s]]
  /\ UNCHANGED <<nextId, nextLease, jobVars, threadVars, tabVars>>

UpTo(n, limit) == IF n < limit THEN n + 1 ELSE limit

(* A second passes.                                                         *)
Tick ==
  /\ items' = [s \in Slots |->
       IF items[s].status \in Live
       THEN [items[s] EXCEPT !.age = UpTo(@, HeartbeatTimeout + 1),
                             !.started = IF items[s].status = "running"
                                         THEN UpTo(@, StartTimeout + 1) ELSE 0]
       ELSE items[s]]
  /\ UNCHANGED <<nextId, nextLease, jobVars, threadVars, tabVars>>

(* The user closes the tab; what it knew is gone.                           *)
Close(c) ==
  /\ alive[c]
  /\ alive' = [alive EXCEPT ![c] = FALSE]
  /\ local' = [local EXCEPT ![c] = {}]
  /\ active' = [active EXCEPT ![c] = NoActivity]
  /\ UNCHANGED <<queueVars, jobVars, threadVars>>

-----------------------------------------------------------------------------
PollServe(t) == PollReoffer(t) \/ PollStart(t) \/ PollNothing(t)

Runs(t) ==
  \/ EnqueueReply(t) \/ PollServe(t) \/ PollReply(t) \/ StoreCancel(t) \/ UploadDone(t)
  \/ JobBegin(t) \/ JobRefused(t) \/ JobReset(t) \/ JobCancelled(t) \/ JobFinished(t)
  \/ JobEnd(t) \/ FinishItem(t) \/ WorkReply(t) \/ CompleteItem(t) \/ CompleteReply(t)

Handler(t) == Runs(t) \/ UploadChunk(t)

Tab(c) ==
  \/ \E t \in Threads : \/ PollSend(c, t) \/ WorkSend(c, t) \/ CompleteSend(c, t)
                        \/ \E k \in Kinds : Enqueue(c, t, k)
                        \/ \E s \in Slots : ActivityCancel(c, t, s)
  \/ WorkLost(c) \/ WaitIdle(c) \/ CompleteLost(c) \/ Progress(c) \/ Close(c)

Next == \/ \E t \in Threads : Handler(t) \/ JobCancel(t) \/ LocalJob(t)
        \/ \E c \in Clients : Tab(c)
        \/ Clear \/ Tick

Spec == Init /\ [][Next]_vars

-----------------------------------------------------------------------------
(* Every value the state can take has the shape the code gives it: items of  *)
(* g_activity, the flags of g_job, requests in flight and the tabs' records. *)
TypeOK ==
  /\ items \in [Slots -> Item]
  /\ nextId \in Nat \ {0} /\ nextLease \in Nat \ {0}
  /\ busy \in BOOLEAN /\ cancel \in BOOLEAN /\ jobErr \in Results
  /\ pc \in [Threads -> PCs] /\ req \in [Threads -> Request]
  /\ alive \in [Clients -> BOOLEAN]
  /\ local \in [Clients -> SUBSET Nat]
  /\ active \in [Clients -> Activity]

(* A request that is about to finish an item, and a tab about to complete one, *)
(* knows the outcome.                                                         *)
Knowing == {"end", "finish", "worked", "complete", "completed"}
RequestsKnow == \A t \in Threads : pc[t] \in Knowing => req[t].res # "none"
TabsKnow == \A c \in Clients : active[c].phase \in {"finish", "finishing"}
                               => active[c].res # "none"
ResultKnown == RequestsKnow /\ TabsKnow

(* At most one item runs, whoever polls, cancels or completes at the same    *)
(* time: activity_poll_handler starts an item only when none is RUNNING.     *)
AtMostOneRunning ==
  \A r, s \in Slots : items[r].status = "running" /\ items[s].status = "running" => r = s

(* A lease is held by the running item and by no other, and no two items     *)
(* share an id: so a lease once finished can never pass for a current one    *)
(* (activity_find_locked and activity_validate_lease rely on it).            *)
LeasesAndIds ==
  /\ \A s \in Slots : /\ (items[s].status = "running") = (items[s].lease > 0)
                      /\ items[s].lease < nextLease
                      /\ items[s].seq < nextId
                      /\ (items[s].status = "empty") = (items[s].seq = 0)
  /\ \A r, s \in Slots : items[r].seq = items[s].seq /\ items[r].seq # 0 => r = s

(* A request that carries a lease of a running item carries its latest one.  *)
Holds(a, s) == a.id = items[s].seq /\ a.lease > 0 /\ items[s].status = "running"
LeaseHoldersAgree ==
  \A s \in Slots :
    /\ \A t \in Threads : Holds(req[t], s) => /\ req[t].lease = items[s].lease
                                              /\ req[t].client = items[s].client
    /\ \A c \in Clients : Holds(active[c], s) => /\ active[c].lease = items[s].lease
                                                 /\ c = items[s].client

(* g_job.busy is a mutual-exclusion lock: the thread that won the compare    *)
(* and swap of job_begin is the only one between it and job_end.             *)
JobThreads == {t \in Threads : pc[t] \in {"reset", "run", "end"}}
JobExclusive ==
  /\ busy = (JobThreads # {})
  /\ \A t, u \in JobThreads : t = u

(* A cancel the running job has not seen yet is never taken back: job_begin of *)
(* a request that finds the slot taken must leave the flag alone.             *)
CancelStays == [][cancel /\ ~cancel' => \A t \in Threads : pc[t] # "run"]_vars

-----------------------------------------------------------------------------
(* What the queue means: the items that wait and the item that runs.         *)
IdsOf(st) == {items[s].seq : s \in With(st)}
RQ == INSTANCE RunQueue WITH next <- nextId, waiting <- IdsOf("queued"),
                             running <- IdsOf("running")

(* The queue keeps RunQueue's promise: numbered in order, one at a time, the   *)
(* oldest first, and nothing retired ever waits or runs again.                *)
ImplementsRunQueue == RQ!Spec

-----------------------------------------------------------------------------
(* Scheduling.  Handler threads run on and an upload has a last chunk; a       *)
(* second always passes; an open tab keeps polling and its script goes on; a   *)
(* network that loses requests does not lose all of them.                     *)
Fairness ==
  /\ \A t \in Threads : WF_vars(Runs(t))
  /\ WF_vars(Tick)
  /\ \A c \in Clients :
       /\ SF_vars(\E t \in Threads : PollSend(c, t))
       /\ SF_vars(WaitIdle(c) \/ \E t \in Threads : WorkSend(c, t))
       /\ SF_vars(\E t \in Threads : CompleteSend(c, t))

FairSpec == Spec /\ Fairness

(* As long as one tab stays open the queue moves, whatever the other tabs do:  *)
(* every item submitted is run or given up, and a running one ends.           *)
Waits(n) == n \in IdsOf("queued") \cup IdsOf("running")
QueueMoves ==
  \A n \in 1 .. MaxSeq :
    Waits(n) ~> (~Waits(n) \/ \A c \in Clients : ~alive[c])
=============================================================================
