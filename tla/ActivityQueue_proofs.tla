------------------------ MODULE ActivityQueue_proofs ------------------------
(***************************************************************************)
(* Proofs about ActivityQueue for any number of tabs, threads and slots and *)
(* any timeouts.                                                            *)
(***************************************************************************)
EXTENDS ActivityQueue, TLAPS


-----------------------------------------------------------------------------
(* Helpers keep the shape of items, requests and tabs' records.             *)

LEMMA AgesType ==
  /\ 0 \in Ages /\ 0 \in Starts
  /\ \A a \in Ages : UpTo(a, HeartbeatTimeout + 1) \in Ages
  /\ \A a \in Starts : UpTo(a, StartTimeout + 1) \in Starts
  BY ConstantsAssumption DEF Ages, Starts, UpTo

LEMMA FinishedType ==
  ASSUME NEW it \in Item, NEW st \in Statuses
  PROVE  Finished(it, st) \in Item
  BY AgesType DEF Finished, Item

LEMMA EmptyItemType == EmptyItem \in Item
  BY AgesType DEF EmptyItem, Item, Statuses

LEMMA HeartbeatType ==
  ASSUME items \in [Slots -> Item], NEW id, Heartbeat(id)
  PROVE  items' \in [Slots -> Item]
  BY AgesType DEF Heartbeat, Item

LEMMA FinishQueueType ==
  ASSUME items \in [Slots -> Item], NEW id, NEW res \in Terminal, FinishQueue(id, res)
  PROVE  items' \in [Slots -> Item]
  BY FinishedType DEF FinishQueue, Statuses

LEMMA SweptType ==
  ASSUME items \in [Slots -> Item], NEW r
  PROVE  Swept(r) \in [Slots -> Item]
<1>1. \A s \in Slots : Finished(items[s], "abandoned") \in Item
  BY FinishedType DEF Statuses, Terminal
<1>2. \A s \in Slots : [items[s] EXCEPT !.age = 0] \in Item
  BY AgesType DEF Item
<1>3. QED  BY <1>1, <1>2 DEF Swept

LEMMA ServeType ==
  ASSUME pc \in [Threads -> PCs], req \in [Threads -> Request],
         NEW t \in Threads, NEW label \in PCs, NEW r \in Request,
         Serve(t, label, r)
  PROVE  /\ pc' \in [Threads -> PCs]
         /\ req' \in [Threads -> Request]
  BY DEF Serve, Goto

LEMMA NoRequestType == NoRequest \in Request
  BY DEF NoRequest, Request, Results, AllKinds

LEMMA SetPhaseType ==
  ASSUME active \in [Clients -> Activity], NEW c,
         NEW phase \in Phases, NEW res \in Results, SetPhase(c, phase, res)
  PROVE  active' \in [Clients -> Activity]
  BY DEF SetPhase, Activity

LEMMA RequestOfType ==
  ASSUME NEW c \in Clients, NEW a \in Activity
  PROVE  RequestOf(c, a) \in Request
  BY DEF RequestOf, Activity, Request, Results

LEMMA RequestOfRequestType ==
  ASSUME NEW r \in Request, NEW res \in Results
  PROVE  [r EXCEPT !.res = res] \in Request
  BY DEF Request

LEMMA SettledType ==
  ASSUME active \in [Clients -> Activity], local \in [Clients -> SUBSET Nat],
         NEW c, NEW res, Settled(c, res)
  PROVE  /\ active' \in [Clients -> Activity]
         /\ local' \in [Clients -> SUBSET Nat]
  BY DEF Settled, NoActivity, Activity, Phases, Results

-----------------------------------------------------------------------------
(* Every step keeps the type invariant: one lemma per group of actions.      *)

LEMMA PollType ==
  ASSUME TypeOK, NEW t \in Threads, PollServe(t)
  PROVE  TypeOK'
<1>1. Swept(req[t]) \in [Slots -> Item]
  BY SweptType DEF TypeOK
<1>2. \A it \in Item : PollServed(t, Swept(req[t]), it) =>
         pc' \in [Threads -> PCs] /\ req' \in [Threads -> Request]
  <2> SUFFICES ASSUME NEW it \in Item, PollServed(t, Swept(req[t]), it)
               PROVE  pc' \in [Threads -> PCs] /\ req' \in [Threads -> Request]
    OBVIOUS
  <2> DEFINE r == [req[t] EXCEPT !.id = it.seq, !.lease = it.lease, !.kind = it.kind,
                                 !.owned = {}]
  <2>1. r \in Request
    <3>1. req[t] \in Request  BY DEF TypeOK
    <3>2. /\ it.seq \in Nat /\ it.lease \in Nat
          /\ it.kind \in AllKinds \cup {"none"} /\ {} \in SUBSET Nat
      BY DEF Item
    <3>3. QED  BY <3>1, <3>2 DEF Request
  <2>2. \E label \in PCs : Serve(t, label, r)
    BY DEF PollServed, PCs
  <2>3. QED  BY <2>1, <2>2, ServeType DEF TypeOK
<1>3. CASE PollReoffer(t)
  BY <1>1, <1>2, <1>3 DEF PollReoffer, RunningIn, TypeOK, jobVars, tabVars
<1>4. CASE PollStart(t)
  <2> DEFINE started(s) == [Swept(req[t])[s] EXCEPT !.status = "running", !.age = 0,
                                              !.started = 0, !.lease = nextLease]
  <2>1. \A s \in Slots : started(s) \in Item
    BY <1>1, AgesType DEF TypeOK, Item, Statuses, Live
  <2>2. PICK s \in Slots : /\ items' = [Swept(req[t]) EXCEPT ![s] = started(s)]
                           /\ PollServed(t, Swept(req[t]), started(s))
    BY <1>4 DEF PollStart, MayStart
  <2>3. items' \in [Slots -> Item]
    BY <1>1, <2>1, <2>2
  <2>4. pc' \in [Threads -> PCs] /\ req' \in [Threads -> Request]
    BY <1>2, <2>1, <2>2
  <2>5. QED  BY <1>4, <2>3, <2>4 DEF PollStart, TypeOK, jobVars, tabVars
<1>5. CASE PollNothing(t)
  BY <1>1, <1>2, <1>5, EmptyItemType DEF PollNothing, TypeOK, jobVars, tabVars
<1>6. QED  BY <1>3, <1>4, <1>5 DEF PollServe

LEMMA QueueRequestType ==
  ASSUME TypeOK, NEW t \in Threads,
         EnqueueReply(t) \/ PollReply(t) \/ StoreCancel(t) \/ UploadChunk(t) \/ UploadDone(t)
  PROVE  TypeOK'
<1>1. CASE EnqueueReply(t)
  BY <1>1, ServeType, NoRequestType
     DEF EnqueueReply, TypeOK, Done, PCs, Request, queueVars, jobVars
<1>2. CASE PollReply(t)
  <2>1. active' \in [Clients -> Activity]
    BY <1>2 DEF PollReply, TypeOK, Activity, Request, Phases, Results
  <2>2. QED  BY <1>2, <2>1, ServeType, NoRequestType
             DEF PollReply, TypeOK, Done, PCs, queueVars, jobVars
<1>3. CASE StoreCancel(t)
  <2>1. pc' \in [Threads -> PCs] /\ req' \in [Threads -> Request]
    BY <1>3, ServeType, NoRequestType DEF StoreCancel, TypeOK, Done, Goto, PCs
  <2>2. QED  BY <1>3, <2>1 DEF StoreCancel, TypeOK, queueVars, tabVars
<1>4. CASE UploadChunk(t)
  <2>1. [req[t] EXCEPT !.res = "failed"] \in Request
    BY RequestOfRequestType DEF TypeOK, Results
  <2>2. pc' \in [Threads -> PCs] /\ req' \in [Threads -> Request]
    BY <1>4, <2>1, ServeType DEF UploadChunk, TypeOK, PCs, threadVars
  <2>3. items' \in [Slots -> Item]
    BY <1>4, HeartbeatType DEF UploadChunk, TypeOK
  <2>4. QED  BY <1>4, <2>2, <2>3 DEF UploadChunk, TypeOK, jobVars, tabVars
<1>5. CASE UploadDone(t)
  <2>1. PICK res \in Results : Serve(t, "worked", [req[t] EXCEPT !.res = res])
    BY <1>5 DEF UploadDone, Results
  <2>2. [req[t] EXCEPT !.res = res] \in Request
    BY RequestOfRequestType DEF TypeOK
  <2>3. pc' \in [Threads -> PCs] /\ req' \in [Threads -> Request]
    BY <2>1, <2>2, ServeType DEF TypeOK, PCs
  <2>4. QED  BY <1>5, <2>3 DEF UploadDone, TypeOK, queueVars, jobVars, tabVars
<1>6. QED  BY <1>1, <1>2, <1>3, <1>4, <1>5

LEMMA JobType ==
  ASSUME TypeOK, NEW t \in Threads,
         \/ JobBegin(t) \/ JobRefused(t) \/ JobReset(t) \/ JobCancelled(t) \/ JobFinished(t)
         \/ JobEnd(t) \/ LocalJob(t) \/ JobCancel(t)
  PROVE  TypeOK'
<1>0. \A res \in Results : [req[t] EXCEPT !.res = res] \in Request
  BY RequestOfRequestType DEF TypeOK
<1>1. CASE JobBegin(t)
  BY <1>1 DEF JobBegin, TypeOK, Goto, PCs, queueVars, tabVars
<1>2. CASE JobRefused(t)
  <2>1. pc' \in [Threads -> PCs] /\ req' \in [Threads -> Request]
    BY <1>0, <1>2, ServeType, NoRequestType
       DEF JobRefused, TypeOK, Done, PCs, Results
  <2>2. QED  BY <1>2, <2>1 DEF JobRefused, TypeOK, queueVars, jobVars, tabVars
<1>3. CASE JobReset(t)
  <2>1. active' \in [Clients -> Activity]
    BY <1>3, SetPhaseType DEF JobReset, TypeOK, Phases, Results
  <2>2. QED  BY <1>3, <2>1 DEF JobReset, TypeOK, Goto, PCs, Results, queueVars
<1>4. CASE JobCancelled(t)
  <2>1. pc' \in [Threads -> PCs] /\ req' \in [Threads -> Request]
    BY <1>0, <1>4, ServeType DEF JobCancelled, TypeOK, PCs, Results
  <2>2. QED  BY <1>4, <2>1 DEF JobCancelled, TypeOK, queueVars, jobVars, tabVars
<1>5. CASE JobFinished(t)
  <2>1. PICK res \in Results : Serve(t, "end", [req[t] EXCEPT !.res = res])
    BY <1>5 DEF JobFinished, Results
  <2>2. pc' \in [Threads -> PCs] /\ req' \in [Threads -> Request]
    BY <1>0, <2>1, ServeType DEF TypeOK, PCs
  <2>3. QED  BY <1>5, <2>2 DEF JobFinished, TypeOK, queueVars, jobVars, tabVars
<1>6. CASE JobEnd(t)
  <2>1. pc' \in [Threads -> PCs] /\ req' \in [Threads -> Request]
    BY <1>6, ServeType, NoRequestType DEF JobEnd, TypeOK, Done, Goto, PCs
  <2>2. jobErr' \in Results
    BY <1>6 DEF JobEnd, TypeOK, Request
  <2>3. QED  BY <1>6, <2>1, <2>2 DEF JobEnd, TypeOK, queueVars, tabVars
<1>7. CASE LocalJob(t)
  BY <1>7 DEF LocalJob, TypeOK, Goto, PCs, queueVars, jobVars, tabVars
<1>8. CASE JobCancel(t)
  BY <1>8 DEF JobCancel, TypeOK, Goto, PCs, queueVars, jobVars, tabVars
<1>9. QED  BY <1>1, <1>2, <1>3, <1>4, <1>5, <1>6, <1>7, <1>8

LEMMA FinishRequestType ==
  ASSUME TypeOK, ResultKnown, NEW t \in Threads,
         FinishItem(t) \/ WorkReply(t) \/ CompleteItem(t) \/ CompleteReply(t)
  PROVE  TypeOK'
<1>0. pc[t] \in {"finish", "complete"} => req[t].res \in Terminal
  BY DEF TypeOK, ResultKnown, RequestsKnow, Knowing, Request, Results, Terminal
<1>1. CASE FinishItem(t)
  <2>1. items' \in [Slots -> Item]
    BY <1>0, <1>1, HeartbeatType, FinishQueueType DEF FinishItem, TypeOK
  <2>2. QED  BY <1>1, <2>1 DEF FinishItem, TypeOK, Goto, PCs, jobVars, tabVars
<1>2. CASE WorkReply(t)
  <2>1. active' \in [Clients -> Activity]
    BY <1>2, SetPhaseType DEF WorkReply, TypeOK, Request, Phases
  <2>2. QED  BY <1>2, <2>1, ServeType, NoRequestType
             DEF WorkReply, TypeOK, Done, PCs, queueVars, jobVars
<1>3. CASE CompleteItem(t)
  <2>1. items' \in [Slots -> Item]
    BY <1>0, <1>3, FinishQueueType DEF CompleteItem, TypeOK
  <2>2. QED  BY <1>3, <2>1 DEF CompleteItem, TypeOK, Goto, PCs, jobVars, tabVars
<1>4. CASE CompleteReply(t)
  <2>1. /\ active' \in [Clients -> Activity]
        /\ local' \in [Clients -> SUBSET Nat]
    BY <1>4, SettledType DEF CompleteReply, TypeOK
  <2>2. QED  BY <1>4, <2>1, ServeType, NoRequestType
             DEF CompleteReply, TypeOK, Done, PCs, queueVars, jobVars
<1>5. QED  BY <1>1, <1>2, <1>3, <1>4

LEMMA TabType ==
  ASSUME TypeOK, NEW c \in Clients, Tab(c)
  PROVE  TypeOK'
<1>1. ASSUME NEW t \in Threads, NEW k \in Kinds, Enqueue(c, t, k)
      PROVE  TypeOK'
  <2> DEFINE it == [EmptyItem EXCEPT !.status = "queued", !.seq = nextId, !.client = c, !.kind = k]
             r  == [NoRequest EXCEPT !.client = c, !.id = nextId]
  <2>1. it \in Item
    BY ConstantsAssumption, EmptyItemType DEF TypeOK, Item, Statuses, Live
  <2>2. r \in Request
    BY NoRequestType DEF TypeOK, Request
  <2>3. items' \in [Slots -> Item]
    BY <1>1, <2>1 DEF Enqueue, TypeOK
  <2>4. pc' \in [Threads -> PCs] /\ req' \in [Threads -> Request]
    BY <1>1, <2>2, ServeType DEF Enqueue, TypeOK, PCs
  <2>5. QED  BY <1>1, <2>3, <2>4 DEF Enqueue, TypeOK, jobVars, tabVars
<1>2. ASSUME NEW t \in Threads, PollSend(c, t)
      PROVE  TypeOK'
  <2>1. [NoRequest EXCEPT !.client = c, !.owned = local[c]] \in Request
    BY NoRequestType DEF TypeOK, Request
  <2>2. pc' \in [Threads -> PCs] /\ req' \in [Threads -> Request]
    BY <1>2, <2>1, ServeType DEF PollSend, TypeOK, PCs
  <2>3. QED  BY <1>2, <2>2 DEF PollSend, TypeOK, queueVars, jobVars, tabVars
<1>3. ASSUME NEW t \in Threads, WorkSend(c, t)
      PROVE  TypeOK'
  <2>1. items' \in [Slots -> Item]
    BY <1>3, HeartbeatType DEF WorkSend, TypeOK
  <2>2. pc' \in [Threads -> PCs] /\ req' \in [Threads -> Request]
    BY <1>3, ServeType, RequestOfType DEF WorkSend, TypeOK, PCs, threadVars
  <2>3. active' \in [Clients -> Activity]
    BY <1>3, SetPhaseType DEF WorkSend, TypeOK, Phases, Results
  <2>4. QED  BY <1>3, <2>1, <2>2, <2>3 DEF WorkSend, TypeOK, jobVars
<1>4. ASSUME NEW t \in Threads, CompleteSend(c, t)
      PROVE  TypeOK'
  <2>1. active[c] \in Activity /\ active[c].res \in Results
    BY DEF TypeOK, Activity
  <2>2. [RequestOf(c, active[c]) EXCEPT !.res = active[c].res] \in Request
    BY <2>1, RequestOfType, RequestOfRequestType
  <2>3. items' \in [Slots -> Item]
    BY <1>4, HeartbeatType DEF CompleteSend, TypeOK
  <2>4. pc' \in [Threads -> PCs] /\ req' \in [Threads -> Request]
    BY <1>4, <2>2, ServeType DEF CompleteSend, TypeOK, PCs, threadVars
  <2>5. active' \in [Clients -> Activity] /\ local' \in [Clients -> SUBSET Nat]
    BY <1>4, <2>1, SetPhaseType, SettledType DEF CompleteSend, TypeOK, Phases
  <2>6. QED  BY <1>4, <2>3, <2>4, <2>5 DEF CompleteSend, TypeOK, jobVars
<1>5. ASSUME NEW t \in Threads, NEW s \in Slots, ActivityCancel(c, t, s)
      PROVE  TypeOK'
  <2>1. items' \in [Slots -> Item]
    BY <1>5, FinishedType DEF ActivityCancel, TypeOK, Statuses, Terminal
  <2>2. [NoRequest EXCEPT !.id = items[s].seq] \in Request
    BY NoRequestType DEF TypeOK, Item, Request
  <2>3. pc' \in [Threads -> PCs] /\ req' \in [Threads -> Request]
    BY <1>5, <2>2, ServeType DEF ActivityCancel, TypeOK, PCs, threadVars
  <2>4. QED  BY <1>5, <2>1, <2>3 DEF ActivityCancel, TypeOK, jobVars, tabVars
<1>6. CASE WorkLost(c)
  <2>1. active' \in [Clients -> Activity]
    BY <1>6, SetPhaseType DEF WorkLost, TypeOK, Phases, Results
  <2>2. QED  BY <1>6, <2>1 DEF WorkLost, TypeOK, queueVars, jobVars, threadVars
<1>7. CASE WaitIdle(c)
  <2>1. active' \in [Clients -> Activity]
    BY <1>7, SetPhaseType DEF WaitIdle, TypeOK, Phases, Results
  <2>2. QED  BY <1>7, <2>1 DEF WaitIdle, TypeOK, queueVars, jobVars, threadVars
<1>8. CASE CompleteLost(c)
  BY <1>8, SettledType DEF CompleteLost, TypeOK, queueVars, jobVars, threadVars
<1>9. CASE Progress(c)
  BY <1>9, HeartbeatType DEF Progress, TypeOK, jobVars, threadVars, tabVars
<1>10. CASE Close(c)
  <2>1. NoActivity \in Activity
    BY DEF NoActivity, Activity, Phases, Results
  <2>2. QED  BY <1>10, <2>1 DEF Close, TypeOK, queueVars, jobVars, threadVars
<1>11. QED  BY <1>1, <1>2, <1>3, <1>4, <1>5, <1>6, <1>7, <1>8, <1>9, <1>10 DEF Tab

LEMMA ClockType ==
  ASSUME TypeOK, Clear \/ Tick
  PROVE  TypeOK'
<1>1. items' \in [Slots -> Item]
  <2>1. CASE Clear
    BY <2>1, EmptyItemType DEF Clear, TypeOK
  <2>2. CASE Tick
    <3>1. ASSUME NEW s \in Slots
          PROVE  [items[s] EXCEPT !.age = UpTo(@, HeartbeatTimeout + 1),
                                  !.started = IF items[s].status = "running"
                                              THEN UpTo(@, StartTimeout + 1) ELSE 0] \in Item
      <4>1. items[s] \in Item  BY DEF TypeOK
      <4>2. /\ UpTo(items[s].age, HeartbeatTimeout + 1) \in Ages
            /\ UpTo(items[s].started, StartTimeout + 1) \in Starts /\ 0 \in Starts
        BY <4>1, AgesType DEF Item
      <4>3. QED  BY <4>1, <4>2 DEF Item
    <3>2. QED  BY <2>2, <3>1 DEF Tick, TypeOK
  <2>3. QED  BY <2>1, <2>2
<1>2. QED  BY <1>1 DEF Clear, Tick, TypeOK, jobVars, threadVars, tabVars

LEMMA ServeKnows ==
  ASSUME TypeOK, RequestsKnow, NEW t \in Threads, NEW label, NEW r, Serve(t, label, r),
         label \in Knowing => r.res # "none"
  PROVE  RequestsKnow'
BY DEF RequestsKnow, Serve, Goto, TypeOK

LEMMA GotoKnows ==
  ASSUME TypeOK, RequestsKnow, NEW t \in Threads, NEW label, Goto(t, label), req' = req,
         label \in Knowing => pc[t] \in Knowing
  PROVE  RequestsKnow'
BY DEF RequestsKnow, Goto, TypeOK

LEMMA PhaseKnows ==
  ASSUME TypeOK, TabsKnow, NEW c, NEW phase, NEW res, SetPhase(c, phase, res),
         phase \in {"finish", "finishing"} => res # "none"
  PROVE  TabsKnow'
BY DEF TabsKnow, SetPhase, TypeOK, Activity

LEMMA SettledKnows ==
  ASSUME TypeOK, TabsKnow, NEW c, NEW res, Settled(c, res)
  PROVE  TabsKnow'
BY DEF TabsKnow, Settled, NoActivity, TypeOK

LEMMA RequestsKnowStep ==
  ASSUME TypeOK, ResultKnown, Next
  PROVE  RequestsKnow'
<1>0. RequestsKnow  BY DEF ResultKnown
<1>1. req' = req /\ pc' = pc => RequestsKnow'
  BY <1>0 DEF RequestsKnow
<1>2. ASSUME NEW t \in Threads, Handler(t)
      PROVE  RequestsKnow'
  <2>0. \A res : [req[t] EXCEPT !.res = res].res = res
    BY DEF TypeOK, Request
  <2>1. CASE EnqueueReply(t) \/ PollReply(t) \/ WorkReply(t) \/ CompleteReply(t)
    BY <1>0, <2>1, ServeKnows
       DEF EnqueueReply, PollReply, WorkReply, CompleteReply, Done, Knowing
  <2>2. CASE PollServe(t)
    <3>1. \A swept, it : PollServed(t, swept, it) => RequestsKnow'
      BY <1>0, ServeKnows DEF PollServed, Knowing
    <3>2. QED  BY <2>2, <3>1 DEF PollServe, PollReoffer, PollStart, PollNothing
  <2>3. CASE StoreCancel(t)
    BY <1>0, <2>3, ServeKnows, GotoKnows DEF StoreCancel, Done, Knowing
  <2>4. CASE UploadChunk(t)
    BY <1>0, <1>1, <2>0, <2>4, ServeKnows DEF UploadChunk, threadVars
  <2>5. CASE UploadDone(t)
    <3>1. PICK res \in {"success", "failed"} : Serve(t, "worked", [req[t] EXCEPT !.res = res])
      BY <2>5 DEF UploadDone
    <3>2. QED  BY <1>0, <2>0, <3>1, ServeKnows
  <2>6. CASE JobBegin(t) \/ JobReset(t)
    BY <1>0, <2>6, GotoKnows DEF JobBegin, JobReset, Knowing
  <2>7. CASE JobRefused(t)
    <3>1. CASE req[t].id = 0
      BY <1>0, <2>7, <3>1, ServeKnows DEF JobRefused, Done, Knowing
    <3>2. CASE req[t].id # 0
      BY <1>0, <2>0, <2>7, <3>2, ServeKnows DEF JobRefused
    <3>3. QED  BY <3>1, <3>2
  <2>8. CASE JobCancelled(t)
    BY <1>0, <2>0, <2>8, ServeKnows DEF JobCancelled
  <2>9. CASE JobFinished(t)
    <3>1. PICK res \in {"success", "failed"} : Serve(t, "end", [req[t] EXCEPT !.res = res])
      BY <2>9 DEF JobFinished
    <3>2. QED  BY <1>0, <2>0, <3>1, ServeKnows
  <2>10. CASE JobEnd(t)
    BY <1>0, <2>10, ServeKnows, GotoKnows DEF JobEnd, Done, Knowing
  <2>11. CASE FinishItem(t) \/ CompleteItem(t)
    BY <1>0, <2>11, GotoKnows DEF FinishItem, CompleteItem, Knowing
  <2>12. QED  BY <1>2, <2>1, <2>2, <2>3, <2>4, <2>5, <2>6, <2>7, <2>8, <2>9, <2>10, <2>11
              DEF Handler, Runs
<1>3. ASSUME NEW t \in Threads, JobCancel(t) \/ LocalJob(t)
      PROVE  RequestsKnow'
  BY <1>0, <1>3, GotoKnows DEF JobCancel, LocalJob, Knowing
<1>4. ASSUME NEW c \in Clients, Tab(c)
      PROVE  RequestsKnow'
  <2>1. ASSUME NEW t \in Threads, PollSend(c, t) \/ \E k \in Kinds : Enqueue(c, t, k)
        PROVE  RequestsKnow'
    BY <1>0, <2>1, ServeKnows DEF PollSend, Enqueue, Knowing
  <2>2. ASSUME NEW t \in Threads, NEW s \in Slots, ActivityCancel(c, t, s)
        PROVE  RequestsKnow'
    BY <1>0, <1>1, <2>2, ServeKnows DEF ActivityCancel, Knowing, threadVars
  <2>3. ASSUME NEW t \in Threads, WorkSend(c, t)
        PROVE  RequestsKnow'
    BY <1>0, <1>1, <2>3, ServeKnows DEF WorkSend, Knowing, threadVars
  <2>4. ASSUME NEW t \in Threads, CompleteSend(c, t)
        PROVE  RequestsKnow'
    <3>1. [RequestOf(c, active[c]) EXCEPT !.res = active[c].res].res = active[c].res
      BY DEF RequestOf
    <3>2. active[c].res # "none"
      BY <2>4 DEF CompleteSend, ResultKnown, TabsKnow
    <3>3. QED  BY <1>0, <1>1, <2>4, <3>1, <3>2, ServeKnows DEF CompleteSend, threadVars
  <2>5. CASE WorkLost(c) \/ WaitIdle(c) \/ CompleteLost(c) \/ Progress(c) \/ Close(c)
    BY <1>1, <2>5 DEF WorkLost, WaitIdle, CompleteLost, Progress, Close, threadVars
  <2>6. QED  BY <1>4, <2>1, <2>2, <2>3, <2>4, <2>5 DEF Tab
<1>5. CASE Clear \/ Tick
  BY <1>1, <1>5 DEF Clear, Tick, threadVars
<1>6. QED  BY <1>2, <1>3, <1>4, <1>5 DEF Next

LEMMA TabsKnowStep ==
  ASSUME TypeOK, ResultKnown, Next
  PROVE  TabsKnow'
<1>0. TabsKnow /\ RequestsKnow  BY DEF ResultKnown
<1>1. active' = active => TabsKnow'
  BY <1>0 DEF TabsKnow
<1>2. ASSUME NEW t \in Threads, Handler(t)
      PROVE  TabsKnow'
  <2>1. CASE PollReply(t)
    BY <1>0, <2>1 DEF PollReply, TabsKnow, TypeOK
  <2>2. CASE JobReset(t)
    BY <1>0, <1>1, <2>2, PhaseKnows DEF JobReset
  <2>3. CASE WorkReply(t)
    BY <1>0, <1>1, <2>3, PhaseKnows DEF WorkReply, RequestsKnow, Knowing
  <2>4. CASE CompleteReply(t)
    BY <1>0, <1>1, <2>4, SettledKnows DEF CompleteReply
  <2>5. CASE EnqueueReply(t) \/ PollServe(t) \/ StoreCancel(t) \/ UploadChunk(t) \/ UploadDone(t)
    BY <1>1, <2>5 DEF EnqueueReply, PollServe, PollReoffer, PollStart, PollNothing,
                      StoreCancel, UploadChunk, UploadDone, tabVars
  <2>6. CASE JobBegin(t) \/ JobRefused(t) \/ JobCancelled(t) \/ JobFinished(t) \/ JobEnd(t)
             \/ FinishItem(t) \/ CompleteItem(t)
    BY <1>1, <2>6 DEF JobBegin, JobRefused, JobCancelled, JobFinished, JobEnd,
                      FinishItem, CompleteItem, tabVars
  <2>7. QED  BY <1>2, <2>1, <2>2, <2>3, <2>4, <2>5, <2>6 DEF Handler, Runs
<1>3. ASSUME NEW t \in Threads, JobCancel(t) \/ LocalJob(t)
      PROVE  TabsKnow'
  BY <1>1, <1>3 DEF JobCancel, LocalJob, tabVars
<1>4. ASSUME NEW c \in Clients, Tab(c)
      PROVE  TabsKnow'
  <2>1. ASSUME NEW t \in Threads,
               \/ PollSend(c, t) \/ \E k \in Kinds : Enqueue(c, t, k)
               \/ \E s \in Slots : ActivityCancel(c, t, s)
        PROVE  TabsKnow'
    BY <1>1, <2>1 DEF PollSend, Enqueue, ActivityCancel, tabVars
  <2>2. ASSUME NEW t \in Threads, WorkSend(c, t)
        PROVE  TabsKnow'
    BY <1>0, <2>2, PhaseKnows DEF WorkSend
  <2>3. ASSUME NEW t \in Threads, CompleteSend(c, t)
        PROVE  TabsKnow'
    <3>1. active[c].res # "none"
      BY <1>0, <2>3 DEF CompleteSend, TabsKnow
    <3>2. QED  BY <1>0, <2>3, <3>1, PhaseKnows, SettledKnows DEF CompleteSend
  <2>4. CASE WorkLost(c)
    <3>1. PICK res \in {"failed", "cancelled"} : SetPhase(c, "finish", res)
      BY <2>4 DEF WorkLost
    <3>2. QED  BY <1>0, <3>1, PhaseKnows
  <2>5. CASE WaitIdle(c)
    BY <1>0, <2>5, PhaseKnows DEF WaitIdle
  <2>6. CASE CompleteLost(c) \/ Progress(c)
    BY <1>0, <1>1, <2>6, SettledKnows DEF CompleteLost, Progress, tabVars
  <2>7. CASE Close(c)
    BY <1>0, <2>7 DEF Close, NoActivity, TabsKnow, TypeOK
  <2>8. QED  BY <1>4, <2>1, <2>2, <2>3, <2>4, <2>5, <2>6, <2>7 DEF Tab
<1>5. CASE Clear \/ Tick
  BY <1>1, <1>5 DEF Clear, Tick, tabVars
<1>6. QED  BY <1>2, <1>3, <1>4, <1>5 DEF Next

LEMMA ResultKnownStep ==
  ASSUME TypeOK, ResultKnown, Next
  PROVE  ResultKnown'
BY RequestsKnowStep, TabsKnowStep DEF ResultKnown

LEMMA TypeStep ==
  ASSUME TypeOK, ResultKnown, Next
  PROVE  TypeOK'
BY PollType, QueueRequestType, JobType, FinishRequestType, TabType, ClockType
   DEF Next, Handler, Runs

LEMMA InitTyped == Init => TypeOK /\ ResultKnown
<1>1. NoActivity \in Activity /\ "idle" \in PCs /\ "none" \in Results
  BY DEF NoActivity, Activity, Phases, Results, PCs
<1>2. Init => TypeOK
  <2> SUFFICES ASSUME Init PROVE TypeOK
    OBVIOUS
  <2>1. /\ items \in [Slots -> Item] /\ req \in [Threads -> Request]
        /\ pc \in [Threads -> PCs] /\ active \in [Clients -> Activity]
    BY <1>1, EmptyItemType, NoRequestType DEF Init
  <2>2. nextId \in Nat \ {0} /\ nextLease \in Nat \ {0}
    BY DEF Init
  <2>3. busy \in BOOLEAN /\ cancel \in BOOLEAN /\ jobErr \in Results
    BY <1>1 DEF Init
  <2>4. alive \in [Clients -> BOOLEAN] /\ local \in [Clients -> SUBSET Nat]
    BY DEF Init
  <2>5. QED  BY <2>1, <2>2, <2>3, <2>4 DEF TypeOK
<1>3. Init => ResultKnown
  BY DEF Init, ResultKnown, RequestsKnow, TabsKnow, Knowing, NoActivity
<1>4. QED  BY <1>2, <1>3

(* Whatever the handlers, jobs and tabs do, the queue's items, the job slot and *)
(* the requests in flight keep their shape: ACTIVITY_MAX slots, six statuses,   *)
(* ids and leases that are never 0.                                            *)
THEOREM TypeCorrect == Spec => []TypeOK
<1>1. Init => TypeOK /\ ResultKnown
  BY InitTyped
<1>2. TypeOK /\ ResultKnown /\ [Next]_vars => TypeOK' /\ ResultKnown'
  <2>1. CASE Next  BY <2>1, TypeStep, ResultKnownStep
  <2>2. CASE UNCHANGED vars  BY <2>2 DEF vars, TypeOK, ResultKnown, RequestsKnow, TabsKnow
  <2>3. QED  BY <2>1, <2>2
<1>3. QED  BY <1>1, <1>2, PTL DEF Spec

-----------------------------------------------------------------------------
(* What a step may do to an item when it neither submits nor starts one: leave *)
(* it as it is but for its clocks, end it, or empty the slot of an ended one.   *)

Same(it, jt) == /\ jt.status = it.status /\ jt.seq = it.seq /\ jt.lease = it.lease
                /\ jt.client = it.client /\ jt.kind = it.kind
Ended(it, jt) == /\ it.status # "empty" /\ jt.status \in Terminal
                 /\ jt.seq = it.seq /\ jt.lease = 0 /\ jt.client = it.client
Emptied(it, jt) == it.status \in Terminal /\ jt = EmptyItem
Follows(it, jt) == Same(it, jt) \/ Ended(it, jt) \/ Emptied(it, jt)

LEMMA FinishedEnds ==
  ASSUME NEW it \in Item, it.status # "empty", NEW st \in Terminal
  PROVE  Ended(it, Finished(it, st))
  BY DEF Ended, Finished, Item

LEMMA HeartbeatFollows ==
  ASSUME TypeOK, NEW id, Heartbeat(id)
  PROVE  \A s \in Slots : Follows(items[s], items'[s])
  BY DEF TypeOK, Heartbeat, Follows, Same, Item

LEMMA FinishQueueFollows ==
  ASSUME TypeOK, NEW id, NEW res \in Terminal, FinishQueue(id, res)
  PROVE  \A s \in Slots : Follows(items[s], items'[s])
<1>1. \A s \in Slots : Same(items[s], items[s])
  BY DEF Same
<1>2. QED  BY <1>1, FinishedEnds DEF TypeOK, FinishQueue, IsFound, Follows

LEMMA SweptFollows ==
  ASSUME TypeOK, NEW r
  PROVE  \A s \in Slots : Same(items[s], Swept(r)[s]) \/ Ended(items[s], Swept(r)[s])
<1>1. SUFFICES ASSUME NEW s \in Slots
               PROVE  Same(items[s], Swept(r)[s]) \/ Ended(items[s], Swept(r)[s])
  OBVIOUS
<1>2. CASE GivenUp(items[s], r)
  BY <1>2, FinishedEnds DEF TypeOK, Swept, GivenUp, Live, Terminal
<1>3. CASE ~GivenUp(items[s], r)
  BY <1>3 DEF TypeOK, Swept, Same, Item
<1>4. QED  BY <1>2, <1>3

Quiet == /\ \A s \in Slots : Follows(items[s], items'[s])
         /\ nextId' = nextId /\ nextLease' = nextLease

LEMMA Steps ==
  ASSUME TypeOK, ResultKnown, Next
  PROVE  \/ Quiet
         \/ \E c \in Clients, t \in Threads, k \in Kinds : Enqueue(c, t, k)
         \/ \E t \in Threads : PollStart(t)
<1>0. (items' = items /\ nextId' = nextId /\ nextLease' = nextLease) => Quiet
  BY DEF Quiet, Follows, Same
<1>1. ASSUME NEW t \in Threads, Handler(t), ~PollStart(t)
      PROVE  Quiet
  <2>1. CASE PollReoffer(t) \/ PollNothing(t)
    BY <2>1, SweptFollows DEF PollReoffer, PollNothing, Quiet, Follows
  <2>2. CASE FinishItem(t) \/ CompleteItem(t)
    <3>1. pc[t] \in {"finish", "complete"} => req[t].res \in Terminal
      BY DEF TypeOK, ResultKnown, RequestsKnow, Knowing, Request, Results, Terminal
    <3>2. QED  BY <2>2, <3>1, HeartbeatFollows, FinishQueueFollows
               DEF FinishItem, CompleteItem, Quiet
  <2>3. CASE UploadChunk(t)
    BY <1>0, <2>3, HeartbeatFollows DEF UploadChunk, Quiet
  <2>4. CASE EnqueueReply(t) \/ PollReply(t) \/ StoreCancel(t) \/ UploadDone(t) \/ WorkReply(t)
             \/ CompleteReply(t)
    BY <1>0, <2>4 DEF EnqueueReply, PollReply, StoreCancel, UploadDone, WorkReply,
                      CompleteReply, queueVars
  <2>5. CASE JobBegin(t) \/ JobRefused(t) \/ JobReset(t) \/ JobCancelled(t) \/ JobFinished(t)
             \/ JobEnd(t)
    BY <1>0, <2>5 DEF JobBegin, JobRefused, JobReset, JobCancelled, JobFinished, JobEnd,
                      queueVars
  <2>6. QED  BY <1>1, <2>1, <2>2, <2>3, <2>4, <2>5 DEF Handler, Runs, PollServe
<1>2. ASSUME NEW t \in Threads, JobCancel(t) \/ LocalJob(t)
      PROVE  Quiet
  BY <1>0, <1>2 DEF JobCancel, LocalJob, queueVars
<1>3. ASSUME NEW c \in Clients, Tab(c),
             ~ \E t \in Threads, k \in Kinds : Enqueue(c, t, k)
      PROVE  Quiet
  <2>1. ASSUME NEW t \in Threads, PollSend(c, t) \/ WorkSend(c, t) \/ CompleteSend(c, t)
        PROVE  Quiet
    BY <1>0, <2>1, HeartbeatFollows DEF PollSend, WorkSend, CompleteSend, Quiet, queueVars
  <2>2. ASSUME NEW t \in Threads, NEW s \in Slots, ActivityCancel(c, t, s)
        PROVE  Quiet
    <3>1. Ended(items[s], Finished(items[s], "cancelled"))
      BY <2>2, FinishedEnds DEF ActivityCancel, TypeOK, Live, Terminal
    <3>2. QED  BY <2>2, <3>1 DEF ActivityCancel, Quiet, Follows, Same, TypeOK
  <2>3. CASE WorkLost(c) \/ WaitIdle(c) \/ CompleteLost(c) \/ Progress(c) \/ Close(c)
    BY <1>0, <2>3, HeartbeatFollows
       DEF WorkLost, WaitIdle, CompleteLost, Progress, Close, Quiet, queueVars
  <2>4. QED  BY <1>3, <2>1, <2>2, <2>3 DEF Tab
<1>4. CASE Clear
  BY <1>4 DEF Clear, Quiet, Follows, Emptied, Same
<1>5. CASE Tick
  BY <1>5 DEF Tick, TypeOK, Quiet, Follows, Same, Item
<1>6. QED  BY <1>1, <1>2, <1>3, <1>4, <1>5 DEF Next

Submitted(s) ==
  /\ items[s].status \in {"empty"} \cup Terminal
  /\ \E c \in Clients, k \in Kinds :
       items' = [items EXCEPT ![s] = [EmptyItem EXCEPT !.status = "queued", !.seq = nextId,
                                                       !.client = c, !.kind = k]]
  /\ nextId' = nextId + 1 /\ nextLease' = nextLease

LEMMA EnqueueSubmits ==
  ASSUME TypeOK, NEW c \in Clients, NEW t \in Threads, NEW k \in Kinds, Enqueue(c, t, k)
  PROVE  \E s \in Slots : Submitted(s)
<1>1. PICK s \in Reusable :
        items' = [items EXCEPT ![s] =
          [EmptyItem EXCEPT !.status = "queued", !.seq = nextId, !.client = c, !.kind = k]]
  BY DEF Enqueue
<1>2. s \in Slots /\ items[s].status \in {"empty"} \cup Terminal
  BY DEF Reusable, With
<1>3. nextId' = nextId + 1 /\ nextLease' = nextLease
  BY DEF Enqueue
<1>4. QED  BY <1>1, <1>2, <1>3 DEF Submitted

Started(s) ==
  /\ items[s].status = "queued" /\ items'[s].status = "running"
  /\ items'[s].seq = items[s].seq /\ items'[s].lease = nextLease
  /\ items'[s].client = items[s].client /\ items'[s].kind = items[s].kind
  /\ \A r \in Slots \ {s} : /\ Same(items[r], items'[r]) \/ Ended(items[r], items'[r])
                            /\ items'[r].status # "running"
                            /\ items'[r].status = "queued" => items[s].seq <= items[r].seq
  /\ nextId' = nextId /\ nextLease' = nextLease + 1

LEMMA PollStarts ==
  ASSUME TypeOK, NEW t \in Threads, PollStart(t)
  PROVE  \E s \in Slots : Started(s)
<1> DEFINE swept == Swept(req[t])
<1>1. PICK s \in MayStart(swept, req[t].client) :
        items' = [swept EXCEPT ![s] = [swept[s] EXCEPT !.status = "running", !.age = 0,
                                                       !.started = 0, !.lease = nextLease]]
  BY DEF PollStart
<1>2. /\ s \in Slots /\ swept[s].status = "queued"
      /\ \A r \in Slots : swept[r].status # "running"
      /\ \A r \in Slots : swept[r].status = "queued" => swept[s].seq <= swept[r].seq
  BY <1>1 DEF MayStart, RunningIn, QueuedIn, IsNext
<1>3. swept \in [Slots -> Item]
  BY SweptType DEF TypeOK
<1>4. \A r \in Slots : Same(items[r], swept[r]) \/ Ended(items[r], swept[r])
  BY SweptFollows
<1>5. Same(items[s], swept[s])
  BY <1>2, <1>4 DEF Ended, Terminal
<1>6. \A r \in Slots \ {s} : items'[r] = swept[r]
  BY <1>1, <1>3
<1>7. /\ items'[s].status = "running" /\ items'[s].seq = swept[s].seq
      /\ items'[s].lease = nextLease
      /\ items'[s].client = swept[s].client /\ items'[s].kind = swept[s].kind
  BY <1>1, <1>2, <1>3 DEF Item
<1>8. \A r \in Slots \ {s} : swept[r].status = "queued" => items[s].seq <= items[r].seq
  BY <1>2, <1>4, <1>5 DEF Same, Ended, Terminal
<1>9. nextId' = nextId /\ nextLease' = nextLease + 1
  BY DEF PollStart
<1>10. Started(s)
  BY <1>2, <1>4, <1>5, <1>6, <1>7, <1>8, <1>9 DEF Started, Same
<1>11. QED  BY <1>2, <1>10

LEMMA AtMostOneRunningStep ==
  ASSUME TypeOK, ResultKnown, AtMostOneRunning, Next
  PROVE  AtMostOneRunning'
<1>1. CASE Quiet
  BY <1>1 DEF AtMostOneRunning, Quiet, Follows, Same, Ended, Emptied, Terminal, EmptyItem
<1>2. ASSUME NEW s \in Slots, Submitted(s)
      PROVE  AtMostOneRunning'
  BY <1>2 DEF AtMostOneRunning, Submitted, EmptyItem, TypeOK
<1>3. ASSUME NEW s \in Slots, Started(s)
      PROVE  AtMostOneRunning'
  <2>1. \A r \in Slots : items'[r].status = "running" => r = s
    BY <1>3 DEF Started
  <2>2. QED  BY <2>1 DEF AtMostOneRunning
<1>4. QED  BY <1>1, <1>2, <1>3, Steps, EnqueueSubmits, PollStarts

LEMMA LeasesAndIdsStep ==
  ASSUME TypeOK, ResultKnown, LeasesAndIds, Next
  PROVE  LeasesAndIds'
<1> USE DEF LeasesAndIds
<1>1. CASE Quiet
  BY <1>1 DEF TypeOK, Quiet, Follows, Same, Ended, Emptied, Terminal, EmptyItem
<1>2. ASSUME NEW s \in Slots, Submitted(s)
      PROVE  LeasesAndIds'
  <2>1. /\ items'[s].status = "queued" /\ items'[s].seq = nextId /\ items'[s].lease = 0
        /\ \A r \in Slots \ {s} : items'[r] = items[r]
        /\ nextId' = nextId + 1 /\ nextLease' = nextLease
    BY <1>2 DEF Submitted, EmptyItem, TypeOK
  <2>2. \A r \in Slots : items[r].seq \in Nat /\ items[r].lease \in Nat
    BY DEF TypeOK, Item
  <2>3. QED  BY <2>1, <2>2 DEF TypeOK
<1>3. ASSUME NEW s \in Slots, Started(s)
      PROVE  LeasesAndIds'
  <2>1. \A r \in Slots : items[r].seq \in Nat /\ items[r].lease \in Nat
    BY DEF TypeOK, Item
  <2>2. /\ items'[s].status = "running" /\ items'[s].seq = items[s].seq
        /\ items'[s].lease = nextLease /\ items[s].status = "queued"
        /\ nextId' = nextId /\ nextLease' = nextLease + 1
    BY <1>3 DEF Started
  <2>3. \A r \in Slots \ {s} : Same(items[r], items'[r]) \/ Ended(items[r], items'[r])
    BY <1>3 DEF Started
  <2>4. \A r \in Slots : items'[r].seq = items[r].seq
    BY <2>2, <2>3 DEF Same, Ended
  <2>5. /\ nextLease \in Nat \ {0}
        /\ \A r \in Slots \ {s} :
             /\ (items'[r].status = "running") = (items'[r].lease > 0)
             /\ items'[r].lease < nextLease + 1
             /\ (items'[r].status = "empty") = (items'[r].seq = 0)
    BY <2>1, <2>3 DEF Same, Ended, Terminal, TypeOK
  <2>6. /\ (items'[s].status = "running") = (items'[s].lease > 0)
        /\ items'[s].lease < nextLease + 1
        /\ (items'[s].status = "empty") = (items'[s].seq = 0)
    BY <2>2, <2>5
  <2>7. \A r \in Slots : /\ (items'[r].status = "running") = (items'[r].lease > 0)
                         /\ items'[r].lease < nextLease + 1
                         /\ (items'[r].status = "empty") = (items'[r].seq = 0)
    BY <2>5, <2>6
  <2>8. QED  BY <2>2, <2>4, <2>7
<1>4. QED  BY <1>1, <1>2, <1>3, Steps, EnqueueSubmits, PollStarts

(* The queue's invariant, which the theorems below share.                    *)
THEOREM QueueSafe == Spec => [](AtMostOneRunning /\ LeasesAndIds)
<1> DEFINE Inv == TypeOK /\ ResultKnown /\ AtMostOneRunning /\ LeasesAndIds
<1>1. Init => Inv
  BY InitTyped DEF Init, AtMostOneRunning, LeasesAndIds, EmptyItem
<1>2. Inv /\ [Next]_vars => Inv'
  <2>1. CASE Next
    BY <2>1, TypeStep, ResultKnownStep, AtMostOneRunningStep, LeasesAndIdsStep
  <2>2. CASE UNCHANGED vars
    BY <2>2 DEF vars, TypeOK, ResultKnown, RequestsKnow, TabsKnow, AtMostOneRunning, LeasesAndIds
  <2>3. QED  BY <2>1, <2>2
<1>3. QED  BY <1>1, <1>2, PTL DEF Spec

(* However many tabs poll, cancel, complete and close at once, at most one item *)
(* of the queue runs.                                                       *)
THEOREM OneItemRuns == Spec => []AtMostOneRunning
BY QueueSafe, PTL

(* Every running item has a lease of its own that nothing handed out before     *)
(* equals, nothing else has one, and no two items ever share an id.           *)
THEOREM LeasesAreTheirOwn == Spec => []LeasesAndIds
BY QueueSafe, PTL

-----------------------------------------------------------------------------
(* The job slot: which steps take it, hold it, give it back.                 *)

AtJob(label) == label \in {"reset", "run", "end"}

LEMMA JobExclusiveStep ==
  ASSUME TypeOK, JobExclusive, Next
  PROVE  JobExclusive'
<1>0. ASSUME busy' = busy, NEW t \in Threads, NEW label,
             pc' = [pc EXCEPT ![t] = label], AtJob(pc[t]) = AtJob(label)
      PROVE  JobExclusive'
  BY <1>0 DEF JobExclusive, JobThreads, TypeOK, AtJob
<1>A. ASSUME busy' = busy, NEW t \in Threads,
              pc[t] \notin {"reset", "run", "end"},
              \E label \in PCs \ {"reset", "run", "end"} : pc' = [pc EXCEPT ![t] = label]
       PROVE  JobExclusive'
  BY <1>A DEF JobExclusive, JobThreads, TypeOK
<1>1. ASSUME busy' = busy, pc' = pc
      PROVE  JobExclusive'
  BY <1>1 DEF JobExclusive, JobThreads
<1>2. ASSUME NEW t \in Threads, Handler(t)
      PROVE  JobExclusive'
  <2> USE DEF Serve, Done, Goto, AtJob
  <2>1. CASE EnqueueReply(t) \/ PollReply(t) \/ WorkReply(t) \/ CompleteReply(t)
    BY <1>0, <2>1 DEF EnqueueReply, PollReply, WorkReply, CompleteReply, jobVars
  <2>2. CASE PollServe(t)
    <3>1. ASSUME NEW swept, NEW it, PollServed(t, swept, it)
          PROVE  \E label \in PCs \ {"reset", "run", "end"} : pc' = [pc EXCEPT ![t] = label]
      BY <3>1 DEF PollServed, PCs
    <3>2. QED  BY <1>A, <2>2, <3>1
               DEF PollServe, PollReoffer, PollStart, PollNothing, jobVars
  <2>3. CASE StoreCancel(t) \/ UploadDone(t) \/ FinishItem(t) \/ CompleteItem(t)
    <3>1. /\ pc[t] \notin {"reset", "run", "end"} /\ busy' = busy
          /\ \/ pc' = [pc EXCEPT ![t] = "polled"] \/ pc' = [pc EXCEPT ![t] = "idle"]
             \/ pc' = [pc EXCEPT ![t] = "worked"] \/ pc' = [pc EXCEPT ![t] = "completed"]
      BY <2>3 DEF StoreCancel, UploadDone, FinishItem, CompleteItem, jobVars
    <3>2. QED  BY <1>A, <3>1 DEF PCs
  <2>4. CASE UploadChunk(t)
    BY <1>0, <1>1, <2>4 DEF UploadChunk, jobVars, threadVars
  <2>5. CASE JobRefused(t)
    BY <1>0, <2>5 DEF JobRefused, jobVars
  <2>6. CASE JobReset(t) \/ JobCancelled(t) \/ JobFinished(t)
    BY <1>0, <2>6 DEF JobReset, JobCancelled, JobFinished, jobVars
  <2>7. CASE JobBegin(t)
    <3>1. JobThreads = {} /\ busy' = TRUE /\ pc' = [pc EXCEPT ![t] = "reset"]
      BY <2>7 DEF JobBegin, JobExclusive
    <3>2. JobThreads' = {t}
      BY <3>1 DEF JobThreads, TypeOK
    <3>3. QED  BY <3>1, <3>2 DEF JobExclusive
  <2>8. CASE JobEnd(t)
    <3>1. /\ t \in JobThreads /\ busy' = FALSE
          /\ \E label \in {"finish", "idle"} : pc' = [pc EXCEPT ![t] = label]
      BY <2>8 DEF JobEnd, JobThreads
    <3>2. JobThreads = {t}
      BY <3>1 DEF JobExclusive, JobThreads
    <3>3. JobThreads' = {}
      BY <3>1, <3>2 DEF JobThreads, TypeOK
    <3>4. QED  BY <3>1, <3>3 DEF JobExclusive
  <2>9. QED  BY <1>2, <2>1, <2>2, <2>3, <2>4, <2>5, <2>6, <2>7, <2>8 DEF Handler, Runs
<1>3. ASSUME NEW t \in Threads, JobCancel(t) \/ LocalJob(t)
      PROVE  JobExclusive'
  BY <1>0, <1>3 DEF JobCancel, LocalJob, Goto, AtJob, jobVars
<1>4. ASSUME NEW c \in Clients, Tab(c)
      PROVE  JobExclusive'
  <2> USE DEF Serve, Goto, AtJob
  <2>1. ASSUME NEW t \in Threads,
               \/ PollSend(c, t) \/ WorkSend(c, t) \/ CompleteSend(c, t)
               \/ \E k \in Kinds : Enqueue(c, t, k)
               \/ \E s \in Slots : ActivityCancel(c, t, s)
        PROVE  JobExclusive'
    <3>1. /\ busy' = busy
          /\ \/ pc' = pc
             \/ /\ pc[t] = "idle"
                /\ \E label \in {"poll", "upload", "begin", "complete", "enqueued", "actcancel"} :
                     pc' = [pc EXCEPT ![t] = label]
      BY <2>1
         DEF PollSend, WorkSend, CompleteSend, Enqueue, ActivityCancel, jobVars, threadVars
    <3>2. QED  BY <1>A, <1>1, <3>1 DEF PCs
  <2>2. CASE WorkLost(c) \/ WaitIdle(c) \/ CompleteLost(c) \/ Progress(c) \/ Close(c)
    BY <1>1, <2>2 DEF WorkLost, WaitIdle, CompleteLost, Progress, Close, jobVars, threadVars
  <2>3. QED  BY <1>4, <2>1, <2>2 DEF Tab
<1>5. CASE Clear \/ Tick
  BY <1>1, <1>5 DEF Clear, Tick, jobVars, threadVars
<1>6. QED  BY <1>2, <1>3, <1>4, <1>5 DEF Next

(* job_begin's compare-and-swap and job_end make g_job.busy a lock: whatever    *)
(* number of requests start jobs at the same time, one at most is between them. *)
THEOREM JobSlotExclusive == Spec => []JobExclusive
<1> DEFINE Inv == TypeOK /\ ResultKnown /\ JobExclusive
<1>1. Init => Inv
  BY InitTyped DEF Init, JobExclusive, JobThreads
<1>2. Inv /\ [Next]_vars => Inv'
  <2>1. CASE Next
    BY <2>1, TypeStep, ResultKnownStep, JobExclusiveStep
  <2>2. CASE UNCHANGED vars
    BY <2>2 DEF vars, TypeOK, ResultKnown, RequestsKnow, TabsKnow, JobExclusive, JobThreads
  <2>3. QED  BY <2>1, <2>2
<1>3. QED  BY <1>1, <1>2, PTL DEF Spec

-----------------------------------------------------------------------------
(* The queue implements RunQueue: each step is a Submit, a Retire of the ids   *)
(* that left, or a StartOldest that gives up some ids and starts the oldest.   *)

W == IdsOf("queued")
R == IdsOf("running")
Gone == (W \cup R) \ (W' \cup R')

LEMMA IdsOfIs ==
  ASSUME NEW st
  PROVE  /\ \A n : n \in IdsOf(st) <=> \E s \in Slots : items[s].status = st /\ items[s].seq = n
         /\ \A n : n \in IdsOf(st)' <=> \E s \in Slots : items'[s].status = st
                                                         /\ items'[s].seq = n
BY DEF IdsOf, With

LEMMA IdsAreNumbers ==
  ASSUME TypeOK
  PROVE  W \subseteq Nat /\ R \subseteq Nat
BY DEF TypeOK, W, R, IdsOf, With, Item

LEMMA WaitingIsNotRunning ==
  ASSUME TypeOK, LeasesAndIds
  PROVE  W \cap R = {}
<1> SUFFICES ASSUME NEW n \in W, n \in R
             PROVE  FALSE
  OBVIOUS
<1>1. PICK s \in Slots : items[s].status = "queued" /\ items[s].seq = n
  BY IdsOfIs DEF W
<1>2. PICK r \in Slots : items[r].status = "running" /\ items[r].seq = n
  BY IdsOfIs DEF R
<1>3. n # 0
  BY <1>1 DEF LeasesAndIds
<1>4. QED  BY <1>1, <1>2, <1>3 DEF LeasesAndIds

LEMMA OldestIsLeast ==
  ASSUME NEW S \in SUBSET Nat, NEW n \in S, \A m \in S : n <= m
  PROVE  RQ!Oldest(S) = n
<1>1. \A m \in S : (\A k \in S : m <= k) => m = n
  OBVIOUS
<1>2. QED  BY <1>1 DEF RQ!Oldest

LEMMA QuietRetires ==
  ASSUME TypeOK, LeasesAndIds, Quiet
  PROVE  RQ!Retire(Gone)
<1>1. W' \subseteq W
  <2> SUFFICES ASSUME NEW n \in W'
               PROVE  n \in W
    OBVIOUS
  <2>1. PICK s \in Slots : items'[s].status = "queued" /\ items'[s].seq = n
    BY IdsOfIs DEF W
  <2>2. Same(items[s], items'[s])
    BY <2>1 DEF Quiet, Follows, Ended, Emptied, Terminal, EmptyItem
  <2>3. QED  BY <2>1, <2>2, IdsOfIs DEF W, Same
<1>2. R' \subseteq R
  <2> SUFFICES ASSUME NEW n \in R'
               PROVE  n \in R
    OBVIOUS
  <2>1. PICK s \in Slots : items'[s].status = "running" /\ items'[s].seq = n
    BY IdsOfIs DEF R
  <2>2. Same(items[s], items'[s])
    BY <2>1 DEF Quiet, Follows, Ended, Emptied, Terminal, EmptyItem
  <2>3. QED  BY <2>1, <2>2, IdsOfIs DEF R, Same
<1>3. W' = W \ Gone /\ R' = R \ Gone
  BY <1>1, <1>2, WaitingIsNotRunning DEF Gone
<1>4. QED  BY <1>3 DEF RQ!Retire, Quiet, W, R

LEMMA SubmittedSubmits ==
  ASSUME TypeOK, NEW s \in Slots, Submitted(s)
  PROVE  RQ!Submit
<1>1. /\ items'[s].status = "queued" /\ items'[s].seq = nextId
      /\ \A r \in Slots \ {s} : items'[r] = items[r]
      /\ items[s].status \notin {"queued", "running"}
  BY DEF Submitted, EmptyItem, TypeOK, Terminal
<1>2. W' = W \cup {nextId}
  BY <1>1, IdsOfIs DEF W
<1>3. R' = R
  <2>1. \A r \in Slots : items'[r].status = "running" <=> items[r].status = "running"
    BY <1>1
  <2>2. \A r \in Slots : items[r].status = "running" => items'[r].seq = items[r].seq
    BY <1>1
  <2>3. \A n : n \in R' <=> n \in R
    BY <2>1, <2>2, IdsOfIs DEF R
  <2>4. QED  BY <2>3
<1>4. QED  BY <1>2, <1>3 DEF RQ!Submit, Submitted, W, R

LEMMA StartedStarts ==
  ASSUME TypeOK, LeasesAndIds, NEW s \in Slots, Started(s)
  PROVE  RQ!StartOldest(Gone)
<1> DEFINE n == items[s].seq
<1>1. items[s].status = "queued" /\ items'[s].status = "running" /\ items'[s].seq = n
  BY DEF Started
<1>2. \A r \in Slots \ {s} : items'[r].status = "queued" => Same(items[r], items'[r])
  BY DEF Started, Ended, Terminal
<1>3. n \in W
  BY <1>1, IdsOfIs DEF W
<1>4. R' = {n}
  <2>1. \A r \in Slots : items'[r].status = "running" => r = s
    BY DEF Started
  <2>2. QED  BY <1>1, <2>1, IdsOfIs DEF R
<1>5. \A m \in W' : m \in W /\ n <= m /\ m # n
  <2> SUFFICES ASSUME NEW m \in W'
               PROVE  m \in W /\ n <= m /\ m # n
    OBVIOUS
  <2>1. PICK r \in Slots : items'[r].status = "queued" /\ items'[r].seq = m
    BY IdsOfIs DEF W
  <2>2. r # s /\ Same(items[r], items'[r])
    BY <1>1, <1>2, <2>1
  <2>3. items[r].status = "queued" /\ items[r].seq = m
    BY <2>1, <2>2 DEF Same
  <2>4. m \in W
    BY <2>3, IdsOfIs DEF W
  <2>5. n <= m
    BY <2>1, <2>2, <2>3 DEF Started
  <2>6. m # n
    <3>1. n # 0
      BY <1>1 DEF LeasesAndIds
    <3>2. QED  BY <2>2, <2>3, <3>1 DEF LeasesAndIds
  <2>7. QED  BY <2>4, <2>5, <2>6
<1>6. /\ R \subseteq Gone
      /\ W \ Gone = W' \cup {n}
      /\ W' = (W \ Gone) \ {n}
  BY <1>3, <1>4, <1>5, WaitingIsNotRunning DEF Gone
<1>7. RQ!Oldest(W \ Gone) = n
  <2>1. W \ Gone \in SUBSET Nat /\ n \in W \ Gone
    BY <1>6, IdsAreNumbers
  <2>2. \A m \in W \ Gone : n <= m
    BY <1>5, <1>6, <2>1
  <2>3. QED  BY <2>1, <2>2, OldestIsLeast
<1>8. nextId' = nextId
  BY DEF Started
<1>9. QED  BY <1>4, <1>6, <1>7, <1>8 DEF RQ!StartOldest, W, R

LEMMA StepsImplement ==
  ASSUME TypeOK, ResultKnown, LeasesAndIds, Next
  PROVE  RQ!Next
<1>1. Gone \in SUBSET (W \cup R)
  BY DEF Gone
<1>2. RQ!Submit \/ RQ!Retire(Gone) \/ RQ!StartOldest(Gone)
  BY Steps, EnqueueSubmits, PollStarts, QuietRetires, SubmittedSubmits, StartedStarts
<1>3. QED  BY <1>1, <1>2 DEF RQ!Next, W, R

(* The queue keeps RunQueue's promise for every number of tabs, threads and     *)
(* slots: ids in the order of submission, one item at a time, the oldest of     *)
(* those not given up first, and nothing retired ever waits or runs again.      *)
THEOREM QueueImplementsRunQueue == Spec => ImplementsRunQueue
<1> DEFINE Inv == TypeOK /\ ResultKnown /\ LeasesAndIds
<1>1. Init => Inv /\ RQ!Init
  <2>1. Init => Inv
    BY InitTyped DEF Init, LeasesAndIds, EmptyItem
  <2>2. Init => RQ!Init
    BY DEF Init, RQ!Init, IdsOf, With, EmptyItem
  <2>3. QED  BY <2>1, <2>2
<1>2. Inv /\ [Next]_vars => Inv' /\ [RQ!Next]_(RQ!vars)
  <2>1. CASE Next
    BY <2>1, TypeStep, ResultKnownStep, LeasesAndIdsStep, StepsImplement
  <2>2. CASE UNCHANGED vars
    BY <2>2 DEF vars, TypeOK, ResultKnown, RequestsKnow, TabsKnow, LeasesAndIds,
                RQ!vars, IdsOf, With
  <2>3. QED  BY <2>1, <2>2
<1>3. QED  BY <1>1, <1>2, PTL DEF Spec, ImplementsRunQueue, RQ!Spec

-----------------------------------------------------------------------------
(* The cancel flag: only JobReset takes it back.                             *)

LEMMA OnlyResetClears ==
  ASSUME Next, cancel, ~cancel'
  PROVE  \E t \in Threads : JobReset(t)
<1> SUFFICES ASSUME ~ \E t \in Threads : JobReset(t)
             PROVE  FALSE
  OBVIOUS
<1>1. cancel' # cancel /\ cancel' # TRUE
  OBVIOUS
<1>2. jobVars' # jobVars
  BY <1>1 DEF jobVars
<1>3. ASSUME NEW t \in Threads, Handler(t)
      PROVE  FALSE
  <2>1. CASE EnqueueReply(t) \/ PollReply(t) \/ UploadChunk(t) \/ UploadDone(t)
    BY <1>2, <2>1 DEF EnqueueReply, PollReply, UploadChunk, UploadDone
  <2>2. CASE PollServe(t)
    <3>1. jobVars' = jobVars
      BY <2>2, Zenon DEF PollServe, PollReoffer, PollStart, PollNothing
    <3>2. QED  BY <1>2, <3>1
  <2>3. CASE StoreCancel(t)
    BY <1>1, <2>3 DEF StoreCancel
  <2>4. CASE JobBegin(t) \/ JobEnd(t)
    BY <1>1, <2>4 DEF JobBegin, JobEnd
  <2>5. CASE JobRefused(t) \/ JobCancelled(t) \/ JobFinished(t)
    BY <1>2, <2>5 DEF JobRefused, JobCancelled, JobFinished
  <2>6. CASE FinishItem(t) \/ WorkReply(t) \/ CompleteItem(t) \/ CompleteReply(t)
    BY <1>2, <2>6 DEF FinishItem, WorkReply, CompleteItem, CompleteReply
  <2>7. QED  BY <1>3, <2>1, <2>2, <2>3, <2>4, <2>5, <2>6 DEF Handler, Runs
<1>4. ASSUME NEW t \in Threads, JobCancel(t) \/ LocalJob(t)
      PROVE  FALSE
  BY <1>2, <1>4 DEF JobCancel, LocalJob
<1>5. ASSUME NEW c \in Clients, Tab(c)
      PROVE  FALSE
  <2>1. ASSUME NEW t \in Threads, PollSend(c, t) \/ WorkSend(c, t) \/ CompleteSend(c, t)
        PROVE  FALSE
    BY <1>2, <2>1 DEF PollSend, WorkSend, CompleteSend
  <2>2. ASSUME NEW t \in Threads, NEW k \in Kinds, Enqueue(c, t, k)
        PROVE  FALSE
    BY <1>2, <2>2 DEF Enqueue
  <2>3. ASSUME NEW t \in Threads, NEW s \in Slots, ActivityCancel(c, t, s)
        PROVE  FALSE
    BY <1>2, <2>3 DEF ActivityCancel
  <2>4. CASE WorkLost(c) \/ WaitIdle(c) \/ CompleteLost(c) \/ Progress(c) \/ Close(c)
    BY <1>2, <2>4 DEF WorkLost, WaitIdle, CompleteLost, Progress, Close
  <2>5. QED  BY <1>5, <2>1, <2>2, <2>3, <2>4 DEF Tab
<1>6. CASE Clear \/ Tick
  <2>1. jobVars' = jobVars
    BY <1>6, Zenon DEF Clear, Tick
  <2>2. QED  BY <1>2, <2>1
<1>7. QED  BY <1>3, <1>4, <1>5, <1>6 DEF Next

LEMMA CancelStaysStep ==
  ASSUME JobExclusive, [Next]_vars, cancel, ~cancel', NEW u \in Threads
  PROVE  pc[u] # "run"
<1>1. CASE Next
  <2>1. PICK t \in Threads : JobReset(t)
    BY <1>1, OnlyResetClears
  <2>2. t \in JobThreads /\ pc[t] = "reset"
    BY <2>1 DEF JobReset, JobThreads
  <2>3. QED  BY <2>2 DEF JobExclusive, JobThreads
<1>2. CASE UNCHANGED vars
  BY <1>2 DEF vars
<1>3. QED  BY <1>1, <1>2

(* A cancel is never taken back from the job it reached: the flag is reset only *)
(* by the request that has won the slot, before its own job begins.            *)
THEOREM CancelIsKept == Spec => CancelStays
<1> DEFINE Inv == TypeOK /\ ResultKnown /\ JobExclusive
<1>1. Init => Inv
  BY InitTyped DEF Init, JobExclusive, JobThreads
<1>2. Inv /\ [Next]_vars => Inv'
  <2>1. CASE Next
    BY <2>1, TypeStep, ResultKnownStep, JobExclusiveStep
  <2>2. CASE UNCHANGED vars
    BY <2>2 DEF vars, TypeOK, ResultKnown, RequestsKnow, TabsKnow, JobExclusive, JobThreads
  <2>3. QED  BY <2>1, <2>2
<1>3. Inv /\ [Next]_vars => [cancel /\ ~cancel' => \A t \in Threads : pc[t] # "run"]_vars
  BY CancelStaysStep
<1>4. QED  BY <1>1, <1>2, <1>3, PTL DEF Spec, CancelStays

-----------------------------------------------------------------------------
(* The leases.                                                              *)
(*                                                                          *)
(* Whoever carries the id and a lease of a running item carries the lease it  *)
(* has now.  What makes it inductive is that nobody carries a lease of an     *)
(* item that still waits, or of an id not given yet.                         *)

(* What a holder of an id and a lease can rely on in a queue its, of which   *)
(* nid is the next id.                                                      *)
Current(its, nid, id, lease, client) ==
  lease > 0 =>
    /\ id < nid
    /\ \A s \in Slots : its[s].seq = id =>
         /\ its[s].status # "queued"
         /\ its[s].status = "running" => its[s].lease = lease /\ its[s].client = client

Trusted(id, lease, client) == Current(items, nextId, id, lease, client)

HoldersTrusted ==
  /\ \A t \in Threads : Trusted(req[t].id, req[t].lease, req[t].client)
  /\ \A c \in Clients : Trusted(active[c].id, active[c].lease, c)

-----------------------------------------------------------------------------
(* What was current stays current.                                          *)

LEMMA CurrentStays ==
  ASSUME TypeOK, ResultKnown, LeasesAndIds, Next,
         NEW id \in Nat, NEW lease \in Nat, NEW client,
         Current(items, nextId, id, lease, client)
  PROVE  Current(items', nextId', id, lease, client)
<1> SUFFICES ASSUME lease > 0
             PROVE  /\ id < nextId'
                    /\ \A s \in Slots : items'[s].seq = id =>
                         /\ items'[s].status # "queued"
                         /\ items'[s].status = "running" => /\ items'[s].lease = lease
                                                            /\ items'[s].client = client
  BY DEF Current
<1>1. /\ id < nextId /\ nextId \in Nat
      /\ \A s \in Slots : items[s].seq = id =>
           /\ items[s].status # "queued"
           /\ items[s].status = "running" => items[s].lease = lease /\ items[s].client = client
  BY DEF Current, TypeOK
<1>2. CASE Quiet
  BY <1>1, <1>2 DEF Quiet, Follows, Same, Ended, Emptied, EmptyItem, Terminal
<1>3. ASSUME NEW r \in Slots, Submitted(r)
      PROVE  /\ id < nextId'
             /\ \A s \in Slots : items'[s].seq = id =>
                  /\ items'[s].status # "queued"
                  /\ items'[s].status = "running" => /\ items'[s].lease = lease
                                                     /\ items'[s].client = client
  <2>1. /\ items'[r].seq = nextId /\ nextId' = nextId + 1
        /\ \A s \in Slots \ {r} : items'[s] = items[s]
    BY <1>3 DEF Submitted, EmptyItem, TypeOK
  <2>2. id # nextId /\ id < nextId + 1
    BY <1>1
  <2>3. QED  BY <1>1, <2>1, <2>2
<1>4. ASSUME NEW r \in Slots, Started(r)
      PROVE  /\ id < nextId'
             /\ \A s \in Slots : items'[s].seq = id =>
                  /\ items'[s].status # "queued"
                  /\ items'[s].status = "running" => /\ items'[s].lease = lease
                                                     /\ items'[s].client = client
  <2>1. /\ items[r].status = "queued" /\ items'[r].seq = items[r].seq /\ nextId' = nextId
        /\ \A s \in Slots \ {r} : Same(items[s], items'[s]) \/ Ended(items[s], items'[s])
    BY <1>4 DEF Started
  <2>2. items'[r].seq # id
    BY <1>1, <2>1
  <2>3. QED  BY <1>1, <2>1, <2>2 DEF Same, Ended, Terminal
<1>5. QED  BY <1>2, <1>3, <1>4, Steps, EnqueueSubmits, PollStarts

(* A lease fresh from the queue is current: ids are not shared.              *)
LEMMA OfferedIsCurrent ==
  ASSUME LeasesAndIds', NEW s \in Slots, items'[s].status = "running"
  PROVE  Current(items', nextId', items'[s].seq, items'[s].lease, items'[s].client)
<1>1. /\ items'[s].seq < nextId' /\ items'[s].seq # 0
      /\ \A r \in Slots : items'[r].seq = items'[s].seq => r = s
  BY DEF LeasesAndIds
<1>2. QED  BY <1>1 DEF Current

-----------------------------------------------------------------------------
(* Where the ids and leases that requests and tabs carry come from: nowhere,   *)
(* from a request, from a tab, or from the queue, of an item that runs.       *)

Comes(id, lease, client) ==
  \/ lease = 0
  \/ \E t \in Threads : id = req[t].id /\ lease = req[t].lease /\ client = req[t].client
  \/ \E c \in Clients : id = active[c].id /\ lease = active[c].lease /\ client = c
  \/ \E s \in Slots : /\ items'[s].status = "running"
                      /\ id = items'[s].seq /\ lease = items'[s].lease
                      /\ client = items'[s].client

ComesRequest(r) == Comes(r.id, r.lease, r.client)

LEMMA SameRequestComes ==
  ASSUME TypeOK, NEW t \in Threads
  PROVE  /\ ComesRequest(req[t])
         /\ \A res : ComesRequest([req[t] EXCEPT !.res = res])
BY DEF TypeOK, Request, ComesRequest, Comes

LEMMA NoRequestComes == ComesRequest(NoRequest)
BY DEF ComesRequest, Comes, NoRequest

LEMMA ServeComes ==
  ASSUME TypeOK, NEW t \in Threads, NEW label, NEW r, Serve(t, label, r), ComesRequest(r)
  PROVE  \A u \in Threads : ComesRequest(req'[u])
<1>1. \A u \in Threads : req'[u] = req[u] \/ req'[u] = r
  BY DEF Serve, TypeOK
<1>2. QED  BY <1>1, SameRequestComes

LEMMA PollComes ==
  ASSUME TypeOK, NEW t \in Threads, PollServe(t)
  PROVE  \A u \in Threads : ComesRequest(req'[u])
<1>0. Swept(req[t]) \in [Slots -> Item] /\ req[t] \in Request
  BY SweptType DEF TypeOK
<1>1. ASSUME NEW it, PollServed(t, Swept(req[t]), it), Comes(it.seq, it.lease, req[t].client)
      PROVE  \A u \in Threads : ComesRequest(req'[u])
  <2> DEFINE r == [req[t] EXCEPT !.id = it.seq, !.lease = it.lease, !.kind = it.kind,
                                 !.owned = {}]
  <2>1. r.id = it.seq /\ r.lease = it.lease /\ r.client = req[t].client
    BY <1>0 DEF Request
  <2>2. ComesRequest(r)
    BY <1>1, <2>1 DEF ComesRequest
  <2>3. PICK label \in PCs : Serve(t, label, r)
    BY <1>1 DEF PollServed, PCs
  <2>4. QED  BY <2>2, <2>3, ServeComes
<1>2. CASE PollReoffer(t)
  <2>1. PICK s \in Slots : /\ Swept(req[t])[s].status = "running"
                           /\ Swept(req[t])[s].client = req[t].client
                           /\ items' = Swept(req[t])
                           /\ PollServed(t, Swept(req[t]), Swept(req[t])[s])
    BY <1>2 DEF PollReoffer, RunningIn
  <2>2. Comes(Swept(req[t])[s].seq, Swept(req[t])[s].lease, req[t].client)
    BY <2>1 DEF Comes
  <2>3. QED  BY <1>1, <2>1, <2>2
<1>3. CASE PollStart(t)
  <2> DEFINE it(s) == [Swept(req[t])[s] EXCEPT !.status = "running", !.age = 0,
                                               !.started = 0, !.lease = nextLease]
  <2>0. PICK s \in MayStart(Swept(req[t]), req[t].client) :
          /\ items' = [Swept(req[t]) EXCEPT ![s] = it(s)]
          /\ PollServed(t, Swept(req[t]), it(s))
    BY <1>3, Zenon DEF PollStart
  <2>1. s \in Slots /\ Swept(req[t])[s].client = req[t].client
    BY DEF MayStart
  <2>2. items'[s] = it(s)
    BY <1>0, <2>0, <2>1
  <2>3. it(s).status = "running" /\ it(s).client = req[t].client
    BY <1>0, <2>1 DEF Item
  <2>4. Comes(it(s).seq, it(s).lease, req[t].client)
    BY <2>1, <2>2, <2>3, Zenon DEF Comes
  <2>5. QED  BY <1>1, <2>0, <2>4
<1>4. CASE PollNothing(t)
  <2>1. Comes(EmptyItem.seq, EmptyItem.lease, req[t].client)
    BY DEF Comes, EmptyItem
  <2>2. QED  BY <1>1, <1>4, <2>1 DEF PollNothing
<1>5. QED  BY <1>2, <1>3, <1>4 DEF PollServe

LEMMA RequestsCome ==
  ASSUME TypeOK, Next
  PROVE  \A u \in Threads : ComesRequest(req'[u])
<1>0. req' = req => \A u \in Threads : ComesRequest(req'[u])
  BY SameRequestComes
<1>1. ASSUME NEW t \in Threads, Handler(t)
      PROVE  \A u \in Threads : ComesRequest(req'[u])
  <2>1. CASE EnqueueReply(t) \/ PollReply(t) \/ WorkReply(t) \/ CompleteReply(t)
    BY <2>1, ServeComes, NoRequestComes
       DEF EnqueueReply, PollReply, WorkReply, CompleteReply, Done
  <2>2. CASE PollServe(t)
    BY <2>2, PollComes
  <2>3. CASE StoreCancel(t) \/ JobEnd(t)
    BY <1>0, <2>3, ServeComes, NoRequestComes DEF StoreCancel, JobEnd, Done
  <2>4. CASE UploadChunk(t) \/ JobRefused(t) \/ JobCancelled(t)
    BY <1>0, <2>4, ServeComes, SameRequestComes, NoRequestComes
       DEF UploadChunk, JobRefused, JobCancelled, Done, threadVars
  <2>5. CASE UploadDone(t) \/ JobFinished(t)
    <3>1. PICK label, res : Serve(t, label, [req[t] EXCEPT !.res = res])
      BY <2>5 DEF UploadDone, JobFinished
    <3>2. QED  BY <3>1, ServeComes, SameRequestComes
  <2>6. CASE JobBegin(t) \/ JobReset(t) \/ FinishItem(t) \/ CompleteItem(t)
    BY <1>0, <2>6 DEF JobBegin, JobReset, FinishItem, CompleteItem
  <2>7. QED  BY <1>1, <2>1, <2>2, <2>3, <2>4, <2>5, <2>6 DEF Handler, Runs
<1>2. ASSUME NEW t \in Threads, JobCancel(t) \/ LocalJob(t)
      PROVE  \A u \in Threads : ComesRequest(req'[u])
  BY <1>0, <1>2 DEF JobCancel, LocalJob
<1>3. ASSUME NEW c \in Clients, Tab(c)
      PROVE  \A u \in Threads : ComesRequest(req'[u])
  <2>0. /\ ComesRequest(RequestOf(c, active[c]))
        /\ \A res : ComesRequest([RequestOf(c, active[c]) EXCEPT !.res = res])
    BY DEF ComesRequest, Comes, RequestOf
  <2>1. ASSUME NEW t \in Threads, PollSend(c, t)
        PROVE  \A u \in Threads : ComesRequest(req'[u])
    <3>1. ComesRequest([NoRequest EXCEPT !.client = c, !.owned = local[c]])
      BY DEF ComesRequest, Comes, NoRequest
    <3>2. QED  BY <2>1, <3>1, ServeComes DEF PollSend
  <2>2. ASSUME NEW t \in Threads, NEW k \in Kinds, Enqueue(c, t, k)
        PROVE  \A u \in Threads : ComesRequest(req'[u])
    <3>1. ComesRequest([NoRequest EXCEPT !.client = c, !.id = nextId])
      BY DEF ComesRequest, Comes, NoRequest
    <3>2. QED  BY <2>2, <3>1, ServeComes DEF Enqueue
  <2>3. ASSUME NEW t \in Threads, NEW s \in Slots, ActivityCancel(c, t, s)
        PROVE  \A u \in Threads : ComesRequest(req'[u])
    <3>1. ComesRequest([NoRequest EXCEPT !.id = items[s].seq])
      BY DEF ComesRequest, Comes, NoRequest
    <3>2. QED  BY <1>0, <2>3, <3>1, ServeComes DEF ActivityCancel, threadVars
  <2>4. ASSUME NEW t \in Threads, WorkSend(c, t) \/ CompleteSend(c, t)
        PROVE  \A u \in Threads : ComesRequest(req'[u])
    BY <1>0, <2>0, <2>4, ServeComes DEF WorkSend, CompleteSend, threadVars
  <2>5. CASE WorkLost(c) \/ WaitIdle(c) \/ CompleteLost(c) \/ Progress(c) \/ Close(c)
    BY <1>0, <2>5 DEF WorkLost, WaitIdle, CompleteLost, Progress, Close, threadVars
  <2>6. QED  BY <1>3, <2>1, <2>2, <2>3, <2>4, <2>5 DEF Tab
<1>4. CASE Clear \/ Tick
  <2>1. threadVars' = threadVars
    BY <1>4, Zenon DEF Clear, Tick
  <2>2. QED  BY <1>0, <2>1 DEF threadVars
<1>5. QED  BY <1>1, <1>2, <1>3, <1>4 DEF Next

(* A tab's item: kept, dropped, or taken from the answer to a poll of its own. *)
Kept(c) == active'[c].id = active[c].id /\ active'[c].lease = active[c].lease
Dropped(c) == active'[c].lease = 0
Taken(c) == \E t \in Threads : /\ req[t].client = c /\ active'[c].id = req[t].id
                               /\ active'[c].lease = req[t].lease
TabsCome == \A c \in Clients : Kept(c) \/ Dropped(c) \/ Taken(c)

LEMMA PhaseKeeps ==
  ASSUME TypeOK, NEW c, NEW phase, NEW res, SetPhase(c, phase, res)
  PROVE  TabsCome
BY DEF TypeOK, Activity, SetPhase, TabsCome, Kept

LEMMA SettledDrops ==
  ASSUME TypeOK, NEW c, NEW res, Settled(c, res)
  PROVE  TabsCome
BY DEF TypeOK, Settled, NoActivity, TabsCome, Kept, Dropped

LEMMA TabsComeStep ==
  ASSUME TypeOK, Next
  PROVE  TabsCome
<1>0. active' = active => TabsCome
  BY DEF TabsCome, Kept
<1>1. ASSUME NEW t \in Threads, Handler(t)
      PROVE  TabsCome
  <2>1. CASE PollReply(t)
    BY <2>1 DEF PollReply, TabsCome, Kept, Taken, TypeOK
  <2>2. CASE JobReset(t) \/ WorkReply(t)
    BY <1>0, <2>2, PhaseKeeps DEF JobReset, WorkReply
  <2>3. CASE CompleteReply(t)
    BY <1>0, <2>3, SettledDrops DEF CompleteReply
  <2>4. CASE EnqueueReply(t) \/ PollServe(t) \/ StoreCancel(t) \/ UploadChunk(t) \/ UploadDone(t)
    <3>1. active' = active \/ tabVars' = tabVars
      BY <2>4, Zenon DEF EnqueueReply, PollServe, PollReoffer, PollStart, PollNothing,
                         StoreCancel, UploadChunk, UploadDone
    <3>2. QED  BY <1>0, <3>1 DEF tabVars
  <2>5. CASE JobBegin(t) \/ JobRefused(t) \/ JobCancelled(t) \/ JobFinished(t) \/ JobEnd(t)
             \/ FinishItem(t) \/ CompleteItem(t)
    BY <1>0, <2>5 DEF JobBegin, JobRefused, JobCancelled, JobFinished, JobEnd,
                      FinishItem, CompleteItem, tabVars
  <2>6. QED  BY <1>1, <2>1, <2>2, <2>3, <2>4, <2>5 DEF Handler, Runs
<1>2. ASSUME NEW t \in Threads, JobCancel(t) \/ LocalJob(t)
      PROVE  TabsCome
  BY <1>0, <1>2 DEF JobCancel, LocalJob, tabVars
<1>3. ASSUME NEW c \in Clients, Tab(c)
      PROVE  TabsCome
  <2>1. ASSUME NEW t \in Threads,
               \/ PollSend(c, t) \/ \E k \in Kinds : Enqueue(c, t, k)
               \/ \E s \in Slots : ActivityCancel(c, t, s)
        PROVE  TabsCome
    <3>1. tabVars' = tabVars
      BY <2>1, Zenon DEF PollSend, Enqueue, ActivityCancel
    <3>2. QED  BY <1>0, <3>1 DEF tabVars
  <2>2. ASSUME NEW t \in Threads, WorkSend(c, t) \/ CompleteSend(c, t)
        PROVE  TabsCome
    BY <2>2, PhaseKeeps, SettledDrops DEF WorkSend, CompleteSend
  <2>3. CASE WorkLost(c) \/ WaitIdle(c)
    <3>1. PICK phase, res : SetPhase(c, phase, res)
      BY <2>3 DEF WorkLost, WaitIdle
    <3>2. QED  BY <3>1, PhaseKeeps
  <2>4. CASE CompleteLost(c)
    BY <2>4, SettledDrops DEF CompleteLost
  <2>5. CASE Progress(c)
    BY <1>0, <2>5 DEF Progress, tabVars
  <2>6. CASE Close(c)
    BY <2>6 DEF Close, NoActivity, TabsCome, Kept, Dropped, TypeOK
  <2>7. QED  BY <1>3, <2>1, <2>2, <2>3, <2>4, <2>5, <2>6 DEF Tab
<1>4. CASE Clear \/ Tick
  <2>1. tabVars' = tabVars
    BY <1>4, Zenon DEF Clear, Tick
  <2>2. QED  BY <1>0, <2>1 DEF tabVars
<1>5. QED  BY <1>1, <1>2, <1>3, <1>4 DEF Next

-----------------------------------------------------------------------------
LEMMA TrustedStep ==
  ASSUME TypeOK, ResultKnown, LeasesAndIds, HoldersTrusted, Next
  PROVE  HoldersTrusted'
<1>1. LeasesAndIds'
  BY LeasesAndIdsStep
<1>2. \A id, lease \in Nat : \A client :
        Current(items, nextId, id, lease, client) => Current(items', nextId', id, lease, client)
  BY CurrentStays
<1>3. /\ \A t \in Threads : /\ req[t].id \in Nat /\ req[t].lease \in Nat
                            /\ Current(items, nextId, req[t].id, req[t].lease, req[t].client)
      /\ \A c \in Clients : /\ active[c].id \in Nat /\ active[c].lease \in Nat
                            /\ Current(items, nextId, active[c].id, active[c].lease, c)
  BY DEF HoldersTrusted, Trusted, TypeOK, Request, Activity
<1>4. /\ \A t \in Threads : Current(items', nextId', req[t].id, req[t].lease, req[t].client)
      /\ \A c \in Clients : Current(items', nextId', active[c].id, active[c].lease, c)
  BY <1>2, <1>3
<1>5. \A id, client : Current(items', nextId', id, 0, client)
  BY DEF Current
<1>6. \A s \in Slots : items'[s].status = "running" =>
        Current(items', nextId', items'[s].seq, items'[s].lease, items'[s].client)
  BY <1>1, OfferedIsCurrent
<1>7. \A t \in Threads : Current(items', nextId', req'[t].id, req'[t].lease, req'[t].client)
  BY <1>4, <1>5, <1>6, RequestsCome DEF ComesRequest, Comes
<1>8. \A c \in Clients : Current(items', nextId', active'[c].id, active'[c].lease, c)
  BY <1>4, <1>5, TabsComeStep DEF TabsCome, Kept, Dropped, Taken
<1>9. QED  BY <1>7, <1>8 DEF HoldersTrusted, Trusted

LEMMA TrustedAgree ==
  ASSUME HoldersTrusted
  PROVE  LeaseHoldersAgree
BY DEF HoldersTrusted, Trusted, Current, LeaseHoldersAgree, Holds

(* Whoever shows an id and a lease of an item that runs, request or tab, is the *)
(* tab the item belongs to and has the lease it has now: activity_validate_lease *)
(* needs to compare no more, however late or often the request comes.          *)
THEOREM LeasesAreCurrent == Spec => []LeaseHoldersAgree
<1> DEFINE Inv == TypeOK /\ ResultKnown /\ LeasesAndIds /\ HoldersTrusted
<1>1. Init => Inv
  BY InitTyped DEF Init, LeasesAndIds, EmptyItem, HoldersTrusted, Trusted, Current,
                   NoRequest, NoActivity
<1>2. Inv /\ [Next]_vars => Inv'
  <2>1. CASE Next
    BY <2>1, TypeStep, ResultKnownStep, LeasesAndIdsStep, TrustedStep
  <2>2. CASE UNCHANGED vars
    BY <2>2 DEF vars, TypeOK, ResultKnown, RequestsKnow, TabsKnow, LeasesAndIds,
                HoldersTrusted, Trusted
  <2>3. QED  BY <2>1, <2>2
<1>3. Inv => LeaseHoldersAgree
  BY TrustedAgree
<1>4. QED  BY <1>1, <1>2, <1>3, PTL DEF Spec
=============================================================================
