------------------------ MODULE OperationLogs_proofs -------------------------
(***************************************************************************)
(* Proofs about OperationLogs for any number of operations, any size of the   *)
(* queue and any number of clears: a log tells of the operation it was made   *)
(* for, and no operation drops out of the answer to a poll while that has room. *)
(*                                                                          *)
(* The name in the job slot is the holder's (JobsHold), and an operation asks *)
(* for it once (ToldOnce), so whose name another took is never forgotten and  *)
(* no log of the others is written by anybody else.  A log that says          *)
(* "running" has somebody who will write the outcome (LogsTell), and an item  *)
(* has no log but its operation's (ItemsTell).  An operation a poll is         *)
(* followed for takes no more steps until the answer (PollsFollow).          *)
(***************************************************************************)
EXTENDS OperationLogs, FiniteSetTheorems, TLAPS

-----------------------------------------------------------------------------
(* The inductive invariant.                                                 *)

ItemRecord == [of : SUBSET Operations, status : {"empty", "queued", "running", "over"},
               log : SUBSET LogNames]
OperationRecord == [kind : OperationKinds, pc : OperationPCs, tab : TabPCs, told : SUBSET LogNames]
ListingRecord == [of : SUBSET Operations, item : BOOLEAN, owed : SUBSET LogNames,
                  unread : SUBSET LogNames, candidates : SUBSET LogNames]
LogShapes ==
  /\ operation \in [Operations -> OperationRecord]
  /\ holder \in SUBSET Operations /\ logPath \in SUBSET LogNames /\ DOMAIN logs \subseteq LogNames
  /\ queue \in [QueueSlots -> ItemRecord]
  /\ listing \in ListingRecord
  /\ IsFiniteSet(listing.candidates) /\ Cardinality(listing.candidates) <= ListLimit
  /\ clearing \in [on : BOOLEAN, count : Nat] /\ (clearing.on => clearing.count > 0)

(* Who is between job_begin and job_end has the slot, and the log's name is   *)
(* its own or missing.                                                      *)
AtJob(o) == operation[o].kind # "copy" /\ operation[o].pc \in {"asks", "work"}
Job(o) ==
  /\ AtJob(o) => holder = {o} /\ logPath \subseteq {<<o, 1>>}
  /\ operation[o].pc \in {"begun", "ended"} => holder = {o} /\ operation[o].kind # "copy"
  /\ operation[o].pc = "asks" => operation[o].kind = "app"
  /\ operation[o].pc \in {"freed", "told"} => operation[o].kind = "stream"
JobsHold == \A o \in Operations : Job(o)

(* An operation is told a name once.                                        *)
ToldOnce ==
  \A o \in Operations : operation[o].told # {} =>
    \/ operation[o].kind = "app" /\ operation[o].pc \in {"work", "ended", "over"}
    \/ operation[o].kind = "stream" /\ operation[o].pc \in {"told", "over"}

(* What lies in the logs: the one that says "running" is the one the work       *)
(* under way will write its outcome to.                                      *)
Runner(o, n) ==
  n = <<o, 1>> /\ operation[o].pc \in {"asks", "work"} /\ (AtJob(o) => n \in logPath)
LogTells(o, n) == logs[n].of = o /\ (logs[n].running => Runner(o, n))
LogsTell ==
  \A o \in Operations \ Mistaken : \A n \in OwnLogs(o) \cap DOMAIN logs : LogTells(o, n)
OutcomesStay ==
  \A o \in Operations :
    operation[o].pc = "ended" /\ clearing.count = 0 => OwnLogs(o) \cap DOMAIN logs # {}

(* An item has a log that its operation was told of, or that its report made.  *)
ItemTells(it) ==
  \A n \in it.log : \E p \in Operations :
    it.of = {p} /\ (n \in operation[p].told \/ n = <<p, 3>>)
ItemsTell == \A s \in QueueSlots : ItemTells(queue[s])

(* The operation a poll is followed for stays as it is until the answer, and   *)
(* a candidate only goes for another when as many as asked for are there.      *)
Full == Cardinality(listing.candidates) = ListLimit
Answers(o) == listing.item \/ OwnLogs(o) \cap listing.candidates # {} \/ Full
Followed(o) ==
  /\ listing.of = {o} /\ Ended(o) /\ listing.owed \subseteq OwnLogs(o) \cap DOMAIN logs
  /\ \/ Answers(o) \/ o \in Mistaken
     \/ listing.owed # {} /\ ItemsOf(o) = {}
PollsFollow == listing # NoPoll => ~clearing.on /\ \E o \in Operations : Followed(o)

LogsInv ==
  /\ LogShapes /\ JobsHold /\ ToldOnce /\ LogsTell /\ OutcomesStay /\ ItemsTell /\ PollsFollow

-----------------------------------------------------------------------------
(* Shapes and jobs.                                                         *)

LEMMA LogsInitInv == LogsInit => LogsInv
<1> SUFFICES ASSUME LogsInit PROVE LogsInv
  OBVIOUS
<1>0. PICK k \in [Operations -> OperationKinds] :
        operation = [o \in Operations |-> [kind |-> k[o], pc |-> "new", tab |-> "idle", told |-> {}]]
  BY DEF LogsInit
<1>1. LogShapes
  <2>1. operation \in [Operations -> [kind : OperationKinds, pc : OperationPCs, tab : TabPCs,
                                      told : SUBSET LogNames]]
    BY <1>0 DEF OperationPCs, TabPCs
  <2>2. DOMAIN logs = {}
    BY DEF LogsInit
  <2>3. queue \in [QueueSlots -> ItemRecord]
    BY DEF LogsInit, ItemRecord, NoItem
  <2>4. /\ listing \in ListingRecord
        /\ clearing \in [on : BOOLEAN, count : Nat] /\ (clearing.on => clearing.count > 0)
    BY DEF LogsInit, NoPoll, ListingRecord
  <2>5. IsFiniteSet(listing.candidates) /\ Cardinality(listing.candidates) <= ListLimit
    BY FS_EmptySet, OperationsAssumption DEF LogsInit, NoPoll
  <2> QED  BY <2>1, <2>2, <2>3, <2>4, <2>5 DEF LogsInit, LogShapes, OperationRecord
<1>2. JobsHold /\ ToldOnce /\ OutcomesStay
  BY <1>0 DEF JobsHold, Job, ToldOnce, OutcomesStay, AtJob
<1>3. LogsTell
  BY DEF LogsInit, LogsTell
<1>4. ItemsTell /\ PollsFollow
  BY DEF LogsInit, ItemsTell, ItemTells, NoItem, PollsFollow
<1> QED  BY <1>1, <1>2, <1>3, <1>4 DEF LogsInv

LEMMA WriteShapes ==
  ASSUME LogShapes, NEW o \in Operations, NEW name \in SUBSET LogNames, NEW running,
         WriteLog(o, name, running)
  PROVE  /\ DOMAIN logs' = DOMAIN logs \cup name
         /\ \A n \in name : logs'[n].of = o /\ logs'[n].running = running
         /\ \A n \in DOMAIN logs \ name : logs'[n] = logs[n]
  BY DEF WriteLog

LEMMA OwnNames ==
  ASSUME NEW o \in Operations
  PROVE  /\ {<<o, 1>>} \subseteq OwnLogs(o) /\ {<<o, 2>>} \subseteq OwnLogs(o)
         /\ {<<o, 3>>} \subseteq OwnLogs(o) /\ OwnLogs(o) \subseteq LogNames
         /\ \A p \in Operations : p # o => OwnLogs(o) \cap OwnLogs(p) = {}
         /\ \A n \in LogNames : \E p \in Operations : n \in OwnLogs(p)
  BY DEF OwnLogs, LogNames

(* What a step does to the operation it is about; the others stay.           *)
Changes(o, pc, tab, told) ==
  /\ operation' \in [Operations -> OperationRecord]
  /\ \A p \in Operations \ {o} : operation'[p] = operation[p]
  /\ operation'[o].kind = operation[o].kind /\ operation'[o].pc = pc
  /\ operation'[o].tab = tab /\ operation'[o].told = told

LEMMA PcChanges ==
  ASSUME LogShapes, NEW o \in Operations, NEW pc \in OperationPCs,
         operation' = [operation EXCEPT ![o].pc = pc]
  PROVE  Changes(o, pc, operation[o].tab, operation[o].told)
  BY DEF LogShapes, OperationRecord, Changes

LEMMA TabChanges ==
  ASSUME LogShapes, NEW o \in Operations, NEW tab \in TabPCs,
         operation' = [operation EXCEPT ![o].tab = tab]
  PROVE  Changes(o, operation[o].pc, tab, operation[o].told)
  BY DEF LogShapes, OperationRecord, Changes

LEMMA BothChange ==
  ASSUME LogShapes, NEW o \in Operations, NEW pc \in OperationPCs, NEW tab \in TabPCs,
         operation' = [operation EXCEPT ![o] = [@ EXCEPT !.tab = tab, !.pc = pc]]
  PROVE  Changes(o, pc, tab, operation[o].told)
  BY DEF LogShapes, OperationRecord, Changes

LEMMA NameChanges ==
  ASSUME LogShapes, NEW o \in Operations, NEW pc \in OperationPCs, NEW told \in SUBSET LogNames,
         operation' = [operation EXCEPT ![o] = [@ EXCEPT !.pc = pc, !.told = told]]
  PROVE  Changes(o, pc, operation[o].tab, told)
  BY DEF LogShapes, OperationRecord, Changes

(* The steps, by what they do to an operation.                               *)
Same(o) == Changes(o, operation[o].pc, operation[o].tab, operation[o].told)
Goes(o, pc)  == Changes(o, pc, operation[o].tab, operation[o].told)
Tabs(o, tab) == Changes(o, operation[o].pc, tab, operation[o].told)
Ends(o, pc, tab) == Changes(o, pc, tab, operation[o].told)
Hears(o, pc) == Changes(o, pc, operation[o].tab, logPath)

LEMMA JobChanges ==
  ASSUME LogShapes, NEW o \in Operations
  PROVE  /\ TakeSlot(o) => Goes(o, "begun") \/ \E t \in {"idle", "nameless"} : Ends(o, "over", t)
         /\ NameLog(o) => Goes(o, IF operation[o].kind = "app" THEN "asks" ELSE "work")
         /\ SetTarget(o) => Same(o)
         /\ AskFirst(o) => Hears(o, "work")
         /\ LogOutcome(o) => Goes(o, "ended")
         /\ FreeSlot(o) => \E t \in {operation[o].tab, "report"} :
              Ends(o, IF operation[o].kind = "stream" THEN "freed" ELSE "over", t)
         /\ AskLate(o) => Hears(o, "told")
         /\ SettleItem(o) => \E t \in {operation[o].tab, "report"} : Ends(o, "over", t)
<1> USE DEF OperationPCs, TabPCs, Goes, Ends, Hears, Tabs, Same
<1>1. operation[o].tab \in TabPCs /\ operation[o].pc \in OperationPCs
      /\ operation[o].told \in SUBSET LogNames /\ operation[o].kind \in OperationKinds
      /\ operation \in [Operations -> OperationRecord]
  BY DEF LogShapes, OperationRecord
<1>2. ASSUME TakeSlot(o)
      PROVE  Goes(o, "begun") \/ \E t \in {"idle", "nameless"} : Ends(o, "over", t)
  <2>1. CASE holder = {}
    BY <1>2, <2>1, PcChanges DEF TakeSlot
  <2>2. CASE holder # {}
    <3> DEFINE tab == IF operation[o].kind = "local" THEN "idle" ELSE "nameless"
    <3>1. tab \in {"idle", "nameless"}
      OBVIOUS
    <3>2. operation' = [operation EXCEPT ![o] = [@ EXCEPT !.tab = tab, !.pc = "over"]]
      BY <1>2, <2>2 DEF TakeSlot
    <3> HIDE DEF tab
    <3>3. Ends(o, "over", tab)
      BY <3>1, <3>2, BothChange
    <3> QED  BY <3>1, <3>3
  <2> QED  BY <2>1, <2>2
<1>3. NameLog(o) => Goes(o, IF operation[o].kind = "app" THEN "asks" ELSE "work")
  BY PcChanges DEF NameLog, OperationGoes
<1>4. SetTarget(o) => Same(o)
  BY <1>1 DEF SetTarget, Changes
<1>5. LogOutcome(o) => Goes(o, "ended")
  BY PcChanges DEF LogOutcome, OperationGoes
<1>6. (AskFirst(o) => Hears(o, "work")) /\ (AskLate(o) => Hears(o, "told"))
  BY NameChanges DEF AskFirst, AskLate, AskName, LogShapes
<1>7. ASSUME FreeSlot(o)
      PROVE  \E t \in {operation[o].tab, "report"} :
               Ends(o, IF operation[o].kind = "stream" THEN "freed" ELSE "over", t)
  <2> DEFINE pc  == IF operation[o].kind = "stream" THEN "freed" ELSE "over"
             tab == IF operation[o].kind = "app" THEN "report" ELSE operation[o].tab
  <2>1. tab \in {operation[o].tab, "report"} /\ tab \in TabPCs /\ pc \in OperationPCs
    BY <1>1
  <2>2. operation' = [operation EXCEPT ![o] = [@ EXCEPT !.tab = tab, !.pc = pc]]
    BY <1>7 DEF FreeSlot
  <2> HIDE DEF pc, tab
  <2>3. Ends(o, pc, tab)
    BY <2>1, <2>2, BothChange
  <2> QED  BY <2>1, <2>3 DEF pc
<1>8. ASSUME SettleItem(o)
      PROVE  \E t \in {operation[o].tab, "report"} : Ends(o, "over", t)
  <2>1. CASE operation' = [operation EXCEPT ![o].pc = "over"]
    BY <2>1, PcChanges
  <2>2. CASE operation' = [operation EXCEPT ![o] =
             [@ EXCEPT !.tab = IF operation[o].tab = "idle" THEN "report" ELSE operation[o].tab, !.pc = "over"]]
    <3> DEFINE tab == IF operation[o].tab = "idle" THEN "report" ELSE operation[o].tab
    <3>1. tab \in {operation[o].tab, "report"} /\ tab \in TabPCs
      BY <1>1
    <3>2. operation' = [operation EXCEPT ![o] = [@ EXCEPT !.tab = tab, !.pc = "over"]]
      BY <2>2
    <3> HIDE DEF tab
    <3>3. Ends(o, "over", tab)
      BY <3>1, <3>2, BothChange
    <3> QED  BY <3>1, <3>3
  <2> QED  BY <1>8, <2>1, <2>2 DEF SettleItem
<1> QED  BY <1>2, <1>3, <1>4, <1>5, <1>6, <1>7, <1>8

LEMMA QueueChanges ==
  ASSUME LogShapes, NEW o \in Operations
  PROVE  /\ EnqueueOperation(o) => Goes(o, "queued")
         /\ OfferItem(o) => Goes(o, "offered")
         /\ DropItem(o) => Goes(o, IF operation[o].pc = "queued" THEN "over" ELSE operation[o].pc)
         /\ SendFiles(o) => Ends(o, "over", "nameless")
         /\ RequestBreaks(o) => Tabs(o, "nameless")
         /\ CheckReport(o) => \E t \in {"idle", "found", "missing"} : Tabs(o, t)
         /\ ReportLog(o) => \E t \in {"rewritten", "written"} : Tabs(o, t)
         /\ FinishReport(o) => Tabs(o, "idle")
<1> USE DEF OperationPCs, TabPCs, Goes, Ends, Tabs
<1>1. operation[o].tab \in TabPCs /\ operation[o].pc \in OperationPCs
      /\ operation[o].told \in SUBSET LogNames /\ operation[o].kind \in OperationKinds
      /\ operation \in [Operations -> OperationRecord]
  BY DEF LogShapes, OperationRecord
<1>2. (EnqueueOperation(o) => Goes(o, "queued")) /\ (OfferItem(o) => Goes(o, "offered"))
  BY PcChanges DEF EnqueueOperation, OfferItem, OperationGoes
<1>3. ASSUME DropItem(o)
      PROVE  Goes(o, IF operation[o].pc = "queued" THEN "over" ELSE operation[o].pc)
  <2> DEFINE pc == IF operation[o].pc = "queued" THEN "over" ELSE operation[o].pc
  <2>1. pc \in OperationPCs
    BY <1>1
  <2>2. operation' = [operation EXCEPT ![o].pc = pc]
    BY <1>3 DEF DropItem
  <2> HIDE DEF pc
  <2>3. Goes(o, pc)
    BY <2>1, <2>2, PcChanges
  <2> QED  BY <2>3 DEF pc
<1>4. SendFiles(o) => Ends(o, "over", "nameless")
  BY BothChange DEF SendFiles
<1>5. RequestBreaks(o) => Tabs(o, "nameless")
  BY TabChanges DEF RequestBreaks, TabGoes
<1>6. ASSUME CheckReport(o)
      PROVE  \E t \in {"idle", "found", "missing"} : Tabs(o, t)
  <2> DEFINE tab == IF ~Runs(o) THEN "idle"
                    ELSE IF operation[o].tab = "report" /\ operation[o].told # {}
                            /\ operation[o].told \subseteq DOMAIN logs
                         THEN "found" ELSE "missing"
  <2>1. tab \in {"idle", "found", "missing"}
    OBVIOUS
  <2>2. operation' = [operation EXCEPT ![o].tab = tab]
    BY <1>6 DEF CheckReport
  <2> HIDE DEF tab
  <2>3. Tabs(o, tab)
    BY <2>1, <2>2, TabChanges
  <2> QED  BY <2>1, <2>3
<1>7. ReportLog(o) => \E t \in {"rewritten", "written"} : Tabs(o, t)
  BY TabChanges DEF ReportLog, TabGoes
<1>8. FinishReport(o) => Tabs(o, "idle")
  BY TabChanges DEF FinishReport, TabGoes
<1> QED  BY <1>2, <1>3, <1>4, <1>5, <1>6, <1>7, <1>8

LEMMA CopyChanges ==
  ASSUME LogShapes, NEW o \in Operations
  PROVE  /\ CopyStarts(o) => Goes(o, "work")
         /\ CopyProgress(o) => Same(o)
         /\ CopyEnds(o) => Goes(o, "over")
<1> USE DEF OperationPCs, Goes, Same
<1>1. CopyProgress(o) => Same(o)
  BY DEF LogShapes, CopyProgress, Changes
<1> QED
  BY <1>1, PcChanges DEF CopyStarts, CopyEnds, OperationGoes

(* Every step is one of an operation, which changes that alone, or of none.    *)
AllSame == operation' = operation
StepsOf(o) == JobLogStep(o) \/ QueueLogStep(o) \/ CopyLogStep(o)

LEMMA OperationsStep ==
  ASSUME LogShapes, [LogsNext]_logVars
  PROVE  AllSame \/ \E o \in Operations : StepsOf(o)
  BY DEF LogsNext, logVars, ListItems, ListNoLogs, AnswerPoll, ClearItems, ClearEnds, ListLog, ClearLog,
         AllSame, StepsOf

(* A log more is a candidate, or the list was full and stays so.              *)
Candidate(name, kept) ==
  /\ listing' = [listing EXCEPT !.owed = @ \ {name}, !.unread = @ \ {name}, !.candidates = kept]
  /\ kept \in SUBSET LogNames /\ IsFiniteSet(kept) /\ Cardinality(kept) <= ListLimit
  /\ \/ listing.candidates \subseteq kept /\ (name \in DOMAIN logs /\ ~HasLog(name) => name \in kept)
     \/ Cardinality(kept) = ListLimit
  /\ Full => Cardinality(kept) = ListLimit

LEMMA CandidateKept ==
  ASSUME LogShapes, NEW name \in LogNames, ListLog(name)
  PROVE  \E kept : Candidate(name, kept)
<1> DEFINE shown == {n \in {name} : n \in DOMAIN logs /\ ~HasLog(n)}
           more  == listing.candidates \cup shown
<1>1. PICK kept \in Newest(more) :
        listing' = [listing EXCEPT !.owed = @ \ {name}, !.unread = @ \ {name}, !.candidates = kept]
  BY DEF ListLog
<1>2. /\ listing.candidates \in SUBSET LogNames /\ IsFiniteSet(listing.candidates)
      /\ Cardinality(listing.candidates) \in Nat /\ Cardinality(listing.candidates) <= ListLimit
  BY FS_CardinalityType DEF LogShapes, ListingRecord
<1>3. shown = {} \/ shown = {name}
  OBVIOUS
<1>4. /\ more \in SUBSET LogNames /\ IsFiniteSet(more) /\ Cardinality(more) \in Nat
      /\ \/ more = listing.candidates
         \/ Cardinality(more) = Cardinality(listing.candidates) + 1
  <2>1. CASE shown \subseteq listing.candidates
    <3>1. more = listing.candidates
      BY <2>1
    <3> QED  BY <1>2, <3>1
  <2>2. CASE shown = {name} /\ name \notin listing.candidates
    <3>1. more = listing.candidates \cup {name}
      BY <2>2
    <3>2. IsFiniteSet(more) /\ Cardinality(more) = Cardinality(listing.candidates) + 1
      BY <1>2, <2>2, <3>1, FS_AddElement
    <3> QED  BY <1>2, <3>1, <3>2
  <2> QED  BY <1>3, <2>1, <2>2
<1>5. listing.candidates \subseteq more /\ (name \in DOMAIN logs /\ ~HasLog(name) => name \in more)
  OBVIOUS
<1> HIDE DEF shown, more
<1>6. CASE Cardinality(more) <= ListLimit
  <2>1. kept = more
    BY <1>1, <1>6 DEF Newest
  <2>2. Full => Cardinality(more) = ListLimit
    BY <1>2, <1>4, <1>6, OperationsAssumption DEF Full
  <2> QED  BY <1>1, <1>4, <1>5, <1>6, <2>1, <2>2 DEF Candidate
<1>7. CASE ~(Cardinality(more) <= ListLimit)
  <2>1. PICK n \in more : kept = more \ {n}
    BY <1>1, <1>7 DEF Newest
  <2>2. IsFiniteSet(kept) /\ Cardinality(kept) = Cardinality(more) - 1
    BY <1>4, <2>1, FS_RemoveElement
  <2>3. Cardinality(kept) = ListLimit
    BY <1>2, <1>4, <1>7, <2>2, OperationsAssumption
  <2>4. kept \in SUBSET LogNames
    BY <1>4, <2>1
  <2>5. Cardinality(kept) <= ListLimit
    BY <2>3, OperationsAssumption
  <2>6. Candidate(name, kept)
    BY <1>1, <2>2, <2>3, <2>4, <2>5 DEF Candidate
  <2> QED  BY <2>6
<1> QED  BY <1>6, <1>7

LEMMA ShapesStep ==
  ASSUME LogShapes, [LogsNext]_logVars
  PROVE  LogShapes'
<1>1. operation' \in [Operations -> OperationRecord]
  <2>1. CASE AllSame
    BY <2>1 DEF AllSame, LogShapes
  <2>2. ASSUME NEW o \in Operations, StepsOf(o)
        PROVE  operation' \in [Operations -> OperationRecord]
    BY <2>2, JobChanges, QueueChanges, CopyChanges
    DEF StepsOf, JobLogStep, QueueLogStep, CopyLogStep, Goes, Tabs, Ends, Hears, Same, Changes
  <2> QED  BY <2>1, <2>2, OperationsStep
<1>2. holder' \in SUBSET Operations
  BY DEF LogShapes, LogsNext, logVars, JobLogStep, QueueLogStep, CopyLogStep,
         TakeSlot, NameLog, SetTarget, AskFirst, LogOutcome, FreeSlot, AskLate, AskName, SettleItem,
         EnqueueOperation, OfferItem, DropItem, SendFiles, RequestBreaks, CheckReport, ReportLog,
         FinishReport, CopyStarts, CopyProgress, CopyEnds, ListItems, ListNoLogs, AnswerPoll, ClearItems,
         ClearEnds, ListLog, ClearLog
<1>3. logPath' \in SUBSET LogNames
  <2>1. logPath' = logPath \/ \E o \in Operations : NameLog(o)
    BY DEF LogsNext, logVars, JobLogStep, QueueLogStep, CopyLogStep,
         TakeSlot, SetTarget, AskFirst, LogOutcome, FreeSlot, AskLate, AskName, SettleItem,
         EnqueueOperation, OfferItem, DropItem, SendFiles, RequestBreaks, CheckReport, ReportLog,
         FinishReport, CopyStarts, CopyProgress, CopyEnds, ListItems, ListNoLogs, AnswerPoll, ClearItems,
         ClearEnds, ListLog, ClearLog
  <2>2. ASSUME NEW o \in Operations, NameLog(o)
        PROVE  logPath' \in SUBSET LogNames
    <3>1. {<<o, 1>>} \in SUBSET LogNames
      BY DEF LogNames
    <3> QED  BY <2>2, <3>1 DEF NameLog
  <2> QED  BY <2>1, <2>2 DEF LogShapes
<1>4. DOMAIN logs' \subseteq LogNames
  <2>1. ASSUME NEW o \in Operations, NEW name \in SUBSET LogNames, NEW running,
               WriteLog(o, name, running)
        PROVE  DOMAIN logs' \subseteq LogNames
    BY <2>1 DEF WriteLog, LogShapes
  <2>2. ASSUME NEW o \in Operations
        PROVE  {<<o, 1>>} \in SUBSET LogNames /\ {<<o, 2>>} \in SUBSET LogNames
               /\ {<<o, 3>>} \in SUBSET LogNames /\ operation[o].told \in SUBSET LogNames
    BY DEF LogNames, LogShapes, OperationRecord
  <2>3. logPath \in SUBSET LogNames
    BY DEF LogShapes
  <2>4. CASE logs' = logs
    BY <2>4 DEF LogShapes
  <2>5. ASSUME NEW o \in Operations, JobLogStep(o)
        PROVE  DOMAIN logs' \subseteq LogNames
    <3>1. (IF logPath = {} THEN {<<o, 2>>} ELSE logPath) \in SUBSET LogNames
      BY <2>2, <2>3
    <3> QED
      BY <1>3, <2>1, <2>3, <2>4, <2>5, <3>1
      DEF JobLogStep, TakeSlot, NameLog, SetTarget, AskFirst, LogOutcome, FreeSlot, AskLate, AskName,
          SettleItem
  <2>6. ASSUME NEW o \in Operations, QueueLogStep(o) \/ CopyLogStep(o)
        PROVE  DOMAIN logs' \subseteq LogNames
    BY <2>1, <2>2, <2>4, <2>6
    DEF QueueLogStep, CopyLogStep, EnqueueOperation, OfferItem, DropItem, SendFiles, RequestBreaks,
        CheckReport, ReportLog, FinishReport, CopyStarts, CopyProgress, CopyEnds
  <2>7. ASSUME NEW name \in LogNames, ClearLog(name)
        PROVE  DOMAIN logs' \subseteq LogNames
    BY <2>7 DEF ClearLog, Restrict, LogShapes
  <2> QED
    BY <2>4, <2>5, <2>6, <2>7
    DEF LogsNext, logVars, ListItems, ListNoLogs, AnswerPoll, ClearItems, ClearEnds, ListLog
<1>5. queue' \in [QueueSlots -> ItemRecord]
  <2>1. queue \in [QueueSlots -> ItemRecord]
    BY DEF LogShapes
  <2>2. CASE queue' = queue
    BY <2>1, <2>2
  <2>3. ASSUME NEW o \in Operations, NEW name \in SUBSET LogNames,
               FinishItem(o, name) \/ DeferItem(o, name)
        PROVE  queue' \in [QueueSlots -> ItemRecord]
    <3>1. CASE FinishItem(o, name)
      <4>1. \A s \in QueueSlots : queue'[s] \in ItemRecord
        BY <2>1, <3>1 DEF FinishItem, ItemRecord
      <4> QED  BY <3>1, <4>1 DEF FinishItem
    <3>2. CASE DeferItem(o, name)
      <4>1. \A s \in QueueSlots : queue'[s] \in ItemRecord
        BY <2>1, <3>2 DEF DeferItem, ItemRecord
      <4> QED  BY <3>2, <4>1 DEF DeferItem
    <3> QED  BY <2>3, <3>1, <3>2
  <2>4. ASSUME NEW o \in Operations
        PROVE  {<<o, 3>>} \in SUBSET LogNames /\ operation[o].told \in SUBSET LogNames
    BY DEF LogNames, LogShapes, OperationRecord
  <2>5. ASSUME NEW o \in Operations, JobLogStep(o)
        PROVE  queue' \in [QueueSlots -> ItemRecord]
    BY <2>2, <2>3, <2>4, <2>5
    DEF JobLogStep, TakeSlot, NameLog, SetTarget, AskFirst, LogOutcome, FreeSlot, AskLate, AskName,
        SettleItem
  <2>6. ASSUME NEW o \in Operations, EnqueueOperation(o)
        PROVE  queue' \in [QueueSlots -> ItemRecord]
    BY <2>1, <2>6 DEF EnqueueOperation, Taken, First, With, ItemRecord
  <2>7. ASSUME NEW o \in Operations, OfferItem(o) \/ DropItem(o)
        PROVE  queue' \in [QueueSlots -> ItemRecord]
    BY <2>1, <2>7 DEF OfferItem, DropItem, ItemsOf, ItemRecord
  <2>8. ASSUME NEW o \in Operations, QueueLogStep(o)
        PROVE  queue' \in [QueueSlots -> ItemRecord]
    BY <2>2, <2>3, <2>4, <2>6, <2>7, <2>8
    DEF QueueLogStep, SendFiles, RequestBreaks, CheckReport, ReportLog, FinishReport
  <2>9. CASE ClearItems
    BY <2>1, <2>9 DEF ClearItems, NoItem, ItemRecord
  <2> QED
    BY <2>2, <2>5, <2>8, <2>9
    DEF LogsNext, logVars, CopyLogStep, CopyStarts, CopyProgress, CopyEnds, ListItems, ListNoLogs, AnswerPoll,
        ClearEnds, ListLog, ClearLog
<1>6. listing' \in ListingRecord /\ IsFiniteSet(listing'.candidates)
      /\ Cardinality(listing'.candidates) <= ListLimit
  <2>1. listing' = listing \/ (\E o \in Operations : ListItems(o)) \/ listing' = NoPoll
        \/ \E name \in LogNames : ListLog(name)
    BY DEF LogsNext, logVars, JobLogStep, QueueLogStep, CopyLogStep,
         TakeSlot, NameLog, SetTarget, AskFirst, LogOutcome, FreeSlot, AskLate, AskName, SettleItem,
         EnqueueOperation, OfferItem, DropItem, SendFiles, RequestBreaks, CheckReport, ReportLog,
         FinishReport, CopyStarts, CopyProgress, CopyEnds, ListNoLogs, AnswerPoll, ClearItems,
         ClearEnds, ClearLog
  <2>2. listing \in ListingRecord /\ DOMAIN logs \subseteq LogNames
    BY DEF LogShapes
  <2>3. {} \in SUBSET LogNames /\ IsFiniteSet({}) /\ Cardinality({}) <= ListLimit
    BY FS_EmptySet, OperationsAssumption
  <2>4. ASSUME NEW o \in Operations, ListItems(o)
        PROVE  listing' \in ListingRecord /\ listing'.candidates = {}
    <3>1. OwnLogs(o) \cap DOMAIN logs \in SUBSET LogNames /\ {o} \in SUBSET Operations
          /\ (ItemsOf(o) # {}) \in BOOLEAN /\ LogNames \in SUBSET LogNames
      BY <2>2
    <3> QED  BY <2>3, <2>4, <3>1 DEF ListItems, ListingRecord
  <2>5. ASSUME NEW name \in LogNames, ListLog(name)
        PROVE  listing' \in ListingRecord /\ IsFiniteSet(listing'.candidates)
               /\ Cardinality(listing'.candidates) <= ListLimit
    <3>1. PICK kept : Candidate(name, kept)
      BY <2>5, CandidateKept
    <3>2. listing.owed \ {name} \in SUBSET LogNames /\ listing.unread \ {name} \in SUBSET LogNames
      BY <2>2 DEF ListingRecord
    <3> QED  BY <2>2, <3>1, <3>2 DEF Candidate, ListingRecord
  <2>6. NoPoll \in ListingRecord /\ NoPoll.candidates = {}
    BY DEF NoPoll, ListingRecord
  <2> QED  BY <2>1, <2>3, <2>4, <2>5, <2>6 DEF LogShapes
<1>7. clearing' \in [on : BOOLEAN, count : Nat] /\ (clearing'.on => clearing'.count > 0)
  <2>1. clearing' = clearing \/ ClearItems \/ ClearEnds
    BY DEF LogsNext, logVars, JobLogStep, QueueLogStep, CopyLogStep,
         TakeSlot, NameLog, SetTarget, AskFirst, LogOutcome, FreeSlot, AskLate, AskName, SettleItem,
         EnqueueOperation, OfferItem, DropItem, SendFiles, RequestBreaks, CheckReport, ReportLog,
         FinishReport, CopyStarts, CopyProgress, CopyEnds, ListNoLogs, AnswerPoll, ListItems,
         ListLog, ClearLog
  <2>2. clearing \in [on : BOOLEAN, count : Nat] /\ (clearing.on => clearing.count > 0)
    BY DEF LogShapes
  <2>3. CASE ClearItems
    BY <2>2, <2>3 DEF ClearItems
  <2>4. CASE ClearEnds
    BY <2>2, <2>4 DEF ClearEnds
  <2> QED  BY <2>1, <2>2, <2>3, <2>4
<1> QED  BY <1>1, <1>2, <1>3, <1>4, <1>5, <1>6, <1>7 DEF LogShapes

-----------------------------------------------------------------------------
(* The job slot, and the names operations are told.                         *)

LEMMA JobsStep ==
  ASSUME LogShapes, JobsHold, [LogsNext]_logVars
  PROVE  JobsHold'
<1> SUFFICES ASSUME NEW p \in Operations
             PROVE  Job(p)'
  BY DEF JobsHold
<1> USE DEF Job, AtJob
<1>0. Job(p)
  BY DEF JobsHold
<1>1. CASE operation'[p] = operation[p] /\ holder' = holder /\ logPath' = logPath
  BY <1>0, <1>1
<1>2. ASSUME NEW o \in Operations, o # p, StepsOf(o)
      PROVE  Job(p)'
  <2>1. operation'[p] = operation[p]
    BY <1>2, JobChanges, QueueChanges, CopyChanges
    DEF StepsOf, JobLogStep, QueueLogStep, CopyLogStep, Goes, Tabs, Ends, Hears, Same, Changes
  <2>2. Job(o)
    BY DEF JobsHold
  <2>3. CASE NameLog(o) \/ FreeSlot(o)
    <3>1. holder = {o}
      BY <2>2, <2>3 DEF NameLog, FreeSlot, OperationGoes
    <3> QED  BY <1>0, <1>2, <2>1, <3>1
  <2>4. CASE TakeSlot(o)
    BY <1>0, <2>1, <2>4 DEF TakeSlot
  <2> QED
    BY <1>1, <1>2, <2>1, <2>3, <2>4
    DEF StepsOf, JobLogStep, QueueLogStep, CopyLogStep, SetTarget, AskFirst, LogOutcome, AskLate, AskName,
        SettleItem, EnqueueOperation, OfferItem, DropItem, SendFiles, RequestBreaks, CheckReport,
        ReportLog, FinishReport, CopyStarts, CopyProgress, CopyEnds
<1>3. ASSUME JobLogStep(p)
      PROVE  Job(p)'
  <2> USE DEF Goes, Tabs, Ends, Hears, Same, Changes
  <2>1. CASE TakeSlot(p)
    <3>1. CASE holder = {}
      <4>1. Goes(p, "begun")
        BY <2>1, <3>1, PcChanges DEF TakeSlot, OperationPCs
      <4> QED  BY <2>1, <3>1, <4>1 DEF TakeSlot
    <3>2. CASE holder # {}
      <4>1. operation'[p].pc = "over"
        BY <2>1, <3>2 DEF TakeSlot, LogShapes, OperationRecord
      <4> QED  BY <4>1
    <3> QED  BY <3>1, <3>2
  <2>2. CASE NameLog(p)
    BY <1>0, <2>2, JobChanges DEF NameLog, OperationGoes
  <2>3. CASE SetTarget(p)
    BY <1>0, <2>3, JobChanges DEF SetTarget
  <2>4. CASE AskFirst(p) \/ AskLate(p)
    BY <1>0, <2>4, JobChanges DEF AskFirst, AskLate, AskName
  <2>5. CASE LogOutcome(p)
    BY <1>0, <2>5, JobChanges DEF LogOutcome, OperationGoes
  <2>6. CASE FreeSlot(p)
    <3>1. operation'[p].kind = operation[p].kind
          /\ operation'[p].pc = (IF operation[p].kind = "stream" THEN "freed" ELSE "over")
      BY <2>6, JobChanges
    <3> QED  BY <3>1
  <2>7. CASE SettleItem(p)
    BY <1>0, <2>7, JobChanges DEF SettleItem
  <2> QED  BY <1>3, <2>1, <2>2, <2>3, <2>4, <2>5, <2>6, <2>7 DEF JobLogStep
<1>4. ASSUME QueueLogStep(p) \/ CopyLogStep(p)
      PROVE  Job(p)'
  <2>1. holder' = holder /\ logPath' = logPath
    BY <1>4
    DEF QueueLogStep, CopyLogStep, EnqueueOperation, OfferItem, DropItem, SendFiles, RequestBreaks,
        CheckReport, ReportLog, FinishReport, CopyStarts, CopyProgress, CopyEnds
  <2>2. /\ operation'[p].kind = operation[p].kind
        /\ \/ operation'[p].pc = operation[p].pc
           \/ operation'[p].pc \in {"queued", "offered", "over"}
           \/ operation'[p].pc = "work" /\ operation[p].kind = "copy"
    BY <1>4, QueueChanges, CopyChanges
    DEF QueueLogStep, CopyLogStep, Goes, Tabs, Ends, Same, Changes, CopyStarts
  <2> QED  BY <1>0, <2>1, <2>2
<1>5. CASE AllSame /\ holder' = holder /\ logPath' = logPath
  BY <1>0, <1>5 DEF AllSame
<1> QED
  BY <1>2, <1>3, <1>4, <1>5
  DEF LogsNext, logVars, ListItems, ListNoLogs, AnswerPoll, ClearItems, ClearEnds, ListLog, ClearLog, AllSame, StepsOf

LEMMA ToldStep ==
  ASSUME LogShapes, JobsHold, ToldOnce, [LogsNext]_logVars
  PROVE  /\ ToldOnce'
         /\ \A p \in Operations : operation[p].told \in {{}, operation'[p].told}
         /\ Mistaken \subseteq Mistaken'
<1>1. ASSUME NEW p \in Operations
      PROVE  operation[p].told \in {{}, operation'[p].told}
             /\ (operation'[p].told # {} =>
                  \/ operation'[p].kind = "app" /\ operation'[p].pc \in {"work", "ended", "over"}
                  \/ operation'[p].kind = "stream" /\ operation'[p].pc \in {"told", "over"})
  <2> USE DEF Goes, Tabs, Ends, Hears, Same, Changes
  <2>0. Job(p) /\ (operation[p].told # {} =>
                  \/ operation[p].kind = "app" /\ operation[p].pc \in {"work", "ended", "over"}
                  \/ operation[p].kind = "stream" /\ operation[p].pc \in {"told", "over"})
    BY DEF JobsHold, ToldOnce
  <2>1. CASE operation'[p] = operation[p]
    BY <2>0, <2>1
  <2>2. ASSUME NEW o \in Operations, o # p, StepsOf(o)
        PROVE  operation'[p] = operation[p]
    BY <2>2, JobChanges, QueueChanges, CopyChanges
    DEF StepsOf, JobLogStep, QueueLogStep, CopyLogStep
  <2>3. ASSUME JobLogStep(p)
        PROVE  operation[p].told \in {{}, operation'[p].told}
               /\ (operation'[p].told # {} =>
                    \/ operation'[p].kind = "app" /\ operation'[p].pc \in {"work", "ended", "over"}
                    \/ operation'[p].kind = "stream" /\ operation'[p].pc \in {"told", "over"})
    BY <2>0, <2>3, JobChanges
    DEF Job, JobLogStep, TakeSlot, NameLog, OperationGoes, SetTarget, AskFirst, AskName, LogOutcome,
        FreeSlot, AskLate, SettleItem
  <2>4. ASSUME QueueLogStep(p)
        PROVE  operation[p].told \in {{}, operation'[p].told}
               /\ (operation'[p].told # {} =>
                    \/ operation'[p].kind = "app" /\ operation'[p].pc \in {"work", "ended", "over"}
                    \/ operation'[p].kind = "stream" /\ operation'[p].pc \in {"told", "over"})
    BY <2>0, <2>4, QueueChanges
    DEF QueueLogStep, EnqueueOperation, OfferItem, DropItem, SendFiles, RequestBreaks, OperationGoes
  <2>5. ASSUME CopyLogStep(p)
        PROVE  operation[p].told \in {{}, operation'[p].told}
               /\ (operation'[p].told # {} =>
                    \/ operation'[p].kind = "app" /\ operation'[p].pc \in {"work", "ended", "over"}
                    \/ operation'[p].kind = "stream" /\ operation'[p].pc \in {"told", "over"})
    BY <2>0, <2>5, CopyChanges
    DEF CopyLogStep, CopyStarts, CopyEnds, OperationGoes
  <2> QED  BY <2>1, <2>2, <2>3, <2>4, <2>5, OperationsStep DEF AllSame, StepsOf
<1>2. ToldOnce' /\ \A p \in Operations : operation[p].told \in {{}, operation'[p].told}
  BY <1>1 DEF ToldOnce
<1>3. Mistaken \subseteq Mistaken'
  BY <1>1 DEF Mistaken
<1> QED  BY <1>2, <1>3

-----------------------------------------------------------------------------
(* What is written to a log is of the operation that writes.                  *)

(* The names an operation may write to under the text it writes.             *)
Wrote(o, name, running) ==
  /\ DOMAIN logs' = DOMAIN logs \cup name
  /\ \A n \in name : logs'[n].of = o /\ logs'[n].running = running
  /\ \A n \in DOMAIN logs \ name : logs'[n] = logs[n]

LEMMA WriteIsWrote ==
  ASSUME NEW o, NEW name, NEW running, WriteLog(o, name, running)
  PROVE  Wrote(o, name, running)
  BY DEF WriteLog, Wrote

(* Who writes a log: its own, or one that it was told of.                     *)
MayWrite(o, name) == name \subseteq OwnLogs(o) \cup operation[o].told

LEMMA WritersOwn ==
  ASSUME LogShapes, JobsHold, NEW o \in Operations, StepsOf(o)
  PROVE  \/ logs' = logs
         \/ \E name \in SUBSET LogNames, running \in BOOLEAN :
              /\ MayWrite(o, name) /\ Wrote(o, name, running)
              /\ running => /\ name \subseteq {<<o, 1>>} /\ operation'[o].pc \in {"asks", "work"}
                            /\ operation[o].kind # "copy" => name = logPath'
<1> USE DEF MayWrite
<1>0. Job(o) /\ operation[o].told \in SUBSET LogNames /\ logPath \in SUBSET LogNames
      /\ {<<o, 1>>} \in SUBSET LogNames /\ {<<o, 2>>} \in SUBSET LogNames
      /\ {<<o, 3>>} \in SUBSET LogNames
      /\ {<<o, 1>>} \subseteq OwnLogs(o) /\ {<<o, 2>>} \subseteq OwnLogs(o)
      /\ {<<o, 3>>} \subseteq OwnLogs(o)
  BY DEF JobsHold, LogShapes, OperationRecord, LogNames, OwnLogs
<1>1. CASE NameLog(o)
  <2>1. logPath' \subseteq {<<o, 1>>} /\ logPath' \in SUBSET LogNames /\ Wrote(o, logPath', TRUE)
    BY <1>0, <1>1, WriteIsWrote DEF NameLog
  <2>2. operation'[o].pc \in {"asks", "work"}
    BY <1>1, JobChanges DEF Goes, Changes
  <2> QED  BY <1>0, <2>1, <2>2
<1>2. CASE SetTarget(o)
  <2>1. logPath \subseteq {<<o, 1>>} /\ logPath' = logPath /\ Wrote(o, logPath, TRUE)
    BY <1>0, <1>2, WriteIsWrote DEF SetTarget, Job, AtJob
  <2>2. operation'[o].pc = "work"
    BY <1>2, JobChanges DEF Same, Changes, SetTarget
  <2> QED  BY <1>0, <2>1, <2>2
<1>3. CASE LogOutcome(o)
  <2>1. logPath \subseteq {<<o, 1>>}
    BY <1>0, <1>3 DEF LogOutcome, Job, AtJob, OperationGoes
  <2>2. Wrote(o, IF logPath = {} THEN {<<o, 2>>} ELSE logPath, FALSE)
    BY <1>3, WriteIsWrote DEF LogOutcome
  <2> QED  BY <1>0, <2>1, <2>2
<1>4. CASE ReportLog(o)
  <2>1. Wrote(o, operation[o].told, FALSE) \/ Wrote(o, {<<o, 3>>}, FALSE)
    BY <1>4, WriteIsWrote DEF ReportLog
  <2> QED  BY <1>0, <2>1
<1>5. CASE CopyLogStep(o)
  <2>1. CASE CopyEnds(o)
    <3>1. Wrote(o, {<<o, 1>>}, FALSE)
      BY <2>1, WriteIsWrote DEF CopyEnds
    <3> QED  BY <1>0, <3>1
  <2>2. CASE CopyStarts(o) \/ CopyProgress(o)
    <3>1. Wrote(o, {<<o, 1>>}, TRUE) /\ operation[o].kind = "copy"
      BY <2>2, WriteIsWrote DEF CopyStarts, CopyProgress
    <3>2. operation'[o].pc = "work"
      BY <2>2, CopyChanges DEF Goes, Same, Changes, CopyProgress
    <3> QED  BY <1>0, <3>1, <3>2
  <2> QED  BY <1>5, <2>1, <2>2 DEF CopyLogStep
<1> QED
  BY <1>1, <1>2, <1>3, <1>4, <1>5
  DEF StepsOf, JobLogStep, QueueLogStep, TakeSlot, AskFirst, FreeSlot, AskLate, AskName, SettleItem,
      EnqueueOperation, OfferItem, DropItem, SendFiles, RequestBreaks, CheckReport, FinishReport

(* Another operation's step leaves a log alone whose name nobody else was told. *)
LEMMA OthersWrite ==
  ASSUME LogShapes, JobsHold, NEW o \in Operations, NEW p \in Operations \ Mistaken, p # o,
         StepsOf(o), NEW n \in OwnLogs(p) \cap DOMAIN logs'
  PROVE  n \in DOMAIN logs /\ logs'[n] = logs[n]
<1>1. CASE logs' = logs
  BY <1>1
<1>2. ASSUME NEW name \in SUBSET LogNames, NEW running \in BOOLEAN, MayWrite(o, name),
             Wrote(o, name, running)
      PROVE  n \in DOMAIN logs /\ logs'[n] = logs[n]
  <2>1. n \notin OwnLogs(o) /\ n \notin operation[o].told
    BY DEF OwnLogs, Mistaken
  <2> QED  BY <1>2, <2>1 DEF MayWrite, Wrote
<1> QED  BY <1>1, <1>2, WritersOwn

LEMMA TellsStep ==
  ASSUME LogShapes, JobsHold, ToldOnce, LogsTell, [LogsNext]_logVars
  PROVE  LogsTell'
<1> SUFFICES ASSUME NEW p \in Operations, p \notin Mistaken', NEW n \in OwnLogs(p),
                    n \in DOMAIN logs'
             PROVE  LogTells(p, n)'
  BY DEF LogsTell, OwnLogs
<1>0. p \in Operations \ Mistaken /\ Job(p) /\ (n \in DOMAIN logs => LogTells(p, n))
  BY ToldStep DEF LogsTell, JobsHold
<1>1. ASSUME NEW o \in Operations, o # p, StepsOf(o)
      PROVE  LogTells(p, n)'
  <2>1. n \in DOMAIN logs /\ logs'[n] = logs[n]
    BY <1>0, <1>1, OthersWrite
  <2>2. operation'[p] = operation[p]
    BY <1>1, JobChanges, QueueChanges, CopyChanges
    DEF StepsOf, JobLogStep, QueueLogStep, CopyLogStep, Goes, Tabs, Ends, Hears, Same, Changes
  <2>3. AtJob(p) => logPath' = logPath
    <3>1. CASE NameLog(o)
      <4>1. holder = {o}
        BY <3>1 DEF JobsHold, Job, NameLog, OperationGoes
      <4> QED  BY <1>0, <1>1, <4>1 DEF Job
    <3> QED
      BY <1>1, <3>1
      DEF StepsOf, JobLogStep, QueueLogStep, CopyLogStep, TakeSlot, SetTarget, AskFirst, LogOutcome,
          FreeSlot, AskLate, AskName, SettleItem, EnqueueOperation, OfferItem, DropItem, SendFiles,
          RequestBreaks, CheckReport, ReportLog, FinishReport, CopyStarts, CopyProgress, CopyEnds
  <2> QED  BY <1>0, <2>1, <2>2, <2>3 DEF LogTells, Runner, AtJob
<1>2. ASSUME StepsOf(p)
      PROVE  LogTells(p, n)'
  <2>1. PICK name \in SUBSET LogNames, running \in BOOLEAN :
          \/ logs' = logs /\ name = {}
          \/ /\ MayWrite(p, name) /\ Wrote(p, name, running)
             /\ running => /\ name \subseteq {<<p, 1>>} /\ operation'[p].pc \in {"asks", "work"}
                           /\ operation[p].kind # "copy" => name = logPath'
    BY <1>2, WritersOwn
  <2>2. operation'[p].kind = operation[p].kind
    BY <1>2, JobChanges, QueueChanges, CopyChanges
    DEF StepsOf, JobLogStep, QueueLogStep, CopyLogStep, Goes, Tabs, Ends, Hears, Same, Changes
  <2>3. CASE n \in name
    BY <2>1, <2>2, <2>3 DEF Wrote, LogTells, Runner, AtJob
  <2>4. CASE n \notin name
    <3>1. n \in DOMAIN logs /\ logs'[n] = logs[n]
      BY <2>1, <2>4 DEF Wrote
    <3>2. SUFFICES ASSUME logs[n].running
                   PROVE  Runner(p, n)'
      BY <1>0, <3>1 DEF LogTells
    <3>3. Runner(p, n)
      BY <1>0, <3>1, <3>2 DEF LogTells
    <3>4. CASE LogOutcome(p)
      <4>1. n \in (IF logPath = {} THEN {<<p, 2>>} ELSE logPath)
        BY <3>3, <3>4 DEF LogOutcome, Runner, AtJob, OperationGoes
      <4>2. Wrote(p, IF logPath = {} THEN {<<p, 2>>} ELSE logPath, FALSE)
        BY <3>4, WriteIsWrote DEF LogOutcome
      <4>3. logs'[n].running = FALSE
        BY <4>1, <4>2 DEF Wrote
      <4> QED  BY <3>1, <3>2, <4>3
    <3>5. CASE CopyEnds(p)
      <4>1. Wrote(p, {<<p, 1>>}, FALSE)
        BY <3>5, WriteIsWrote DEF CopyEnds
      <4>2. logs'[n].running = FALSE
        BY <3>3, <4>1 DEF Wrote, Runner
      <4> QED  BY <3>1, <3>2, <4>2
    <3>6. CASE operation'[p].pc \in {"asks", "work"} /\ logPath' = logPath
      BY <3>3, <3>6, <2>2 DEF Runner, AtJob
    <3>7. logPath' = logPath
      BY <1>2, <3>3
      DEF Runner, OperationGoes,
          StepsOf, JobLogStep, QueueLogStep, CopyLogStep, TakeSlot, NameLog, SetTarget, AskFirst, LogOutcome,
          FreeSlot, AskLate, AskName, SettleItem, EnqueueOperation, OfferItem, DropItem, SendFiles,
          RequestBreaks, CheckReport, ReportLog, FinishReport, CopyStarts, CopyProgress, CopyEnds
    <3>8. LogOutcome(p) \/ CopyEnds(p) \/ operation'[p].pc \in {"asks", "work"}
      BY <1>2, <3>3, JobChanges, QueueChanges, CopyChanges
      DEF Runner, StepsOf, JobLogStep, QueueLogStep, CopyLogStep, Goes, Tabs, Ends, Hears, Same, Changes,
          TakeSlot, NameLog, SetTarget, AskFirst, OperationGoes, FreeSlot, AskLate, AskName, SettleItem,
          EnqueueOperation, OfferItem, SendFiles, CopyStarts, CopyProgress
    <3> QED  BY <3>4, <3>5, <3>6, <3>7, <3>8
  <2> QED  BY <2>3, <2>4
<1>3. ASSUME NEW name \in LogNames, ClearLog(name)
      PROVE  LogTells(p, n)'
  <2>1. n \in DOMAIN logs /\ logs'[n] = logs[n]
    BY <1>3 DEF ClearLog, Restrict
  <2> QED  BY <1>0, <1>3, <2>1 DEF ClearLog, LogTells, Runner, AtJob
<1>4. CASE AllSame /\ logs' = logs /\ logPath' = logPath
  BY <1>0, <1>4 DEF AllSame, LogTells, Runner, AtJob
<1> QED
  BY <1>1, <1>2, <1>3, <1>4
  DEF LogsNext, logVars, ListItems, ListNoLogs, AnswerPoll, ClearItems, ClearEnds, ListLog, AllSame, StepsOf

LEMMA OutcomesStep ==
  ASSUME LogShapes, JobsHold, OutcomesStay, [LogsNext]_logVars
  PROVE  OutcomesStay'
<1> SUFFICES ASSUME NEW p \in Operations, operation'[p].pc = "ended", clearing'.count = 0
             PROVE  OwnLogs(p) \cap DOMAIN logs' # {}
  BY DEF OutcomesStay, OwnLogs
<1>1. clearing.count = 0
  <2>1. clearing' = clearing \/ ClearItems \/ ClearEnds
    BY DEF LogsNext, logVars, JobLogStep, QueueLogStep, CopyLogStep,
         TakeSlot, NameLog, SetTarget, AskFirst, LogOutcome, FreeSlot, AskLate, AskName, SettleItem,
         EnqueueOperation, OfferItem, DropItem, SendFiles, RequestBreaks, CheckReport, ReportLog,
         FinishReport, CopyStarts, CopyProgress, CopyEnds, ListNoLogs, AnswerPoll, ListItems,
         ListLog, ClearLog
  <2> QED  BY <2>1 DEF LogShapes, ClearItems, ClearEnds
<1>2. DOMAIN logs \subseteq DOMAIN logs'
  <2>1. ASSUME NEW o \in Operations, StepsOf(o)
        PROVE  DOMAIN logs \subseteq DOMAIN logs'
    BY <2>1, WritersOwn DEF Wrote
  <2>2. ASSUME NEW name \in LogNames, ClearLog(name)
        PROVE  FALSE
    BY <1>1, <2>2 DEF ClearLog, LogShapes
  <2> QED
    BY <2>1, <2>2
    DEF LogsNext, logVars, ListItems, ListNoLogs, AnswerPoll, ClearItems, ClearEnds, ListLog, StepsOf
<1>3. CASE operation[p].pc = "ended"
  BY <1>1, <1>2, <1>3 DEF OutcomesStay
<1>4. CASE LogOutcome(p)
  <2> DEFINE name == IF logPath = {} THEN {<<p, 2>>} ELSE logPath
  <2>1. logPath \subseteq {<<p, 1>>}
    BY <1>4 DEF JobsHold, Job, AtJob, LogOutcome, OperationGoes
  <2>2. {<<p, 1>>} \subseteq OwnLogs(p) /\ {<<p, 2>>} \subseteq OwnLogs(p)
    BY DEF OwnLogs
  <2>3. name # {} /\ name \subseteq OwnLogs(p)
    BY <2>1, <2>2
  <2>4. Wrote(p, name, FALSE)
    BY <1>4, WriteIsWrote DEF LogOutcome
  <2>5. DOMAIN logs' = DOMAIN logs \cup name
    BY <2>4 DEF Wrote
  <2> QED  BY <2>3, <2>5
<1>5. operation[p].pc = "ended" \/ LogOutcome(p)
  <2>1. CASE operation'[p] = operation[p]
    BY <2>1
  <2>2. ASSUME NEW o \in Operations, o # p, StepsOf(o)
        PROVE  operation'[p] = operation[p]
    BY <2>2, JobChanges, QueueChanges, CopyChanges
    DEF StepsOf, JobLogStep, QueueLogStep, CopyLogStep, Goes, Tabs, Ends, Hears, Same, Changes
  <2>3. ASSUME StepsOf(p)
        PROVE  operation[p].pc = "ended" \/ LogOutcome(p)
    BY <2>3, JobChanges, QueueChanges, CopyChanges
    DEF StepsOf, JobLogStep, QueueLogStep, CopyLogStep, Goes, Tabs, Ends, Hears, Same, Changes
  <2> QED  BY <2>1, <2>2, <2>3, OperationsStep DEF AllSame
<1> QED  BY <1>3, <1>4, <1>5

-----------------------------------------------------------------------------
(* The items, and the answers to polls.                                      *)

(* What an item that is finished or deferred keeps and gets.                 *)
LEMMA ItemEnds ==
  ASSUME LogShapes, NEW o \in Operations, NEW name, NEW s \in QueueSlots,
         FinishItem(o, name) \/ DeferItem(o, name)
  PROVE  queue'[s].of = queue[s].of /\ queue'[s].log \in {queue[s].log, name}
<1>1. queue[s] \in ItemRecord
  BY DEF LogShapes
<1>2. CASE FinishItem(o, name)
  <2> DEFINE log == IF name = {} THEN queue[s].log ELSE name
  <2>1. log \in {queue[s].log, name}
    OBVIOUS
  <2>2. queue'[s] = queue[s] \/ queue'[s] = [queue[s] EXCEPT !.status = "over", !.log = log]
    BY <1>2 DEF FinishItem
  <2> HIDE DEF log
  <2> QED  BY <1>1, <2>1, <2>2 DEF ItemRecord
<1>3. CASE DeferItem(o, name)
  <2>1. queue'[s] = queue[s] \/ queue'[s] = [queue[s] EXCEPT !.log = name]
    BY <1>3 DEF DeferItem
  <2> QED  BY <1>1, <2>1 DEF ItemRecord
<1> QED  BY <1>2, <1>3

LEMMA ItemsStep ==
  ASSUME LogShapes, JobsHold, ToldOnce, ItemsTell, [LogsNext]_logVars
  PROVE  ItemsTell'
<1>0. ASSUME NEW it, NEW jt, ItemTells(it), jt.of = it.of, jt.log = it.log
      PROVE  ItemTells(jt)'
  BY <1>0, ToldStep DEF ItemTells
<1>1. ASSUME NEW jt, jt.log = {}
      PROVE  ItemTells(jt)'
  BY <1>1 DEF ItemTells
<1>2. ASSUME NEW p \in Operations, NEW jt, jt.of = {p},
             jt.log \subseteq operation[p].told \cup {<<p, 3>>}
      PROVE  ItemTells(jt)'
  BY <1>2, ToldStep DEF ItemTells
<1> SUFFICES ASSUME NEW s \in QueueSlots
             PROVE  ItemTells(queue[s])'
  BY DEF ItemsTell
<1> DEFINE it == queue[s]
           jt == queue'[s]
<1>3. ItemTells(it) /\ queue[s] \in ItemRecord /\ queue \in [QueueSlots -> ItemRecord]
  BY DEF ItemsTell, LogShapes
<1>4. CASE queue' = queue
  BY <1>0, <1>3, <1>4
<1>5. ASSUME NEW o \in Operations, NEW name, name \in {operation[o].told, {<<o, 3>>}},
             FinishItem(o, name) \/ DeferItem(o, name)
      PROVE  ItemTells(queue[s])'
  <2>1. CASE s \notin ItemsOf(o) \/ jt = it
    BY <1>0, <1>3, <1>5, <2>1 DEF FinishItem, DeferItem
  <2>2. CASE s \in ItemsOf(o) /\ jt # it
    <3>1. jt.of = it.of /\ jt.log \in {it.log, name}
      BY <1>5, ItemEnds
    <3>2. CASE jt.log = it.log
      BY <1>0, <1>3, <3>1, <3>2
    <3>3. CASE jt.log = name
      BY <1>2, <1>5, <2>2, <3>1, <3>3 DEF ItemsOf
    <3> QED  BY <3>1, <3>2, <3>3
  <2> QED  BY <2>1, <2>2
<1>6. ASSUME NEW o \in Operations, EnqueueOperation(o)
      PROVE  ItemTells(queue[s])'
  <2>1. jt = it \/ jt.log = {}
    BY <1>3, <1>6 DEF EnqueueOperation, Taken, First, With
  <2> QED  BY <1>0, <1>1, <1>3, <2>1
<1>7. ASSUME NEW o \in Operations, OfferItem(o) \/ DropItem(o)
      PROVE  ItemTells(queue[s])'
  <2>1. jt.of = it.of /\ jt.log = it.log
    BY <1>3, <1>7 DEF OfferItem, DropItem, ItemsOf, ItemRecord
  <2> QED  BY <1>0, <1>3, <2>1
<1>8. CASE ClearItems
  <2>1. jt = it \/ jt.log = {}
    BY <1>8 DEF ClearItems, NoItem
  <2> QED  BY <1>0, <1>1, <1>3, <2>1
<1>9. ASSUME NEW o \in Operations, StepsOf(o)
      PROVE  ItemTells(queue[s])'
  BY <1>4, <1>5, <1>6, <1>7, <1>9
  DEF StepsOf, JobLogStep, QueueLogStep, CopyLogStep, TakeSlot, NameLog, SetTarget, AskFirst, LogOutcome,
      FreeSlot, AskLate, AskName, SettleItem, SendFiles, RequestBreaks, CheckReport, ReportLog,
      FinishReport, CopyStarts, CopyProgress, CopyEnds
<1> QED
  BY <1>4, <1>8, <1>9
  DEF LogsNext, logVars, ListItems, ListNoLogs, AnswerPoll, ClearEnds, ListLog, ClearLog, StepsOf

(* An operation that is over takes no more steps, and gets no item.           *)
LEMMA EndedStays ==
  ASSUME LogShapes, NEW p \in Operations, Ended(p), [LogsNext]_logVars
  PROVE  Ended(p)' /\ (ItemsOf(p) = {} => ItemsOf(p)' = {})
<1>1. Ended(p)'
  <2>1. ASSUME NEW o \in Operations, o # p, StepsOf(o)
        PROVE  operation'[p] = operation[p]
    BY <2>1, JobChanges, QueueChanges, CopyChanges
    DEF StepsOf, JobLogStep, QueueLogStep, CopyLogStep, Goes, Tabs, Ends, Hears, Same, Changes
  <2>2. ASSUME StepsOf(p)
        PROVE  DropItem(p)
    BY <2>2
    DEF Ended, StepsOf, JobLogStep, QueueLogStep, CopyLogStep, TakeSlot, NameLog, SetTarget, AskFirst,
        LogOutcome, FreeSlot, AskLate, AskName, SettleItem, SendFiles, RequestBreaks, CheckReport,
        ReportLog, FinishReport, CopyStarts, CopyProgress, CopyEnds, EnqueueOperation, OfferItem,
        OperationGoes, TabGoes
  <2>3. CASE DropItem(p)
    BY <2>3, QueueChanges DEF Ended, Goes, Changes
  <2> QED  BY <2>1, <2>2, <2>3, OperationsStep DEF AllSame, Ended
<1>2. ASSUME ItemsOf(p) = {}, NEW s \in QueueSlots, queue'[s].of = {p}
      PROVE  FALSE
  <2>0. queue[s].of # {p} /\ queue \in [QueueSlots -> ItemRecord] /\ queue[s] \in ItemRecord
    BY <1>2 DEF ItemsOf, LogShapes
  <2>1. ASSUME NEW o \in Operations, StepsOf(o)
        PROVE  queue'[s].of = queue[s].of \/ EnqueueOperation(o)
    <3>1. CASE OfferItem(o) \/ DropItem(o)
      BY <2>0, <3>1 DEF OfferItem, DropItem, ItemsOf, ItemRecord
    <3>2. CASE SettleItem(o) \/ FinishReport(o)
      BY <3>2, ItemEnds DEF SettleItem, FinishReport
    <3>3. CASE queue' = queue
      BY <3>3
    <3> QED
      BY <2>1, <3>1, <3>2, <3>3
      DEF StepsOf, JobLogStep, QueueLogStep, CopyLogStep, TakeSlot, NameLog, SetTarget, AskFirst,
          LogOutcome, FreeSlot, AskLate, AskName, SendFiles, RequestBreaks, CheckReport, ReportLog,
          CopyStarts, CopyProgress, CopyEnds
  <2>2. ASSUME NEW o \in Operations, EnqueueOperation(o)
        PROVE  queue'[s].of \in {queue[s].of, {o}} /\ o # p
    BY <2>0, <2>2 DEF EnqueueOperation, Ended, OperationGoes, Taken, First, With
  <2>3. CASE ClearItems
    BY <1>2, <2>0, <2>3 DEF ClearItems, NoItem
  <2>4. CASE queue' = queue
    BY <1>2, <2>0, <2>4
  <2> QED
    BY <1>2, <2>0, <2>1, <2>2, <2>3, <2>4
    DEF LogsNext, logVars, ListItems, ListNoLogs, AnswerPoll, ClearEnds, ListLog, ClearLog, StepsOf
<1> QED  BY <1>1, <1>2 DEF ItemsOf

LEMMA PollsStep ==
  ASSUME LogShapes, JobsHold, ToldOnce, ItemsTell, PollsFollow, [LogsNext]_logVars
  PROVE  PollsFollow'
<1>1. ASSUME NEW o \in Operations, ListItems(o)
      PROVE  PollsFollow'
  <2>1. listing'.of = {o} /\ listing'.owed = OwnLogs(o) \cap DOMAIN logs
        /\ listing'.item = (ItemsOf(o) # {})
    BY <1>1 DEF ListItems
  <2>2. Ended(o)' /\ logs' = logs /\ queue' = queue /\ ~clearing'.on
    BY <1>1 DEF ListItems, Ended
  <2>3. listing'.item \/ (listing'.owed # {} /\ ItemsOf(o)' = {})
    BY <1>1, <2>1, <2>2 DEF ListItems, ItemsOf
  <2> QED  BY <2>1, <2>2, <2>3 DEF PollsFollow, Followed, Answers, OwnLogs
<1>2. CASE ListNoLogs \/ AnswerPoll \/ ClearItems
  BY <1>2 DEF ListNoLogs, AnswerPoll, ClearItems, PollsFollow
<1>3. ASSUME listing # NoPoll, listing'.of = listing.of, listing'.owed \subseteq listing.owed,
             DOMAIN logs \subseteq DOMAIN logs', ~clearing'.on,
             \A o \in Operations : Followed(o) =>
               Answers(o)' \/ o \in Mistaken \/ (listing'.owed # {} /\ ItemsOf(o) = {})
      PROVE  PollsFollow'
  <2>1. PICK o \in Operations : Followed(o)
    BY <1>3 DEF PollsFollow
  <2>2. Ended(o)' /\ (ItemsOf(o) = {} => ItemsOf(o)' = {})
    BY <2>1, EndedStays DEF Followed
  <2>3. o \in Mistaken => o \in Mistaken'
    BY ToldStep
  <2>4. Followed(o)'
    BY <1>3, <2>1, <2>2, <2>3 DEF Followed, OwnLogs
  <2> QED  BY <1>3, <2>4 DEF PollsFollow
<1>4. ASSUME NEW name \in LogNames, ListLog(name)
      PROVE  PollsFollow'
  <2>1. listing # NoPoll /\ logs' = logs /\ clearing' = clearing
    BY <1>4 DEF ListLog, NoPoll
  <2>2. PICK kept : Candidate(name, kept)
    BY <1>4, CandidateKept
  <2>5. /\ listing'.of = listing.of /\ listing'.item = listing.item
        /\ listing'.owed = listing.owed \ {name} /\ listing'.candidates = kept
    BY <2>2 DEF Candidate, LogShapes, ListingRecord
  <2>3. ASSUME NEW o \in Operations, Followed(o), ItemsOf(o) = {}, HasLog(name), name \in OwnLogs(o)
        PROVE  o \in Mistaken
    <3>1. PICK s \in QueueSlots : queue[s].log = {name}
      BY <2>3 DEF HasLog
    <3>2. PICK p \in Operations : queue[s].of = {p} /\ (name \in operation[p].told \/ name = <<p, 3>>)
      BY <3>1 DEF ItemsTell, ItemTells
    <3>3. name \in OwnLogs(o)
      BY <2>3
    <3>4. p # o
      BY <2>3, <3>2 DEF ItemsOf
    <3>5. name # <<p, 3>>
      BY <3>3, <3>4 DEF OwnLogs
    <3> QED  BY <3>2, <3>3, <3>4, <3>5 DEF Mistaken
  <2>4. ASSUME NEW o \in Operations, Followed(o)
        PROVE  Answers(o)' \/ o \in Mistaken \/ (listing'.owed # {} /\ ItemsOf(o) = {})
    <3>1. CASE Answers(o)
      <4>1. OwnLogs(o)' = OwnLogs(o)
        BY DEF OwnLogs
      <4>2. listing.candidates \subseteq kept \/ Cardinality(kept) = ListLimit
        BY <2>2 DEF Candidate
      <4>3. Full => Cardinality(kept) = ListLimit
        BY <2>2 DEF Candidate
      <4> QED  BY <2>5, <3>1, <4>1, <4>2, <4>3 DEF Answers, Full
    <3>2. CASE name \notin listing.owed /\ listing.owed # {} /\ ItemsOf(o) = {}
      BY <2>5, <3>2
    <3>3. CASE name \in listing.owed /\ ItemsOf(o) = {} /\ o \notin Mistaken
      <4>1. name \in OwnLogs(o) /\ name \in DOMAIN logs
        BY <2>4, <3>3 DEF Followed
      <4>2. ~HasLog(name)
        BY <2>3, <2>4, <3>3, <4>1
      <4>3. name \in kept \/ Cardinality(kept) = ListLimit
        BY <2>2, <4>1, <4>2 DEF Candidate
      <4>4. OwnLogs(o)' = OwnLogs(o)
        BY DEF OwnLogs
      <4> QED  BY <2>5, <4>1, <4>3, <4>4 DEF Answers, Full
    <3> QED  BY <2>4, <3>1, <3>2, <3>3 DEF Followed
  <2>6. listing'.owed \subseteq listing.owed /\ ~clearing'.on
    BY <2>1, <2>5 DEF PollsFollow
  <2> QED  BY <1>3, <2>1, <2>4, <2>5, <2>6
<1>5. ASSUME listing' = listing, DOMAIN logs \subseteq DOMAIN logs', clearing' = clearing
      PROVE  PollsFollow'
  <2>1. CASE listing = NoPoll
    BY <1>5, <2>1 DEF PollsFollow, NoPoll
  <2>2. CASE listing # NoPoll
    <3>1. \A o \in Operations : Answers(o) => Answers(o)'
      BY <1>5 DEF Answers, Full, OwnLogs
    <3> QED  BY <1>3, <1>5, <2>2, <3>1 DEF PollsFollow, Followed
  <2> QED  BY <2>1, <2>2
<1>6. ASSUME NEW o \in Operations, StepsOf(o)
      PROVE  PollsFollow'
  <2>1. DOMAIN logs \subseteq DOMAIN logs'
    BY <1>6, WritersOwn DEF Wrote
  <2>2. listing' = listing /\ clearing' = clearing
    BY <1>6
    DEF StepsOf, JobLogStep, QueueLogStep, CopyLogStep, TakeSlot, NameLog, SetTarget, AskFirst, LogOutcome,
        FreeSlot, AskLate, AskName, SettleItem, EnqueueOperation, OfferItem, DropItem, SendFiles,
        RequestBreaks, CheckReport, ReportLog, FinishReport, CopyStarts, CopyProgress, CopyEnds
  <2> QED  BY <1>5, <2>1, <2>2
<1>7. CASE ClearEnds \/ \E name \in LogNames : ClearLog(name)
  <2>1. listing = NoPoll /\ listing' = listing
    BY <1>7 DEF PollsFollow, ClearEnds, ClearLog
  <2> QED  BY <2>1 DEF PollsFollow, NoPoll
<1> QED
  BY <1>1, <1>2, <1>4, <1>5, <1>6, <1>7 DEF LogsNext, logVars, StepsOf

-----------------------------------------------------------------------------
(* The theorems.                                                            *)

THEOREM LogsInvariant == LogsSpec => []LogsInv
<1>1. LogsInv /\ [LogsNext]_logVars => LogsInv'
  BY ShapesStep, JobsStep, ToldStep, TellsStep, OutcomesStep, ItemsStep, PollsStep DEF LogsInv
<1> QED  BY <1>1, LogsInitInv, PTL DEF LogsSpec

(* Operations, logs, items and polls keep their shape, for any number of      *)
(* operations of any kinds and any size of the queue.                       *)
THEOREM LogsTypeCorrect == LogsSpec => []LogsTypeOK
<1>1. LogsInv => LogsTypeOK
  BY DEF LogsInv, LogShapes, OperationRecord, ItemRecord, LogsTypeOK
<1> QED  BY <1>1, LogsInvariant, PTL

(* However operations overlap in the slot, the queue and the directory, a log   *)
(* tells of its own operation and stops saying "running" with it.             *)
THEOREM LogsAreTheirOwn == LogsSpec => []LogsTellOfTheirOwn
<1>1. LogsInv => LogsTellOfTheirOwn
  BY DEF LogsInv, LogsTell, LogTells, Runner, OutcomesStay, LogsTellOfTheirOwn
<1> QED  BY <1>1, LogsInvariant, PTL

(* What was over when a poll began is in its answer, as an item or as a log, or *)
(* the answer has as many logs as were asked for: however items are finished    *)
(* and slots used again while the directory is read.                          *)
THEOREM ListsAreComplete == LogsSpec => []NothingDropsOut
<1>1. LogsInv => NothingDropsOut
  BY DEF LogsInv, PollsFollow, Followed, Answers, Full, InAnswer, NothingDropsOut
<1> QED  BY <1>1, LogsInvariant, PTL
=============================================================================
