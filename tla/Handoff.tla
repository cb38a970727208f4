------------------------------- MODULE Handoff -------------------------------
(***************************************************************************)
(* Reinjection: instances of the program take the port over from one        *)
(* another.  A new instance asks whoever answers on the port for its status, *)
(* for its job and then to shut down, waits until nobody answers, and        *)
(* listens.  Each question is a request of its own with a timeout of one     *)
(* second; browsers start jobs meanwhile.                                   *)
(*                                                                          *)
(* Jobs are of two kinds: those that hold the job slot, and those apart from *)
(* it (copy, move, delete, chmod, checksum and plain uploads).  main's return *)
(* ends the process and every job thread in it.                              *)
(***************************************************************************)
EXTENDS Naturals, FiniteSets

CONSTANTS Instances,
          Old,         \* the instance that serves at first
          PortShared   \* SO_REUSEPORT lets a second instance bind the port

ASSUME HandoffAssumption == Old \in Instances /\ PortShared \in BOOLEAN

JobKinds == {"slot", "apart"}

VARIABLES
  inst,      \* where each instance's main is
  running,       \* the kinds of job each instance is running
  stoppers,  \* history: who had each instance shut down
  before,    \* history: jobs begun before an instance's busy check was over, that still run
  saidIdle,  \* history: the servers that answered an instance's busy check with idle
  quiet      \* history: no request timed out, no accept failed, no two injections met

handoffVars == <<inst, running, stoppers, before, saidIdle, quiet>>

InstancePCs == {"new", "probe", "busy", "shutdown", "wait", "listen", "serving",
        "stopping", "closed", "gone"}

HandoffInit ==
  /\ inst = [i \in Instances |-> IF i = Old THEN "serving" ELSE "new"]
  /\ running = [i \in Instances |-> {}]
  /\ stoppers = [i \in Instances |-> {}]
  /\ before = [i \in Instances |-> {}]
  /\ saidIdle = [i \in Instances |-> {}]
  /\ quiet = TRUE

Goto(i, pc) == inst' = [inst EXCEPT ![i] = pc]

(* Whose accept loop can answer a request to the port.                      *)
Listening == {s \in Instances : inst[s] \in {"serving", "stopping"}}

(* local_http_get fails: nobody listens, or the answer takes over a second.  *)
NoAnswer == quiet' = (quiet /\ Listening = {})

----------------------------------------------------------------------------
(* The new instance.                                                        *)

Inject(i) ==
  /\ inst[i] = "new"
  /\ Goto(i, "probe")
  /\ before' = [before EXCEPT ![i] = {job \in Instances \X JobKinds : job[2] \in running[job[1]]}]
  /\ quiet' = (quiet /\ \A s \in Instances : inst[s] \in {"new", "serving", "gone"})
  /\ UNCHANGED <<running, stoppers, saidIdle>>

(* GET /api/status: without an answer the instance just starts.             *)
ProbeOld(i) ==
  /\ inst[i] = "probe"
  /\ \/ Listening # {} /\ Goto(i, "busy") /\ UNCHANGED quiet
     \/ NoAnswer /\ Goto(i, "listen")
  /\ UNCHANGED <<running, stoppers, before, saidIdle>>

(* Mutant: the answer is not looked at. *)
SaysNothing(s) == FALSE

(* GET /api/fs/job/status: the job slot is all it shows.                    *)
SaysBusy(s) == "slot" \in running[s]

(* old_server_busy: no answer counts as idle.                               *)
BusyCheck(i) ==
  /\ inst[i] = "busy"
  /\ \/ \E s \in Listening :
          /\ UNCHANGED quiet
          /\ IF SaysBusy(s)
               THEN /\ Goto(i, "gone") /\ UNCHANGED saidIdle
                    /\ before' = [before EXCEPT ![i] = {}]
               ELSE /\ Goto(i, "shutdown") /\ saidIdle' = [saidIdle EXCEPT ![i] = {s}]
                    /\ UNCHANGED before
     \/ NoAnswer /\ Goto(i, "shutdown") /\ UNCHANGED <<before, saidIdle>>
  /\ UNCHANGED <<running, stoppers>>

(* Mutant: the answer is taken for the end of the old server. *)
ShutdownAnsweredAndDown(i) ==
  /\ inst[i] = "shutdown"
  /\ \E s \in Listening :
       /\ inst' = [inst EXCEPT ![i] = "listen", ![s] = "stopping"]
       /\ stoppers' = [stoppers EXCEPT ![s] = @ \cup {i}]
  /\ UNCHANGED <<running, before, saidIdle, quiet>>

(* GET /api/control/shutdown: the server answers, then stops.               *)
ShutdownAnswered(i) ==
  /\ inst[i] = "shutdown"
  /\ \E s \in Listening :
       /\ inst' = [inst EXCEPT ![i] = "wait", ![s] = "stopping"]
       /\ stoppers' = [stoppers EXCEPT ![s] = @ \cup {i}]
  /\ UNCHANGED <<running, before, saidIdle, quiet>>

(* No answer in time, though the server may have stopped: give up.           *)
ShutdownLost(i) ==
  /\ inst[i] = "shutdown"
  /\ NoAnswer
  /\ \/ Goto(i, "gone") /\ UNCHANGED stoppers
     \/ \E s \in Listening :
          /\ inst' = [inst EXCEPT ![i] = "gone", ![s] = "stopping"]
          /\ stoppers' = [stoppers EXCEPT ![s] = @ \cup {i}]
  /\ UNCHANGED <<running, before, saidIdle>>

(* wait_for_old_server_down: a request that fails is taken for the end of    *)
(* the old server.                                                          *)
Down(i) ==
  /\ inst[i] = "wait"
  /\ NoAnswer /\ Goto(i, "listen")
  /\ UNCHANGED <<running, stoppers, before, saidIdle>>

(* After 30 answers the new instance gives up.                              *)
StillUp(i) ==
  /\ inst[i] = "wait" /\ Listening # {}
  /\ Goto(i, "gone") /\ quiet' = FALSE
  /\ UNCHANGED <<running, stoppers, before, saidIdle>>

(* bind, listen; main tries again every few seconds while the port is taken. *)
Listen(i) ==
  /\ inst[i] = "listen"
  /\ PortShared \/ Listening = {}
  /\ Goto(i, "serving")
  /\ UNCHANGED <<running, stoppers, before, saidIdle, quiet>>

----------------------------------------------------------------------------
(* The server.                                                              *)

(* accept fails for good: websrv_listen returns, main calls it again.        *)
AcceptFails(s) ==
  /\ inst[s] = "serving"
  /\ Goto(s, "listen") /\ quiet' = FALSE
  /\ UNCHANGED <<running, stoppers, before, saidIdle>>

(* websrv_request_exit: the listening socket is closed, accept returns.      *)
StopListening(s) ==
  /\ inst[s] = "stopping"
  /\ Goto(s, "closed")
  /\ UNCHANGED <<running, stoppers, before, saidIdle, quiet>>

(* Mutant: main goes on listening. *)
MainListensOn(s) ==
  /\ inst[s] = "closed"
  /\ Goto(s, "listen")
  /\ UNCHANGED <<running, stoppers, before, saidIdle, quiet>>

(* main breaks out of its loop and returns.                                 *)
MainReturns(s) ==
  /\ inst[s] = "closed"
  /\ Goto(s, "gone")
  /\ running' = [running EXCEPT ![s] = {}]
  /\ before' = [i \in Instances |-> {job \in before[i] : job[1] # s}]
  /\ UNCHANGED <<stoppers, saidIdle, quiet>>

(* A browser's request starts a job; a request that was accepted in time is  *)
(* served after the listener was closed.                                    *)
StartJob(s, k) ==
  /\ inst[s] \in {"serving", "stopping", "closed"}
  /\ k \notin running[s]
  /\ running' = [running EXCEPT ![s] = @ \cup {k}]
  /\ before' = [i \in Instances |->
                  before[i] \cup (IF inst[i] \in {"probe", "busy"} THEN {<<s, k>>} ELSE {})]
  /\ UNCHANGED <<inst, stoppers, saidIdle, quiet>>

EndJob(s, k) ==
  /\ k \in running[s]
  /\ running' = [running EXCEPT ![s] = @ \ {k}]
  /\ before' = [i \in Instances |-> before[i] \ {<<s, k>>}]
  /\ UNCHANGED <<inst, stoppers, saidIdle, quiet>>

----------------------------------------------------------------------------
HandoffStep(i) ==
  \/ ProbeOld(i) \/ BusyCheck(i) \/ ShutdownAnswered(i) \/ ShutdownLost(i)
  \/ Down(i) \/ StillUp(i) \/ Listen(i)

ServerStops(s) == StopListening(s) \/ MainReturns(s)

InstanceStep(i) == HandoffStep(i) \/ ServerStops(i)

HandoffNext == \E i \in Instances :
          \/ Inject(i) \/ InstanceStep(i) \/ AcceptFails(i)
          \/ \E k \in JobKinds : StartJob(i, k) \/ EndJob(i, k)

HandoffSpec == HandoffInit /\ [][HandoffNext]_handoffVars

(* Every instance runs on: each request is answered or times out, a server    *)
(* that was told to stop stops.  Nobody has to inject or start a job.        *)
FairHandoffSpec == HandoffSpec /\ \A i \in Instances : WF_handoffVars(InstanceStep(i))

----------------------------------------------------------------------------
(* The state stays in the ranges of the code's variables; only an instance   *)
(* that listens, or has listened and not returned, runs jobs.               *)
HandoffTypeOK ==
  /\ inst \in [Instances -> InstancePCs]
  /\ running \in [Instances -> SUBSET JobKinds]
  /\ \A i \in Instances :
       running[i] # {} => inst[i] \in {"serving", "stopping", "closed", "listen"}
  /\ stoppers \in [Instances -> SUBSET Instances]
  /\ before \in [Instances -> SUBSET (Instances \X JobKinds)]
  /\ saidIdle \in [Instances -> SUBSET Instances]
  /\ quiet \in BOOLEAN

(* Never two instances serve the port, not even between an answer to a         *)
(* shutdown and its effect, while the handoff is quiet.  Each of its three      *)
(* conditions is needed where the port can be shared: a request that times out, *)
(* an accept that fails, and a second injection before the first is through all *)
(* let an instance find nobody on a port that another one is about to open.     *)
AtMostOneServer == quiet => Cardinality(Listening) <= 1

(* docs/FIRMWARE_TESTING.md:148: reinjection leaves one reachable server,     *)
(* idle or not, however the jobs come and go.                               *)
OneServerInTheEnd ==
  <>[](quiet => Cardinality({s \in Instances : inst[s] = "serving"}) = 1)

(* A shutdown ends no job of that kind that had begun before the instance that   *)
(* asked for it had its answer to the busy check: in quiet handoffs, and in any *)
(* other if this server gave that answer.                                    *)
Spares(k) ==
  \A s, i \in Instances :
    MainReturns(s) /\ i \in stoppers[s] /\ (quiet \/ s \in saidIdle[i])
      => <<s, k>> \notin before[i]

(* What the busy check is for: a job that holds the slot outlives a reinjection *)
(* if it began before the check was answered, before the injection or after.    *)
(* One that begins later does not: nothing holds the slot between the answer    *)
(* and the end of the process (lite_main.c:300-309), and main returns over it.  *)
(* Nor does one that the check missed because its answer came too late.         *)
ReinjectionSparesJobs == [][Spares("slot")]_handoffVars

(* docs/FIRMWARE_TESTING.md:149: "Reinjection during active copy does not    *)
(* kill the active job."                                                    *)
ReinjectionSparesCopies == [][Spares("apart")]_handoffVars
=============================================================================
