------------------------------ MODULE Requests -------------------------------
(***************************************************************************)
(* What lies between a user and the handlers of the server, one machine at a    *)
(* time: the file list of a tab (Browser), and the connections that carry its   *)
(* requests (HttpServer).  They share no variable; a behaviour is one of them,   *)
(* and the other stays as it is.                                              *)
(***************************************************************************)
EXTENDS Browser, HttpServer

VARIABLE view   \* the one that runs

RequestsInit ==
  \/ view = "browser" /\ BrowserInit /\ HttpInit
  \/ view = "http" /\ BrowserInit /\ side = "paths" /\ HttpInit

Browses(A) == view = "browser" /\ A /\ UNCHANGED <<view, httpVars>>
Serves(A)  == view = "http" /\ A /\ UNCHANGED <<view, browserVars>>

RequestsNext == Browses(BrowserNext) \/ Serves(HttpNext)

(* The fairness is that of FairBrowserSpec and FairHttpSpec. *)
RequestsSpec ==
  /\ RequestsInit /\ [][RequestsNext]_<<view, browserVars, httpVars>>
  /\ WF_browserVars(Browses(Poll)) /\ WF_browserVars(Browses(Reveals))
  /\ WF_browserVars(Browses(AlarmRings))
  /\ WF_browserVars(Browses(\E i \in DOMAIN lists : ListStep(i)))
  /\ WF_browserVars(Browses(\E i \in DOMAIN acts : Answers(i) \/ ActEnds(i)))
  /\ WF_httpVars(Serves(ListenerStep))
  /\ \A c \in Conns : WF_httpVars(Serves(ClientThread(c)))
=============================================================================
