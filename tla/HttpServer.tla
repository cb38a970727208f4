----------------------------- MODULE HttpServer ------------------------------
(***************************************************************************)
(* The server itself: the thread that listens and accepts, one thread for      *)
(* each connection, and the request that makes the server stop.  The threads   *)
(* of a process share its descriptors: open and accept give the lowest number   *)
(* that is free, and close takes a number, whoever has it by now.              *)
(*                                                                          *)
(* A request is a stream of units: a head, a body of the length the head gives, *)
(* and what the other side may send after it.  recv brings some units, or ends   *)
(* with the stream or an error.  Where the head ends and what it asks for is     *)
(* chosen when its end is found.                                             *)
(***************************************************************************)
EXTENDS Naturals, FiniteSets

CONSTANTS Conns,
          Body,               \* bound: units of a body
          HEADER_MAX,         \* units the buffer of the head holds
          Descriptors,        \* bound: numbers a descriptor may have
          None,               \* -1, and no connection
          MaxListens          \* bound: times the port is opened

ASSUME HttpAssumption ==
  /\ Body \in Nat /\ HEADER_MAX \in Nat \ {0}
  /\ Descriptors \subseteq Nat /\ None \notin Descriptors /\ MaxListens \in Nat

VARIABLES
  fds,      \* descriptors of the process: who has opened it
  srvfd,    \* g_websrv_srvfd
  exit,     \* g_websrv_exit_requested
  listener, \* the thread of websrv_listen
  conn,     \* connections, with the thread that serves each
  stray     \* history: where a descriptor was closed that another had opened

httpVars == <<fds, srvfd, exit, listener, conn, stray>>

Free   == <<>>
Listening == <<"listen">>
Owners == {Free, Listening} \cup (Conns \X {"socket", "file"})
Fds  == Descriptors \cup {None}

Listener == [pc : {"start", "publish", "loop", "accept", "spawn", "failed", "closing", "sleep",
                   "ending", "last", "returns", "over"},
             fd : Fds, new : Conns \cup {None}, times : 0 .. MaxListens]

(* page: one answer, be it that there is no such page; file: a download; upload: *)
(* a file, taken from the body; stop: the shutdown request; other: a handler of    *)
(* another component (archives, apps, the queue), whose work is its own matter.   *)
RequestKinds == {"page", "file", "upload", "stop", "other"}
(* used: units received, of the head and then past it.  took: units the handler *)
(* was given for the body.  file: the descriptor the handler works on.         *)
Conn == [pc : {"none", "waiting", "accepted", "head", "dispatch", "body", "handler", "open", "stream",
               "closefile", "stop", "stopping", "answer", "close", "done"},
         kind : RequestKinds, size : 0 .. Body, used : 0 .. HEADER_MAX + Body,
         took : SUBSET (1 .. HEADER_MAX + Body), fd : Fds, file : Fds,
         said : {"nothing", "ok", "error"}]

NewConn == [pc |-> "none", kind |-> "page", size |-> 0, used |-> 0, took |-> {},
            fd |-> None, file |-> None, said |-> "nothing"]

HttpInit ==
  /\ fds = [n \in Descriptors |-> Free] /\ srvfd = None /\ exit = FALSE
  /\ listener = [pc |-> "start", fd |-> None, new |-> None, times |-> 0]
  /\ conn = [c \in Conns |-> NewConn]
  /\ stray = {}

Runs == listener.pc # "over"   \* main has returned, and the threads end with the process

FreeFds == {n \in Descriptors : fds[n] = Free}
Lowest  == CHOOSE n \in FreeFds : \A m \in FreeFds : n <= m

(* close(n) by the one that opened it as "who", at the place "here".           *)
CloseFd(n, who, here) ==
  /\ fds' = [fds EXCEPT ![n] = Free]
  /\ stray' = IF fds[n] \in {who, Free} THEN stray ELSE stray \cup {here}

----------------------------------------------------------------------------
(* websrv_listen, and the loop of main around it.                            *)

ListenerAt(pc) == listener' = [listener EXCEPT !.pc = pc]

(* socket, setsockopt, bind, listen: any may fail.                            *)
Listen ==
  /\ listener.pc = "start" /\ listener.times < MaxListens
  /\ \/ /\ FreeFds # {}
        /\ fds' = [fds EXCEPT ![Lowest] = Listening]
        /\ listener' = [listener EXCEPT !.pc = "publish", !.fd = Lowest, !.times = @ + 1]
     \/ /\ listener' = [listener EXCEPT !.pc = "sleep", !.times = @ + 1]
        /\ UNCHANGED fds
  /\ UNCHANGED <<srvfd, exit, conn, stray>>

Publish ==
  /\ listener.pc = "publish" /\ srvfd' = listener.fd /\ ListenerAt("loop")
  /\ UNCHANGED <<fds, exit, conn, stray>>

LoopTest ==
  /\ listener.pc = "loop" /\ ListenerAt(IF exit THEN "ending" ELSE "accept")
  /\ UNCHANGED <<fds, srvfd, exit, conn, stray>>

Accept(c) ==
  /\ listener.pc = "accept" /\ fds[listener.fd] = Listening
  /\ conn[c].pc = "waiting" /\ FreeFds # {}
  /\ fds' = [fds EXCEPT ![Lowest] = <<c, "socket">>]
  /\ conn' = [conn EXCEPT ![c].pc = "accepted", ![c].fd = Lowest]
  /\ listener' = [listener EXCEPT !.pc = "spawn", !.new = c]
  /\ UNCHANGED <<srvfd, exit, stray>>

(* A signal or a connection given up: accept again.  Whatever else goes wrong,   *)
(* as it does when the socket is shut, closed or no socket any more, ends it.    *)
AcceptFails ==
  /\ listener.pc = "accept"
  /\ IF exit THEN ListenerAt("returns") ELSE ListenerAt("loop") \/ ListenerAt("failed")
  /\ UNCHANGED <<fds, srvfd, exit, conn, stray>>

Spawn ==
  /\ listener.pc = "spawn"
  /\ LET c == listener.new
     IN \/ conn' = [conn EXCEPT ![c].pc = "head"] /\ UNCHANGED <<fds, stray>>
        \/ /\ CloseFd(conn[c].fd, <<c, "socket">>, "spawn")
           /\ conn' = [conn EXCEPT ![c].pc = "done"]
  /\ listener' = [listener EXCEPT !.pc = "loop", !.new = None]
  /\ UNCHANGED <<srvfd, exit>>

(* Mutant: the socket is closed though the one who stops the server took it. *)
FailedAlways ==
  /\ listener.pc = "failed"
  /\ srvfd' = None
  /\ ListenerAt("closing")
  /\ UNCHANGED <<fds, exit, conn, stray>>

(* Whoever takes the socket out of g_websrv_srvfd closes it.                   *)
Failed ==
  /\ listener.pc = "failed"
  /\ srvfd' = None
  /\ ListenerAt(IF srvfd = listener.fd THEN "closing" ELSE "sleep")
  /\ UNCHANGED <<fds, exit, conn, stray>>

FailedCloses ==
  /\ listener.pc = "closing"
  /\ CloseFd(listener.fd, Listening, "closing") /\ ListenerAt("sleep")
  /\ UNCHANGED <<srvfd, exit, conn>>

(* The loop ends: the socket is closed, and nobody asks who took it.           *)
Ending ==
  /\ listener.pc = "ending" /\ srvfd' = None /\ ListenerAt("last")
  /\ UNCHANGED <<fds, exit, conn, stray>>

LastClose ==
  /\ listener.pc = "last"
  /\ CloseFd(listener.fd, Listening, "last") /\ ListenerAt("returns")
  /\ UNCHANGED <<srvfd, exit, conn>>

(* main: returns if it was asked to stop, else it listens again.               *)
Sleep ==
  /\ listener.pc = "sleep" /\ ListenerAt(IF exit THEN "returns" ELSE "start")
  /\ UNCHANGED <<fds, srvfd, exit, conn, stray>>

(* The connections are served until main has returned.                        *)
MainReturns ==
  /\ listener.pc = "returns" /\ ListenerAt("over")
  /\ UNCHANGED <<fds, srvfd, exit, conn, stray>>

ListenerStep ==
  \/ Listen \/ Publish \/ LoopTest \/ (\E c \in Conns : Accept(c)) \/ Spawn
  \/ Failed \/ FailedCloses \/ Ending \/ LastClose \/ Sleep \/ MainReturns
  \/ exit /\ AcceptFails

----------------------------------------------------------------------------
(* Another connects.                                                         *)

Connect(c) ==
  /\ conn[c].pc = "none" /\ srvfd # None
  /\ conn' = [conn EXCEPT ![c].pc = "waiting"]
  /\ UNCHANGED <<fds, srvfd, exit, listener, stray>>

----------------------------------------------------------------------------
(* client_thread.                                                            *)

At(c, pc) == Runs /\ conn[c].pc = pc

(* recv into what is left of the buffer: the head ends within what has come, or  *)
(* goes on.  No buffer, an error or the end of the stream closes the connection. *)
ReadHead(c) ==
  /\ At(c, "head")
  /\ \/ \E n \in conn[c].used + 1 .. HEADER_MAX :
          \/ conn' = [conn EXCEPT ![c].used = n]
          \/ \E end \in conn[c].used + 1 .. n, kind \in RequestKinds, size \in 0 .. Body :
               /\ kind = "upload" \/ size = 0
               /\ conn' = [conn EXCEPT ![c].used = n - end, ![c].kind = kind, ![c].size = size,
                                      ![c].pc = "dispatch"]
     \/ conn' = [conn EXCEPT ![c].pc = "close"]
     \/ /\ conn[c].used = HEADER_MAX
        /\ conn' = [conn EXCEPT ![c].pc = "answer", ![c].said = "error"]
  /\ UNCHANGED <<fds, srvfd, exit, listener, stray>>

(* Mutant: what was read past the body is taken for a part of it. *)
InitialUncut(c) == 1 .. conn[c].used

(* What has been read of the body along with the head, and not what follows it. *)
Initial(c) == 1 .. conn[c].used \cap 1 .. conn[c].size

Dispatch(c) ==
  /\ At(c, "dispatch")
  /\ conn' = [conn EXCEPT
       ![c].pc = CASE conn[c].kind = "upload" -> "body" [] conn[c].kind = "file" -> "open"
                   [] conn[c].kind = "other" -> "handler" [] OTHER -> "answer",
       ![c].took = IF conn[c].kind = "upload" THEN Initial(c) ELSE {},
       ![c].said = "ok"]
  /\ UNCHANGED <<fds, srvfd, exit, listener, stray>>

(* The handler of an upload receives what is left of the body, never more.      *)
ReadBody(c) ==
  /\ At(c, "body")
  /\ \/ /\ Cardinality(conn[c].took) >= conn[c].size
        /\ conn' = [conn EXCEPT ![c].pc = "answer"]
     \/ \E n \in 1 .. conn[c].size :
          /\ n + Cardinality(conn[c].took) <= conn[c].size
          /\ conn' = [conn EXCEPT ![c].used = @ + n,
                                 ![c].took = @ \cup (conn[c].used + 1 .. conn[c].used + n)]
     \/ /\ Cardinality(conn[c].took) < conn[c].size
        /\ conn' = [conn EXCEPT ![c].pc = "answer", ![c].said = "error"]
  /\ UNCHANGED <<fds, srvfd, exit, listener, stray>>

(* The other handlers end as their own modules say, or keep the thread for good.  *)
HandlerEnds(c) ==
  /\ At(c, "handler") /\ conn' = [conn EXCEPT ![c].pc = "answer"]
  /\ UNCHANGED <<fds, srvfd, exit, listener, stray>>

(* file_request: with no descriptor left, or no file, an error.                 *)
OpenFile(c) ==
  /\ At(c, "open")
  /\ \/ /\ FreeFds # {}
        /\ fds' = [fds EXCEPT ![Lowest] = <<c, "file">>]
        /\ conn' = [conn EXCEPT ![c].pc = "stream", ![c].file = Lowest]
     \/ /\ conn' = [conn EXCEPT ![c].pc = "answer", ![c].said = "error"]
        /\ UNCHANGED fds
  /\ UNCHANGED <<srvfd, exit, listener, stray>>

(* Head and pieces go out, to the end of the file or the first failure.         *)
Stream(c) ==
  /\ At(c, "stream")
  /\ \E said \in {"ok", "error"} :
       conn' = [conn EXCEPT ![c].pc = "closefile", ![c].said = said]
  /\ UNCHANGED <<fds, srvfd, exit, listener, stray>>

CloseFile(c) ==
  /\ At(c, "closefile")
  /\ CloseFd(conn[c].file, <<c, "file">>, "closefile")
  /\ conn' = [conn EXCEPT ![c].pc = "close", ![c].file = None]
  /\ UNCHANGED <<srvfd, exit, listener>>

Answer(c) ==
  /\ At(c, "answer")
  /\ conn' = [conn EXCEPT ![c].pc =
                IF conn[c].kind = "stop" /\ conn[c].said = "ok" THEN "stop" ELSE "close"]
  /\ UNCHANGED <<fds, srvfd, exit, listener, stray>>

(* websrv_request_exit: takes the socket under the lock, and closes it after it. *)
TakeSocket(c) ==
  /\ At(c, "stop")
  /\ exit' = TRUE /\ srvfd' = None
  /\ conn' = [conn EXCEPT ![c].file = srvfd,
                          ![c].pc = IF srvfd = None THEN "close" ELSE "stopping"]
  /\ UNCHANGED <<fds, listener, stray>>

CloseSocket(c) ==
  /\ At(c, "stopping")
  /\ CloseFd(conn[c].file, Listening, "stopping")
  /\ conn' = [conn EXCEPT ![c].pc = "close", ![c].file = None]
  /\ UNCHANGED <<srvfd, exit, listener>>

(* Mutant: a connection whose head never came is left open. *)
CloseConnIfAnswered(c) ==
  /\ At(c, "close") /\ conn[c].said # "nothing"
  /\ CloseFd(conn[c].fd, <<c, "socket">>, "close")
  /\ conn' = [conn EXCEPT ![c] = [NewConn EXCEPT !.pc = "done"]]
  /\ UNCHANGED <<srvfd, exit, listener>>

CloseConn(c) ==
  /\ At(c, "close")
  /\ CloseFd(conn[c].fd, <<c, "socket">>, "close")
  /\ conn' = [conn EXCEPT ![c] = [NewConn EXCEPT !.pc = "done"]]
  /\ UNCHANGED <<srvfd, exit, listener>>

ClientThread(c) ==
  \/ ReadHead(c) \/ Dispatch(c) \/ ReadBody(c) \/ OpenFile(c) \/ Stream(c) \/ CloseFile(c)
  \/ Answer(c) \/ TakeSocket(c) \/ CloseSocket(c) \/ CloseConn(c)

----------------------------------------------------------------------------
HttpNext ==
  \/ ListenerStep \/ AcceptFails
  \/ \E c \in Conns : Connect(c) \/ ClientThread(c) \/ HandlerEnds(c)

HttpSpec == HttpInit /\ [][HttpNext]_httpVars

(* The threads run; whoever connects sends the request, or goes, so that recv     *)
(* returns.  Nothing is said of the other handlers.                            *)
FairHttpSpec ==
  /\ HttpSpec
  /\ WF_httpVars(ListenerStep)
  /\ \A c \in Conns : WF_httpVars(ClientThread(c))

----------------------------------------------------------------------------
(* The shape of the descriptors, the threads and the connections.              *)
HttpTypeOK ==
  /\ fds \in [Descriptors -> Owners] /\ srvfd \in Fds /\ exit \in BOOLEAN
  /\ listener \in Listener /\ conn \in [Conns -> Conn]

(* Threads that open, accept and close at the same time close what they have     *)
(* opened themselves, for as long as the server serves: also when the listening    *)
(* socket fails, or a request takes it to stop the server while others are read.   *)
(* When the accept loop has ended after such a request that is so no more: its     *)
(* last close and the request's may both close the socket, and the number has      *)
(* perhaps been given out again in between.                                    *)
ClosesItsOwn == stray # {} => exit /\ listener.pc \in {"returns", "over"}

(* However the stream is cut into pieces, an upload that is answered as good has  *)
(* been given its body: all of it, and nothing of what was sent after it.        *)
BodyIsWhole ==
  \A c \in Conns : conn[c].kind = "upload" /\ conn[c].pc = "close" /\ conn[c].said = "ok" =>
                     conn[c].took = 1 .. conn[c].size

(* A connection that is accepted is closed, whatever is sent on it and whatever   *)
(* becomes of the listening socket, or the process ends; one that another          *)
(* component's handler serves is closed when that handler ends.  The server        *)
(* itself keeps no thread, only a client that neither sends nor goes does.         *)
ConnectionsEnd ==
  \A c \in Conns : conn[c].pc \in {"head", "answer"} ~>
                     (conn[c].pc \in {"handler", "done"} \/ listener.pc = "over")
=============================================================================
