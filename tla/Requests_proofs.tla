--------------------------- MODULE Requests_proofs ---------------------------
(***************************************************************************)
(* Proofs about the two machines that Requests composes.                    *)
(*                                                                          *)
(* HttpServer, for any number of connections and descriptors: nobody closes   *)
(* another's descriptor as long as the server serves, and an upload answered   *)
(* as good was given its whole body.                                        *)
(*                                                                          *)
(* Browser, for any folders and names: an operation is asked for under a path  *)
(* that was shown when it was clicked, whatever listings and operations were  *)
(* under way.                                                               *)
(***************************************************************************)
EXTENDS Browser, HttpServer, SequenceTheorems, FiniteSetTheorems, WellFoundedInduction, TLAPS

-----------------------------------------------------------------------------
(* HttpServer: the inductive invariant.                                     *)

Has(n, who) == n \in Descriptors /\ fds[n] = who

(* The connection's socket, and the file that is sent on it.                 *)
ConnsOwn ==
  \A c \in Conns :
    /\ conn[c].pc \notin {"none", "waiting", "done"} => Has(conn[c].fd, <<c, "socket">>)
    /\ conn[c].pc \in {"stream", "closefile"} => Has(conn[c].file, <<c, "file">>)

Stopping(c) == conn[c].pc = "stopping"

(* Nobody who stops the server is about to close the descriptor n.           *)
Untaken(n) == \A c \in Conns : Stopping(c) => conn[c].file # n

(* Each listening socket has one thread that will close it: the request that  *)
(* took it out of srvfd, the listener, or whoever takes it from srvfd next.   *)
StoppersOwn ==
  /\ \A c \in Conns : Stopping(c) => Has(conn[c].file, Listening)
  /\ \A c, d \in Conns : Stopping(c) /\ Stopping(d) /\ conn[c].file = conn[d].file => c = d
ListenerOwns ==
  /\ listener.pc \notin {"start", "sleep"} => listener.fd \in Descriptors
  /\ listener.pc \in {"start", "sleep", "publish", "closing", "last"} => srvfd = None
  /\ listener.pc \in {"ending", "last"} => exit
  /\ listener.pc \in {"publish", "closing"} =>
       Has(listener.fd, Listening) /\ Untaken(listener.fd)
  /\ listener.pc = "spawn" => listener.new \in Conns /\ conn[listener.new].pc = "accepted"
  /\ srvfd # None => /\ srvfd = listener.fd /\ Has(srvfd, Listening) /\ Untaken(srvfd)

(* Until the accept loop has ended and main returns.                         *)
Serving == listener.pc \notin {"returns", "over"}

Owned == Serving => ConnsOwn /\ StoppersOwn /\ ListenerOwns

(* What is known of a request where it is served, and what its handler has    *)
(* been given of the body.                                                  *)
Given(v) ==
  \E m \in 0 .. v.size : v.took = 1 .. m /\ (m < v.size => v.used = m)
Served(v) ==
  /\ v.pc \in {"none", "waiting", "accepted", "head", "done"} => v.said = "nothing"
  /\ v.pc \in {"none", "waiting", "accepted", "head"} => v.used <= HEADER_MAX
  /\ v.pc = "dispatch" => v.used <= HEADER_MAX
  /\ v.pc = "body" => v.kind = "upload" /\ v.said = "ok" /\ Given(v)
  /\ v.pc \in {"open", "stream", "closefile"} => v.kind = "file"
  /\ v.pc = "handler" => v.kind = "other"
  /\ v.pc \in {"stop", "stopping"} => v.kind = "stop"
  /\ v.pc \in {"answer", "close"} /\ v.kind = "upload" /\ v.said = "ok" => v.took = 1 .. v.size

HttpInv ==
  /\ HttpTypeOK /\ Owned /\ (\A c \in Conns : Served(conn[c]))
  /\ (Serving => stray = {}) /\ (~Serving => exit)

-----------------------------------------------------------------------------
(* Descriptors and their owners.                                            *)

LEMMA LeastNumber ==
  ASSUME NEW S \in SUBSET Nat, S # {}
  PROVE  \E x \in S : \A y \in S : x <= y
<1> DEFINE Below == {p \in Nat \X Nat : p[1] < p[2]}
<1>1. IsWellFoundedOn(Below, Nat)
  BY NatLessThanWellFounded DEF OpToRel
<1>2. PICK x \in S : \A y \in S : ~(<<y, x>> \in Below)
  <2> HIDE DEF Below
  <2> QED BY <1>1, WFMin
<1>3. ASSUME NEW y \in S
      PROVE  x <= y
  <2>1. <<y, x>> \in Nat \X Nat /\ <<y, x>>[1] = y /\ <<y, x>>[2] = x
    OBVIOUS
  <2>2. y < x => <<y, x>> \in Below
    BY <2>1
  <2>3. QED  BY <1>2, <2>2
<1>4. QED  BY <1>3

LEMMA LowestIsFree ==
  ASSUME FreeFds # {}
  PROVE  Lowest \in Descriptors /\ fds[Lowest] = Free
<1>1. FreeFds \in SUBSET Nat
  BY HttpAssumption DEF FreeFds
<1>2. Lowest \in FreeFds
  BY <1>1, LeastNumber DEF Lowest
<1>3. QED  BY <1>2 DEF FreeFds

LEMMA OwnersDiffer ==
  ASSUME NEW c \in Conns, NEW d \in Conns
  PROVE  /\ Listening # Free /\ <<c, "socket">> # Free /\ <<c, "file">> # Free
         /\ <<c, "socket">> # Listening /\ <<c, "file">> # Listening
         /\ <<c, "socket">> # <<d, "file">>
         /\ c # d => <<c, "socket">> # <<d, "socket">> /\ <<c, "file">> # <<d, "file">>
         /\ Free \in Owners /\ Listening \in Owners
         /\ <<c, "socket">> \in Owners /\ <<c, "file">> \in Owners
BY DEF Free, Listening, Owners

(* A descriptor that is opened was nobody's: who owns one keeps it.           *)
LEMMA OpeningKeeps ==
  ASSUME HttpTypeOK, FreeFds # {}, NEW who \in Owners, fds' = [fds EXCEPT ![Lowest] = who]
  PROVE  /\ Lowest \in Descriptors /\ fds'[Lowest] = who
         /\ fds' \in [Descriptors -> Owners]
         /\ \A n, w : Has(n, w) /\ w # Free => n \in Descriptors /\ fds'[n] = w /\ n # Lowest
BY LowestIsFree DEF HttpTypeOK, Has

(* Who closes what it has opened itself hits nobody else's.                   *)
LEMMA ClosingKeeps ==
  ASSUME HttpTypeOK, NEW n, NEW who, NEW here, Has(n, who), CloseFd(n, who, here)
  PROVE  /\ stray' = stray /\ fds' \in [Descriptors -> Owners]
         /\ \A m, w : Has(m, w) /\ (w # who \/ m # n) => m \in Descriptors /\ fds'[m] = w
<1>1. Free \in Owners
  BY DEF Owners
<1>2. QED  BY <1>1 DEF HttpTypeOK, Has, CloseFd

LEMMA ClosingTypes ==
  ASSUME HttpTypeOK, NEW n, NEW who, NEW here, CloseFd(n, who, here)
  PROVE  fds' \in [Descriptors -> Owners]
<1>1. Free \in Owners
  BY DEF Owners
<1>2. QED  BY <1>1 DEF HttpTypeOK, CloseFd

LEMMA HttpInvAtStart ==
  HttpInit => HttpInv
<1> SUFFICES ASSUME HttpInit
             PROVE  HttpInv
  OBVIOUS
<1>1. HttpTypeOK
  <2>1. NewConn \in Conn
    BY HttpAssumption DEF NewConn, Conn, Fds, RequestKinds
  <2>2. listener \in Listener
    BY HttpAssumption DEF HttpInit, Listener, Fds
  <2>3. QED  BY <2>1, <2>2 DEF HttpInit, HttpTypeOK, Fds, Owners
<1>2. Owned
  BY DEF HttpInit, Owned, ConnsOwn, StoppersOwn, Stopping, ListenerOwns, NewConn
<1>3. \A c \in Conns : Served(conn[c])
  BY HttpAssumption DEF HttpInit, Served, NewConn
<1>4. Serving /\ stray = {}
  BY DEF HttpInit, Serving
<1>5. QED  BY <1>1, <1>2, <1>3, <1>4 DEF HttpInv

-----------------------------------------------------------------------------
(* Steps that open and close nothing.                                       *)

Here(v) == v.pc \notin {"none", "waiting", "accepted", "done"}

(* A thread that serves its connection and leaves the descriptors alone.       *)
LEMMA ServingHolds ==
  ASSUME HttpInv, NEW c \in Conns, NEW v \in Conn,
         conn' = [conn EXCEPT ![c] = v], v.fd = conn[c].fd, v.file = conn[c].file,
         Here(conn[c]), Here(v), conn[c].pc # "stopping", v.pc # "stopping",
         v.pc \in {"stream", "closefile"} => conn[c].pc \in {"stream", "closefile"},
         Served(v), UNCHANGED <<fds, srvfd, exit, listener, stray>>
  PROVE  HttpInv'
<1>1. conn'[c] = v /\ \A d \in Conns : d # c => conn'[d] = conn[d]
  BY DEF HttpInv, HttpTypeOK
<1>2. HttpTypeOK'
  BY DEF HttpInv, HttpTypeOK
<1>3. Serving => ConnsOwn'
  <2>1. ASSUME NEW d \in Conns
        PROVE  /\ conn'[d].fd = conn[d].fd /\ conn'[d].file = conn[d].file
               /\ conn'[d].pc \notin {"none", "waiting", "done"}
                    => conn[d].pc \notin {"none", "waiting", "done"}
               /\ conn'[d].pc \in {"stream", "closefile"} => conn[d].pc \in {"stream", "closefile"}
    BY <1>1 DEF Here
  <2>2. Serving => ConnsOwn
    BY DEF HttpInv, Owned
  <2>3. QED  BY <2>1, <2>2 DEF ConnsOwn, Has
<1>4. \A d \in Conns : Stopping(d)' => Stopping(d) /\ conn'[d] = conn[d]
  BY <1>1 DEF Stopping
<1>5. Serving => StoppersOwn'
  BY <1>4 DEF HttpInv, Owned, StoppersOwn, Has
<1>6. Serving => ListenerOwns'
  <2>1. \A n : Untaken(n) => Untaken(n)'
    BY <1>4 DEF Untaken
  <2>2. Serving /\ listener.pc = "spawn" => conn'[listener.new].pc = "accepted"
    BY <1>1 DEF HttpInv, Owned, ListenerOwns, Here
  <2>3. QED  BY <2>1, <2>2 DEF HttpInv, Owned, ListenerOwns, Has
<1>7. \A d \in Conns : Served(conn[d])'
  BY <1>1 DEF HttpInv
<1>8. QED
  BY <1>2, <1>3, <1>5, <1>6, <1>7 DEF HttpInv, Owned, Serving

(* A step of the listener that leaves descriptors and connections alone.       *)
LEMMA ListeningHolds ==
  ASSUME HttpInv, Serving, HttpTypeOK', Serving' => ListenerOwns', ~Serving' => exit',
         UNCHANGED <<fds, conn, stray>>
  PROVE  HttpInv'
<1>1. ConnsOwn' /\ StoppersOwn'
  BY DEF HttpInv, Owned, ConnsOwn, StoppersOwn, Stopping, Has
<1>2. QED
  BY <1>1 DEF HttpInv, Owned

LEMMA PublishHolds ==
  ASSUME HttpInv, Publish
  PROVE  HttpInv'
<1>1. Serving /\ UNCHANGED <<fds, conn, stray>>
  BY DEF Publish, Serving
<1>2. HttpTypeOK'
  BY DEF HttpInv, HttpTypeOK, Publish, ListenerAt, Listener
<1>3. ListenerOwns' /\ listener'.pc = "loop"
  <2>1. listener' = [listener EXCEPT !.pc = "loop"] /\ listener \in Listener /\ listener.pc = "publish"
    BY DEF Publish, ListenerAt, HttpInv, HttpTypeOK
  <2>2. listener'.pc = "loop" /\ listener'.fd = listener.fd
    BY <2>1 DEF Listener
  <2>3. Untaken(listener.fd)'
    BY <1>1, <2>2 DEF HttpInv, Owned, ListenerOwns, Untaken, Stopping, Publish
  <2>4. QED
    BY <1>1, <2>2, <2>3 DEF HttpInv, Owned, ListenerOwns, Has, Untaken, Publish
<1>4. QED  BY <1>1, <1>2, <1>3, ListeningHolds DEF Serving

LEMMA LoopTestHolds ==
  ASSUME HttpInv, LoopTest
  PROVE  HttpInv'
<1>1. Serving /\ UNCHANGED <<fds, conn, stray, srvfd, exit>>
  BY DEF LoopTest, Serving
<1>2. HttpTypeOK'
  BY DEF HttpInv, HttpTypeOK, LoopTest, ListenerAt, Listener
<1>3. listener'.pc \in {"ending", "accept"} /\ listener'.fd = listener.fd
      /\ (listener'.pc = "ending" => exit)
  BY DEF HttpInv, HttpTypeOK, LoopTest, ListenerAt, Listener
<1>4. ListenerOwns'
  BY <1>1, <1>3 DEF HttpInv, Owned, ListenerOwns, Has, Untaken, Stopping, LoopTest
<1>5. QED  BY <1>1, <1>2, <1>3, <1>4, ListeningHolds DEF Serving

LEMMA AcceptFailsHolds ==
  ASSUME HttpInv, AcceptFails
  PROVE  HttpInv'
<1>1. Serving /\ UNCHANGED <<fds, conn, stray, srvfd, exit>>
  BY DEF AcceptFails, Serving
<1>2. HttpTypeOK'
  BY DEF HttpInv, HttpTypeOK, AcceptFails, ListenerAt, Listener
<1>3. listener'.pc \in {"returns", "loop", "failed"} /\ listener'.fd = listener.fd
      /\ (listener'.pc = "returns" => exit)
  BY DEF HttpInv, HttpTypeOK, AcceptFails, ListenerAt, Listener
<1>4. Serving' => ListenerOwns'
  BY <1>1, <1>3 DEF HttpInv, Owned, ListenerOwns, Has, Untaken, Stopping, AcceptFails, Serving
<1>5. QED  BY <1>1, <1>2, <1>3, <1>4, ListeningHolds DEF Serving

LEMMA FailedHolds ==
  ASSUME HttpInv, Failed
  PROVE  HttpInv'
<1>1. Serving /\ UNCHANGED <<fds, conn, stray>> /\ srvfd' = None
  BY DEF Failed, Serving
<1>2. HttpTypeOK'
  BY DEF HttpInv, HttpTypeOK, Failed, ListenerAt, Listener, Fds
<1>3. /\ listener'.pc = (IF srvfd = listener.fd THEN "closing" ELSE "sleep")
      /\ listener'.fd = listener.fd
  BY DEF HttpInv, HttpTypeOK, Failed, ListenerAt, Listener
<1>4. ListenerOwns'
  <2>1. srvfd = listener.fd => srvfd # None
    BY HttpAssumption DEF HttpInv, Owned, ListenerOwns, Failed, Serving
  <2>2. QED
    BY <1>1, <1>3, <2>1 DEF HttpInv, Owned, ListenerOwns, Has, Untaken, Stopping, Failed
<1>5. QED  BY <1>1, <1>2, <1>3, <1>4, ListeningHolds DEF Serving

LEMMA EndingHolds ==
  ASSUME HttpInv, Ending
  PROVE  HttpInv'
<1>1. Serving /\ UNCHANGED <<fds, conn, stray>> /\ srvfd' = None
  BY DEF Ending, Serving
<1>2. HttpTypeOK'
  BY DEF HttpInv, HttpTypeOK, Ending, ListenerAt, Listener, Fds
<1>3. listener'.pc = "last" /\ listener'.fd = listener.fd
  BY DEF HttpInv, HttpTypeOK, Ending, ListenerAt, Listener
<1>4. ListenerOwns'
  BY <1>1, <1>3 DEF HttpInv, Owned, ListenerOwns, Has, Untaken, Stopping, Ending
<1>5. QED  BY <1>1, <1>2, <1>3, <1>4, ListeningHolds DEF Serving

LEMMA SleepHolds ==
  ASSUME HttpInv, Sleep
  PROVE  HttpInv'
<1>1. Serving /\ UNCHANGED <<fds, conn, stray, srvfd, exit>>
  BY DEF Sleep, Serving
<1>2. HttpTypeOK'
  BY DEF HttpInv, HttpTypeOK, Sleep, ListenerAt, Listener
<1>3. listener'.pc \in {"returns", "start"}
      /\ (listener'.pc = "returns" => exit)
  BY DEF HttpInv, HttpTypeOK, Sleep, ListenerAt, Listener
<1>4. Serving' => ListenerOwns'
  BY <1>1, <1>3 DEF HttpInv, Owned, ListenerOwns, Sleep, Serving
<1>5. QED  BY <1>1, <1>2, <1>3, <1>4, ListeningHolds DEF Serving

-----------------------------------------------------------------------------
(* The client threads that serve.                                           *)

LEMMA ReadHeadHolds ==
  ASSUME HttpInv, NEW c \in Conns, ReadHead(c)
  PROVE  HttpInv'
<1> USE HttpAssumption
<1>1. /\ conn \in [Conns -> Conn] /\ conn[c] \in Conn /\ conn[c].pc = "head"
      /\ UNCHANGED <<fds, srvfd, exit, listener, stray>>
      /\ Served(conn[c])
  BY DEF HttpInv, HttpTypeOK, ReadHead, At
<1>2. conn[c].used \in Nat /\ conn[c].used <= HEADER_MAX /\ conn[c].said = "nothing"
  BY <1>1 DEF Conn, Served
<1> DEFINE Goes(n) == conn' = [conn EXCEPT ![c].used = n]
           Ends(n, end, kind, size) ==
             conn' = [conn EXCEPT ![c].used = n - end, ![c].kind = kind, ![c].size = size,
                                  ![c].pc = "dispatch"]
           Shuts == conn' = [conn EXCEPT ![c].pc = "close"]
           Tells == conn' = [conn EXCEPT ![c].pc = "answer", ![c].said = "error"]
           Step(v) == /\ v \in Conn /\ Here(v) /\ Served(v) /\ conn' = [conn EXCEPT ![c] = v]
                      /\ v.fd = conn[c].fd /\ v.file = conn[c].file
                      /\ v.pc \notin {"stopping", "stream", "closefile"}
<1>3. ASSUME NEW v, Step(v)
      PROVE  HttpInv'
  <2>1. Here(conn[c])
    BY <1>1 DEF Here
  <2>2. QED  BY <1>1, <1>3, <2>1, ServingHolds
<1>4. ASSUME NEW n \in conn[c].used + 1 .. HEADER_MAX, Goes(n)
      PROVE  HttpInv'
  <2>1. n \in 0 .. HEADER_MAX /\ n \in 0 .. HEADER_MAX + Body
    BY <1>2
  <2>2. PICK v : v = [conn[c] EXCEPT !.used = n]
    OBVIOUS
  <2>3. v \in Conn /\ v.pc = "head" /\ v.said = "nothing" /\ v.used = n
        /\ v.fd = conn[c].fd /\ v.file = conn[c].file
    BY <1>1, <1>2, <2>1, <2>2 DEF Conn
  <2>4. Here(v) /\ Served(v)
    BY <2>1, <2>3 DEF Here, Served
  <2>5. Step(v)
    BY <1>4, <2>2, <2>3, <2>4
  <2>6. QED  BY <1>3, <2>5
<1>5. ASSUME NEW n \in conn[c].used + 1 .. HEADER_MAX, NEW end \in conn[c].used + 1 .. n,
             NEW kind \in RequestKinds, NEW size \in 0 .. Body,
             Ends(n, end, kind, size)
      PROVE  HttpInv'
  <2>1. n - end \in 0 .. HEADER_MAX
    BY <1>2
  <2>2. PICK m \in 0 .. HEADER_MAX : m = n - end
    BY <2>1
  <2>3. conn' = [conn EXCEPT ![c].used = m, ![c].kind = kind, ![c].size = size,
                             ![c].pc = "dispatch"]
    BY <1>5, <2>2
  <2>4. Step([conn[c] EXCEPT !.used = m, !.kind = kind, !.size = size, !.pc = "dispatch"])
    BY <1>1, <1>2, <2>3 DEF Conn, Here, Served
  <2>5. QED  BY <1>3, <2>4
<1>6. CASE Shuts
  <2>1. Step([conn[c] EXCEPT !.pc = "close"])
    BY <1>1, <1>2, <1>6 DEF Conn, Here, Served
  <2>2. QED  BY <1>3, <2>1
<1>7. CASE Tells
  <2>1. Step([conn[c] EXCEPT !.pc = "answer", !.said = "error"])
    BY <1>1, <1>2, <1>7 DEF Conn, Here, Served
  <2>2. QED  BY <1>3, <2>1
<1>8. \/ \E n \in conn[c].used + 1 .. HEADER_MAX :
           \/ Goes(n)
           \/ \E end \in conn[c].used + 1 .. n, kind \in RequestKinds, size \in 0 .. Body :
                /\ kind = "upload" \/ size = 0
                /\ Ends(n, end, kind, size)
      \/ Shuts
      \/ conn[c].used = HEADER_MAX /\ Tells
  BY Zenon DEF ReadHead
<1> HIDE DEF Step, Goes, Ends, Shuts, Tells
<1>9. QED  BY <1>4, <1>5, <1>6, <1>7, <1>8

LEMMA FirstNumbers ==
  ASSUME NEW m \in Nat, NEW n \in Nat
  PROVE  /\ Cardinality(1 .. m) = m
         /\ (1 .. m) \cup (m + 1 .. m + n) = 1 .. m + n
         /\ \E k \in Nat : k <= m /\ k <= n /\ (k = m \/ k = n) /\ (1 .. m) \cap (1 .. n) = 1 .. k
<1>1. Cardinality(1 .. m) = m
  BY FS_Interval
<1>2. \E k \in Nat : k <= m /\ k <= n /\ (k = m \/ k = n) /\ (1 .. m) \cap (1 .. n) = 1 .. k
  <2>1. CASE m <= n
    <3>1. (1 .. m) \cap (1 .. n) = 1 .. m
      BY <2>1
    <3>2. QED  BY <2>1, <3>1
  <2>2. CASE n <= m
    <3>1. (1 .. m) \cap (1 .. n) = 1 .. n
      BY <2>2
    <3>2. QED  BY <2>2, <3>1
  <2>3. QED  BY <2>1, <2>2
<1>3. QED  BY <1>1, <1>2

LEMMA DispatchHolds ==
  ASSUME HttpInv, NEW c \in Conns, Dispatch(c)
  PROVE  HttpInv'
<1> USE HttpAssumption
<1>1. /\ conn \in [Conns -> Conn] /\ conn[c] \in Conn /\ conn[c].pc = "dispatch"
      /\ UNCHANGED <<fds, srvfd, exit, listener, stray>>
      /\ Served(conn[c])
  BY DEF HttpInv, HttpTypeOK, Dispatch, At
<1>2. /\ conn[c].used \in Nat /\ conn[c].used <= HEADER_MAX
      /\ conn[c].size \in Nat /\ conn[c].size <= Body /\ conn[c].kind \in RequestKinds
  BY <1>1 DEF Conn, Served
<1>3. PICK m \in Nat : /\ m <= conn[c].used /\ m <= conn[c].size
                       /\ (m = conn[c].used \/ m = conn[c].size)
                       /\ Initial(c) = 1 .. m
  <2>1. PICK a \in Nat, b \in Nat : a = conn[c].used /\ b = conn[c].size
    BY <1>2
  <2>2. Initial(c) = (1 .. a) \cap (1 .. b)
    BY <2>1 DEF Initial
  <2>3. \E k \in Nat : k <= a /\ k <= b /\ (k = a \/ k = b) /\ (1 .. a) \cap (1 .. b) = 1 .. k
    BY FirstNumbers
  <2>4. QED  BY <2>1, <2>2, <2>3
<1>4. PICK pc : pc = CASE conn[c].kind = "upload" -> "body" [] conn[c].kind = "file" -> "open"
                       [] conn[c].kind = "other" -> "handler" [] OTHER -> "answer"
  OBVIOUS
<1>5. PICK took : took = IF conn[c].kind = "upload" THEN 1 .. m ELSE {}
  OBVIOUS
<1> DEFINE v == [conn[c] EXCEPT !.pc = pc, !.took = took, !.said = "ok"]
<1>6. conn' = [conn EXCEPT ![c] = v]
  BY <1>1, <1>3, <1>4, <1>5 DEF Dispatch
<1>7. /\ pc \in {"body", "open", "handler", "answer"} /\ (pc = "body") = (conn[c].kind = "upload")
      /\ pc = "open" => conn[c].kind = "file"
      /\ pc = "handler" => conn[c].kind = "other"
      /\ took \in SUBSET (1 .. HEADER_MAX + Body) /\ (pc = "body" => took = 1 .. m)
  BY <1>2, <1>3, <1>4, <1>5
<1>8. v \in Conn /\ v.fd = conn[c].fd /\ v.file = conn[c].file
  BY <1>1, <1>7 DEF Conn
<1>9. Here(v) /\ Here(conn[c])
  BY <1>1, <1>7 DEF Here, Conn
<1>10. Served(v)
  <2>1. /\ v.pc = pc /\ v.kind = conn[c].kind /\ v.said = "ok" /\ v.took = took
        /\ v.size = conn[c].size /\ v.used = conn[c].used
    BY <1>1 DEF Conn
  <2>2. v.kind = "upload" => Given(v)
    BY <1>2, <1>3, <1>7, <2>1 DEF Given
  <2>3. QED  BY <1>7, <2>1, <2>2 DEF Served
<1>11. v.pc = pc
  BY <1>1 DEF Conn
<1> HIDE DEF v
<1>12. QED  BY <1>1, <1>6, <1>7, <1>8, <1>9, <1>10, <1>11, ServingHolds

LEMMA ReadBodyHolds ==
  ASSUME HttpInv, NEW c \in Conns, ReadBody(c)
  PROVE  HttpInv'
<1> USE HttpAssumption
<1>1. /\ conn \in [Conns -> Conn] /\ conn[c] \in Conn /\ conn[c].pc = "body"
      /\ UNCHANGED <<fds, srvfd, exit, listener, stray>>
      /\ conn[c].kind = "upload" /\ conn[c].said = "ok" /\ Given(conn[c])
  BY DEF HttpInv, HttpTypeOK, ReadBody, At, Served
<1>2. PICK size \in Nat, used \in Nat, m \in Nat :
        /\ size = conn[c].size /\ size <= Body /\ used = conn[c].used
        /\ conn[c].took = 1 .. m /\ m <= size /\ (m < size => used = m)
  <2>1. conn[c].size \in 0 .. Body /\ conn[c].used \in 0 .. HEADER_MAX + Body
    BY <1>1 DEF Conn
  <2>2. conn[c].size \in Nat /\ conn[c].used \in Nat /\ conn[c].size <= Body
    BY <2>1
  <2>3. PICK m \in 0 .. conn[c].size :
          conn[c].took = 1 .. m /\ (m < conn[c].size => conn[c].used = m)
    BY <1>1 DEF Given
  <2>4. m \in Nat /\ m <= conn[c].size
    BY <2>2, <2>3
  <2>5. QED  BY <2>2, <2>3, <2>4
<1>3. Cardinality(conn[c].took) = m
  BY <1>2, FirstNumbers
<1>4. Here(conn[c])
  BY <1>1 DEF Here
<1>5. CASE m >= size /\ conn' = [conn EXCEPT ![c].pc = "answer"]
  <2>1. PICK v : v = [conn[c] EXCEPT !.pc = "answer"]
    OBVIOUS
  <2>2. v \in Conn /\ v.fd = conn[c].fd /\ v.file = conn[c].file /\ v.pc = "answer"
        /\ v.took = conn[c].took /\ v.size = conn[c].size
    BY <1>1, <2>1 DEF Conn
  <2>3. Here(v) /\ Served(v)
    BY <1>2, <1>5, <2>2 DEF Here, Served
  <2>4. conn' = [conn EXCEPT ![c] = v]
    BY <1>1, <1>5, <2>1
  <2>5. QED  BY <1>1, <1>4, <2>2, <2>3, <2>4, ServingHolds
<1>6. ASSUME NEW n \in 1 .. size, n + m <= size,
             conn' = [conn EXCEPT ![c].used = @ + n,
                                  ![c].took = @ \cup (conn[c].used + 1 .. conn[c].used + n)]
      PROVE  HttpInv'
  <2>1. m < size /\ used = m /\ n \in Nat
    BY <1>2, <1>6
  <2>2. (1 .. m) \cup (m + 1 .. m + n) = 1 .. m + n
    BY <2>1, FirstNumbers
  <2>3. PICK k \in Nat : k = m + n
    BY <2>1
  <2>4. PICK v : v = [conn[c] EXCEPT !.used = k, !.took = 1 .. k]
    OBVIOUS
  <2>5. conn' = [conn EXCEPT ![c] = v]
    BY <1>1, <1>2, <1>6, <2>1, <2>2, <2>3, <2>4
  <2>6. k \in 0 .. HEADER_MAX + Body /\ 1 .. k \in SUBSET (1 .. HEADER_MAX + Body) /\ k <= size
    BY <1>2, <1>6, <2>3
  <2>7. v \in Conn /\ v.fd = conn[c].fd /\ v.file = conn[c].file /\ v.pc = "body"
        /\ v.kind = "upload" /\ v.said = "ok" /\ v.took = 1 .. k /\ v.used = k /\ v.size = size
    BY <1>1, <1>2, <2>4, <2>6 DEF Conn
  <2>8. Given(v)
    BY <2>6, <2>7 DEF Given
  <2>9. Here(v) /\ Served(v)
    BY <2>7, <2>8 DEF Here, Served
  <2>10. QED  BY <1>1, <1>4, <2>5, <2>7, <2>9, ServingHolds
<1>7. CASE conn' = [conn EXCEPT ![c].pc = "answer", ![c].said = "error"]
  <2>1. PICK v : v = [conn[c] EXCEPT !.pc = "answer", !.said = "error"]
    OBVIOUS
  <2>2. v \in Conn /\ v.fd = conn[c].fd /\ v.file = conn[c].file /\ v.pc = "answer"
        /\ v.said = "error"
    BY <1>1, <2>1 DEF Conn
  <2>3. Here(v) /\ Served(v)
    BY <2>2 DEF Here, Served
  <2>4. conn' = [conn EXCEPT ![c] = v]
    BY <1>1, <1>7, <2>1
  <2>5. QED  BY <1>1, <1>4, <2>2, <2>3, <2>4, ServingHolds
<1>8. QED
  <2>1. CASE /\ Cardinality(conn[c].took) >= conn[c].size
             /\ conn' = [conn EXCEPT ![c].pc = "answer"]
    BY <1>2, <1>3, <1>5, <2>1
  <2>2. ASSUME NEW n \in 1 .. conn[c].size, n + Cardinality(conn[c].took) <= conn[c].size,
               conn' = [conn EXCEPT ![c].used = @ + n,
                                    ![c].took = @ \cup (conn[c].used + 1 .. conn[c].used + n)]
        PROVE  HttpInv'
    BY <1>2, <1>3, <1>6, <2>2
  <2>3. QED  BY <1>7, <2>1, <2>2, Zenon DEF ReadBody

LEMMA HandlerEndsHolds ==
  ASSUME HttpInv, NEW c \in Conns, HandlerEnds(c)
  PROVE  HttpInv'
<1>1. /\ conn \in [Conns -> Conn] /\ conn[c] \in Conn /\ conn[c].pc = "handler"
      /\ UNCHANGED <<fds, srvfd, exit, listener, stray>>
      /\ conn[c].kind = "other"
  BY DEF HttpInv, HttpTypeOK, HandlerEnds, At, Served
<1>2. PICK v : v = [conn[c] EXCEPT !.pc = "answer"]
  OBVIOUS
<1>3. v \in Conn /\ v.fd = conn[c].fd /\ v.file = conn[c].file /\ v.pc = "answer"
      /\ v.kind = "other"
  BY <1>1, <1>2 DEF Conn
<1>4. Here(v) /\ Here(conn[c]) /\ Served(v)
  BY <1>1, <1>3 DEF Here, Served
<1>5. conn' = [conn EXCEPT ![c] = v]
  BY <1>1, <1>2 DEF HandlerEnds
<1>6. QED  BY <1>1, <1>3, <1>4, <1>5, ServingHolds

LEMMA StreamHolds ==
  ASSUME HttpInv, NEW c \in Conns, Stream(c)
  PROVE  HttpInv'
<1>1. /\ conn \in [Conns -> Conn] /\ conn[c] \in Conn /\ conn[c].pc = "stream"
      /\ UNCHANGED <<fds, srvfd, exit, listener, stray>>
      /\ conn[c].kind = "file"
  BY DEF HttpInv, HttpTypeOK, Stream, At, Served
<1>2. PICK said \in {"ok", "error"} :
        conn' = [conn EXCEPT ![c].pc = "closefile", ![c].said = said]
  BY DEF Stream
<1>3. PICK v : v = [conn[c] EXCEPT !.pc = "closefile", !.said = said]
  OBVIOUS
<1>4. v \in Conn /\ v.fd = conn[c].fd /\ v.file = conn[c].file /\ v.pc = "closefile"
      /\ v.kind = "file"
  BY <1>1, <1>3 DEF Conn
<1>5. Here(v) /\ Here(conn[c]) /\ Served(v)
  BY <1>1, <1>4 DEF Here, Served
<1>6. conn' = [conn EXCEPT ![c] = v]
  BY <1>1, <1>2, <1>3
<1>7. QED  BY <1>1, <1>4, <1>5, <1>6, ServingHolds

LEMMA AnswerHolds ==
  ASSUME HttpInv, NEW c \in Conns, Answer(c)
  PROVE  HttpInv'
<1>1. /\ conn \in [Conns -> Conn] /\ conn[c] \in Conn /\ conn[c].pc = "answer"
      /\ UNCHANGED <<fds, srvfd, exit, listener, stray>>
      /\ Served(conn[c])
  BY DEF HttpInv, HttpTypeOK, Answer, At
<1>2. PICK pc : /\ pc = IF conn[c].kind = "stop" /\ conn[c].said = "ok" THEN "stop" ELSE "close"
                /\ conn' = [conn EXCEPT ![c].pc = pc]
  BY DEF Answer
<1>3. PICK v : v = [conn[c] EXCEPT !.pc = pc]
  OBVIOUS
<1>4. v \in Conn /\ v.fd = conn[c].fd /\ v.file = conn[c].file /\ v.pc = pc
      /\ v.kind = conn[c].kind /\ v.said = conn[c].said /\ v.took = conn[c].took
      /\ v.size = conn[c].size /\ v.used = conn[c].used
  BY <1>1, <1>2, <1>3 DEF Conn
<1>5. Here(v) /\ Here(conn[c]) /\ Served(v)
  BY <1>1, <1>2, <1>4 DEF Here, Served
<1>6. conn' = [conn EXCEPT ![c] = v]
  BY <1>1, <1>2, <1>3
<1>7. QED  BY <1>1, <1>2, <1>4, <1>5, <1>6, ServingHolds

-----------------------------------------------------------------------------
(* The listener opens and closes.                                           *)

(* Whoever has the descriptor keeps it in this step.                         *)
Keeps(n, who) == Has(n, who) => n \in Descriptors /\ fds'[n] = who

LEMMA ConnsKeep ==
  ASSUME HttpInv, Serving, NEW c \in Conns,
         \A d \in Conns : d # c => conn'[d] = conn[d],
         \A m : \A d \in Conns : d # c => Keeps(m, <<d, "socket">>) /\ Keeps(m, <<d, "file">>),
         conn'[c].pc \notin {"none", "waiting", "done"} => Has(conn[c].fd, <<c, "socket">>)',
         conn'[c].pc \in {"stream", "closefile"} => Has(conn[c].file, <<c, "file">>)'
  PROVE  ConnsOwn'
<1> SUFFICES ASSUME NEW d \in Conns
             PROVE  /\ conn'[d].pc \notin {"none", "waiting", "done"}
                         => Has(conn[d].fd, <<d, "socket">>)'
                    /\ conn'[d].pc \in {"stream", "closefile"}
                         => Has(conn[d].file, <<d, "file">>)'
  BY DEF ConnsOwn
<1>1. CASE d = c
  BY <1>1
<1>2. CASE d # c
  <2>1. conn'[d] = conn[d]
    BY <1>2
  <2>2. /\ conn[d].pc \notin {"none", "waiting", "done"} => Has(conn[d].fd, <<d, "socket">>)
        /\ conn[d].pc \in {"stream", "closefile"} => Has(conn[d].file, <<d, "file">>)
    BY DEF HttpInv, Owned, ConnsOwn
  <2>3. Keeps(conn[d].fd, <<d, "socket">>) /\ Keeps(conn[d].file, <<d, "file">>)
    BY <1>2
  <2>4. QED  BY <2>1, <2>2, <2>3 DEF Keeps, Has
<1>3. QED  BY <1>1, <1>2

LEMMA ListeningKeeps ==
  ASSUME HttpInv, Serving, \A m : Keeps(m, Listening), srvfd' = srvfd, exit' = exit,
         \A d \in Conns : Stopping(d)' => Stopping(d) /\ conn'[d] = conn[d]
  PROVE  /\ StoppersOwn'
         /\ \A m : Untaken(m) => Untaken(m)'
         /\ srvfd # None => Has(srvfd, Listening)' /\ Untaken(srvfd)'
         /\ listener' = listener /\ (listener.pc = "spawn" => conn'[listener.new].pc = "accepted")
              => ListenerOwns'
<1>1. StoppersOwn'
  <2>1. \A d \in Conns : Stopping(d) => Keeps(conn[d].file, Listening) /\ Has(conn[d].file, Listening)
    BY DEF HttpInv, Owned, StoppersOwn
  <2>2. \A d, e \in Conns : Stopping(d) /\ Stopping(e) /\ conn[d].file = conn[e].file => d = e
    BY DEF HttpInv, Owned, StoppersOwn
  <2>3. \A d \in Conns : Stopping(d)' => Has(conn[d].file, Listening)'
    BY <2>1 DEF Has, Keeps
  <2>4. QED  BY <2>2, <2>3 DEF StoppersOwn
<1>2. ListenerOwns
  BY DEF HttpInv, Owned
<1>3. \A m : Untaken(m) => Untaken(m)'
  BY DEF Untaken
<1>4. srvfd # None => Has(srvfd, Listening)' /\ Untaken(srvfd)'
  <2>1. Keeps(srvfd, Listening)
    OBVIOUS
  <2>2. srvfd # None => Has(srvfd, Listening)'
    BY <1>2, <2>1 DEF ListenerOwns, Keeps, Has
  <2>3. srvfd # None => Untaken(srvfd)'
    BY <1>2, <1>3 DEF ListenerOwns, Untaken
  <2>4. QED  BY <2>2, <2>3
<1>5. ASSUME listener' = listener, listener.pc = "spawn" => conn'[listener.new].pc = "accepted"
      PROVE  ListenerOwns'
  <2>1. Keeps(listener.fd, Listening)
    OBVIOUS
  <2>2. listener.pc \in {"publish", "closing"} => Has(listener.fd, Listening)'
    BY <1>2, <1>5, <2>1 DEF ListenerOwns, Keeps, Has
  <2>3. listener.pc \in {"publish", "closing"} => Untaken(listener.fd)'
    BY <1>2, <1>3, <1>5 DEF ListenerOwns, Untaken
  <2>4. QED  BY <1>2, <1>4, <1>5, <2>2, <2>3 DEF ListenerOwns
<1>6. QED  BY <1>1, <1>3, <1>4, <1>5

LEMMA ListenHolds ==
  ASSUME HttpInv, Listen
  PROVE  HttpInv'
<1> USE HttpAssumption
<1>1. Serving /\ UNCHANGED <<srvfd, exit, conn, stray>> /\ listener \in Listener
      /\ listener.pc = "start" /\ srvfd = None
  BY DEF HttpInv, HttpTypeOK, Owned, ListenerOwns, Listen, Serving
<1>2. PICK t \in 0 .. MaxListens : t = listener.times + 1
  BY <1>1 DEF Listen, Listener
<1>3. CASE /\ FreeFds # {} /\ fds' = [fds EXCEPT ![Lowest] = Listening]
           /\ listener' = [listener EXCEPT !.pc = "publish", !.fd = Lowest, !.times = @ + 1]
  <2>1. PICK n : n = Lowest
    OBVIOUS
  <2>2. /\ n \in Descriptors /\ fds'[n] = Listening /\ fds' \in [Descriptors -> Owners]
        /\ \A m, w : Has(m, w) /\ w # Free => m \in Descriptors /\ fds'[m] = w /\ m # n
    BY <1>3, <2>1, OpeningKeeps DEF HttpInv, Owners
  <2>3. listener' = [listener EXCEPT !.pc = "publish", !.fd = n, !.times = t]
    BY <1>1, <1>2, <1>3, <2>1
  <2>4. listener' \in Listener /\ listener'.pc = "publish" /\ listener'.fd = n
    BY <1>1, <2>2, <2>3 DEF Listener, Fds
  <2>5. HttpTypeOK'
    BY <1>1, <2>2, <2>4 DEF HttpInv, HttpTypeOK
  <2>6. ConnsOwn'
    <3>1. \A m : \A d \in Conns : Keeps(m, <<d, "socket">>) /\ Keeps(m, <<d, "file">>)
      BY <2>2, OwnersDiffer DEF Keeps
    <3>2. ConnsOwn
      BY <1>1 DEF HttpInv, Owned
    <3>3. QED  BY <1>1, <3>1, <3>2 DEF ConnsOwn, Keeps, Has
  <2>7. StoppersOwn'
    BY <1>1, <2>2, OwnersDiffer DEF HttpInv, Owned, StoppersOwn, Stopping, Has
  <2>8. ListenerOwns'
    <3>1. \A d \in Conns : Stopping(d) => conn[d].file # n
      BY <1>1, <2>2, OwnersDiffer DEF HttpInv, Owned, StoppersOwn
    <3>2. QED  BY <1>1, <2>2, <2>4, <3>1 DEF ListenerOwns, Has, Untaken, Stopping
  <2>9. QED  BY <1>1, <2>4, <2>5, <2>6, <2>7, <2>8 DEF HttpInv, Owned, Serving
<1>4. CASE listener' = [listener EXCEPT !.pc = "sleep", !.times = @ + 1] /\ UNCHANGED fds
  <2>1. listener' = [listener EXCEPT !.pc = "sleep", !.times = t]
    BY <1>1, <1>2, <1>4
  <2>2. listener' \in Listener /\ listener'.pc = "sleep"
    BY <1>1, <2>1 DEF Listener
  <2>3. HttpTypeOK'
    BY <1>1, <1>4, <2>2 DEF HttpInv, HttpTypeOK
  <2>4. ListenerOwns'
    BY <1>1, <2>2 DEF ListenerOwns
  <2>5. QED  BY <1>1, <1>4, <2>2, <2>3, <2>4, ListeningHolds DEF Serving
<1>5. QED  BY <1>3, <1>4, Zenon DEF Listen

LEMMA AcceptHolds ==
  ASSUME HttpInv, NEW c \in Conns, Accept(c)
  PROVE  HttpInv'
<1> USE HttpAssumption
<1>1. Serving /\ UNCHANGED <<srvfd, exit, stray>> /\ listener \in Listener
      /\ listener.pc = "accept" /\ conn \in [Conns -> Conn] /\ conn[c] \in Conn
      /\ conn[c].pc = "waiting" /\ FreeFds # {} /\ Served(conn[c])
  BY DEF HttpInv, HttpTypeOK, Accept, Serving
<1>2. PICK n : n = Lowest
  OBVIOUS
<1>3. /\ n \in Descriptors /\ fds'[n] = <<c, "socket">> /\ fds' \in [Descriptors -> Owners]
      /\ \A m, w : Has(m, w) /\ w # Free => m \in Descriptors /\ fds'[m] = w /\ m # n
  BY <1>1, <1>2, OpeningKeeps, OwnersDiffer DEF HttpInv, Accept
<1>4. PICK v : v = [conn[c] EXCEPT !.pc = "accepted", !.fd = n]
  OBVIOUS
<1>5. v \in Conn /\ v.pc = "accepted" /\ v.fd = n /\ v.said = conn[c].said /\ v.used = conn[c].used
  BY <1>1, <1>3, <1>4 DEF Conn, Fds
<1>6. conn' = [conn EXCEPT ![c] = v]
  BY <1>1, <1>2, <1>4 DEF Accept
<1>7. conn'[c] = v /\ \A d \in Conns : d # c => conn'[d] = conn[d]
  BY <1>1, <1>6
<1>8. listener' \in Listener /\ listener'.pc = "spawn" /\ listener'.new = c
      /\ listener'.fd = listener.fd
  BY <1>1 DEF Accept, Listener
<1>9. HttpTypeOK'
  BY <1>1, <1>3, <1>5, <1>6, <1>8 DEF HttpInv, HttpTypeOK
<1>16. \A m : /\ Keeps(m, Listening)
              /\ \A d \in Conns : Keeps(m, <<d, "socket">>) /\ Keeps(m, <<d, "file">>)
  BY <1>3, OwnersDiffer DEF Keeps
<1>10. ConnsOwn'
  <2>1. Has(conn[c].fd, <<c, "socket">>)' /\ conn'[c].pc = "accepted"
    BY <1>3, <1>5, <1>7 DEF Has
  <2>2. QED  BY <1>1, <1>7, <1>16, <2>1, ConnsKeep
<1>11. \A d \in Conns : Stopping(d)' => Stopping(d) /\ conn'[d] = conn[d]
  BY <1>5, <1>7 DEF Stopping
<1>12. StoppersOwn' /\ (srvfd # None => Has(srvfd, Listening)' /\ Untaken(srvfd)')
  BY <1>1, <1>11, <1>16, ListeningKeeps
<1>13. ListenerOwns'
  <2>1. listener.fd \in Descriptors /\ (srvfd # None => srvfd = listener.fd)
    BY <1>1 DEF HttpInv, Owned, ListenerOwns
  <2>2. QED  BY <1>1, <1>5, <1>7, <1>8, <1>12, <2>1 DEF ListenerOwns
<1>14. \A d \in Conns : Served(conn[d])'
  BY <1>1, <1>5, <1>7 DEF HttpInv, Served
<1>15. QED
  BY <1>1, <1>8, <1>9, <1>10, <1>12, <1>13, <1>14 DEF HttpInv, Owned, Serving

LEMMA SpawnHolds ==
  ASSUME HttpInv, Spawn
  PROVE  HttpInv'
<1>1. PICK c \in Conns : c = listener.new
  BY DEF HttpInv, Owned, ListenerOwns, Spawn, Serving
<1>2. Serving /\ UNCHANGED <<srvfd, exit>> /\ listener \in Listener /\ listener.pc = "spawn"
      /\ conn \in [Conns -> Conn] /\ conn[c] \in Conn
      /\ conn[c].pc = "accepted" /\ Served(conn[c]) /\ Has(conn[c].fd, <<c, "socket">>)
  BY <1>1 DEF HttpInv, HttpTypeOK, Owned, ConnsOwn, ListenerOwns, Spawn, Serving
<1>3. listener' \in Listener /\ listener'.pc = "loop" /\ listener'.fd = listener.fd
  BY <1>2 DEF Spawn, Listener
<1>4. /\ stray' = stray /\ fds' \in [Descriptors -> Owners]
      /\ \A m, w : Has(m, w) /\ w \notin {Free, <<c, "socket">>}
                     => m \in Descriptors /\ fds'[m] = w
      /\ \E pc \in {"head", "done"} :
           /\ conn' = [conn EXCEPT ![c].pc = pc]
           /\ pc = "head" => fds' = fds
  <2>1. CASE conn' = [conn EXCEPT ![c].pc = "head"] /\ UNCHANGED <<fds, stray>>
    BY <2>1 DEF HttpInv, HttpTypeOK, Has
  <2>2. CASE CloseFd(conn[c].fd, <<c, "socket">>, "spawn") /\ conn' = [conn EXCEPT ![c].pc = "done"]
    <3>1. /\ stray' = stray /\ fds' \in [Descriptors -> Owners]
          /\ \A m, w : Has(m, w) /\ (w # <<c, "socket">> \/ m # conn[c].fd)
                         => m \in Descriptors /\ fds'[m] = w
      BY <1>2, <2>2, ClosingKeeps DEF HttpInv
    <3>2. QED  BY <2>2, <3>1
  <2>3. QED  BY <1>1, <2>1, <2>2 DEF Spawn
<1>5. PICK pc \in {"head", "done"} :
        conn' = [conn EXCEPT ![c].pc = pc] /\ (pc = "head" => fds' = fds)
  BY <1>4
<1>6. PICK v : v = [conn[c] EXCEPT !.pc = pc]
  OBVIOUS
<1>7. v \in Conn /\ v.pc = pc /\ v.fd = conn[c].fd /\ v.said = conn[c].said
      /\ v.used = conn[c].used
  BY <1>2, <1>6 DEF Conn
<1>8. /\ conn'[c] = v /\ conn' \in [Conns -> Conn]
      /\ \A d \in Conns : d # c => conn'[d] = conn[d]
  BY <1>2, <1>5, <1>6, <1>7
<1>9. HttpTypeOK'
  BY <1>2, <1>3, <1>4, <1>8 DEF HttpInv, HttpTypeOK
<1>16. \A m : /\ Keeps(m, Listening)
              /\ \A d \in Conns : (d # c => Keeps(m, <<d, "socket">>)) /\ Keeps(m, <<d, "file">>)
  BY <1>4, OwnersDiffer DEF Keeps
<1>10. ConnsOwn'
  <2>1. conn'[c].pc \in {"head", "done"} /\ (conn'[c].pc = "head" => Has(conn[c].fd, <<c, "socket">>)')
    BY <1>2, <1>5, <1>7, <1>8 DEF Has
  <2>2. QED  BY <1>2, <1>8, <1>16, <2>1, ConnsKeep
<1>11. \A d \in Conns : Stopping(d)' => Stopping(d) /\ conn'[d] = conn[d]
  BY <1>7, <1>8 DEF Stopping
<1>12. StoppersOwn' /\ (srvfd # None => Has(srvfd, Listening)' /\ Untaken(srvfd)')
  BY <1>2, <1>11, <1>16, ListeningKeeps
<1>13. ListenerOwns'
  <2>1. listener.fd \in Descriptors /\ (srvfd # None => srvfd = listener.fd)
    BY <1>2 DEF HttpInv, Owned, ListenerOwns
  <2>2. QED  BY <1>2, <1>3, <1>12, <2>1 DEF ListenerOwns
<1>14. \A d \in Conns : Served(conn[d])'
  BY <1>2, <1>7, <1>8 DEF HttpInv, Served
<1>15. QED
  BY <1>2, <1>3, <1>4, <1>9, <1>10, <1>12, <1>13, <1>14 DEF HttpInv, Owned, Serving

LEMMA FailedClosesHolds ==
  ASSUME HttpInv, FailedCloses
  PROVE  HttpInv'
<1>1. Serving /\ UNCHANGED <<srvfd, exit, conn>> /\ listener \in Listener /\ srvfd = None
      /\ listener.pc = "closing" /\ Has(listener.fd, Listening) /\ Untaken(listener.fd)
  BY DEF HttpInv, HttpTypeOK, Owned, ListenerOwns, FailedCloses, Serving
<1>2. listener' \in Listener /\ listener'.pc = "sleep"
  BY <1>1 DEF FailedCloses, ListenerAt, Listener
<1>3. /\ stray' = stray /\ fds' \in [Descriptors -> Owners]
      /\ \A m, w : Has(m, w) /\ (w # Listening \/ m # listener.fd)
                     => m \in Descriptors /\ fds'[m] = w
  BY <1>1, ClosingKeeps DEF HttpInv, FailedCloses
<1>4. HttpTypeOK'
  BY <1>1, <1>2, <1>3 DEF HttpInv, HttpTypeOK
<1>5. ConnsOwn'
  <2>1. \A m : \A d \in Conns : Keeps(m, <<d, "socket">>) /\ Keeps(m, <<d, "file">>)
    BY <1>3, OwnersDiffer DEF Keeps
  <2>2. ConnsOwn
    BY <1>1 DEF HttpInv, Owned
  <2>3. QED  BY <1>1, <2>1, <2>2 DEF ConnsOwn, Keeps, Has
<1>6. StoppersOwn'
  BY <1>1, <1>3 DEF HttpInv, Owned, StoppersOwn, Stopping, Untaken, Has
<1>7. ListenerOwns'
  BY <1>1, <1>2 DEF ListenerOwns
<1>8. QED
  BY <1>1, <1>2, <1>3, <1>4, <1>5, <1>6, <1>7 DEF HttpInv, Owned, Serving

(* The one close that does not know whose descriptor it closes comes when the   *)
(* server serves no more.                                                   *)
LEMMA LastCloseHolds ==
  ASSUME HttpInv, LastClose
  PROVE  HttpInv'
<1>1. Serving /\ UNCHANGED <<srvfd, exit, conn>> /\ listener \in Listener /\ exit
  BY DEF HttpInv, HttpTypeOK, LastClose, Serving, Owned, ListenerOwns
<1>2. listener' \in Listener /\ listener'.pc = "returns"
  BY <1>1 DEF LastClose, ListenerAt, Listener
<1>3. fds' \in [Descriptors -> Owners]
  <2>1. Free \in Owners
    BY DEF Owners
  <2>2. QED  BY <1>1, <2>1 DEF HttpInv, HttpTypeOK, LastClose, CloseFd
<1>4. QED
  BY <1>1, <1>2, <1>3 DEF HttpInv, HttpTypeOK, Owned, Serving

LEMMA MainReturnsHolds ==
  ASSUME HttpInv, MainReturns
  PROVE  HttpInv'
<1>1. ~Serving /\ UNCHANGED <<fds, srvfd, exit, conn, stray>> /\ listener \in Listener
  BY DEF HttpInv, HttpTypeOK, MainReturns, Serving
<1>2. listener' \in Listener /\ listener'.pc = "over"
  BY <1>1 DEF MainReturns, ListenerAt, Listener
<1>3. QED
  BY <1>1, <1>2 DEF HttpInv, HttpTypeOK, Owned, Serving

-----------------------------------------------------------------------------
(* The client threads open and close.                                       *)

(* The step disturbs nobody but the one connection, which owns what it uses.     *)
Undisturbed(c, v) ==
  /\ \A m : /\ Keeps(m, Listening) \/ (Stopping(c) /\ m = conn[c].file)
            /\ \A d \in Conns : d # c => Keeps(m, <<d, "socket">>) /\ Keeps(m, <<d, "file">>)
  /\ v.pc \notin {"none", "waiting", "done"} => v.fd \in Descriptors /\ fds'[v.fd] = <<c, "socket">>
  /\ v.pc \in {"stream", "closefile"} => v.file \in Descriptors /\ fds'[v.file] = <<c, "file">>

(* A step of one connection that is not accepted in it, and that takes nothing   *)
(* from the listener.                                                        *)
LEMMA ClientHolds ==
  ASSUME HttpInv, NEW c \in Conns, NEW v \in Conn, conn' = [conn EXCEPT ![c] = v],
         conn[c].pc # "accepted", v.pc \in {"none", "waiting", "done"} \/ Here(v),
         fds' \in [Descriptors -> Owners], UNCHANGED <<srvfd, exit, listener>>,
         Serving => stray' = stray /\ Undisturbed(c, v), v.pc # "stopping", Served(v)
  PROVE  HttpInv'
<1> USE DEF Undisturbed
<1>1. /\ conn'[c] = v /\ conn' \in [Conns -> Conn]
      /\ \A d \in Conns : d # c => conn'[d] = conn[d]
  BY DEF HttpInv, HttpTypeOK
<1>2. HttpTypeOK'
  BY <1>1 DEF HttpInv, HttpTypeOK
<1>8. \A d \in Conns : Served(conn[d])'
  BY <1>1 DEF HttpInv
<1> SUFFICES ASSUME Serving
             PROVE  ConnsOwn' /\ StoppersOwn' /\ ListenerOwns'
  BY <1>2, <1>8 DEF HttpInv, Owned, Serving
<1>3. ConnsOwn'
  <2>1. /\ conn'[c].pc \notin {"none", "waiting", "done"} => Has(conn[c].fd, <<c, "socket">>)'
        /\ conn'[c].pc \in {"stream", "closefile"} => Has(conn[c].file, <<c, "file">>)'
    BY <1>1 DEF Has
  <2>2. QED  BY <1>1, <2>1, ConnsKeep
<1>4. \A d \in Conns : Stopping(d)' => Stopping(d) /\ conn'[d] = conn[d] /\ d # c
  BY <1>1 DEF Stopping
<1>5. \A d \in Conns : d # c /\ Stopping(d) => Keeps(conn[d].file, Listening)
  <2> SUFFICES ASSUME NEW d \in Conns, d # c, Stopping(d)
               PROVE  Keeps(conn[d].file, Listening)
    OBVIOUS
  <2>1. ~(Stopping(c) /\ conn[d].file = conn[c].file)
    BY DEF HttpInv, Owned, StoppersOwn
  <2>2. QED  BY <2>1
<1>6. StoppersOwn'
  <2>1. \A d \in Conns : Stopping(d) => Has(conn[d].file, Listening)
    BY DEF HttpInv, Owned, StoppersOwn
  <2>2. \A d, e \in Conns : Stopping(d) /\ Stopping(e) /\ conn[d].file = conn[e].file => d = e
    BY DEF HttpInv, Owned, StoppersOwn
  <2>3. \A d \in Conns : Stopping(d)' => Has(conn[d].file, Listening)'
    BY <1>4, <1>5, <2>1 DEF Has, Keeps
  <2>4. QED  BY <1>4, <2>2, <2>3 DEF StoppersOwn
<1>7. ListenerOwns'
  <2>1. ListenerOwns
    BY DEF HttpInv, Owned
  <2>2. \A m : Untaken(m) => Untaken(m)' /\ Keeps(m, Listening)
    BY <1>4 DEF Untaken
  <2>3. Untaken(listener.fd) => Untaken(listener.fd)' /\ Keeps(listener.fd, Listening)
    BY <2>2 DEF Untaken
  <2>4. Untaken(srvfd) => Untaken(srvfd)' /\ Keeps(srvfd, Listening)
    BY <2>2 DEF Untaken
  <2>5. listener.pc = "spawn" => conn'[listener.new].pc = "accepted"
    BY <1>1, <2>1 DEF ListenerOwns
  <2>6. QED  BY <2>1, <2>3, <2>4, <2>5 DEF ListenerOwns, Keeps, Has
<1>9. QED  BY <1>3, <1>6, <1>7

(* Before the end of the process as after it.                               *)
LEMMA ConnectHolds ==
  ASSUME HttpInv, NEW c \in Conns, Connect(c)
  PROVE  HttpInv'
<1>1. /\ conn \in [Conns -> Conn] /\ conn[c] \in Conn /\ conn[c].pc = "none"
      /\ UNCHANGED <<fds, srvfd, exit, listener, stray>> /\ Served(conn[c])
      /\ fds \in [Descriptors -> Owners]
  BY DEF HttpInv, HttpTypeOK, Connect
<1>2. PICK v : v = [conn[c] EXCEPT !.pc = "waiting"]
  OBVIOUS
<1>3. v \in Conn /\ v.pc = "waiting" /\ v.said = conn[c].said /\ v.used = conn[c].used
  BY <1>1, <1>2 DEF Conn
<1>4. Served(v)
  BY <1>1, <1>3 DEF Served
<1>5. conn' = [conn EXCEPT ![c] = v]
  BY <1>1, <1>2 DEF Connect
<1>6. Serving => Undisturbed(c, v)
  <2>1. \A m, w : Keeps(m, w)
    BY <1>1 DEF Keeps, Has
  <2>2. QED  BY <1>3, <2>1 DEF Undisturbed
<1>7. QED  BY <1>1, <1>3, <1>4, <1>5, <1>6, ClientHolds

LEMMA OpenFileHolds ==
  ASSUME HttpInv, NEW c \in Conns, OpenFile(c)
  PROVE  HttpInv'
<1>1. /\ conn \in [Conns -> Conn] /\ conn[c] \in Conn /\ conn[c].pc = "open"
      /\ UNCHANGED <<srvfd, exit, listener, stray>> /\ conn[c].kind = "file"
      /\ (Serving => Has(conn[c].fd, <<c, "socket">>))
  BY DEF HttpInv, HttpTypeOK, OpenFile, At, Served, Owned, ConnsOwn
<1>2. Here(conn[c])
  BY <1>1 DEF Here
<1>3. CASE /\ FreeFds # {} /\ fds' = [fds EXCEPT ![Lowest] = <<c, "file">>]
           /\ conn' = [conn EXCEPT ![c].pc = "stream", ![c].file = Lowest]
  <2>1. PICK n : n = Lowest
    OBVIOUS
  <2>2. /\ n \in Descriptors /\ fds'[n] = <<c, "file">> /\ fds' \in [Descriptors -> Owners]
        /\ \A m, w : Has(m, w) /\ w # Free => m \in Descriptors /\ fds'[m] = w /\ m # n
    BY <1>3, <2>1, OpeningKeeps, OwnersDiffer DEF HttpInv
  <2>3. \A m : /\ Keeps(m, Listening)
               /\ \A d \in Conns : Keeps(m, <<d, "socket">>) /\ Keeps(m, <<d, "file">>)
    BY <2>2, OwnersDiffer DEF Keeps
  <2>4. PICK v : v = [conn[c] EXCEPT !.pc = "stream", !.file = n]
    OBVIOUS
  <2>5. v \in Conn /\ v.pc = "stream" /\ v.file = n /\ v.fd = conn[c].fd /\ v.kind = "file"
    BY <1>1, <2>2, <2>4 DEF Conn, Fds
  <2>6. conn' = [conn EXCEPT ![c] = v]
    BY <1>1, <1>3, <2>1, <2>4
  <2>7. Serving => Undisturbed(c, v)
    <3>1. Serving => fds'[v.fd] = <<c, "socket">> /\ v.fd \in Descriptors
      BY <1>1, <2>3, <2>5 DEF Keeps, Has
    <3>2. QED  BY <2>2, <2>3, <2>5, <3>1 DEF Undisturbed
  <2>8. Served(v) /\ Here(v)
    BY <2>5 DEF Served, Here
  <2>9. QED  BY <1>1, <2>2, <2>5, <2>6, <2>7, <2>8, ClientHolds
<1>4. CASE conn' = [conn EXCEPT ![c].pc = "answer", ![c].said = "error"] /\ UNCHANGED fds
  <2>1. PICK v : v = [conn[c] EXCEPT !.pc = "answer", !.said = "error"]
    OBVIOUS
  <2>2. v \in Conn /\ v.fd = conn[c].fd /\ v.file = conn[c].file /\ v.pc = "answer"
        /\ v.said = "error"
    BY <1>1, <2>1 DEF Conn
  <2>3. Here(v) /\ Served(v)
    BY <2>2 DEF Here, Served
  <2>4. conn' = [conn EXCEPT ![c] = v]
    BY <1>1, <1>4, <2>1
  <2>5. QED  BY <1>1, <1>2, <1>4, <2>2, <2>3, <2>4, ServingHolds
<1>5. QED  BY <1>3, <1>4, Zenon DEF OpenFile

LEMMA CloseFileHolds ==
  ASSUME HttpInv, NEW c \in Conns, CloseFile(c)
  PROVE  HttpInv'
<1>1. /\ conn \in [Conns -> Conn] /\ conn[c] \in Conn /\ conn[c].pc = "closefile"
      /\ UNCHANGED <<srvfd, exit, listener>> /\ conn[c].kind = "file"
      /\ (Serving => Has(conn[c].fd, <<c, "socket">>) /\ Has(conn[c].file, <<c, "file">>))
  BY DEF HttpInv, HttpTypeOK, CloseFile, At, Served, Owned, ConnsOwn
<1>2. /\ fds' \in [Descriptors -> Owners] /\ (Serving => stray' = stray)
      /\ Serving => \A m, w : Has(m, w) /\ (w # <<c, "file">> \/ m # conn[c].file)
                     => m \in Descriptors /\ fds'[m] = w
  BY <1>1, ClosingKeeps, ClosingTypes DEF HttpInv, CloseFile
<1>3. Serving => \A m : /\ Keeps(m, Listening) /\ Keeps(m, <<c, "socket">>)
                        /\ \A d \in Conns : d # c => Keeps(m, <<d, "socket">>) /\ Keeps(m, <<d, "file">>)
  BY <1>2, OwnersDiffer DEF Keeps
<1>4. PICK v : v = [conn[c] EXCEPT !.pc = "close", !.file = None]
  OBVIOUS
<1>5. v \in Conn /\ v.pc = "close" /\ v.fd = conn[c].fd /\ v.kind = "file"
  BY <1>1, <1>4 DEF Conn, Fds
<1>6. conn' = [conn EXCEPT ![c] = v]
  BY <1>1, <1>4 DEF CloseFile
<1>7. Serving => Undisturbed(c, v)
  <2>1. Serving => fds'[v.fd] = <<c, "socket">> /\ v.fd \in Descriptors
    BY <1>1, <1>3, <1>5 DEF Keeps
  <2>2. QED  BY <1>1, <1>3, <1>5, <2>1 DEF Undisturbed
<1>8. Served(v) /\ Here(v)
  BY <1>5 DEF Served, Here
<1>9. QED  BY <1>1, <1>2, <1>5, <1>6, <1>7, <1>8, ClientHolds

LEMMA CloseSocketHolds ==
  ASSUME HttpInv, NEW c \in Conns, CloseSocket(c)
  PROVE  HttpInv'
<1>1. /\ conn \in [Conns -> Conn] /\ conn[c] \in Conn /\ conn[c].pc = "stopping"
      /\ UNCHANGED <<srvfd, exit, listener>> /\ conn[c].kind = "stop" /\ Stopping(c)
      /\ (Serving => Has(conn[c].fd, <<c, "socket">>) /\ Has(conn[c].file, Listening))
  BY DEF HttpInv, HttpTypeOK, CloseSocket, At, Served, Owned, ConnsOwn, StoppersOwn, Stopping
<1>2. /\ fds' \in [Descriptors -> Owners] /\ (Serving => stray' = stray)
      /\ Serving => \A m, w : Has(m, w) /\ (w # Listening \/ m # conn[c].file)
                     => m \in Descriptors /\ fds'[m] = w
  BY <1>1, ClosingKeeps, ClosingTypes DEF HttpInv, CloseSocket
<1>3. Serving => \A m : /\ Keeps(m, Listening) \/ m = conn[c].file
                        /\ \A d \in Conns : Keeps(m, <<d, "socket">>) /\ Keeps(m, <<d, "file">>)
  BY <1>2, OwnersDiffer DEF Keeps
<1>4. PICK v : v = [conn[c] EXCEPT !.pc = "close", !.file = None]
  OBVIOUS
<1>5. v \in Conn /\ v.pc = "close" /\ v.fd = conn[c].fd /\ v.kind = "stop"
  BY <1>1, <1>4 DEF Conn, Fds
<1>6. conn' = [conn EXCEPT ![c] = v]
  BY <1>1, <1>4 DEF CloseSocket
<1>7. Serving => Undisturbed(c, v)
  <2>1. Serving => fds'[v.fd] = <<c, "socket">> /\ v.fd \in Descriptors
    BY <1>1, <1>3, <1>5 DEF Keeps
  <2>2. QED  BY <1>1, <1>3, <1>5, <2>1 DEF Undisturbed
<1>8. Served(v) /\ Here(v)
  BY <1>5 DEF Served, Here
<1>9. QED  BY <1>1, <1>2, <1>5, <1>6, <1>7, <1>8, ClientHolds

LEMMA CloseConnHolds ==
  ASSUME HttpInv, NEW c \in Conns, CloseConn(c)
  PROVE  HttpInv'
<1>1. /\ conn \in [Conns -> Conn] /\ conn[c] \in Conn /\ conn[c].pc = "close"
      /\ UNCHANGED <<srvfd, exit, listener>> /\ (Serving => Has(conn[c].fd, <<c, "socket">>))
  BY DEF HttpInv, HttpTypeOK, CloseConn, At, Owned, ConnsOwn
<1>2. /\ fds' \in [Descriptors -> Owners] /\ (Serving => stray' = stray)
      /\ Serving => \A m, w : Has(m, w) /\ (w # <<c, "socket">> \/ m # conn[c].fd)
                     => m \in Descriptors /\ fds'[m] = w
  BY <1>1, ClosingKeeps, ClosingTypes DEF HttpInv, CloseConn
<1>3. Serving => \A m : /\ Keeps(m, Listening)
                        /\ \A d \in Conns : d # c => Keeps(m, <<d, "socket">>) /\ Keeps(m, <<d, "file">>)
  BY <1>2, OwnersDiffer DEF Keeps
<1>4. PICK v : v = [NewConn EXCEPT !.pc = "done"]
  OBVIOUS
<1>5. v \in Conn /\ v.pc = "done" /\ v.said = "nothing"
  BY <1>4, HttpAssumption DEF NewConn, Conn, Fds, RequestKinds
<1>6. conn' = [conn EXCEPT ![c] = v]
  BY <1>1, <1>4 DEF CloseConn
<1>7. Served(v)
  BY <1>5 DEF Served
<1>8. Serving => Undisturbed(c, v)
  BY <1>3, <1>5 DEF Undisturbed
<1>9. QED  BY <1>1, <1>2, <1>5, <1>6, <1>7, <1>8, ClientHolds

(* The listening socket passes from g_websrv_srvfd to the one who closes it.  *)
LEMMA TakeSocketHolds ==
  ASSUME HttpInv, NEW c \in Conns, TakeSocket(c)
  PROVE  HttpInv'
<1>1. /\ conn \in [Conns -> Conn] /\ conn[c] \in Conn /\ conn[c].pc = "stop"
      /\ UNCHANGED <<fds, listener, stray>> /\ srvfd' = None /\ exit' = TRUE
      /\ conn[c].kind = "stop" /\ (Serving => Has(conn[c].fd, <<c, "socket">>)) /\ srvfd \in Fds
  BY DEF HttpInv, HttpTypeOK, TakeSocket, At, Served, Owned, ConnsOwn
<1>2. PICK pc : pc = IF srvfd = None THEN "close" ELSE "stopping"
  OBVIOUS
<1>3. PICK v : v = [conn[c] EXCEPT !.file = srvfd, !.pc = pc]
  OBVIOUS
<1>4. v \in Conn /\ v.pc = pc /\ v.fd = conn[c].fd /\ v.file = srvfd /\ v.kind = "stop"
  BY <1>1, <1>2, <1>3 DEF Conn
<1>5. /\ conn'[c] = v /\ conn' \in [Conns -> Conn]
      /\ \A d \in Conns : d # c => conn'[d] = conn[d]
  BY <1>1, <1>2, <1>3, <1>4 DEF TakeSocket
<1>6. HttpTypeOK'
  BY <1>1, <1>5 DEF HttpInv, HttpTypeOK, Fds
<1>15. \A d \in Conns : Served(conn[d])'
  <2>1. Served(v)
    BY <1>2, <1>4 DEF Served
  <2>2. QED  BY <1>5, <2>1 DEF HttpInv
<1> SUFFICES ASSUME Serving
             PROVE  ConnsOwn' /\ StoppersOwn' /\ ListenerOwns'
  BY <1>1, <1>6, <1>15 DEF HttpInv, Owned, Serving
<1>7. \A m, w : Keeps(m, w)
  BY <1>1 DEF Keeps, Has
<1>8. ConnsOwn'
  <2>1. Has(conn[c].fd, <<c, "socket">>)'
    BY <1>1, <1>4, <1>5 DEF Has
  <2>2. conn'[c].pc \notin {"stream", "closefile"}
    BY <1>2, <1>4, <1>5
  <2>3. QED  BY <1>1, <1>5, <1>7, <2>1, <2>2, ConnsKeep
<1>9. ListenerOwns /\ StoppersOwn
  BY <1>1 DEF HttpInv, Owned
<1>10. srvfd # None =>
         srvfd = listener.fd /\ Has(srvfd, Listening) /\ (\A d \in Conns : Stopping(d) => conn[d].file # srvfd)
  BY <1>9 DEF ListenerOwns, Untaken
<1>11. \A d \in Conns : d # c => (Stopping(d)' <=> Stopping(d)) /\ conn'[d].file = conn[d].file
  BY <1>5 DEF Stopping
<1>12. Stopping(c)' <=> srvfd # None
  BY <1>2, <1>4, <1>5 DEF Stopping
<1>13. StoppersOwn'
  <2>1. ASSUME NEW d \in Conns, Stopping(d)'
        PROVE  Has(conn[d].file, Listening)'
    BY <1>1, <1>4, <1>5, <1>9, <1>10, <1>11, <1>12, <2>1 DEF StoppersOwn, Has
  <2>2. ASSUME NEW d \in Conns, NEW e \in Conns, Stopping(d)', Stopping(e)',
               conn'[d].file = conn'[e].file
        PROVE  d = e
    BY <1>4, <1>5, <1>9, <1>10, <1>11, <1>12, <2>2 DEF StoppersOwn
  <2>3. QED  BY <2>1, <2>2 DEF StoppersOwn
(* While the listener is about to publish or to close its socket, g_websrv_srvfd   *)
(* is empty.                                                                 *)
<1>14. ListenerOwns'
  <2>1. listener.pc \in {"publish", "closing"} => Untaken(listener.fd)'
    <3>1. listener.pc \in {"publish", "closing"} => srvfd = None /\ Untaken(listener.fd)
      BY <1>9 DEF ListenerOwns
    <3>2. QED  BY <1>1, <1>11, <1>12, <3>1 DEF Untaken
  <2>2. listener.pc = "spawn" => conn'[listener.new].pc = "accepted"
    BY <1>1, <1>5, <1>9 DEF ListenerOwns
  <2>3. QED  BY <1>1, <1>9, <2>1, <2>2 DEF ListenerOwns, Has
<1>16. QED  BY <1>8, <1>13, <1>14

-----------------------------------------------------------------------------
(* The invariant holds of every behaviour of the server.                      *)
THEOREM HttpInvariant == HttpSpec => []HttpInv
<1>1. HttpInit => HttpInv
  BY HttpInvAtStart
<1>2. HttpInv /\ [HttpNext]_httpVars => HttpInv'
  <2> SUFFICES ASSUME HttpInv, [HttpNext]_httpVars
               PROVE  HttpInv'
    OBVIOUS
  <2>1. CASE ListenerStep
    <3>1. ASSUME exit /\ AcceptFails
          PROVE  HttpInv'
      BY <3>1, AcceptFailsHolds
    <3>2. QED
      BY <2>1, <3>1, ListenHolds, PublishHolds, LoopTestHolds, AcceptHolds, SpawnHolds,
         FailedHolds, FailedClosesHolds, EndingHolds, LastCloseHolds, SleepHolds,
         MainReturnsHolds DEF ListenerStep
  <2>2. CASE AcceptFails
    BY <2>2, AcceptFailsHolds
  <2>3. ASSUME NEW c \in Conns, Connect(c)
        PROVE  HttpInv'
    BY <2>3, ConnectHolds
  <2>4. ASSUME NEW c \in Conns, ClientThread(c)
        PROVE  HttpInv'
    BY <2>4, ReadHeadHolds, DispatchHolds, ReadBodyHolds, OpenFileHolds, StreamHolds,
       CloseFileHolds, AnswerHolds, TakeSocketHolds, CloseSocketHolds, CloseConnHolds
       DEF ClientThread
  <2>7. ASSUME NEW c \in Conns, HandlerEnds(c)
        PROVE  HttpInv'
    BY <2>7, HandlerEndsHolds
  <2>5. CASE UNCHANGED httpVars
    <3>1. UNCHANGED <<fds, srvfd, exit, listener, conn, stray>>
      BY <2>5 DEF httpVars
    <3>2. Owned'
      BY <3>1 DEF HttpInv, Owned, Serving, ConnsOwn, StoppersOwn, ListenerOwns, Stopping, Untaken, Has
    <3>3. QED  BY <3>1, <3>2 DEF HttpInv, HttpTypeOK, ClosesItsOwn, Serving
  <2>6. QED  BY <2>1, <2>2, <2>3, <2>4, <2>5, <2>7 DEF HttpNext
<1>3. QED  BY <1>1, <1>2, PTL DEF HttpSpec

(* The shape of descriptors, threads and connections is kept.                 *)
THEOREM HttpTypeCorrect == HttpSpec => []HttpTypeOK
<1>1. HttpInv => HttpTypeOK
  BY DEF HttpInv
<1>2. QED  BY <1>1, HttpInvariant, PTL

(* However accepting, serving and stopping interleave, the threads close what    *)
(* they have opened themselves, until the accept loop has ended after a request   *)
(* to stop.                                                                  *)
THEOREM ThreadsCloseTheirOwn == HttpSpec => []ClosesItsOwn
<1>1. HttpInv => ClosesItsOwn
  BY DEF HttpInv, Serving, ClosesItsOwn
<1>2. QED  BY <1>1, HttpInvariant, PTL

(* An upload answered as good was given the body it announced, whole and with     *)
(* nothing of what came after it.                                             *)
THEOREM BodiesAreWhole == HttpSpec => []BodyIsWhole
<1>1. HttpInv => BodyIsWhole
  BY DEF HttpInv, BodyIsWhole, Served
<1>2. QED  BY <1>1, HttpInvariant, PTL

-----------------------------------------------------------------------------
(* Browser: the inductive invariant.                                        *)

(* The operations keep their shape, and each was right when it was asked for. *)
ActsOK ==
  acts \in Seq(Act) /\ Len(acts) <= MaxActs /\ \A i \in DOMAIN acts : acts[i].right

(* The listing that was asked for last is of the folder the tab is at.        *)
ListsOK ==
  /\ lists \in Seq(Listing) /\ Len(lists) <= MaxLists
  /\ \A i \in DOMAIN lists : ~lists[i].old => lists[i].path = at

(* So are the rows, once no listing is under way, unless an older answer came  *)
(* last; and what is selected is among them, unless the last listing failed.   *)
ShownHere == lists = <<>> /\ ~overtaken => entries.of = at
SelectionShown == ~broken => selected \subseteq entries.names

ScreenOK ==
  /\ at \in Folders /\ typed \in Folders /\ entries \in [of : Folders, names : SUBSET Names]
  /\ selected \subseteq Names /\ IsFiniteSet(selected)
  /\ drawn \in BOOLEAN /\ overtaken \in BOOLEAN /\ broken \in BOOLEAN /\ dropped \in BOOLEAN
PollsOK ==
  /\ alarm \in [path : Folders \cup {NoFolder}, next : Folders \cup {NoFolder}]
  /\ reveal \in BOOLEAN /\ side \in {"paths", "activity"} /\ primed \in BOOLEAN
ServerOK == held \in [Folders -> SUBSET Names] /\ clicks \in 0 .. MaxClicks

BrowserInv ==
  ActsOK /\ ListsOK /\ ShownHere /\ SelectionShown /\ ScreenOK /\ PollsOK /\ ServerOK

-----------------------------------------------------------------------------
(* Sequences.                                                               *)
LEMMA RemovedFrom ==
  ASSUME NEW S, NEW s \in Seq(S), NEW i \in 1 .. Len(s)
  PROVE  /\ RemoveAt(s, i) \in Seq(S) /\ Len(RemoveAt(s, i)) = Len(s) - 1
         /\ \A j \in 1 .. (Len(s) - 1) : RemoveAt(s, i)[j] = IF j < i THEN s[j] ELSE s[j + 1]
<1> DEFINE a == SubSeq(s, 1, i - 1)
           b == SubSeq(s, i + 1, Len(s))
<1>1. a \in Seq(S) /\ Len(a) = i - 1 /\ \A j \in 1 .. (i - 1) : a[j] = s[j]
  <2>1. \A j \in 1 .. (i - 1) : s[j] \in S
    OBVIOUS
  <2> QED  BY <2>1
<1>2. b \in Seq(S) /\ Len(b) = Len(s) - i /\ \A j \in 1 .. (Len(s) - i) : b[j] = s[i + j]
  <2>1. \A j \in (i + 1) .. Len(s) : s[j] \in S
    OBVIOUS
  <2> QED  BY <2>1
<1> HIDE DEF a, b
<1>3. /\ a \o b \in Seq(S) /\ Len(a \o b) = Len(a) + Len(b)
      /\ \A j \in 1 .. (Len(a) + Len(b)) : (a \o b)[j] = IF j <= Len(a) THEN a[j] ELSE b[j - Len(a)]
  BY <1>1, <1>2, ConcatProperties
<1>4. ASSUME NEW j \in 1 .. (Len(s) - 1) PROVE (a \o b)[j] = IF j < i THEN s[j] ELSE s[j + 1]
  <2>1. j \in 1 .. (Len(a) + Len(b))
    BY <1>1, <1>2
  <2>2. CASE j < i
    <3>1. j <= Len(a) /\ j \in 1 .. (i - 1)
      BY <1>1, <2>2
    <3> QED  BY <1>1, <1>3, <2>1, <2>2, <3>1
  <2>3. CASE ~(j < i)
    <3>1. ~(j <= Len(a)) /\ j - Len(a) \in 1 .. (Len(s) - i) /\ i + (j - Len(a)) = j + 1
      BY <1>1, <2>3
    <3> QED  BY <1>2, <1>3, <2>1, <2>3, <3>1
  <2> QED  BY <2>2, <2>3
<1>5. RemoveAt(s, i) = a \o b
  BY DEF RemoveAt, a, b
<1>6. Len(a) + Len(b) = Len(s) - 1
  BY <1>1, <1>2
<1> QED  BY <1>3, <1>4, <1>5, <1>6

(* The names of a selection in some order.                                   *)
LEMMA NamesInOrder ==
  ASSUME NEW ns, IsFiniteSet(ns)
  PROVE  SetToSeq(ns) \in [1 .. Cardinality(ns) -> ns] /\ Cardinality(ns) \in Nat
<1>1. Cardinality(ns) \in Nat /\ ExistsBijection(1 .. Cardinality(ns), ns)
  BY FS_CardinalityType
<1>2. \E f \in [1 .. Cardinality(ns) -> ns] : IsInjective(f)
  BY <1>1 DEF ExistsBijection, Bijection, Injection
<1> QED  BY <1>1, <1>2 DEF SetToSeq

-----------------------------------------------------------------------------
(* Operations.                                                              *)
LEMMA ActsChange ==
  ASSUME ActsOK, NEW f, acts' = f, f \in [DOMAIN acts -> Act],
         \A i \in DOMAIN acts : f[i].right = acts[i].right
  PROVE  ActsOK'
<1>1. DOMAIN acts = 1 .. Len(acts) /\ Len(acts) \in Nat
  BY DEF ActsOK
<1>2. f \in Seq(Act) /\ Len(f) = Len(acts) /\ DOMAIN f = DOMAIN acts
  BY <1>1
<1> QED  BY <1>2 DEF ActsOK

LEMMA ActsGrow ==
  ASSUME ActsOK, NEW s \in Seq(Act), acts' = acts \o s, Len(acts) + Len(s) <= MaxActs,
         \A i \in DOMAIN s : s[i].right
  PROVE  ActsOK'
<1>1. acts \in Seq(Act) /\ acts \o s \in Seq(Act) /\ Len(acts \o s) = Len(acts) + Len(s)
  BY DEF ActsOK
<1>2. ASSUME NEW i \in DOMAIN (acts \o s) PROVE (acts \o s)[i].right
  <2>1. i \in 1 .. (Len(acts) + Len(s))
    BY <1>1
  <2>2. (acts \o s)[i] = IF i <= Len(acts) THEN acts[i] ELSE s[i - Len(acts)]
    BY <1>1, <2>1, ConcatProperties
  <2>3. CASE i <= Len(acts)
    BY <1>1, <2>1, <2>2, <2>3 DEF ActsOK
  <2>4. CASE ~(i <= Len(acts))
    <3>1. i - Len(acts) \in DOMAIN s
      BY <1>1, <2>1, <2>4
    <3> QED  BY <2>2, <2>4, <3>1
  <2> QED  BY <2>3, <2>4
<1> QED  BY <1>1, <1>2 DEF ActsOK

LEMMA OneMore ==
  ASSUME ActsOK, NEW a \in Act, acts' = Append(acts, a), Len(acts) < MaxActs, a.right
  PROVE  ActsOK'
<1>1. acts \in Seq(Act) /\ MaxActs \in Nat
  BY BrowserAssumption DEF ActsOK
<1>2. Append(acts, a) \in Seq(Act) /\ Len(Append(acts, a)) = Len(acts) + 1
      /\ \A i \in 1 .. (Len(acts) + 1) :
           Append(acts, a)[i] = IF i = Len(acts) + 1 THEN a ELSE acts[i]
  BY <1>1
<1>3. \A i \in 1 .. (Len(acts) + 1) : Append(acts, a)[i].right
  BY <1>1, <1>2 DEF ActsOK
<1> QED  BY <1>1, <1>2, <1>3 DEF ActsOK

(* What the user asks for is what the rows show.                              *)
LEMMA RowsAreRight ==
  ASSUME ListsOK, ShownHere, NEW n, ~broken => n \in entries.names
  PROVE  Right(n)
BY DEF ShownHere, Right, Warned

LEMMA AskedFor ==
  ASSUME BrowserInv, NEW kind \in Kinds, NEW ns, NEW to \in Folders, IsFiniteSet(ns), ns \subseteq Names,
         \A n \in ns : Right(n), clicks < MaxClicks, AsksFor(kind, ns, to)
  PROVE  ActsOK'
<1> DEFINE order == SetToSeq(ns)
           s == Started(kind, ns, to)
           v(i) == [kind |-> kind, folder |-> at, name |-> order[i], to |-> to, batch |-> clicks + 1,
                    pc |-> IF i = 1 THEN "asked" ELSE "waiting",
                    seen |-> "no", told |-> FALSE, right |-> Right(order[i])]
<1>1. order \in [1 .. Cardinality(ns) -> ns] /\ Cardinality(ns) \in Nat
  BY NamesInOrder
<1>2. s = [i \in 1 .. Cardinality(ns) |-> v(i)]
  BY <1>1 DEF Started
<1>3. ASSUME NEW i \in 1 .. Cardinality(ns) PROVE v(i) \in Act /\ v(i).right
  <2>1. order[i] \in Names /\ Right(order[i])
    BY <1>1
  <2>2. clicks + 1 \in 0 .. MaxClicks /\ at \in Folders
    BY BrowserAssumption DEF BrowserInv, ServerOK, ScreenOK
  <2> HIDE DEF order
  <2>3. Right(order[i]) \in BOOLEAN
    BY DEF Right
  <2>4. (IF i = 1 THEN "asked" ELSE "waiting") \in
          {"waiting", "asked", "running", "over", "refused", "forgotten"}
    OBVIOUS
  <2>5. v(i) \in Act
    BY <2>1, <2>2, <2>3, <2>4 DEF Act
  <2> QED  BY <2>1, <2>5
<1> HIDE DEF v
<1>4. s \in Seq(Act) /\ Len(s) = Cardinality(ns) /\ \A i \in DOMAIN s : s[i].right
  BY <1>1, <1>2, <1>3
<1> QED  BY <1>4, ActsGrow DEF AsksFor, BrowserInv

-----------------------------------------------------------------------------
(* The view.                                                                *)
ViewOK == ListsOK /\ ShownHere /\ SelectionShown /\ ScreenOK

LEMMA ViewStays == ASSUME ViewOK, UNCHANGED listVars PROVE ViewOK'
BY DEF ViewOK, ListsOK, ShownHere, SelectionShown, ScreenOK, listVars

LEMMA Asked ==
  ASSUME NEW ls \in Seq(Listing), Len(ls) < MaxLists, NEW p \in Folders,
         NEW next \in Folders \cup {NoFolder}, Asks(p, next, ls), at' = p
  PROVE  ListsOK' /\ lists' # <<>>
<1> DEFINE l == [path |-> p, next |-> IF next = p THEN NoFolder ELSE next,
                 read |-> FALSE, names |-> {}, old |-> FALSE]
           o == Old(ls)
<1>1. l \in Listing /\ l.path = p
  BY DEF Listing
<1>2. o \in Seq(Listing) /\ Len(o) = Len(ls) /\ \A i \in 1 .. Len(ls) : o[i].old
  <2> DEFINE aged(i) == [ls[i] EXCEPT !.old = TRUE]
  <2>1. o = [i \in 1 .. Len(ls) |-> aged(i)] /\ Len(ls) \in Nat
    BY DEF Old
  <2>2. ASSUME NEW i \in 1 .. Len(ls) PROVE aged(i) \in Listing /\ aged(i).old
    <3>1. ls[i] \in Listing
      OBVIOUS
    <3> QED  BY <3>1 DEF Listing
  <2> HIDE DEF o, aged
  <2> QED  BY <2>1, <2>2
<1>3. lists' = Append(o, l) /\ MaxLists \in Nat
  BY BrowserAssumption DEF Asks
<1> HIDE DEF l, o
<1>4. Append(o, l) \in Seq(Listing) /\ Len(Append(o, l)) = Len(o) + 1
      /\ \A i \in 1 .. (Len(o) + 1) : Append(o, l)[i] = IF i = Len(o) + 1 THEN l ELSE o[i]
  BY <1>1, <1>2
<1>5. \A i \in 1 .. (Len(o) + 1) : ~Append(o, l)[i].old => Append(o, l)[i].path = p
  BY <1>1, <1>2, <1>4
<1> QED  BY <1>2, <1>3, <1>4, <1>5 DEF ListsOK

LEMMA Refreshed ==
  ASSUME ViewOK, NEW p \in Folders, NEW next \in Folders \cup {NoFolder}, Refresh(p, next),
         UNCHANGED <<entries, selected, overtaken, broken>>
  PROVE  ViewOK'
<1>1. ListsOK' /\ lists' # <<>>
  BY Asked DEF ViewOK, ListsOK, Refresh
<1>2. ShownHere' /\ SelectionShown'
  BY <1>1 DEF ViewOK, ShownHere, SelectionShown
<1>3. ScreenOK'
  BY DEF ViewOK, ScreenOK, Refresh
<1> QED  BY <1>1, <1>2, <1>3 DEF ViewOK

LEMMA Hidden ==
  ASSUME ViewOK, NEW ns, Hides(ns), UNCHANGED <<at, typed, lists, overtaken, broken, dropped>>
  PROVE  ViewOK'
<1>1. entries'.of = entries.of /\ entries'.names = entries.names \ ns /\ selected' = selected \ ns
      /\ entries' \in [of : Folders, names : SUBSET Names] /\ drawn' = TRUE
  BY DEF ViewOK, ScreenOK, Hides
<1>2. IsFiniteSet(selected')
  BY <1>1, FS_Subset DEF ViewOK, ScreenOK
<1>3. ScreenOK'
  BY <1>1, <1>2 DEF ViewOK, ScreenOK
<1>4. ListsOK' /\ ShownHere' /\ SelectionShown'
  BY <1>1 DEF ViewOK, ListsOK, ShownHere, SelectionShown
<1> QED  BY <1>3, <1>4 DEF ViewOK

(* An answer leaves one listing less, and of those that are left what held.    *)
LEMMA OneLess ==
  ASSUME ListsOK, NEW i \in DOMAIN lists
  PROVE  /\ RemoveAt(lists, i) \in Seq(Listing) /\ Len(RemoveAt(lists, i)) = Len(lists) - 1
         /\ \A j \in DOMAIN RemoveAt(lists, i) :
              ~RemoveAt(lists, i)[j].old => RemoveAt(lists, i)[j].path = at
         /\ lists[i] \in Listing /\ Len(lists) <= MaxLists /\ Len(lists) \in Nat /\ MaxLists \in Nat
<1>1. lists \in Seq(Listing) /\ i \in 1 .. Len(lists) /\ Len(lists) <= MaxLists
  BY DEF ListsOK
<1>2. /\ RemoveAt(lists, i) \in Seq(Listing) /\ Len(RemoveAt(lists, i)) = Len(lists) - 1
      /\ \A j \in 1 .. (Len(lists) - 1) :
           RemoveAt(lists, i)[j] = IF j < i THEN lists[j] ELSE lists[j + 1]
  BY <1>1, RemovedFrom
<1>3. ASSUME NEW j \in 1 .. (Len(lists) - 1), ~RemoveAt(lists, i)[j].old
      PROVE  RemoveAt(lists, i)[j].path = at
  <2>1. j \in DOMAIN lists /\ j + 1 \in DOMAIN lists
    BY <1>1
  <2> QED  BY <1>2, <1>3, <2>1 DEF ListsOK
<1>4. DOMAIN RemoveAt(lists, i) = 1 .. (Len(lists) - 1)
  BY <1>1, <1>2
<1> QED  BY <1>1, <1>2, <1>3, <1>4, BrowserAssumption

LEMMA Drawn ==
  ASSUME ViewOK, NEW i \in DOMAIN lists, NEW ns \in SUBSET Names, Draws(i, ns),
         UNCHANGED dropped,
         \/ selected' = {} /\ broken' = FALSE
         \/ selected' = selected /\ broken' = TRUE
  PROVE  ViewOK'
<1>1. lists' = RemoveAt(lists, i) /\ at' = at /\ typed' = typed /\ drawn' = TRUE
      /\ overtaken' = lists[i].old /\ entries' = [of |-> lists[i].path, names |-> ns]
  BY DEF Draws
<1>2. lists[i] \in Listing
  BY OneLess DEF ViewOK
<1>3. ListsOK'
  BY <1>1, OneLess DEF ViewOK, ListsOK
<1>4. ShownHere'
  BY <1>1 DEF ViewOK, ListsOK, ShownHere
<1>5. SelectionShown'
  BY <1>1 DEF SelectionShown
<1>6. IsFiniteSet(selected') /\ selected' \subseteq Names /\ broken' \in BOOLEAN
  BY FS_EmptySet DEF ViewOK, ScreenOK
<1>7. overtaken' \in BOOLEAN /\ entries' \in [of : Folders, names : SUBSET Names]
  BY <1>1, <1>2 DEF Listing
<1>8. ScreenOK'
  BY <1>1, <1>6, <1>7 DEF ViewOK, ScreenOK
<1> QED  BY <1>3, <1>4, <1>5, <1>8 DEF ViewOK

LEMMA Read ==
  ASSUME ViewOK, ServerOK, NEW i \in DOMAIN lists, ListReads(i)
  PROVE  ViewOK'
<1>1. lists' = [lists EXCEPT ![i].read = TRUE, ![i].names = held[lists[i].path]]
      /\ UNCHANGED <<at, typed, entries, drawn, selected, overtaken, broken, dropped>>
  BY DEF ListReads
<1>2. lists \in Seq(Listing) /\ DOMAIN lists = 1 .. Len(lists) /\ lists[i] \in Listing
  BY DEF ViewOK, ListsOK
<1>3. held[lists[i].path] \in SUBSET Names
  BY <1>2 DEF ServerOK, Listing
<1>4. ASSUME NEW j \in DOMAIN lists
      PROVE  lists'[j] \in Listing /\ lists'[j].old = lists[j].old /\ lists'[j].path = lists[j].path
  <2>1. CASE j = i
    <3>1. lists'[j] = [lists[i] EXCEPT !.read = TRUE, !.names = held[lists[i].path]]
      BY <1>1, <1>2, <2>1
    <3> QED  BY <1>2, <1>3, <2>1, <3>1 DEF Listing
  <2>2. CASE j # i
    <3>1. lists'[j] = lists[j] /\ lists[j] \in Listing
      BY <1>1, <1>2, <2>2
    <3> QED  BY <3>1
  <2> QED  BY <2>1, <2>2
<1>5. lists' \in Seq(Listing) /\ Len(lists') = Len(lists) /\ DOMAIN lists' = DOMAIN lists
  <2>1. lists' = [j \in 1 .. Len(lists) |-> lists'[j]]
    BY <1>1, <1>2
  <2> QED  BY <1>2, <1>4, <2>1
<1>6. ListsOK'
  BY <1>1, <1>4, <1>5 DEF ViewOK, ListsOK
<1>7. lists' # <<>>
  BY <1>2, <1>5
<1>8. ShownHere' /\ SelectionShown' /\ ScreenOK'
  BY <1>1, <1>7 DEF ViewOK, ShownHere, SelectionShown, ScreenOK
<1> QED  BY <1>6, <1>8 DEF ViewOK

LEMMA ListsStep ==
  ASSUME BrowserInv, NEW i \in DOMAIN lists, ListStep(i)
  PROVE  BrowserInv'
<1>1. ViewOK /\ ServerOK /\ lists[i] \in Listing
  BY OneLess DEF BrowserInv, ViewOK
<1>2. acts' = acts /\ held' = held /\ clicks' = clicks
  BY DEF ListStep, ListReads, ListDraws, ListFails
<1>3. ActsOK' /\ ServerOK'
  BY <1>2 DEF BrowserInv, ActsOK, ServerOK
<1>4. PollsOK'
  BY DEF ListStep, ListReads, ListDraws, ListFails, BrowserInv, PollsOK, pollVars
<1>5. ViewOK'
  <2>1. CASE ListReads(i)
    BY <1>1, <2>1, Read
  <2>2. CASE ListDraws(i)
    <3>1. lists[i].names \in SUBSET Names
      BY <1>1 DEF Listing
    <3> QED  BY <1>1, <2>2, <3>1, Drawn DEF ListDraws
  <2>3. CASE ListFails(i) /\ lists[i].next = NoFolder
    BY <1>1, <2>3, Drawn DEF ListFails
  <2>4. CASE ListFails(i) /\ lists[i].next # NoFolder
    <3> DEFINE p == lists[i].next
    <3>1. p \in Folders
      BY <1>1, <2>4 DEF Listing
    <3>2. at' = p /\ typed' = p /\ Asks(p, NoFolder, RemoveAt(lists, i)) /\ dropped' = FALSE
          /\ UNCHANGED <<entries, drawn, selected, overtaken, broken>>
      BY <2>4 DEF ListFails
    <3>3. RemoveAt(lists, i) \in Seq(Listing) /\ Len(RemoveAt(lists, i)) < MaxLists
      BY <1>1, OneLess DEF ViewOK
    <3>4. ListsOK' /\ lists' # <<>>
      BY <3>1, <3>2, <3>3, Asked
    <3>5. ShownHere' /\ SelectionShown'
      BY <1>1, <3>2, <3>4 DEF ViewOK, ShownHere, SelectionShown
    <3>6. ScreenOK'
      BY <1>1, <3>1, <3>2 DEF ViewOK, ScreenOK
    <3> QED  BY <3>4, <3>5, <3>6 DEF ViewOK
  <2> QED  BY <2>1, <2>2, <2>3, <2>4 DEF ListStep
<1> QED  BY <1>3, <1>4, <1>5 DEF BrowserInv, ViewOK

-----------------------------------------------------------------------------
(* What becomes of an operation leaves it as right as it was.                *)
States == {"waiting", "asked", "running", "over", "refused", "forgotten"}

LEMMA StateChange ==
  ASSUME NEW a \in Act, NEW pc \in States
  PROVE  [a EXCEPT !.pc = pc] \in Act /\ [a EXCEPT !.pc = pc].right = a.right
BY DEF Act, States

LEMMA SeenChange ==
  ASSUME NEW a \in Act, NEW seen \in {"no", "running", "over"}
  PROVE  [a EXCEPT !.seen = seen] \in Act /\ [a EXCEPT !.seen = seen].right = a.right
BY DEF Act

LEMMA EachAct == ASSUME ActsOK, NEW i \in DOMAIN acts PROVE acts[i] \in Act /\ acts[i].pc \in States
<1>1. acts[i] \in Act
  BY DEF ActsOK
<1> QED  BY <1>1 DEF Act, States

LEMMA AnswerKeeps ==
  ASSUME ActsOK, NEW i \in DOMAIN acts, NEW pc \in States, acts' = Answered(i, pc)
  PROVE  ActsOK'
<1> DEFINE f == Answered(i, pc)
<1>1. ASSUME NEW j \in DOMAIN acts PROVE f[j] \in Act /\ f[j].right = acts[j].right
  <2>1. f[j] \in {[acts[j] EXCEPT !.pc = pc], [acts[j] EXCEPT !.pc = "asked"], acts[j]}
    BY DEF Answered
  <2>2. "asked" \in States /\ acts[j] \in Act
    BY EachAct DEF States
  <2>3. PICK a : a = acts[j]
    OBVIOUS
  <2> HIDE DEF f
  <2>4. a \in Act /\ f[j] \in {[a EXCEPT !.pc = pc], [a EXCEPT !.pc = "asked"], a}
    BY <2>1, <2>2, <2>3
  <2>5. f[j] \in Act /\ f[j].right = a.right
    <3>1. [a EXCEPT !.pc = pc] \in Act /\ [a EXCEPT !.pc = pc].right = a.right
      BY <2>4, StateChange
    <3>2. [a EXCEPT !.pc = "asked"] \in Act /\ [a EXCEPT !.pc = "asked"].right = a.right
      BY <2>2, <2>4, StateChange
    <3> QED  BY <2>4, <3>1, <3>2
  <2> QED  BY <2>3, <2>5
<1>2. f \in [DOMAIN acts -> Act]
  <2>1. \E g : f = [j \in DOMAIN acts |-> g[j]]
    BY DEF Answered
  <2> HIDE DEF f
  <2> QED  BY <1>1, <2>1
<1> HIDE DEF f
<1>3. acts' = f
  BY DEF f
<1> QED  BY <1>1, <1>2, <1>3, ActsChange

LEMMA ForgettingKeeps ==
  ASSUME ActsOK
  PROVE  /\ Forgotten \in [DOMAIN acts -> Act]
         /\ \A i \in DOMAIN acts : Forgotten[i].right = acts[i].right
<1> DEFINE g(i) == [acts[i] EXCEPT !.pc = IF @ = "over" THEN "forgotten" ELSE @]
<1>1. ASSUME NEW i \in DOMAIN acts PROVE g(i) \in Act /\ g(i).right = acts[i].right
  <2> DEFINE pc == IF acts[i].pc = "over" THEN "forgotten" ELSE acts[i].pc
  <2>1. pc \in States /\ acts[i] \in Act
    BY EachAct DEF States
  <2>2. g(i) = [acts[i] EXCEPT !.pc = pc]
    OBVIOUS
  <2> HIDE DEF pc, g
  <2> QED  BY <2>1, <2>2, StateChange
<1>2. Forgotten = [i \in DOMAIN acts |-> g(i)]
  BY DEF Forgotten
<1> HIDE DEF g
<1> QED  BY <1>1, <1>2

(* The parts of the invariant.                                              *)
LEMMA InParts == ASSUME ActsOK', ViewOK', PollsOK', ServerOK' PROVE BrowserInv'
BY DEF BrowserInv, ViewOK

LEMMA Parts == ASSUME BrowserInv PROVE ActsOK /\ ViewOK /\ PollsOK /\ ServerOK
BY DEF BrowserInv, ViewOK

LEMMA ActsStay == ASSUME ActsOK, acts' = acts PROVE ActsOK'
BY DEF ActsOK
LEMMA PollsStay == ASSUME PollsOK, UNCHANGED pollVars PROVE PollsOK'
BY DEF PollsOK, pollVars
LEMMA ServerStays == ASSUME ServerOK, UNCHANGED <<held, clicks>> PROVE ServerOK'
BY DEF ServerOK
LEMMA ServerClicked == ASSUME ServerOK, held' = held, Click PROVE ServerOK' /\ clicks < MaxClicks
BY BrowserAssumption DEF ServerOK, Click

-----------------------------------------------------------------------------
(* The user.                                                                *)
LEMMA Opens ==
  ASSUME BrowserInv, NEW p \in Folders, OpenPath(p) \/ TypePath(p) \/ Go
  PROVE  BrowserInv'
<1>1. ActsOK' /\ PollsOK' /\ ServerOK'
  <2>1. acts' = acts /\ UNCHANGED pollVars /\ held' = held /\ Click
    BY DEF OpenPath, TypePath, Go
  <2> QED  BY <2>1, Parts, ActsStay, PollsStay, ServerClicked
<1>2. ViewOK'
  <2>1. CASE OpenPath(p)
    BY <2>1, Parts, Refreshed DEF OpenPath
  <2>2. CASE Go
    <3>1. typed \in Folders
      BY DEF BrowserInv, ScreenOK
    <3> QED  BY <2>2, <3>1, Parts, Refreshed DEF Go
  <2>3. CASE TypePath(p)
    BY <2>3, Parts DEF TypePath, ViewOK, ListsOK, ShownHere, SelectionShown, ScreenOK
  <2> QED  BY <2>1, <2>2, <2>3
<1> QED  BY <1>1, <1>2, InParts

LEMMA Selects ==
  ASSUME BrowserInv, NEW n \in Names, Select(n)
  PROVE  BrowserInv'
<1>1. ActsOK' /\ PollsOK' /\ ServerOK'
  BY Parts, ActsStay, PollsStay, ServerClicked DEF Select
<1>2. n \in entries.names /\ UNCHANGED <<at, typed, entries, drawn, lists, overtaken, broken, dropped>>
      /\ selected' \in {{n}, selected \ {n}, selected \cup {n}}
  BY DEF Select
<1>3. IsFiniteSet({n}) /\ IsFiniteSet(selected \ {n}) /\ IsFiniteSet(selected \cup {n})
  BY FS_Singleton, FS_AddElement, FS_Subset DEF BrowserInv, ScreenOK
<1>4. IsFiniteSet(selected') /\ selected' \subseteq Names
  BY <1>2, <1>3 DEF BrowserInv, ScreenOK
<1>5. ListsOK' /\ ShownHere' /\ SelectionShown'
  BY <1>2 DEF BrowserInv, ListsOK, ShownHere, SelectionShown
<1>6. ScreenOK'
  BY <1>2, <1>4 DEF BrowserInv, ScreenOK
<1> QED  BY <1>1, <1>5, <1>6, InParts DEF ViewOK

LEMMA Deletes ==
  ASSUME BrowserInv, NEW ns, IsFiniteSet(ns), ns \subseteq Names, Delete(ns),
         \A n \in ns : ~broken => n \in entries.names
  PROVE  BrowserInv'
<1>1. \A n \in ns : Right(n)
  BY RowsAreRight DEF BrowserInv
<1>2. clicks < MaxClicks /\ ServerOK'
  BY Parts, ServerClicked DEF Delete
<1>3. "delete" \in Kinds /\ at \in Folders
  BY DEF Kinds, BrowserInv, ScreenOK
<1>4. ActsOK'
  BY <1>1, <1>2, <1>3, AskedFor DEF Delete
<1>5. ViewOK'
  BY Parts, Hidden DEF Delete
<1>6. PollsOK'
  BY Parts DEF Delete, PollsOK
<1> QED  BY <1>2, <1>4, <1>5, <1>6, InParts

LEMMA Clicks ==
  ASSUME BrowserInv, UserClicks
  PROVE  BrowserInv'
<1>1. CASE \E p \in Folders : OpenPath(p) \/ TypePath(p)
  BY <1>1, Opens
<1>2. CASE Go
  BY <1>2, Opens, BrowserAssumption
<1>3. ASSUME NEW n \in Names, DeleteRow(n) PROVE BrowserInv'
  <2>1. IsFiniteSet({n}) /\ {n} \subseteq Names
    BY FS_Singleton
  <2> QED  BY <1>3, <2>1, Deletes DEF DeleteRow
<1>4. CASE DeleteSelected
  BY <1>4, Deletes DEF DeleteSelected, BrowserInv, ScreenOK, SelectionShown
<1>5. ASSUME NEW p \in Folders, Move(p) PROVE BrowserInv'
  <2>1. \A n \in selected : Right(n)
    BY RowsAreRight DEF BrowserInv, SelectionShown
  <2>2. ServerOK' /\ clicks < MaxClicks
    BY <1>5, Parts, ServerClicked DEF Move
  <2>3. "move" \in Kinds /\ IsFiniteSet(selected) /\ selected \subseteq Names
    BY DEF Kinds, BrowserInv, ScreenOK
  <2>4. ActsOK'
    BY <1>5, <2>1, <2>2, <2>3, AskedFor DEF Move
  <2> QED  BY <1>5, <2>2, <2>4, Parts, ViewStays, PollsStay, InParts DEF Move
<1>6. ASSUME NEW n \in Names, Select(n) PROVE BrowserInv'
  BY <1>6, Selects
<1>7. ASSUME NEW n \in Names, MakeFolder(n) PROVE BrowserInv'
  <2> DEFINE a == [kind |-> "make", folder |-> at, name |-> n, to |-> at,
                   batch |-> clicks + 1, pc |-> "asked", seen |-> "no", told |-> FALSE,
                   right |-> entries.of = at \/ Warned]
  <2>1. ServerOK' /\ clicks < MaxClicks
    BY <1>7, Parts, ServerClicked DEF MakeFolder
  <2>2. at \in Folders /\ clicks + 1 \in 0 .. MaxClicks
    BY <2>1, BrowserAssumption DEF BrowserInv, ScreenOK, ServerOK
  <2>3. a.right /\ a.right \in BOOLEAN
    BY DEF BrowserInv, ShownHere, Warned
  <2>4. (entries.of = at \/ Warned) = TRUE
    BY <2>3
  <2>5. a \in Act
    BY <2>2, <2>4 DEF Act, Kinds
  <2>6. acts' = Append(acts, a) /\ Len(acts) < MaxActs
    BY <1>7 DEF MakeFolder
  <2> HIDE DEF a
  <2>7. ActsOK'
    BY <2>3, <2>5, <2>6, Parts, OneMore
  <2> QED  BY <1>7, <2>1, <2>7, Parts, ViewStays, PollsStay, InParts DEF MakeFolder
<1>8. CASE ClearActivity
  <2> DEFINE f == [i \in DOMAIN acts |-> [Forgotten[i] EXCEPT !.seen = "no"]]
  <2>1. ASSUME NEW i \in DOMAIN acts PROVE f[i] \in Act /\ f[i].right = acts[i].right
    <3>1. Forgotten[i] \in Act /\ Forgotten[i].right = acts[i].right
      BY Parts, ForgettingKeeps
    <3> QED  BY <3>1, SeenChange
  <2>2. f \in [DOMAIN acts -> Act]
    BY <2>1
  <2>3. acts' = f
    BY <1>8 DEF ClearActivity
  <2> HIDE DEF f
  <2>4. ActsOK'
    BY <2>1, <2>2, <2>3, Parts, ActsChange
  <2>5. ViewOK' /\ ServerOK'
    BY <1>8, Parts, ViewStays, ServerClicked DEF ClearActivity
  <2>6. PollsOK'
    BY <1>8, Parts DEF ClearActivity, PollsOK
  <2> QED  BY <2>4, <2>5, <2>6, InParts
<1>9. ASSUME NEW mode \in {"paths", "activity"}, SideMode(mode) PROVE BrowserInv'
  <2>1. ActsOK' /\ ViewOK' /\ ServerOK'
    BY <1>9, Parts, ActsStay, ViewStays, ServerClicked DEF SideMode
  <2>2. PollsOK'
    BY <1>9, Parts DEF SideMode, PollsOK
  <2> QED  BY <2>1, <2>2, InParts
<1> QED  BY <1>1, <1>2, <1>3, <1>4, <1>5, <1>6, <1>7, <1>8, <1>9 DEF UserClicks

-----------------------------------------------------------------------------
(* What an operation does to the folders.                                    *)
LEMMA EffectOK ==
  ASSUME ActsOK, ServerOK, NEW i \in DOMAIN acts
  PROVE  Effect(acts[i]) \in [Folders -> SUBSET Names]
<1>1. acts[i] \in Act
  BY EachAct
<1>2. acts[i].kind \in Kinds /\ acts[i].folder \in Folders /\ acts[i].to \in Folders /\ acts[i].name \in Names
  BY <1>1 DEF Act
<1> QED  BY <1>2 DEF Effect, ServerOK, Kinds

-----------------------------------------------------------------------------
(* The answers.                                                             *)
LEMMA AnswersKeep ==
  ASSUME BrowserInv, NEW i \in DOMAIN acts, Answers(i)
  PROVE  BrowserInv'
<1>1. {"running", "refused", "over"} \subseteq States
  BY DEF States
<1>2. CASE MoveAnswered(i)
  <2>1. PICK pc \in {"running", "refused"} :
          /\ acts' = Answered(i, pc)
          /\ IF ~Follows(i) /\ Batch(i, acts') # {}
               THEN Hides({acts[j].name : j \in Batch(i, acts')})
             ELSE UNCHANGED <<entries, selected, drawn>>
          /\ reveal' = (reveal \/ pc = "refused" \/ ~Follows(i))
    BY <1>2 DEF MoveAnswered
  <2>2. UNCHANGED <<held, at, typed, lists, overtaken, broken, dropped, alarm, side, primed, clicks>>
    BY <1>2 DEF MoveAnswered
  <2>3. ActsOK'
    BY <1>1, <2>1, Parts, AnswerKeeps
  <2>4. ViewOK'
    <3>1. CASE Hides({acts[j].name : j \in Batch(i, acts')})
      BY <2>2, <3>1, Parts, Hidden
    <3>2. CASE UNCHANGED <<entries, selected, drawn>>
      BY <2>2, <3>2, Parts, ViewStays DEF listVars
    <3> QED  BY <2>1, <3>1, <3>2
  <2>5. PollsOK'
    BY <2>1, <2>2, Parts DEF PollsOK
  <2>6. ServerOK'
    BY <2>2, Parts, ServerStays
  <2> QED  BY <2>3, <2>4, <2>5, <2>6, InParts
<1>3. CASE DeleteStarts(i)
  <2>1. ActsOK' /\ ViewOK' /\ ServerOK'
    BY <1>1, <1>3, Parts, AnswerKeeps, ViewStays, ServerStays DEF DeleteStarts
  <2>2. PollsOK'
    BY <1>3, Parts DEF DeleteStarts, PollsOK
  <2> QED  BY <2>1, <2>2, InParts
<1>4. CASE DeleteRefused(i)
  <2> DEFINE f == [j \in DOMAIN acts |->
                     IF acts[j].batch = acts[i].batch /\ acts[j].pc \in {"asked", "waiting"}
                       THEN [acts[j] EXCEPT !.pc = "refused"] ELSE acts[j]]
  <2>1. ASSUME NEW j \in DOMAIN acts PROVE f[j] \in Act /\ f[j].right = acts[j].right
    BY <1>1, Parts, EachAct, StateChange
  <2>2. f \in [DOMAIN acts -> Act]
    BY <2>1
  <2>3. acts' = f
    BY <1>4 DEF DeleteRefused
  <2> HIDE DEF f
  <2>4. ActsOK'
    BY <2>1, <2>2, <2>3, Parts, ActsChange
  <2>5. ViewOK' /\ ServerOK'
    <3>1. typed \in Folders
      BY DEF BrowserInv, ScreenOK
    <3> QED  BY <1>4, <3>1, Parts, Refreshed, ServerStays DEF DeleteRefused
  <2>6. PollsOK'
    BY <1>4, Parts DEF DeleteRefused, PollsOK
  <2> QED  BY <2>4, <2>5, <2>6, InParts
<1>5. CASE FolderMade(i)
  <2>1. acts' = Answered(i, "over") /\ reveal' = TRUE
        /\ UNCHANGED <<entries, selected, overtaken, broken, alarm, side, primed, clicks>>
    BY <1>5 DEF FolderMade
  <2>2. ActsOK'
    BY <1>1, <2>1, Parts, AnswerKeeps
  <2>3. ViewOK'
    <3>1. CASE Refresh(typed, NoFolder)
      <4>1. typed \in Folders
        BY DEF BrowserInv, ScreenOK
      <4> QED  BY <2>1, <3>1, <4>1, Parts, Refreshed
    <3>2. CASE UNCHANGED <<at, typed, drawn, lists, dropped>>
      BY <2>1, <3>2, Parts, ViewStays DEF listVars
    <3> QED  BY <1>5, <3>1, <3>2 DEF FolderMade
  <2>4. PollsOK'
    BY <2>1, Parts DEF PollsOK
  <2>5. held' \in {held, Effect(acts[i])}
    BY <1>5 DEF FolderMade
  <2>6. ServerOK'
    BY <2>1, <2>5, Parts, EffectOK DEF ServerOK
  <2> QED  BY <2>2, <2>3, <2>4, <2>6, InParts
<1> QED  BY <1>2, <1>3, <1>4, <1>5 DEF Answers

-----------------------------------------------------------------------------
(* The server, and the polls.                                               *)
LEMMA Ends ==
  ASSUME BrowserInv, NEW i \in DOMAIN acts, ActEnds(i)
  PROVE  BrowserInv'
<1>1. acts' = [acts EXCEPT ![i].pc = "over"] /\ held' \in {held, Effect(acts[i])}
      /\ UNCHANGED <<listVars, pollVars, clicks>>
  BY DEF ActEnds
<1> DEFINE f == [j \in DOMAIN acts |-> IF j = i THEN [acts[j] EXCEPT !.pc = "over"] ELSE acts[j]]
<1>2. ASSUME NEW j \in DOMAIN acts PROVE f[j] \in Act /\ f[j].right = acts[j].right
  <2>1. "over" \in States
    BY DEF States
  <2> QED  BY <2>1, Parts, EachAct, StateChange
<1>3. f \in [DOMAIN acts -> Act]
  BY <1>2
<1>4. acts' = f
  <2>1. acts \in Seq(Act)
    BY DEF BrowserInv, ActsOK
  <2> QED  BY <1>1, <2>1
<1> HIDE DEF f
<1>5. ActsOK'
  BY <1>2, <1>3, <1>4, Parts, ActsChange
<1>6. ServerOK'
  BY <1>1, Parts, EffectOK DEF ServerOK
<1> QED  BY <1>1, <1>5, <1>6, Parts, ViewStays, PollsStay, InParts

LEMMA Others ==
  ASSUME BrowserInv,
         OtherClears \/ \E p \in Folders, n \in Names : OtherUploads(p, n)
  PROVE  BrowserInv'
<1>1. UNCHANGED <<held, listVars, pollVars, clicks>>
  BY DEF OtherClears, OtherUploads
<1>2. ViewOK' /\ PollsOK' /\ ServerOK'
  BY <1>1, Parts, ViewStays, PollsStay, ServerStays
<1>3. CASE OtherClears
  BY <1>2, <1>3, Parts, ForgettingKeeps, ActsChange, InParts DEF OtherClears
<1>4. ASSUME NEW p \in Folders, NEW n \in Names, OtherUploads(p, n) PROVE BrowserInv'
  <2> DEFINE a == [kind |-> "upload", folder |-> p, name |-> n, to |-> p, batch |-> 0,
                   pc |-> "running", seen |-> "no", told |-> FALSE, right |-> TRUE]
  <2>1. a \in Act /\ a.right
    BY BrowserAssumption DEF Act, Kinds
  <2>2. acts' = Append(acts, a) /\ Len(acts) < MaxActs
    BY <1>4 DEF OtherUploads
  <2> HIDE DEF a
  <2> QED  BY <1>2, <2>1, <2>2, Parts, OneMore, InParts
<1> QED  BY <1>3, <1>4

LEMMA PollKeeps ==
  ASSUME BrowserInv, NEW mode, Polls(mode)
  PROVE  /\ ActsOK' /\ ViewOK' /\ ServerOK' /\ primed' = TRUE
         /\ alarm' \in [path : Folders \cup {NoFolder}, next : Folders \cup {NoFolder}]
<1> DEFINE news == IF primed THEN Ended(mode) ELSE {}
           g(i) == [acts[i] EXCEPT !.seen = IF Listed(i, mode) THEN acts[i].pc ELSE "no",
                                   !.told = @ \/ i \in news]
<1>1. ASSUME NEW i \in DOMAIN acts PROVE g(i) \in Act /\ g(i).right = acts[i].right
  <2> DEFINE seen == IF Listed(i, mode) THEN acts[i].pc ELSE "no"
             told == acts[i].told \/ i \in news
  <2>1. acts[i] \in Act
    BY Parts, EachAct
  <2>2. seen \in {"no", "running", "over"}
    BY DEF Listed
  <2>3. told \in BOOLEAN
    <3>1. acts[i].told \in BOOLEAN
      BY <2>1 DEF Act
    <3> HIDE DEF news
    <3> QED  BY <3>1
  <2>4. g(i) = [acts[i] EXCEPT !.seen = seen, !.told = told]
    OBVIOUS
  <2> HIDE DEF seen, told, g, news
  <2> QED  BY <2>1, <2>2, <2>3, <2>4 DEF Act
<1>2. acts' = [i \in DOMAIN acts |-> g(i)] /\ primed' = TRUE /\ UNCHANGED <<held, listVars, clicks>>
  BY DEF Polls
<1>3. ActsOK'
  <2> HIDE DEF g
  <2> QED  BY <1>1, <1>2, Parts, ActsChange
<1>4. alarm' \in [path : Folders \cup {NoFolder}, next : Folders \cup {NoFolder}]
  <2>1. CASE news = {}
    BY <2>1, Parts DEF Polls, PollsOK
  <2>2. CASE news # {}
    <3>1. PICK i \in news, gone \in BOOLEAN :
            alarm' = [path |-> at, next |-> IF gone THEN NoFolder ELSE acts[i].to]
      BY <2>2 DEF Polls
    <3>2. i \in DOMAIN acts
      BY <3>1 DEF Ended
    <3>3. acts[i].to \in Folders /\ at \in Folders
      <4>1. acts[i] \in Act
        BY <3>2, Parts, EachAct
      <4> QED  BY <4>1 DEF Act, BrowserInv, ScreenOK
    <3> QED  BY <3>1, <3>3
  <2> QED  BY <2>1, <2>2
<1> QED  BY <1>2, <1>3, <1>4, Parts, ViewStays, ServerStays

LEMMA Timers ==
  ASSUME BrowserInv, Poll \/ Reveals \/ AlarmRings
  PROVE  BrowserInv'
<1>1. CASE Poll
  <2>1. PollsOK'
    BY <1>1, Parts, PollKeeps DEF Poll, PollsOK
  <2> QED  BY <1>1, <2>1, PollKeeps, InParts DEF Poll
<1>2. CASE Reveals
  <2>1. PollsOK'
    BY <1>2, Parts, PollKeeps DEF Reveals, PollsOK
  <2> QED  BY <1>2, <2>1, PollKeeps, InParts DEF Reveals
<1>3. CASE AlarmRings
  <2>1. alarm' = NoAlarm
        /\ UNCHANGED <<held, acts, entries, selected, overtaken, broken, reveal, side, primed, clicks>>
    BY <1>3 DEF AlarmRings
  <2>2. ActsOK' /\ ServerOK'
    BY <2>1, Parts, ActsStay, ServerStays
  <2>3. PollsOK'
    BY <2>1, Parts DEF PollsOK, NoAlarm
  <2>4. ViewOK'
    <3>1. CASE Refresh(at, alarm.next)
      <4>1. at \in Folders /\ alarm.next \in Folders \cup {NoFolder}
        BY DEF BrowserInv, ScreenOK, PollsOK
      <4> QED  BY <2>1, <3>1, <4>1, Parts, Refreshed
    <3>2. CASE dropped' = (dropped \/ at = alarm.path) /\ UNCHANGED <<at, typed, drawn, lists>>
      BY <2>1, <3>2, Parts DEF ViewOK, ListsOK, ShownHere, SelectionShown, ScreenOK
    <3> QED  BY <1>3, <3>1, <3>2 DEF AlarmRings
  <2> QED  BY <2>2, <2>3, <2>4, InParts
<1> QED  BY <1>1, <1>2, <1>3

-----------------------------------------------------------------------------
(* Browser: the theorems.                                                   *)
LEMMA BrowserStarts == BrowserInit => BrowserInv
<1> SUFFICES ASSUME BrowserInit PROVE BrowserInv
  OBVIOUS
<1>1. ActsOK
  BY BrowserAssumption DEF BrowserInit, ActsOK
<1>2. held \in [Folders -> SUBSET Names] /\ at = Home /\ Home \in Folders
  BY BrowserAssumption DEF BrowserInit
<1>3. ServerOK
  BY <1>2, BrowserAssumption DEF BrowserInit, ServerOK
<1>4. ViewOK
  <2>1. lists = <<>> /\ selected = {} /\ typed = at /\ entries = [of |-> at, names |-> held[at]]
        /\ drawn = TRUE /\ overtaken = FALSE /\ broken = FALSE /\ dropped = FALSE
    BY DEF BrowserInit
  <2>2. ListsOK
    BY <2>1, BrowserAssumption DEF ListsOK
  <2>3. ShownHere /\ SelectionShown
    BY <2>1 DEF ShownHere, SelectionShown
  <2>4. held[at] \in SUBSET Names
    BY <1>2
  <2>5. ScreenOK
    BY <1>2, <2>1, <2>4, FS_EmptySet DEF ScreenOK
  <2> QED  BY <2>2, <2>3, <2>5 DEF ViewOK
<1>5. PollsOK
  BY DEF BrowserInit, PollsOK, NoAlarm
<1> QED  BY <1>1, <1>3, <1>4, <1>5 DEF BrowserInv, ViewOK

LEMMA BrowserSteps == BrowserInv /\ [BrowserNext]_browserVars => BrowserInv'
<1> SUFFICES ASSUME BrowserInv, [BrowserNext]_browserVars PROVE BrowserInv'
  OBVIOUS
<1>1. CASE BrowserNext
  BY <1>1, Clicks, AnswersKeep, Ends, Others, Timers, ListsStep DEF BrowserNext
<1>2. CASE UNCHANGED browserVars
  <2>1. acts' = acts /\ held' = held /\ clicks' = clicks /\ UNCHANGED listVars /\ UNCHANGED pollVars
    BY <1>2 DEF browserVars
  <2> QED  BY <2>1, Parts, ActsStay, ViewStays, PollsStay, ServerStays, InParts
<1> QED  BY <1>1, <1>2

(* The inductive invariant of the tab holds whatever the user clicks, in        *)
(* whatever order the listings are answered, and whatever other tabs do.       *)
THEOREM BrowserInvariant == BrowserSpec => []BrowserInv
<1> QED  BY BrowserStarts, BrowserSteps, PTL DEF BrowserSpec

(* The tab and the server keep what has its shape.                           *)
THEOREM BrowserTypeCorrect == BrowserSpec => []BrowserTypeOK
<1>1. BrowserInv => BrowserTypeOK
  BY DEF BrowserInv, ActsOK, ListsOK, ScreenOK, PollsOK, ServerOK, BrowserTypeOK
<1> QED  BY <1>1, BrowserInvariant, PTL

(* deleteEntry, deleteSelected, pasteClipboard and makeFolder join a path read   *)
(* now and a name drawn before: for any folders and names, and any number of     *)
(* clicks and of listings under way, they are those of one row the user saw,     *)
(* unless the list was loading, had failed, or two listings had crossed.         *)
THEOREM OnlyWhatIsShown == BrowserSpec => []ActsOnWhatIsShown
<1>1. BrowserInv => ActsOnWhatIsShown
  BY DEF BrowserInv, ActsOK, ActsOnWhatIsShown
<1> QED  BY <1>1, BrowserInvariant, PTL

=============================================================================
