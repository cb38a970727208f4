-------------------------- MODULE ArchivePipe_proofs ---------------------------
(***************************************************************************)
(* Proofs about ArchivePipe for any number of uploads and cancelling         *)
(* requests, any sizes of ring, body and reads: the ring holds the stream,   *)
(* nobody uses a pipe that is gone, success means that the archive came, and *)
(* without a cancel whoever sleeps is woken.                                 *)
(*                                                                          *)
(* All of it is one invariant, Good, of each upload by itself (its pipe and   *)
(* its two threads), and two of all of them: one upload at most has the job   *)
(* slot, and the registered pipe is one whose producer is at work.           *)
(***************************************************************************)
EXTENDS ArchivePipe, Integers, TLAPS

(* Where the handler is before it has a pipe, while it has, and after its      *)
(* producer has been joined.                                                *)
Early   == {"new", "manifest", "mrecv", "spawn"}
Working == {"fill", "read", "wait", "parse", "failed", "shut", "join"}
Late    == {"end", "destroy", "reply", "gone"}
AtWork  == {"loop", "recv", "write", "wait", "last", "clear"}

Phased(k, q, h, p) ==
  /\ h.pc \in Early => ~q.live /\ h.got = 0 /\ p.pc = "none" /\ p.taken = 0 /\ p.sent = 0
  /\ h.pc \in Working => q.live /\ p.pc # "none"
  /\ h.pc \in Late => p.pc \in {"none", "exit"}
  /\ h.pc = "destroy" => q.live
  /\ h.pc \in {"reply", "gone"} => ~q.live
  /\ h.pc = "end" /\ q.live => k = "zip"

Holds(q, got) ==
  /\ q.wpos = (q.rpos + q.used) % Cap
  /\ \A i \in 0 .. q.used - 1 : q.buf[(q.rpos + i) % Cap] = got + 1 + i

Streams(q, h, p) ==
  /\ p.pc = "new" => p.sent = 0
  /\ p.pc \in {"write", "wait"} => p.sent < p.taken
  /\ p.sent <= p.taken
  /\ q.live => h.got + q.used = p.sent /\ Holds(q, h.got)

(* A sleeper's condition is false, and whoever leaves the pipe alone has said  *)
(* so, unless the job was cancelled.                                         *)
Told(q, c) == q.done \/ q.cancel \/ c
Sleeps(q, h, p, c) ==
  /\ h.pc = "wait" => q.used = 0 /\ ~q.done /\ ~q.cancel
  /\ p.pc = "wait" => q.used = Cap /\ ~q.done /\ ~q.cancel
  /\ p.pc \in {"clear", "exit"} /\ h.pc \in {"fill", "read", "wait", "parse"} => Told(q, c)
  /\ h.pc \in {"shut", "join"} => Told(q, c) \/ h.got = Body

Extracts(k, h) ==
  /\ h.drain => h.got >= Entries
  /\ h.result = "ok" => h.got >= IF k = "rar" THEN Body ELSE Entries

Good(k, q, h, p, c) == Phased(k, q, h, p) /\ Streams(q, h, p) /\ Sleeps(q, h, p, c) /\ Extracts(k, h)

AllGood == \A u \in Uploads : Good(kind[u], pipe[u], handler[u], producer[u], cancel)

(* The job slot, and what is registered with it.                            *)
InSlot(k, pc) == pc \notin {"new", "reply", "gone"} /\ ~(pc = "destroy" /\ k = "zip")
OneInSlot ==
  /\ \A u \in Uploads : InSlot(kind[u], handler[u].pc) => busy
  /\ \A u, v \in Uploads : InSlot(kind[u], handler[u].pc) /\ InSlot(kind[v], handler[v].pc) => u = v
Registered == active.pipe # None => producer[active.pipe].pc \in AtWork

PipeInv == PipeTypeOK /\ AllGood /\ OneInSlot /\ Registered
-----------------------------------------------------------------------------
(* The ring.                                                                *)

LEMMA SizeTypes ==
  /\ Cap \in Nat \ {0} /\ RecvSize \in Nat \ {0} /\ ReadSize \in Nat \ {0}
  /\ Body \in Nat \ {0} /\ Entries \in 1 .. Body /\ Initial \in 0 .. Body
BY PipeAssumption

(* A position that ran past the end, by less than a ring.                     *)
LEMMA WrapOnce ==
  ASSUME NEW x \in Nat, x < Cap + Cap
  PROVE  x % Cap = IF x < Cap THEN x ELSE x - Cap
<1> DEFINE n == Cap
           k == x \div n
<1>1. n \in Nat /\ n > 0 /\ x < n + n
  BY SizeTypes
<1>2. x = n * k + (x % n) /\ x % n \in 0 .. n - 1 /\ k \in Int
  BY <1>1
<1> HIDE DEF n, k
<1>3. CASE k <= -1
  <2>1. n * k <= -n
    BY <1>1, <1>2, <1>3
  <2>2. QED  BY <1>1, <1>2, <2>1
<1>4. CASE k = 0
  <2>1. n * k = 0
    BY <1>1, <1>4
  <2>2. QED  BY <1>1, <1>2, <2>1 DEF n
<1>5. CASE k = 1
  <2>1. n * k = n
    BY <1>1, <1>5
  <2>2. QED  BY <1>1, <1>2, <2>1 DEF n
<1>6. CASE k >= 2
  <2>1. n * k >= n + n
    BY <1>1, <1>2, <1>6
  <2>2. QED  BY <1>1, <1>2, <2>1
<1>7. QED  BY <1>2, <1>3, <1>4, <1>5, <1>6

(* zip_pipe_write's copy, which does not wrap, extends the stream: first on the *)
(* positions and the buffer alone.                                           *)
LEMMA PutPositions ==
  ASSUME NEW rpos \in 0 .. Cap - 1, NEW used \in 0 .. Cap, NEW wpos \in 0 .. Cap - 1,
         wpos = (rpos + used) % Cap,
         NEW n \in Nat, n <= Cap - used, n <= Cap - wpos
  PROVE  /\ (wpos + n) % Cap = (rpos + (used + n)) % Cap
         /\ (wpos + n) % Cap \in 0 .. Cap - 1
         /\ \A i \in 0 .. used - 1 :
              (rpos + i) % Cap \in 0 .. Cap - 1 /\ (rpos + i) % Cap \notin wpos .. wpos + n - 1
         /\ \A i \in used .. used + n - 1 : (rpos + i) % Cap = wpos + (i - used)
<1>1. Cap \in Nat /\ Cap > 0
  BY SizeTypes
<1>2. wpos = IF rpos + used < Cap THEN rpos + used ELSE rpos + used - Cap
  BY <1>1, WrapOnce
<1>3. (wpos + n) % Cap = IF wpos + n < Cap THEN wpos + n ELSE wpos + n - Cap
  BY <1>1, WrapOnce
<1>4. \A i \in 0 .. used + n :
        rpos + i < Cap + Cap /\ (rpos + i) % Cap = IF rpos + i < Cap THEN rpos + i ELSE rpos + i - Cap
  BY <1>1, WrapOnce
<1>5. used + n \in 0 .. used + n
  BY <1>1
<1>6. (wpos + n) % Cap = (rpos + (used + n)) % Cap
  BY <1>1, <1>2, <1>3, <1>4, <1>5
<1>7. (wpos + n) % Cap \in 0 .. Cap - 1
  BY <1>1, <1>3
<1>8. ASSUME NEW i \in 0 .. used - 1
      PROVE  (rpos + i) % Cap \in 0 .. Cap - 1 /\ (rpos + i) % Cap \notin wpos .. wpos + n - 1
  <2>1. i \in 0 .. used + n
    BY <1>1
  <2>2. QED  BY <1>1, <1>2, <1>4, <2>1
<1>9. ASSUME NEW i \in used .. used + n - 1
      PROVE  (rpos + i) % Cap = wpos + (i - used)
  <2>1. i \in 0 .. used + n
    BY <1>1
  <2>2. QED  BY <1>1, <1>2, <1>4, <2>1
<1>10. QED  BY <1>6, <1>7, <1>8, <1>9

LEMMA PutHolds ==
  ASSUME NEW q \in Pipe, NEW got \in Nat, NEW sent \in Nat, NEW n \in Nat,
         got + q.used = sent, Holds(q, got),
         n <= Cap - q.used, n <= Cap - q.wpos, sent + n <= Body
  PROVE  Put(q, sent, n) \in Pipe /\ Holds(Put(q, sent, n), got) /\ Put(q, sent, n).used = q.used + n
         /\ Put(q, sent, n).live = q.live /\ Put(q, sent, n).done = q.done /\ Put(q, sent, n).cancel = q.cancel
<1> DEFINE rpos == q.rpos
           wpos == q.wpos
           used == q.used
           old  == q.buf
           buf  == [i \in 0 .. Cap - 1 |-> IF i \in wpos .. wpos + n - 1 THEN sent + 1 + i - wpos ELSE old[i]]
<1>1. /\ old \in [0 .. Cap - 1 -> Bytes] /\ rpos \in 0 .. Cap - 1 /\ wpos \in 0 .. Cap - 1
      /\ used \in 0 .. Cap
  BY DEF Pipe
<1>2. Cap \in Nat /\ Cap > 0 /\ Body \in Nat
  BY SizeTypes
<1>3. /\ wpos = (rpos + used) % Cap
      /\ \A i \in 0 .. used - 1 : old[(rpos + i) % Cap] = got + 1 + i
      /\ got + used = sent /\ n <= Cap - used /\ n <= Cap - wpos
  BY DEF Holds
<1>4. Put(q, sent, n) = [q EXCEPT !.buf = buf, !.wpos = (wpos + n) % Cap, !.used = used + n]
  BY DEF Put
<1> HIDE DEF rpos, wpos, used, old
<1>5. /\ (wpos + n) % Cap = (rpos + (used + n)) % Cap
      /\ (wpos + n) % Cap \in 0 .. Cap - 1
      /\ \A i \in 0 .. used - 1 :
           (rpos + i) % Cap \in 0 .. Cap - 1 /\ (rpos + i) % Cap \notin wpos .. wpos + n - 1
      /\ \A i \in used .. used + n - 1 : (rpos + i) % Cap = wpos + (i - used)
  BY <1>1, <1>2, <1>3, PutPositions
<1>6. buf \in [0 .. Cap - 1 -> Bytes]
  <2>1. \A i \in 0 .. Cap - 1 : i \in wpos .. wpos + n - 1 => sent + 1 + i - wpos \in 0 .. Body
    BY <1>1, <1>2
  <2>2. QED  BY <1>1, <2>1 DEF Bytes
<1>7. ASSUME NEW i \in 0 .. used + n - 1
      PROVE  buf[(rpos + i) % Cap] = got + 1 + i
  <2>1. CASE i < used
    <3>1. i \in 0 .. used - 1
      BY <1>1, <1>2, <2>1
    <3>2. QED  BY <1>3, <1>5, <3>1
  <2>2. CASE i >= used
    <3>1. i \in used .. used + n - 1 /\ wpos + (i - used) \in wpos .. wpos + n - 1
          /\ wpos + (i - used) \in 0 .. Cap - 1
      BY <1>1, <1>2, <1>3, <2>2
    <3>2. buf[wpos + (i - used)] = sent + 1 + (wpos + (i - used)) - wpos
      BY <3>1
    <3>3. sent + 1 + (wpos + (i - used)) - wpos = got + 1 + i
      BY <1>1, <1>2, <1>3, <3>1
    <3>4. QED  BY <1>5, <3>1, <3>2, <3>3
  <2>3. QED  BY <1>1, <1>2, <2>1, <2>2
<1>8. used + n \in 0 .. Cap
  BY <1>1, <1>2, <1>3
<1> HIDE DEF buf
<1>9. /\ Put(q, sent, n) \in Pipe /\ Put(q, sent, n).used = used + n /\ Put(q, sent, n).buf = buf
      /\ Put(q, sent, n).wpos = (wpos + n) % Cap /\ Put(q, sent, n).rpos = rpos
      /\ Put(q, sent, n).live = q.live /\ Put(q, sent, n).done = q.done /\ Put(q, sent, n).cancel = q.cancel
  BY <1>4, <1>5, <1>6, <1>8 DEF Pipe, rpos
<1>10. Holds(Put(q, sent, n), got)
  <2> DEFINE new == Put(q, sent, n)
  <2>1. new.wpos = (new.rpos + new.used) % Cap
    BY <1>5, <1>9
  <2>2. new.used = used + n /\ new.buf = buf /\ new.rpos = rpos
    BY <1>9
  <2> HIDE DEF new
  <2>3. ASSUME NEW i \in 0 .. new.used - 1
        PROVE  new.buf[(new.rpos + i) % Cap] = got + 1 + i
    <3>1. i \in 0 .. used + n - 1
      BY <1>1, <1>2, <2>2
    <3>2. buf[(rpos + i) % Cap] = got + 1 + i
      BY <1>7, <3>1
    <3>3. QED  BY <2>2, <3>2
  <2>4. QED  BY <2>1, <2>3 DEF Holds, new
<1>11. QED  BY <1>9, <1>10 DEF used

(* zip_pipe_read's copy takes the stream's next bytes.                        *)
LEMMA TakePositions ==
  ASSUME NEW rpos \in 0 .. Cap - 1, NEW used \in 0 .. Cap,
         NEW n \in Nat, n <= used, n <= Cap - rpos
  PROVE  /\ (rpos + n) % Cap \in 0 .. Cap - 1
         /\ \A i \in 0 .. used - n : (((rpos + n) % Cap) + i) % Cap = (rpos + (n + i)) % Cap
<1>1. Cap \in Nat /\ Cap > 0
  BY SizeTypes
<1> DEFINE r == (rpos + n) % Cap
<1>2. r = IF rpos + n < Cap THEN rpos + n ELSE rpos + n - Cap
  BY <1>1, WrapOnce
<1> HIDE DEF r
<1>3. r \in 0 .. Cap - 1
  BY <1>1, <1>2
<1>4. ASSUME NEW i \in 0 .. used - n
      PROVE  (r + i) % Cap = (rpos + (n + i)) % Cap
  <2>1. (rpos + (n + i)) % Cap =
          IF rpos + (n + i) < Cap THEN rpos + (n + i) ELSE rpos + (n + i) - Cap
    BY <1>1, WrapOnce
  <2>2. (r + i) % Cap = IF r + i < Cap THEN r + i ELSE r + i - Cap
    BY <1>1, <1>3, WrapOnce
  <2>3. QED  BY <1>1, <1>2, <2>1, <2>2
<1>5. QED  BY <1>3, <1>4 DEF r

LEMMA TakeHolds ==
  ASSUME NEW q \in Pipe, NEW got \in Nat, NEW n \in Nat, Holds(q, got),
         n <= q.used, n <= Cap - q.rpos
  PROVE  Take(q, n) \in Pipe /\ Holds(Take(q, n), got + n) /\ Take(q, n).used = q.used - n
         /\ Take(q, n).live = q.live /\ Take(q, n).done = q.done /\ Take(q, n).cancel = q.cancel
<1> DEFINE rpos == q.rpos
           used == q.used
           r    == (rpos + n) % Cap
<1>1. rpos \in 0 .. Cap - 1 /\ used \in 0 .. Cap
  BY DEF Pipe
<1>2. Cap \in Nat /\ Cap > 0 /\ n <= used /\ n <= Cap - rpos
  BY SizeTypes
<1>3. /\ q.wpos = (rpos + used) % Cap
      /\ \A i \in 0 .. used - 1 : q.buf[(rpos + i) % Cap] = got + 1 + i
  BY DEF Holds
<1>4. Take(q, n) = [q EXCEPT !.rpos = r, !.used = used - n]
  BY DEF Take
<1> HIDE DEF rpos, used
<1>5. r \in 0 .. Cap - 1 /\ \A i \in 0 .. used - n : (r + i) % Cap = (rpos + (n + i)) % Cap
  BY <1>1, <1>2, TakePositions
<1> HIDE DEF r
<1>6. used - n \in 0 .. Cap /\ used - n \in 0 .. used - n /\ n + (used - n) = used
  BY <1>1, <1>2
<1>7. /\ Take(q, n) \in Pipe /\ Take(q, n).used = used - n /\ Take(q, n).buf = q.buf
      /\ Take(q, n).wpos = q.wpos /\ Take(q, n).rpos = r
      /\ Take(q, n).live = q.live /\ Take(q, n).done = q.done /\ Take(q, n).cancel = q.cancel
  BY <1>4, <1>5, <1>6 DEF Pipe
<1>8. q.wpos = (r + (used - n)) % Cap
  BY <1>3, <1>5, <1>6
<1>9. ASSUME NEW i \in 0 .. used - n - 1
      PROVE  q.buf[(r + i) % Cap] = got + n + 1 + i
  <2>1. n + i \in 0 .. used - 1 /\ i \in 0 .. used - n /\ got + 1 + (n + i) = got + n + 1 + i
    BY <1>1, <1>2
  <2>2. q.buf[(rpos + (n + i)) % Cap] = got + 1 + (n + i)
    BY <1>3, <2>1
  <2>3. QED  BY <1>5, <2>1, <2>2
<1>10. Holds(Take(q, n), got + n)
  BY <1>7, <1>8, <1>9 DEF Holds
<1>11. QED  BY <1>7, <1>10 DEF used

-----------------------------------------------------------------------------
(* One thread's step.                                                       *)

(* Only upload u's pipe and threads change, and they stay good.               *)
Framed(u) ==
  /\ pipe' = [pipe EXCEPT ![u] = pipe'[u]] /\ pipe'[u] \in Pipe
  /\ handler' = [handler EXCEPT ![u] = handler'[u]] /\ handler'[u] \in Handler
  /\ producer' = [producer EXCEPT ![u] = producer'[u]] /\ producer'[u] \in Producer
StaysGood(u) == Framed(u) /\ Good(kind[u], pipe'[u], handler'[u], producer'[u], cancel)

LEMMA GoodTypes ==
  ASSUME PipeInv, NEW u \in Uploads
  PROVE  /\ Good(kind[u], pipe[u], handler[u], producer[u], cancel)
         /\ handler[u] \in Handler /\ producer[u] \in Producer /\ pipe[u] \in Pipe
         /\ handler[u].got \in 0 .. Body /\ producer[u].sent \in 0 .. Body /\ producer[u].taken \in 0 .. Body
         /\ pipe[u].used \in 0 .. Cap /\ kind[u] \in AllKinds
BY DEF PipeInv, AllGood, PipeTypeOK, Handler, Producer, Pipe, Bytes

(* The handler goes on to another place and leaves all else as it is.          *)
LEMMA GoFrames ==
  ASSUME PipeInv, NEW u \in Uploads, NEW x \in HandlerPCs, Go(u, x), UNCHANGED <<pipe, producer>>
  PROVE  /\ Framed(u) /\ pipe'[u] = pipe[u] /\ producer'[u] = producer[u]
         /\ handler'[u].pc = x /\ handler'[u].got = handler[u].got
         /\ handler'[u].drain = handler[u].drain /\ handler'[u].result = handler[u].result
BY GoodTypes DEF Go, Framed, PipeInv, PipeTypeOK, Handler

LEMMA SimpleSteps ==
  ASSUME PipeInv, NEW u \in Uploads,
         Refused(u) \/ ManifestCheck(u) \/ ManifestRead(u) \/ ReadWaits(u) \/ NeedsMore(u) \/ ShutRead(u)
         \/ JobEnd(u) \/ Reply(u)
  PROVE  StaysGood(u)
<1>0. /\ Good(kind[u], pipe[u], handler[u], producer[u], cancel)
      /\ handler[u].got \in 0 .. Body /\ producer[u].sent \in 0 .. Body /\ producer[u].taken \in 0 .. Body
      /\ pipe[u].used \in 0 .. Cap /\ kind[u] \in AllKinds
  BY GoodTypes
<1> USE DEF StaysGood, Good, Phased, Streams, Sleeps, Extracts, Told, At, Early, Working, Late
<1>1. CASE Refused(u)
  <2>1. Go(u, "reply") /\ UNCHANGED <<pipe, producer>> /\ At(u, "new")
    BY <1>1 DEF Refused
  <2>2. QED  BY <1>0, <2>1, GoFrames DEF HandlerPCs
<1>2. CASE ManifestCheck(u)
  <2>1. Go(u, "mrecv") /\ UNCHANGED <<pipe, producer>> /\ At(u, "manifest")
    BY <1>2 DEF ManifestCheck
  <2>2. QED  BY <1>0, <2>1, GoFrames DEF HandlerPCs
<1>3. CASE ManifestRead(u)
  <2>1. Go(u, "spawn") /\ UNCHANGED <<pipe, producer>> /\ At(u, "mrecv")
    BY <1>3 DEF ManifestRead
  <2>2. QED  BY <1>0, <2>1, GoFrames DEF HandlerPCs
<1>4. CASE ReadWaits(u)
  <2>1. Go(u, "wait") /\ UNCHANGED <<pipe, producer>> /\ At(u, "read") /\ ~pipe[u].done /\ ~pipe[u].cancel /\ pipe[u].used = 0
    BY <1>4 DEF ReadWaits
  <2>2. QED  BY <1>0, <2>1, GoFrames DEF HandlerPCs
<1>5. CASE NeedsMore(u)
  <2>1. Go(u, "fill") /\ UNCHANGED <<pipe, producer>> /\ At(u, "parse")
    BY <1>5 DEF NeedsMore
  <2>2. QED  BY <1>0, <2>1, GoFrames DEF HandlerPCs
<1>6. CASE ShutRead(u)
  <2>1. Go(u, "join") /\ UNCHANGED <<pipe, producer>> /\ At(u, "shut")
    BY <1>6 DEF ShutRead
  <2>2. QED  BY <1>0, <2>1, GoFrames DEF HandlerPCs
<1>7. CASE JobEnd(u)
  <2>1. Go(u, IF pipe[u].live THEN "destroy" ELSE "reply") /\ UNCHANGED <<pipe, producer>> /\ At(u, "end")
    BY <1>7 DEF JobEnd
  <2>2. CASE pipe[u].live
    BY <1>0, <2>1, <2>2, GoFrames DEF HandlerPCs
  <2>3. CASE ~pipe[u].live
    BY <1>0, <2>1, <2>3, GoFrames DEF HandlerPCs
  <2>4. QED  BY <2>2, <2>3
<1>8. CASE Reply(u)
  <2>1. Go(u, "gone") /\ UNCHANGED <<pipe, producer>> /\ At(u, "reply")
    BY <1>8 DEF Reply
  <2>2. QED  BY <1>0, <2>1, GoFrames DEF HandlerPCs
<1>9. QED  BY <1>1, <1>2, <1>3, <1>4, <1>5, <1>6, <1>7, <1>8

(* The handler gives up, or is content.                                       *)
EndsAs(u, x, r) == handler' = [handler EXCEPT ![u].pc = x, ![u].result = r]
LEMMA EndFrames ==
  ASSUME PipeInv, NEW u \in Uploads, NEW x \in HandlerPCs, NEW r \in {"none", "ok", "failed"},
         EndsAs(u, x, r)
  PROVE  /\ handler' = [handler EXCEPT ![u] = handler'[u]] /\ handler'[u] \in Handler
         /\ handler'[u].pc = x /\ handler'[u].got = handler[u].got
         /\ handler'[u].drain = handler[u].drain /\ handler'[u].result = r
BY GoodTypes DEF EndsAs, PipeInv, PipeTypeOK, Handler

LEMMA SameFrames ==
  ASSUME PipeInv, NEW u \in Uploads
  PROVE  /\ UNCHANGED pipe => pipe' = [pipe EXCEPT ![u] = pipe'[u]] /\ pipe'[u] \in Pipe
         /\ UNCHANGED producer => producer' = [producer EXCEPT ![u] = producer'[u]] /\ producer'[u] \in Producer
BY GoodTypes DEF PipeInv, PipeTypeOK

(* zip_pipe_cancel and zip_pipe_finish change their flags, and wake.            *)
LEMMA CancelFrames ==
  ASSUME PipeInv, NEW u \in Uploads, CancelPipe(u), producer' = WakeProducer(u)
  PROVE  /\ pipe' = [pipe EXCEPT ![u] = pipe'[u]] /\ pipe'[u] \in Pipe
         /\ pipe'[u].live = pipe[u].live /\ pipe'[u].used = pipe[u].used /\ pipe'[u].done /\ pipe'[u].cancel
         /\ \A got \in Nat : Holds(pipe[u], got) => Holds(pipe'[u], got)
         /\ producer' = [producer EXCEPT ![u] = producer'[u]] /\ producer'[u] \in Producer
         /\ producer'[u].pc = IF producer[u].pc = "wait" THEN "write" ELSE producer[u].pc
         /\ producer'[u].taken = producer[u].taken /\ producer'[u].sent = producer[u].sent
<1>1. /\ pipe' = [pipe EXCEPT ![u] = pipe'[u]] /\ pipe'[u] \in Pipe
      /\ pipe'[u].live = pipe[u].live /\ pipe'[u].used = pipe[u].used /\ pipe'[u].done /\ pipe'[u].cancel
      /\ pipe'[u].buf = pipe[u].buf /\ pipe'[u].rpos = pipe[u].rpos /\ pipe'[u].wpos = pipe[u].wpos
  BY GoodTypes DEF CancelPipe, PipeInv, PipeTypeOK, Pipe
<1>2. /\ producer' = [producer EXCEPT ![u] = producer'[u]] /\ producer'[u] \in Producer
      /\ producer'[u].pc = IF producer[u].pc = "wait" THEN "write" ELSE producer[u].pc
      /\ producer'[u].taken = producer[u].taken /\ producer'[u].sent = producer[u].sent
  BY GoodTypes DEF WakeProducer, PipeInv, PipeTypeOK, Producer, ProducerPCs
<1>3. QED  BY <1>1, <1>2 DEF Holds

LEMMA FinishFrames ==
  ASSUME PipeInv, NEW u \in Uploads, FinishPipe(u)
  PROVE  /\ pipe' = [pipe EXCEPT ![u] = pipe'[u]] /\ pipe'[u] \in Pipe
         /\ pipe'[u].live = pipe[u].live /\ pipe'[u].used = pipe[u].used /\ pipe'[u].done
         /\ pipe'[u].cancel = pipe[u].cancel
         /\ \A got \in Nat : Holds(pipe[u], got) => Holds(pipe'[u], got)
         /\ handler' = [handler EXCEPT ![u] = handler'[u]] /\ handler'[u] \in Handler
         /\ handler'[u].pc = IF handler[u].pc = "wait" THEN "read" ELSE handler[u].pc
         /\ handler'[u].got = handler[u].got
         /\ handler'[u].drain = handler[u].drain /\ handler'[u].result = handler[u].result
<1>1. /\ pipe' = [pipe EXCEPT ![u] = pipe'[u]] /\ pipe'[u] \in Pipe
      /\ pipe'[u].live = pipe[u].live /\ pipe'[u].used = pipe[u].used /\ pipe'[u].done
      /\ pipe'[u].cancel = pipe[u].cancel
      /\ pipe'[u].buf = pipe[u].buf /\ pipe'[u].rpos = pipe[u].rpos /\ pipe'[u].wpos = pipe[u].wpos
  BY GoodTypes DEF FinishPipe, PipeInv, PipeTypeOK, Pipe
<1>2. /\ handler' = [handler EXCEPT ![u] = handler'[u]] /\ handler'[u] \in Handler
      /\ handler'[u].pc = IF handler[u].pc = "wait" THEN "read" ELSE handler[u].pc
      /\ handler'[u].got = handler[u].got
      /\ handler'[u].drain = handler[u].drain /\ handler'[u].result = handler[u].result
  BY GoodTypes DEF FinishPipe, WakeHandler, PipeInv, PipeTypeOK, Handler, HandlerPCs
<1>3. QED  BY <1>1, <1>2 DEF Holds

LEMMA EndingSteps ==
  ASSUME PipeInv, NEW u \in Uploads,
         ManifestBad(u) \/ SpawnFails(u) \/ Fill(u) \/ BadArchive(u) \/ RarCancelled(u) \/ StopPipe(u) \/ Join(u)
  PROVE  StaysGood(u)
<1>0. /\ Good(kind[u], pipe[u], handler[u], producer[u], cancel)
      /\ handler[u].got \in 0 .. Body /\ producer[u].sent \in 0 .. Body /\ producer[u].taken \in 0 .. Body
      /\ pipe[u].used \in 0 .. Cap /\ kind[u] \in AllKinds /\ handler[u].got \in Nat
      /\ handler[u].result \in {"none", "ok", "failed"}
      /\ Entries \in Nat /\ Body \in Nat /\ Entries <= Body
  BY GoodTypes, SizeTypes DEF Handler
<1> USE DEF StaysGood, Framed, Good, Phased, Streams, Sleeps, Extracts, Told, At, Early, Working, Late
<1>1. CASE ManifestBad(u) \/ SpawnFails(u)
  <2>1. /\ EndsAs(u, "end", "failed")
        /\ UNCHANGED <<pipe, producer>> /\ handler[u].pc \in {"manifest", "mrecv", "spawn"}
    BY <1>1 DEF ManifestBad, SpawnFails, EndsAs
  <2>2. QED  BY <1>0, <2>1, EndFrames, SameFrames DEF HandlerPCs
<1>2. CASE BadArchive(u)
  <2>1. /\ EndsAs(u, "failed", "failed")
        /\ UNCHANGED <<pipe, producer>> /\ At(u, "parse")
    BY <1>2 DEF BadArchive, Fails, EndsAs
  <2>2. QED  BY <1>0, <2>1, EndFrames, SameFrames DEF HandlerPCs
<1>3. CASE Fill(u)
  <2>1. UNCHANGED <<pipe, producer>> /\ At(u, "fill")
    BY <1>3 DEF Fill
  <2>2. CASE Fails(u)
    <3>1. EndsAs(u, "failed", "failed")
      BY <2>2 DEF Fails, EndsAs
    <3>2. QED  BY <1>0, <2>1, <3>1, EndFrames, SameFrames DEF HandlerPCs
  <2>3. CASE Go(u, "read")
    BY <1>0, <2>1, <2>3, GoFrames DEF HandlerPCs
  <2>4. CASE Succeeds(u) /\ cancel /\ handler[u].drain /\ kind[u] # "rar"
    <3>1. EndsAs(u, "join", "ok")
      BY <2>4 DEF Succeeds, EndsAs
    <3>2. QED  BY <1>0, <2>1, <2>4, <3>1, EndFrames, SameFrames DEF HandlerPCs
  <2>5. QED  BY <1>3, <2>2, <2>3, <2>4 DEF Fill
<1>4. CASE RarCancelled(u)
  <2>1. /\ EndsAs(u, "failed", "failed")
        /\ CancelPipe(u) /\ producer' = WakeProducer(u) /\ At(u, "parse")
    BY <1>4 DEF RarCancelled, Fails, EndsAs
  <2>2. QED  BY <1>0, <2>1, EndFrames, CancelFrames DEF HandlerPCs
<1>5. CASE StopPipe(u)
  <2>1. /\ \E x \in {"join", "shut"} : handler' = [handler EXCEPT ![u].pc = x]
        /\ CancelPipe(u) /\ producer' = WakeProducer(u) /\ At(u, "failed")
    BY <1>5 DEF StopPipe, Go
  <2>2. PICK x \in {"join", "shut"} : handler' = [handler EXCEPT ![u].pc = x]
    BY <2>1
  <2>3. /\ handler' = [handler EXCEPT ![u] = handler'[u]] /\ handler'[u] \in Handler
        /\ handler'[u].pc = x /\ handler'[u].got = handler[u].got
        /\ handler'[u].drain = handler[u].drain /\ handler'[u].result = handler[u].result
    BY <2>2, GoodTypes DEF PipeInv, PipeTypeOK, Handler, HandlerPCs
  <2>4. QED  BY <1>0, <2>1, <2>3, CancelFrames
<1>6. CASE Join(u)
  <2>1. At(u, "join") /\ producer[u].pc = "exit" /\ UNCHANGED <<pipe, producer>>
    BY <1>6 DEF Join
  <2>2. CASE kind[u] = "zip" /\ Go(u, "end")
    BY <1>0, <2>1, <2>2, GoFrames DEF HandlerPCs
  <2>3. CASE \E r \in {handler[u].result, "failed"} :
               EndsAs(u, "destroy", r)
    <3>1. PICK r \in {handler[u].result, "failed"} :
               EndsAs(u, "destroy", r)
      BY <2>3
    <3>2. r \in {"none", "ok", "failed"}
      BY <1>0
    <3>3. QED  BY <1>0, <2>1, <3>1, <3>2, EndFrames, SameFrames DEF HandlerPCs
  <2>4. QED  BY <1>6, <2>2, <2>3 DEF Join, EndsAs
<1>7. QED  BY <1>1, <1>2, <1>3, <1>4, <1>5, <1>6

(* The steps that make, use and free the pipe.                               *)
LEMMA PipeSteps ==
  ASSUME PipeInv, NEW u \in Uploads,
         Spawn(u) \/ ReadEnds(u) \/ ReadTakes(u) \/ Extracted(u) \/ Destroy(u)
  PROVE  StaysGood(u)
<1>0. /\ Good(kind[u], pipe[u], handler[u], producer[u], cancel)
      /\ handler[u].got \in 0 .. Body /\ producer[u].sent \in 0 .. Body /\ producer[u].taken \in 0 .. Body
      /\ pipe[u].used \in 0 .. Cap /\ kind[u] \in AllKinds /\ handler[u].got \in Nat
      /\ Entries \in Nat /\ Body \in Nat /\ Entries <= Body /\ Cap \in Nat /\ Cap > 0 /\ ReadSize \in Nat
      /\ ReadSize > 0
      /\ pipe \in [Uploads -> Pipe] /\ handler \in [Uploads -> Handler] /\ producer \in [Uploads -> Producer]
      /\ pipe[u] \in Pipe /\ handler[u] \in Handler /\ producer[u] \in Producer
  BY GoodTypes, SizeTypes DEF Handler, PipeInv, PipeTypeOK
<1> USE DEF StaysGood, Framed, Good, Phased, Streams, Sleeps, Extracts, Told, At, Early, Working, Late
<1>1. NoPipe \in Pipe /\ [NoPipe EXCEPT !.live = TRUE] \in Pipe /\ ~NoPipe.live
      /\ [NoPipe EXCEPT !.live = TRUE].used = 0 /\ Holds([NoPipe EXCEPT !.live = TRUE], 0)
  <2>1. /\ [i \in 0 .. Cap - 1 |-> 0] \in [0 .. Cap - 1 -> Bytes] /\ 0 \in 0 .. Cap - 1 /\ 0 \in 0 .. Cap
    BY <1>0 DEF Bytes
  <2>2. 0 % Cap = 0
    BY <1>0, WrapOnce
  <2>3. NoPipe \in Pipe
    BY <2>1 DEF NoPipe, Pipe
  <2>4. /\ [NoPipe EXCEPT !.live = TRUE] \in Pipe
        /\ [NoPipe EXCEPT !.live = TRUE].used = 0
        /\ [NoPipe EXCEPT !.live = TRUE].rpos = 0 /\ [NoPipe EXCEPT !.live = TRUE].wpos = 0
    BY <2>1, <2>3 DEF NoPipe, Pipe
  <2>5. Holds([NoPipe EXCEPT !.live = TRUE], 0)
    <3> DEFINE q == [NoPipe EXCEPT !.live = TRUE]
    <3>1. q.used = 0 /\ q.rpos = 0 /\ q.wpos = 0
      BY <2>4
    <3> HIDE DEF q
    <3>2. QED  BY <2>2, <3>1 DEF Holds, q
  <2>6. ~NoPipe.live
    BY DEF NoPipe
  <2>7. QED  BY <2>3, <2>4, <2>5, <2>6
<1>2. CASE Spawn(u)
  <2>1. /\ pipe'[u] = [NoPipe EXCEPT !.live = TRUE] /\ pipe' = [pipe EXCEPT ![u] = pipe'[u]] 
        /\ handler'[u].pc = "fill" /\ handler'[u].got = handler[u].got /\ handler'[u].drain = handler[u].drain
        /\ handler'[u].result = handler[u].result
        /\ handler' = [handler EXCEPT ![u] = handler'[u]] /\ handler'[u] \in Handler
    BY <1>0, <1>2 DEF Spawn, Go, Handler, HandlerPCs
  <2>2. /\ producer'[u].pc = "new" /\ producer'[u].taken = producer[u].taken
        /\ producer'[u].sent = producer[u].sent
        /\ producer' = [producer EXCEPT ![u] = producer'[u]] /\ producer'[u] \in Producer
    BY <1>0, <1>2 DEF Spawn, Producer, ProducerPCs
  <2>3. handler[u].pc = "spawn"
    BY <1>2 DEF Spawn
  <2>4. QED  BY <1>0, <1>1, <2>1, <2>2, <2>3
<1>3. CASE ReadEnds(u)
  <2>1. /\ At(u, "read") /\ pipe[u].used = 0 /\ (pipe[u].done \/ pipe[u].cancel \/ cancel)
        /\ UNCHANGED producer
        /\ \/ EndsAs(u, "join", "ok") /\ handler[u].drain /\ kind[u] # "rar"
           \/ EndsAs(u, "failed", "failed")
    BY <1>3 DEF ReadEnds, Succeeds, Fails, EndsAs
  <2>2. /\ pipe' = [pipe EXCEPT ![u] = pipe'[u]] /\ pipe'[u] \in Pipe
        /\ pipe'[u].live = pipe[u].live /\ pipe'[u].used = pipe[u].used /\ pipe'[u].done = pipe[u].done
        /\ pipe'[u].buf = pipe[u].buf /\ pipe'[u].rpos = pipe[u].rpos /\ pipe'[u].wpos = pipe[u].wpos
        /\ pipe[u].cancel => pipe'[u].cancel
    BY <1>0, <1>3 DEF ReadEnds, Pipe, PipeInv, PipeTypeOK
  <2>3. \A got \in Nat : Holds(pipe[u], got) => Holds(pipe'[u], got)
    BY <2>2 DEF Holds
  <2>4. /\ handler' = [handler EXCEPT ![u] = handler'[u]] /\ handler'[u] \in Handler
        /\ handler'[u].got = handler[u].got /\ handler'[u].drain = handler[u].drain
        /\ \/ handler'[u].pc = "join" /\ handler'[u].result = "ok" /\ handler[u].drain /\ kind[u] # "rar"
           \/ handler'[u].pc = "failed" /\ handler'[u].result = "failed"
    BY <2>1, EndFrames DEF HandlerPCs
  <2>5. QED  BY <1>0, <2>1, <2>2, <2>3, <2>4, SameFrames
<1>4. CASE ReadTakes(u)
  <2> DEFINE n == Avail(pipe[u])
  <2>1. At(u, "read") /\ pipe[u].used > 0 /\ pipe[u].live
    BY <1>0, <1>4 DEF ReadTakes
  <2>2. n \in Nat /\ n > 0 /\ n <= pipe[u].used /\ n <= Cap - pipe[u].rpos /\ pipe[u].rpos \in 0 .. Cap - 1
    BY <1>0, <2>1 DEF Avail, Least, Pipe
  <2>3. /\ pipe' = [pipe EXCEPT ![u] = Take(pipe[u], n)]
        /\ handler' = [handler EXCEPT ![u].got = handler[u].got + n, ![u].pc = "parse"]
        /\ producer' = WakeProducer(u)
    BY <1>4 DEF ReadTakes
  <2> HIDE DEF n
  <2>4. Holds(pipe[u], handler[u].got) /\ handler[u].got + pipe[u].used = producer[u].sent
    BY <1>0, <2>1
  <2>5. /\ Take(pipe[u], n) \in Pipe /\ Holds(Take(pipe[u], n), handler[u].got + n)
        /\ Take(pipe[u], n).used = pipe[u].used - n
        /\ Take(pipe[u], n).live = pipe[u].live /\ Take(pipe[u], n).done = pipe[u].done
        /\ Take(pipe[u], n).cancel = pipe[u].cancel
    BY <1>0, <2>2, <2>4, TakeHolds
  <2>6. pipe'[u] = Take(pipe[u], n) /\ pipe' = [pipe EXCEPT ![u] = pipe'[u]]
    BY <1>0, <2>3
  <2>7. handler[u].got + n \in 0 .. Body
    BY <1>0, <2>2, <2>4
  <2>8. /\ handler' = [handler EXCEPT ![u] = handler'[u]] /\ handler'[u] \in Handler
        /\ handler'[u].pc = "parse" /\ handler'[u].got = handler[u].got + n
        /\ handler'[u].drain = handler[u].drain /\ handler'[u].result = handler[u].result
    BY <1>0, <2>3, <2>7 DEF Handler, HandlerPCs, Bytes
  <2>9. /\ producer' = [producer EXCEPT ![u] = producer'[u]] /\ producer'[u] \in Producer
        /\ producer'[u].pc = IF producer[u].pc = "wait" THEN "write" ELSE producer[u].pc
        /\ producer'[u].taken = producer[u].taken /\ producer'[u].sent = producer[u].sent
    BY <1>0, <2>3 DEF WakeProducer, Producer, ProducerPCs
  <2>10. Good(kind[u], pipe'[u], handler'[u], producer'[u], cancel)
    <3>1. /\ pipe'[u].used = pipe[u].used - n /\ pipe'[u].live /\ Holds(pipe'[u], handler'[u].got)
          /\ pipe'[u].done = pipe[u].done /\ pipe'[u].cancel = pipe[u].cancel
      BY <2>1, <2>5, <2>6, <2>8
    <3>2. Phased(kind[u], pipe'[u], handler'[u], producer'[u])
      BY <1>0, <2>1, <2>8, <2>9, <3>1
    <3>3. Streams(pipe'[u], handler'[u], producer'[u])
      <4>1. handler'[u].got + pipe'[u].used = producer'[u].sent
        BY <1>0, <2>2, <2>4, <2>8, <2>9, <3>1
      <4>2. QED  BY <1>0, <2>9, <3>1, <4>1
    <3>4. Sleeps(pipe'[u], handler'[u], producer'[u], cancel)
      BY <1>0, <2>1, <2>8, <2>9, <3>1
    <3>5. Extracts(kind[u], handler'[u])
      BY <1>0, <2>2, <2>8
    <3>6. QED  BY <3>2, <3>3, <3>4, <3>5
  <2>11. QED  BY <2>5, <2>6, <2>8, <2>9, <2>10
<1>5. CASE Extracted(u)
  <2>1. At(u, "parse") /\ handler[u].got >= Entries /\ UNCHANGED <<pipe, producer>>
    BY <1>5 DEF Extracted
  <2>2. CASE EndsAs(u, "join", "ok") /\ handler[u].got = Body
    BY <1>0, <2>1, <2>2, EndFrames, SameFrames DEF HandlerPCs
  <2>3. CASE handler' = [handler EXCEPT ![u].pc = "fill", ![u].drain = TRUE]
    <3>1. /\ handler' = [handler EXCEPT ![u] = handler'[u]] /\ handler'[u] \in Handler
          /\ handler'[u].pc = "fill" /\ handler'[u].got = handler[u].got
          /\ handler'[u].result = handler[u].result
      BY <1>0, <2>3 DEF Handler, HandlerPCs
    <3>2. QED  BY <1>0, <2>1, <3>1, SameFrames
  <2>4. QED  BY <1>5, <2>2, <2>3 DEF Extracted, Succeeds, EndsAs
<1>6. CASE Destroy(u)
  <2>1. At(u, "destroy") /\ UNCHANGED producer
    BY <1>6 DEF Destroy
  <2>2. pipe'[u] = NoPipe /\ pipe' = [pipe EXCEPT ![u] = pipe'[u]]
    BY <1>0, <1>6 DEF Destroy
  <2>3. /\ handler' = [handler EXCEPT ![u] = handler'[u]] /\ handler'[u] \in Handler
        /\ handler'[u].pc \in {"reply", "end"} /\ handler'[u].got = handler[u].got
        /\ handler'[u].drain = handler[u].drain /\ handler'[u].result = handler[u].result
    BY <1>0, <1>6 DEF Destroy, Go, Handler, HandlerPCs
  <2>4. QED  BY <1>0, <1>1, <2>1, <2>2, <2>3, SameFrames
<1>7. QED  BY <1>2, <1>3, <1>4, <1>5, <1>6

(* The producer goes on to another place.                                     *)
Turns(u, x) == producer' = [producer EXCEPT ![u].pc = x]
LEMMA TurnFrames ==
  ASSUME PipeInv, NEW u \in Uploads, NEW x \in ProducerPCs, Turns(u, x)
  PROVE  /\ producer' = [producer EXCEPT ![u] = producer'[u]] /\ producer'[u] \in Producer
         /\ producer'[u].pc = x
         /\ producer'[u].taken = producer[u].taken /\ producer'[u].sent = producer[u].sent
BY GoodTypes DEF Turns, PipeInv, PipeTypeOK, Producer

LEMMA HandlerSame ==
  ASSUME PipeInv, NEW u \in Uploads, UNCHANGED handler
  PROVE  handler' = [handler EXCEPT ![u] = handler'[u]] /\ handler'[u] \in Handler
BY GoodTypes DEF PipeInv, PipeTypeOK

LEMMA ProducerSteps ==
  ASSUME PipeInv, NEW u \in Uploads, ProducerStep(u)
  PROVE  StaysGood(u)
<1>0. /\ Good(kind[u], pipe[u], handler[u], producer[u], cancel)
      /\ handler[u].got \in 0 .. Body /\ producer[u].sent \in 0 .. Body /\ producer[u].taken \in 0 .. Body
      /\ pipe[u].used \in 0 .. Cap /\ kind[u] \in AllKinds /\ handler[u].got \in Nat
      /\ producer[u].sent \in Nat /\ producer[u].taken \in Nat
      /\ Body \in Nat /\ Cap \in Nat /\ Cap > 0 /\ RecvSize \in Nat /\ RecvSize > 0 /\ Initial \in 0 .. Body
      /\ pipe \in [Uploads -> Pipe] /\ handler \in [Uploads -> Handler] /\ producer \in [Uploads -> Producer]
      /\ pipe[u] \in Pipe /\ handler[u] \in Handler /\ producer[u] \in Producer
  BY GoodTypes, SizeTypes DEF Handler, PipeInv, PipeTypeOK
<1> USE DEF StaysGood, Framed, Good, Phased, Streams, Sleeps, Extracts, Told, At, Early, Working, Late
<1>1. CASE SetActive(u)
  <2> DEFINE n == IF kind[u] = "local" THEN 0 ELSE Initial
             x == IF n > 0 THEN "write" ELSE "loop"
  <2>1. /\ producer[u].pc = "new" /\ UNCHANGED <<pipe, handler>>
        /\ producer' = [producer EXCEPT ![u].taken = n, ![u].pc = x]
    BY <1>1 DEF SetActive
  <2>2. n \in 0 .. Body /\ n \in Nat /\ ((x = "write" /\ n > 0) \/ (x = "loop" /\ n = 0))
    BY <1>0
  <2> HIDE DEF n, x
  <2>3. /\ producer' = [producer EXCEPT ![u] = producer'[u]] /\ producer'[u] \in Producer
        /\ producer'[u].pc = x /\ producer'[u].taken = n /\ producer'[u].sent = producer[u].sent
    BY <1>0, <2>1, <2>2 DEF Producer, ProducerPCs, Bytes
  <2>4. QED  BY <1>0, <2>1, <2>2, <2>3, SameFrames, HandlerSame
<1>2. CASE Loop(u)
  <2>1. PICK x \in {"recv", "last"} : Turns(u, x)
    BY <1>2 DEF Loop, Turns
  <2>2. producer[u].pc = "loop" /\ UNCHANGED <<pipe, handler>>
    BY <1>2 DEF Loop
  <2>3. QED  BY <1>0, <2>1, <2>2, TurnFrames, SameFrames, HandlerSame DEF ProducerPCs
<1>3. CASE Recv(u)
  <2>1. PICK n \in 1 .. Least(RecvSize, Body - producer[u].taken) :
          producer' = [producer EXCEPT ![u].taken = producer[u].taken + n, ![u].pc = "write"]
    BY <1>3 DEF Recv
  <2>2. producer[u].pc = "recv" /\ UNCHANGED <<pipe, handler>>
    BY <1>3 DEF Recv
  <2>3. producer[u].taken + n \in 0 .. Body /\ producer[u].taken < producer[u].taken + n
    BY <1>0, <2>1 DEF Least
  <2>4. /\ producer' = [producer EXCEPT ![u] = producer'[u]] /\ producer'[u] \in Producer
        /\ producer'[u].pc = "write" /\ producer'[u].taken = producer[u].taken + n
        /\ producer'[u].sent = producer[u].sent
    BY <1>0, <2>1, <2>3 DEF Producer, ProducerPCs, Bytes
  <2>5. QED  BY <1>0, <2>2, <2>3, <2>4, SameFrames, HandlerSame
<1>4. CASE RecvError(u) \/ LastWrite(u)
  <2>1. Turns(u, "clear") /\ FinishPipe(u) /\ producer[u].pc \in {"recv", "last"}
    BY <1>4 DEF RecvError, LastWrite, Turns
  <2>2. QED  BY <1>0, <2>1, TurnFrames, FinishFrames DEF ProducerPCs
<1>5. CASE WriteGivesUp(u)
  <2>1. /\ Turns(u, "clear") /\ producer[u].pc = "write" /\ UNCHANGED <<pipe, handler>>
        /\ pipe[u].done \/ pipe[u].cancel \/ cancel
    BY <1>5 DEF WriteGivesUp, Turns
  <2>2. QED  BY <1>0, <2>1, TurnFrames, SameFrames, HandlerSame DEF ProducerPCs
<1>6. CASE WriteWaits(u)
  <2>1. /\ Turns(u, "wait") /\ producer[u].pc = "write" /\ UNCHANGED <<pipe, handler>>
        /\ pipe[u].used = Cap /\ ~pipe[u].done /\ ~pipe[u].cancel
    BY <1>6 DEF WriteWaits, Turns
  <2>2. QED  BY <1>0, <2>1, TurnFrames, SameFrames, HandlerSame DEF ProducerPCs
<1>7. CASE WriteCopies(u)
  <2> DEFINE sent == producer[u].sent
             n    == Room(pipe[u], producer[u].taken - sent)
             new  == Put(pipe[u], sent, n)
  <2>1. /\ producer[u].pc = "write" /\ pipe[u].used < Cap /\ handler' = WakeHandler(u)
        /\ pipe' = [pipe EXCEPT ![u] = new]
        /\ producer' = [producer EXCEPT ![u].sent = sent + n,
                          ![u].pc = IF sent + n < producer[u].taken THEN "write" ELSE "loop"]
    BY <1>7 DEF WriteCopies
  <2>2. pipe[u].live /\ handler[u].pc \in Working
    <3>1. handler[u].pc \in Early \cup Working \cup Late
      BY <1>0 DEF Handler, HandlerPCs
    <3>2. Phased(kind[u], pipe[u], handler[u], producer[u])
      BY <1>0
    <3>3. QED  BY <2>1, <3>1, <3>2
  <2>3. /\ n \in Nat /\ n > 0 /\ n <= Cap - pipe[u].used /\ n <= Cap - pipe[u].wpos
        /\ sent + n <= producer[u].taken
    <3>1. pipe[u].wpos \in 0 .. Cap - 1 /\ sent < producer[u].taken
      BY <1>0, <2>1 DEF Pipe
    <3>2. QED  BY <1>0, <2>1, <3>1 DEF Room, Least
  <2> HIDE DEF n
  <2>4. sent \in Nat /\ sent + n <= Body /\ sent + n \in 0 .. Body
    BY <1>0, <2>3
  <2>5. Holds(pipe[u], handler[u].got) /\ handler[u].got + pipe[u].used = sent
    BY <1>0, <2>2
  <2>6. /\ new \in Pipe /\ Holds(new, handler[u].got) /\ new.used = pipe[u].used + n
        /\ new.live = pipe[u].live /\ new.done = pipe[u].done /\ new.cancel = pipe[u].cancel
    BY <1>0, <2>3, <2>4, <2>5, PutHolds
  <2> HIDE DEF new
  <2>7. pipe'[u] = new /\ pipe' = [pipe EXCEPT ![u] = pipe'[u]]
    BY <1>0, <2>1
  <2>8. /\ handler' = [handler EXCEPT ![u] = handler'[u]] /\ handler'[u] \in Handler
        /\ handler'[u].pc = IF handler[u].pc = "wait" THEN "read" ELSE handler[u].pc
        /\ handler'[u].got = handler[u].got
        /\ handler'[u].drain = handler[u].drain /\ handler'[u].result = handler[u].result
    BY <1>0, <2>1 DEF WakeHandler, Handler, HandlerPCs
  <2>9. /\ producer' = [producer EXCEPT ![u] = producer'[u]] /\ producer'[u] \in Producer
        /\ producer'[u].pc = IF sent + n < producer[u].taken THEN "write" ELSE "loop"
        /\ producer'[u].taken = producer[u].taken /\ producer'[u].sent = sent + n
    BY <1>0, <2>1, <2>4 DEF Producer, ProducerPCs, Bytes
  <2>10. Phased(kind[u], pipe'[u], handler'[u], producer'[u])
    <3>1. handler'[u].pc \in Working /\ pipe'[u].live /\ producer'[u].pc # "none"
      BY <2>2, <2>6, <2>7, <2>8, <2>9
    <3>2. QED  BY <3>1
  <2>11. Streams(pipe'[u], handler'[u], producer'[u])
    <3>1. handler'[u].got + pipe'[u].used = producer'[u].sent /\ producer'[u].sent <= producer'[u].taken
      BY <1>0, <2>3, <2>5, <2>6, <2>7, <2>8, <2>9
    <3>2. Holds(pipe'[u], handler'[u].got)
      BY <2>6, <2>7, <2>8
    <3>3. QED  BY <1>0, <2>9, <3>1, <3>2
  <2>12. Sleeps(pipe'[u], handler'[u], producer'[u], cancel)
    BY <1>0, <2>1, <2>6, <2>7, <2>8, <2>9
  <2>13. Extracts(kind[u], handler'[u])
    BY <1>0, <2>8
  <2>14. QED  BY <2>6, <2>7, <2>8, <2>9, <2>10, <2>11, <2>12, <2>13
<1>8. CASE ClearActive(u)
  <2>1. Turns(u, "exit") /\ producer[u].pc = "clear" /\ UNCHANGED <<pipe, handler>>
    BY <1>8 DEF ClearActive, Turns
  <2>2. QED  BY <1>0, <2>1, TurnFrames, SameFrames, HandlerSame DEF ProducerPCs
<1>9. QED  BY <1>1, <1>2, <1>3, <1>4, <1>5, <1>6, <1>7, <1>8 DEF ProducerStep

-----------------------------------------------------------------------------
(* All uploads, and what they share.                                         *)

LEMMA FramedTypes ==
  ASSUME PipeInv, NEW u \in Uploads, Framed(u)
  PROVE  /\ pipe' \in [Uploads -> Pipe] /\ handler' \in [Uploads -> Handler]
         /\ producer' \in [Uploads -> Producer]
         /\ \A v \in Uploads \ {u} : pipe'[v] = pipe[v] /\ handler'[v] = handler[v] /\ producer'[v] = producer[v]
BY DEF PipeInv, PipeTypeOK, Framed

LEMMA AllStayGood ==
  ASSUME PipeInv, NEW u \in Uploads, StaysGood(u), UNCHANGED <<kind, cancel>>
  PROVE  AllGood'
<1>1. \A v \in Uploads \ {u} : pipe'[v] = pipe[v] /\ handler'[v] = handler[v] /\ producer'[v] = producer[v]
  BY FramedTypes DEF StaysGood
<1>2. ASSUME NEW v \in Uploads, v # u
      PROVE  Good(kind[v], pipe'[v], handler'[v], producer'[v], cancel)
  BY <1>1, <1>2 DEF PipeInv, AllGood
<1>3. \A v \in Uploads : Good(kind[v], pipe'[v], handler'[v], producer'[v], cancel)
  BY <1>2 DEF StaysGood
<1> HIDE DEF Good
<1>4. QED  BY <1>3 DEF AllGood

(* The types of the job slot, the registration, the connections and requests.  *)
LEMMA OtherTypes ==
  ASSUME PipeInv, PipeNext
  PROVE  /\ busy' \in BOOLEAN /\ cancel' \in BOOLEAN /\ active' \in Target
         /\ kind' = kind /\ earlier' \in [Uploads -> SUBSET Uploads]
         /\ sock' \in [Uploads -> {"open", "shut"}] /\ canceller' \in [Cancellers -> Canceller]
<1> USE DEF PipeInv, PipeTypeOK
<1>1. NoTarget \in Target /\ \A u \in Uploads : \A fd \in {None, u} : [pipe |-> u, fd |-> fd] \in Target
      /\ [pipe |-> None, fd |-> u] \in Target
  BY DEF NoTarget, Target
<1>2. ASSUME NEW u \in Uploads, BeginUpload(u)
      PROVE  /\ busy' \in BOOLEAN /\ cancel' \in BOOLEAN /\ active' \in Target
             /\ kind' = kind /\ earlier' \in [Uploads -> SUBSET Uploads]
             /\ sock' \in [Uploads -> {"open", "shut"}] /\ canceller' \in [Cancellers -> Canceller]
  BY <1>1, <1>2 DEF BeginUpload
<1>3. ASSUME NEW u \in Uploads, ProducerStep(u)
      PROVE  /\ active' \in Target /\ UNCHANGED <<busy, cancel, kind, earlier, sock, canceller>>
  <2>1. CASE SetActive(u)
    BY <1>1, <2>1 DEF SetActive
  <2>2. CASE ClearActive(u)
    BY <1>1, <2>2 DEF ClearActive
  <2>3. CASE Loop(u) \/ Recv(u) \/ RecvError(u) \/ WriteGivesUp(u) \/ WriteWaits(u) \/ WriteCopies(u) \/ LastWrite(u)
    BY <2>3 DEF Loop, Recv, RecvError, WriteGivesUp, WriteWaits, WriteCopies, LastWrite
  <2>4. QED  BY <1>3, <2>1, <2>2, <2>3 DEF ProducerStep
<1>4. ASSUME NEW u \in Uploads, HandlerStep(u)
      PROVE  /\ busy' \in BOOLEAN /\ active' \in Target /\ sock' \in [Uploads -> {"open", "shut"}]
             /\ UNCHANGED <<cancel, kind, earlier, canceller>>
  <2>1. CASE ManifestBad(u) \/ SpawnFails(u)
    BY <1>1, <2>1 DEF ManifestBad, SpawnFails
  <2>2. CASE ShutRead(u) \/ Reply(u) \/ JobEnd(u)
    BY <2>2 DEF ShutRead, Reply, JobEnd
  <2>3. CASE Refused(u) \/ ManifestCheck(u) \/ ManifestRead(u) \/ Spawn(u) \/ Fill(u) \/ ReadWaits(u)
             \/ ReadEnds(u) \/ ReadTakes(u) \/ NeedsMore(u)
    BY <2>3 DEF Refused, ManifestCheck, ManifestRead, Spawn, Fill, ReadWaits, ReadEnds, ReadTakes, NeedsMore
  <2>4. CASE Extracted(u) \/ BadArchive(u) \/ RarCancelled(u) \/ StopPipe(u) \/ Join(u) \/ Destroy(u)
    BY <2>4 DEF Extracted, BadArchive, RarCancelled, StopPipe, Join, Destroy
  <2>5. QED  BY <1>4, <2>1, <2>2, <2>3, <2>4 DEF HandlerStep
<1>5. ASSUME NEW c \in Cancellers, CancelStore(c) \/ CancellerStep(c)
      PROVE  /\ cancel' \in BOOLEAN /\ sock' \in [Uploads -> {"open", "shut"}]
             /\ canceller' \in [Cancellers -> Canceller] /\ UNCHANGED <<busy, active, kind, earlier>>
  <2>1. CASE CancelStore(c) \/ CancelLook(c)
    <3>1. /\ [canceller[c] EXCEPT !.pc = "stored"] \in Canceller
          /\ [pc |-> "pipe", target |-> active] \in Canceller
      BY DEF Canceller
    <3>2. canceller' \in [Cancellers -> Canceller]
      BY <2>1, <3>1 DEF CancelStore, CancelLook
    <3>3. QED  BY <2>1, <3>2 DEF CancelStore, CancelLook
  <2>2. CASE CancelsPipe(c)
    BY <2>2 DEF CancelsPipe, Canceller
  <2>3. CASE ShutsDown(c)
    <3>1. NoTarget \in Target /\ [pc |-> "done", target |-> NoTarget] \in Canceller
      BY <1>1 DEF Canceller
    <3>2. sock' \in [Uploads -> {"open", "shut"}]
      BY <2>3 DEF ShutsDown
    <3>3. QED  BY <2>3, <3>1, <3>2 DEF ShutsDown
  <2>4. QED  BY <1>5, <2>1, <2>2, <2>3 DEF CancellerStep
<1>6. QED  BY <1>2, <1>3, <1>4, <1>5 DEF PipeNext

(* No step but job_begin takes the job slot.                                  *)
LEMMA SlotFrames ==
  ASSUME PipeInv, NEW u \in Uploads, ProducerStep(u) \/ HandlerStep(u)
  PROVE  /\ InSlot(kind[u], handler'[u].pc) => InSlot(kind[u], handler[u].pc)
         /\ busy' = busy \/ (InSlot(kind[u], handler[u].pc) /\ ~InSlot(kind[u], handler'[u].pc))
<1>0. handler[u] \in Handler /\ handler \in [Uploads -> Handler] /\ kind[u] \in AllKinds
      /\ Good(kind[u], pipe[u], handler[u], producer[u], cancel)
  BY GoodTypes DEF PipeInv, PipeTypeOK
<1> USE DEF InSlot
<1>1. CASE SetActive(u) \/ Loop(u) \/ Recv(u) \/ WriteGivesUp(u) \/ WriteWaits(u) \/ ClearActive(u)
  BY <1>1 DEF SetActive, Loop, Recv, WriteGivesUp, WriteWaits, ClearActive
<1>2. CASE RecvError(u) \/ WriteCopies(u) \/ LastWrite(u)
  <2>1. handler' = WakeHandler(u) /\ busy' = busy
    BY <1>2 DEF RecvError, WriteCopies, LastWrite, FinishPipe
  <2>2. QED  BY <1>0, <2>1 DEF WakeHandler, Handler
<1>3. CASE Refused(u) \/ ManifestCheck(u) \/ ManifestRead(u) \/ ReadWaits(u) \/ NeedsMore(u) \/ ShutRead(u) \/ Reply(u) \/ Spawn(u)
  <2>1. PICK x \in HandlerPCs : handler' = [handler EXCEPT ![u].pc = x] /\ (x = "reply" \/ x = "gone" \/ InSlot(kind[u], handler[u].pc))
    BY <1>3 DEF Refused, ManifestCheck, ManifestRead, ReadWaits, NeedsMore, ShutRead, Reply, Spawn, Go, At, HandlerPCs
  <2>2. busy' = busy
    BY <1>3 DEF Refused, ManifestCheck, ManifestRead, ReadWaits, NeedsMore, ShutRead, Reply, Spawn
  <2>3. handler'[u].pc = x
    BY <1>0, <2>1 DEF Handler
  <2>4. QED  BY <2>1, <2>2, <2>3
<1>4. CASE ManifestBad(u) \/ SpawnFails(u) \/ Fill(u) \/ BadArchive(u) \/ RarCancelled(u) \/ StopPipe(u)
           \/ ReadEnds(u) \/ ReadTakes(u) \/ Extracted(u) \/ Join(u)
  <2>1. InSlot(kind[u], handler[u].pc)
    BY <1>4 DEF ManifestBad, SpawnFails, Fill, BadArchive, RarCancelled, StopPipe, ReadEnds, ReadTakes, Extracted, Join, At
  <2>2. busy' = busy
    BY <1>4 DEF ManifestBad, SpawnFails, Fill, BadArchive, RarCancelled, StopPipe, ReadEnds, ReadTakes, Extracted, Join
  <2>3. QED  BY <2>1, <2>2
<1>5. CASE JobEnd(u)
  <2>1. At(u, "end") /\ (pipe[u].live => kind[u] = "zip")
    BY <1>0, <1>5 DEF JobEnd, At, Good, Phased
  <2>2. handler'[u].pc = IF pipe[u].live THEN "destroy" ELSE "reply"
    BY <1>0, <1>5 DEF JobEnd, Go, Handler
  <2>3. QED  BY <2>1, <2>2 DEF At
<1>6. CASE Destroy(u)
  <2>1. At(u, "destroy") /\ busy' = busy
    BY <1>6 DEF Destroy
  <2>2. handler'[u].pc = IF kind[u] = "zip" THEN "reply" ELSE "end"
    BY <1>0, <1>6 DEF Destroy, Go, Handler
  <2>3. QED  BY <2>1, <2>2 DEF At
<1>7. QED  BY <1>1, <1>2, <1>3, <1>4, <1>5, <1>6 DEF ProducerStep, HandlerStep

(* A producer at work stays so until it unregisters its pipe, and registers its *)
(* own alone.                                                               *)
LEMMA RegisteredFrames ==
  ASSUME PipeInv, NEW u \in Uploads, ProducerStep(u) \/ HandlerStep(u)
  PROVE  \/ active' = active /\ (producer[u].pc \in AtWork => producer'[u].pc \in AtWork)
         \/ active'.pipe = u /\ producer'[u].pc \in AtWork
         \/ active'.pipe = None
         \/ active' = active /\ active.pipe # u
<1>0. /\ producer[u] \in Producer /\ producer \in [Uploads -> Producer]
      /\ Good(kind[u], pipe[u], handler[u], producer[u], cancel)
  BY GoodTypes DEF PipeInv, PipeTypeOK
<1> USE DEF AtWork
<1>1. CASE SetActive(u)
  BY <1>0, <1>1 DEF SetActive, Producer
<1>2. CASE ClearActive(u)
  BY <1>0, <1>2 DEF ClearActive, NoTarget
<1>3. CASE Loop(u) \/ Recv(u) \/ RecvError(u) \/ WriteGivesUp(u) \/ WriteWaits(u) \/ WriteCopies(u) \/ LastWrite(u)
  <2>1. CASE Loop(u) \/ RecvError(u) \/ WriteGivesUp(u) \/ WriteWaits(u) \/ LastWrite(u)
    <3>1. PICK x \in AtWork : Turns(u, x)
      BY <2>1 DEF Loop, RecvError, WriteGivesUp, WriteWaits, LastWrite, Turns
    <3>2. producer'[u].pc \in AtWork
      BY <1>0, <3>1 DEF Turns, Producer
    <3>3. QED  BY <2>1, <3>2 DEF Loop, RecvError, WriteGivesUp, WriteWaits, LastWrite
  <2>2. CASE Recv(u) \/ WriteCopies(u)
    <3>1. CASE Recv(u)
      <4>1. producer'[u].pc = "write"
        BY <1>0, <3>1 DEF Recv
      <4>2. QED  BY <3>1, <4>1 DEF Recv
    <3>2. CASE WriteCopies(u)
      <4>1. producer'[u].pc \in {"write", "loop"}
        BY <1>0, <3>2 DEF WriteCopies
      <4>2. QED  BY <3>2, <4>1 DEF WriteCopies
    <3>3. QED  BY <2>2, <3>1, <3>2
  <2>3. QED  BY <1>3, <2>1, <2>2
<1>4. CASE ManifestBad(u) \/ SpawnFails(u)
  BY <1>4 DEF ManifestBad, SpawnFails, NoTarget
<1>5. CASE Spawn(u)
  <2>1. producer[u].pc = "none"
    BY <1>0, <1>5 DEF Spawn, At, Good, Phased, Early
  <2>2. QED  BY <1>5, <2>1 DEF Spawn
<1>6. CASE RarCancelled(u) \/ StopPipe(u) \/ ReadTakes(u)
  BY <1>0, <1>6 DEF RarCancelled, StopPipe, ReadTakes, WakeProducer, Producer
<1>7. CASE Refused(u) \/ ManifestCheck(u) \/ ManifestRead(u) \/ Fill(u) \/ ReadWaits(u) \/ ReadEnds(u) \/ NeedsMore(u)
           \/ Extracted(u) \/ BadArchive(u) \/ ShutRead(u) \/ Join(u) \/ JobEnd(u) \/ Destroy(u) \/ Reply(u)
  BY <1>7 DEF Refused, ManifestCheck, ManifestRead, Fill, ReadWaits, ReadEnds, NeedsMore, Extracted, BadArchive,
              ShutRead, Join, JobEnd, Destroy, Reply
<1>8. QED  BY <1>1, <1>2, <1>3, <1>4, <1>5, <1>6, <1>7 DEF ProducerStep, HandlerStep

LEMMA ThreadStepInv ==
  ASSUME PipeInv, NEW u \in Uploads, ProducerStep(u) \/ HandlerStep(u)
  PROVE  PipeInv'
<1>1. StaysGood(u)
  BY ProducerSteps, SimpleSteps, EndingSteps, PipeSteps DEF HandlerStep
<1>2. UNCHANGED <<kind, cancel>>
  BY DEF ProducerStep, HandlerStep, SetActive, Loop, Recv, RecvError, WriteGivesUp, WriteWaits, WriteCopies,
         LastWrite, ClearActive, Refused, ManifestCheck, ManifestRead, ManifestBad, Spawn, SpawnFails, Fill,
         ReadWaits, ReadEnds, ReadTakes, NeedsMore, Extracted, BadArchive, RarCancelled, StopPipe, ShutRead,
         Join, JobEnd, Destroy, Reply
<1>3. AllGood'
  BY <1>1, <1>2, AllStayGood
<1>4. PipeTypeOK'
  <2>1. PipeNext
    BY DEF PipeNext
  <2>2. QED  BY <1>1, <2>1, OtherTypes, FramedTypes DEF StaysGood, PipeTypeOK, PipeInv
<1>5. \A v \in Uploads \ {u} : handler'[v] = handler[v] /\ producer'[v] = producer[v]
  BY <1>1, FramedTypes DEF StaysGood
<1>6. OneInSlot'
  <2>1. \A v \in Uploads : InSlot(kind[v], handler'[v].pc) => InSlot(kind[v], handler[v].pc)
    BY <1>5, SlotFrames
  <2>2. \A v \in Uploads : InSlot(kind[v], handler'[v].pc) => busy'
    BY <1>5, <2>1, SlotFrames DEF PipeInv, OneInSlot
  <2> HIDE DEF InSlot
  <2>3. QED  BY <1>2, <2>1, <2>2 DEF PipeInv, OneInSlot
<1>7. Registered'
  <2>1. active \in Target /\ active' \in Target
    BY <1>4 DEF PipeInv, PipeTypeOK
  <2>2. QED  BY <1>5, <2>1, RegisteredFrames DEF PipeInv, Registered, Target
<1>8. QED  BY <1>3, <1>4, <1>6, <1>7 DEF PipeInv

(* job_begin: the slot was free, so nobody counts on the flag it resets.        *)
LEMMA BeginInv ==
  ASSUME PipeInv, NEW u \in Uploads, BeginUpload(u)
  PROVE  PipeInv'
<1>0. /\ handler[u] \in Handler /\ handler \in [Uploads -> Handler] /\ kind \in [Uploads -> AllKinds]
      /\ Good(kind[u], pipe[u], handler[u], producer[u], cancel)
  BY GoodTypes DEF PipeInv, PipeTypeOK
<1>1. PICK x \in {"manifest", "spawn"} : handler' = [handler EXCEPT ![u].pc = x]
  BY DEF BeginUpload, Go
<1>2. /\ handler[u].pc = "new" /\ ~busy /\ busy' /\ cancel' = FALSE
      /\ UNCHANGED <<kind, pipe, producer>>
      /\ active' = active \/ active'.pipe = None
  BY DEF BeginUpload, At
<1>3. /\ handler' \in [Uploads -> Handler] /\ \A v \in Uploads \ {u} : handler'[v] = handler[v]
      /\ handler'[u].pc = x /\ handler'[u].got = handler[u].got
      /\ handler'[u].drain = handler[u].drain /\ handler'[u].result = handler[u].result
  BY <1>0, <1>1 DEF Handler, HandlerPCs
<1>4. \A v \in Uploads : ~InSlot(kind[v], handler[v].pc)
  BY <1>2 DEF PipeInv, OneInSlot
<1>5. ASSUME NEW v \in Uploads, v # u
      PROVE  Good(kind[v], pipe[v], handler'[v], producer[v], FALSE)
  <2>1. handler'[v] = handler[v] /\ ~InSlot(kind[v], handler[v].pc)
    BY <1>3, <1>4, <1>5
  <2>2. Good(kind[v], pipe[v], handler[v], producer[v], cancel)
    BY GoodTypes
  <2>3. QED  BY <2>1, <2>2 DEF Good, Sleeps, InSlot, Told
<1>6. Good(kind[u], pipe[u], handler'[u], producer[u], FALSE)
  BY <1>0, <1>2, <1>3 DEF Good, Phased, Streams, Sleeps, Extracts, Early, Working, Late
<1>7. AllGood'
  <2>1. \A v \in Uploads : Good(kind[v], pipe[v], handler'[v], producer[v], FALSE)
    BY <1>5, <1>6
  <2> HIDE DEF Good
  <2>2. QED  BY <1>2, <2>1 DEF AllGood
<1>8. PipeTypeOK'
  <2>1. PipeNext
    BY DEF PipeNext
  <2>2. QED  BY <1>2, <1>3, <2>1, OtherTypes DEF PipeTypeOK, PipeInv
<1>9. OneInSlot' /\ Registered'
  <2>1. \A v \in Uploads : InSlot(kind[v], handler'[v].pc) => v = u
    BY <1>3, <1>4
  <2> HIDE DEF InSlot
  <2>2. OneInSlot'
    BY <1>2, <2>1 DEF OneInSlot
  <2>3. Registered'
    BY <1>2 DEF PipeInv, Registered
  <2>4. QED  BY <2>2, <2>3
<1>10. QED  BY <1>7, <1>8, <1>9 DEF PipeInv

(* A request that cancels wakes whoever sleeps on the pipe it finds, its own or  *)
(* a later upload's.                                                        *)
LEMMA CancellerInv ==
  ASSUME PipeInv, NEW c \in Cancellers, CancelStore(c) \/ CancellerStep(c)
  PROVE  PipeInv'
<1>1. PipeNext
  BY DEF PipeNext
<1>2. CASE UNCHANGED <<pipe, handler, producer>> /\ cancel' \in {TRUE, cancel}
  <2>1. UNCHANGED <<kind, busy, active>>
    BY DEF CancelStore, CancellerStep, CancelLook, CancelsPipe, ShutsDown
  <2>2. ASSUME NEW v \in Uploads
        PROVE  Good(kind[v], pipe[v], handler[v], producer[v], cancel')
    <3>1. Good(kind[v], pipe[v], handler[v], producer[v], cancel)
      BY GoodTypes
    <3>2. QED  BY <1>2, <3>1 DEF Good, Sleeps, Told
  <2> HIDE DEF Good
  <2>3. AllGood'
    BY <1>2, <2>1, <2>2 DEF AllGood
  <2>4. PipeTypeOK'
    BY <1>1, <1>2, OtherTypes DEF PipeInv, PipeTypeOK
  <2>5. QED  BY <1>2, <2>1, <2>3, <2>4 DEF PipeInv, OneInSlot, Registered, InSlot
<1>3. ASSUME NEW u \in Uploads, CancelPipe(u), handler' = WakeHandler(u), producer' = WakeProducer(u),
             UNCHANGED <<busy, cancel, active, kind>>
      PROVE  PipeInv'
  <2>1. /\ Good(kind[u], pipe[u], handler[u], producer[u], cancel) /\ handler[u].got \in Nat
        /\ handler[u] \in Handler /\ handler \in [Uploads -> Handler] /\ Cap \in Nat /\ Cap > 0
    BY GoodTypes, SizeTypes DEF PipeInv, PipeTypeOK
  <2>2. /\ handler' = [handler EXCEPT ![u] = handler'[u]] /\ handler'[u] \in Handler
        /\ handler'[u].pc = IF handler[u].pc = "wait" THEN "read" ELSE handler[u].pc
        /\ handler'[u].got = handler[u].got
        /\ handler'[u].drain = handler[u].drain /\ handler'[u].result = handler[u].result
    BY <1>3, <2>1 DEF WakeHandler, Handler, HandlerPCs
  <2>3. StaysGood(u)
    BY <1>3, <2>1, <2>2, CancelFrames
       DEF StaysGood, Framed, Good, Phased, Streams, Sleeps, Extracts, Told, Early, Working, Late
  <2>4. AllGood'
    BY <1>3, <2>3, AllStayGood
  <2>5. PipeTypeOK'
    BY <1>1, <2>3, OtherTypes, FramedTypes DEF StaysGood, PipeTypeOK, PipeInv
  <2>6. \A v \in Uploads : /\ InSlot(kind[v], handler'[v].pc) <=> InSlot(kind[v], handler[v].pc)
                           /\ producer[v].pc \in AtWork => producer'[v].pc \in AtWork
    <3>1. \A v \in Uploads \ {u} : handler'[v] = handler[v] /\ producer'[v] = producer[v]
      BY <2>3, FramedTypes DEF StaysGood
    <3>2. producer[u].pc \in AtWork => producer'[u].pc \in AtWork
      BY <1>3, CancelFrames DEF AtWork
    <3>3. QED  BY <2>2, <3>1, <3>2 DEF InSlot
  <2>7. active \in Target
    BY DEF PipeInv, PipeTypeOK
  <2> HIDE DEF InSlot, AtWork
  <2>8. QED  BY <1>3, <2>4, <2>5, <2>6, <2>7 DEF PipeInv, OneInSlot, Registered, Target
<1>4. CASE CancelStore(c) \/ CancelLook(c) \/ ShutsDown(c)
  BY <1>2, <1>4 DEF CancelStore, CancelLook, ShutsDown
<1>5. CASE CancelsPipe(c)
  <2>1. UNCHANGED <<busy, cancel, active, kind>>
    BY <1>5 DEF CancelsPipe
  <2>2. \/ UNCHANGED <<pipe, handler, producer>>
        \/ \E u \in Uploads : CancelPipe(u) /\ handler' = WakeHandler(u) /\ producer' = WakeProducer(u)
    BY <1>5 DEF CancelsPipe, Heirs, LivePipes, PipeInv, PipeTypeOK, Canceller, Target
  <2>3. QED  BY <1>2, <1>3, <2>1, <2>2
<1>6. QED  BY <1>4, <1>5 DEF CancellerStep

LEMMA PipeInitInv ==
  ASSUME PipeInit
  PROVE  PipeInv
<1> USE PipeInit DEF PipeInit
<1>1. NoPipe \in Pipe /\ ~NoPipe.live /\ ~NoPipe.done /\ ~NoPipe.cancel
  <2>1. /\ [i \in 0 .. Cap - 1 |-> 0] \in [0 .. Cap - 1 -> Bytes] /\ 0 \in 0 .. Cap - 1 /\ 0 \in 0 .. Cap
    BY SizeTypes DEF Bytes
  <2>2. QED  BY <2>1 DEF NoPipe, Pipe
<1>2. /\ [pc |-> "new", got |-> 0, drain |-> FALSE, result |-> "none"] \in Handler
      /\ [pc |-> "none", taken |-> 0, sent |-> 0] \in Producer
  BY SizeTypes DEF Handler, HandlerPCs, Producer, ProducerPCs, Bytes
<1>3. NoTarget \in Target /\ [pc |-> "idle", target |-> NoTarget] \in Canceller
  BY DEF NoTarget, Target, Canceller
<1>4. PipeTypeOK
  <2>1. kind \in [Uploads -> AllKinds]
    BY PipeAssumption
  <2>2. /\ pipe \in [Uploads -> Pipe] /\ handler \in [Uploads -> Handler] /\ producer \in [Uploads -> Producer]
        /\ canceller \in [Cancellers -> Canceller]
    BY <1>1, <1>2, <1>3
  <2>3. QED  BY <1>3, <2>1, <2>2 DEF PipeTypeOK
<1>5. AllGood
  <2>1. ASSUME NEW u \in Uploads
        PROVE  Good(kind[u], pipe[u], handler[u], producer[u], cancel)
    <3>1. pipe[u] = NoPipe /\ ~pipe[u].live
      BY <1>1
    <3>2. /\ handler[u].pc = "new" /\ handler[u].got = 0 /\ ~handler[u].drain /\ handler[u].result = "none"
          /\ producer[u].pc = "none" /\ producer[u].taken = 0 /\ producer[u].sent = 0
      OBVIOUS
    <3>3. QED  BY <3>1, <3>2 DEF Good, Phased, Streams, Sleeps, Extracts, Early, Working, Late
  <2> HIDE DEF Good
  <2>2. QED  BY <2>1 DEF AllGood
<1>6. OneInSlot /\ Registered
  BY DEF OneInSlot, InSlot, Registered, NoTarget
<1>7. QED  BY <1>4, <1>5, <1>6 DEF PipeInv

-----------------------------------------------------------------------------
(* The theorems.                                                            *)

(* The inductive invariant of the archive uploads.                           *)
THEOREM PipeInvariant == PipeSpec => []PipeInv
<1>1. PipeInv /\ [PipeNext]_pipeVars => PipeInv'
  <2>1. CASE PipeInv /\ PipeNext
    BY <2>1, ThreadStepInv, BeginInv, CancellerInv DEF PipeNext
  <2>2. CASE PipeInv /\ UNCHANGED pipeVars
    <3> HIDE DEF Good
    <3>1. QED  BY <2>2 DEF pipeVars, PipeInv, PipeTypeOK, AllGood, OneInSlot, InSlot, Registered
  <2>3. QED  BY <2>1, <2>2
<1>2. QED  BY <1>1, PipeInitInv, PTL DEF PipeSpec

(* Every variable keeps its type, whatever the sizes.                        *)
THEOREM PipeTypeCorrect == PipeSpec => []PipeTypeOK
BY PipeInvariant, PTL DEF PipeInv

(* zip_pipe_write and zip_pipe_read make the ring a stream, for every size of   *)
(* it, of the reads and of the body, whoever cancels.                         *)
THEOREM RingIsStream == PipeSpec => []RingHoldsStream
<1>1. ASSUME PipeInv
      PROVE  RingHoldsStream
  <2>1. ASSUME NEW u \in Uploads, pipe[u].live
        PROVE  /\ handler[u].got + pipe[u].used = producer[u].sent
               /\ producer[u].sent <= producer[u].taken
               /\ Holds(pipe[u], handler[u].got)
    BY <1>1, <2>1, GoodTypes DEF Good, Streams
  <2>2. QED  BY <2>1 DEF RingHoldsStream, Holds
<1>2. QED  BY <1>1, PipeInvariant, PTL

(* The pipe on the handler's stack outlives its two threads, and the registered *)
(* one lives and is the job's whose slot is taken: a cancel that looks under the *)
(* lock never finds a pipe that is gone.                                      *)
THEOREM PipeLives == PipeSpec => []PipeLivesWhileUsed
<1>1. ASSUME PipeInv
      PROVE  PipeLivesWhileUsed
  <2>1. ASSUME NEW u \in Uploads, producer[u].pc \notin {"none", "exit"}
        PROVE  pipe[u].live /\ InSlot(kind[u], handler[u].pc)
    <3>1. Phased(kind[u], pipe[u], handler[u], producer[u]) /\ handler[u] \in Handler
      BY <1>1, GoodTypes DEF Good
    <3>2. handler[u].pc \in Working
      BY <2>1, <3>1 DEF Phased, Early, Working, Late, Handler, HandlerPCs
    <3>3. QED  BY <3>1, <3>2 DEF Phased, Working, InSlot
  <2>2. \A u \in Uploads : handler[u].pc \in {"fill", "read", "wait", "parse", "failed"} => pipe[u].live
    BY <1>1, GoodTypes DEF Good, Phased, Working
  <2>3. active.pipe # None =>
          active.pipe \in Uploads /\ producer[active.pipe].pc \notin {"none", "exit"}
    BY <1>1 DEF PipeInv, Registered, AtWork, PipeTypeOK, Target
  <2>4. PipeOutlivesItsThreads
    BY <2>1, <2>2 DEF PipeOutlivesItsThreads
  <2> HIDE DEF InSlot
  <2>5. RegisteredPipeIsLive
    BY <1>1, <2>1, <2>3 DEF PipeInv, OneInSlot, RegisteredPipeIsLive
  <2>6. QED  BY <2>4, <2>5 DEF PipeLivesWhileUsed
<1>2. QED  BY <1>1, PipeInvariant, PTL

(* No upload is reported as extracted before its archive has come: every byte   *)
(* of a rar, every entry of a zip.                                           *)
THEOREM ExtractedIsComplete == PipeSpec => []SuccessIsComplete
<1>1. ASSUME PipeInv
      PROVE  SuccessIsComplete
  BY <1>1, GoodTypes DEF SuccessIsComplete, Good, Extracts
<1>2. QED  BY <1>1, PipeInvariant, PTL

(* While nobody cancels, no signal of the pipe's condition variable is missed:  *)
(* whoever sleeps has a thread before it that will broadcast.                  *)
THEOREM SleepersAreWoken == PipeSpec => []SleepersHaveWakers
<1>1. ASSUME PipeInv
      PROVE  SleepersHaveWakers
  <2>1. ASSUME NEW u \in Uploads, ~cancel
        PROVE  /\ At(u, "wait") => producer[u].pc \notin {"exit", "clear", "wait"}
               /\ producer[u].pc = "wait" => handler[u].pc \in {"fill", "read", "parse", "failed"}
    <3>1. /\ Phased(kind[u], pipe[u], handler[u], producer[u])
          /\ Streams(pipe[u], handler[u], producer[u])
          /\ Sleeps(pipe[u], handler[u], producer[u], cancel)
          /\ handler[u].pc \in Early \cup Working \cup Late
          /\ handler[u].got \in 0 .. Body /\ producer[u].sent \in 0 .. Body /\ producer[u].taken \in 0 .. Body
          /\ pipe[u].used \in 0 .. Cap /\ Cap \in Nat /\ Cap > 0 /\ Body \in Nat
      BY <1>1, GoodTypes, SizeTypes DEF Good, Handler, HandlerPCs, Early, Working, Late
    <3>2. At(u, "wait") => producer[u].pc \notin {"exit", "clear", "wait"}
      BY <2>1, <3>1 DEF Sleeps, Told, At
    <3>3. ASSUME producer[u].pc = "wait"
          PROVE  handler[u].pc \in {"fill", "read", "parse", "failed"}
      <4>1. handler[u].pc \in Working /\ pipe[u].live
        BY <3>1, <3>3 DEF Phased, Early, Working, Late
      <4>2. /\ pipe[u].used = Cap /\ ~pipe[u].done /\ ~pipe[u].cancel
            /\ producer[u].sent < producer[u].taken /\ handler[u].got + pipe[u].used = producer[u].sent
        BY <3>1, <3>3, <4>1 DEF Streams, Sleeps
      <4>3. handler[u].pc # "wait" /\ handler[u].got # Body
        BY <3>1, <4>2 DEF Sleeps
      <4>4. handler[u].pc \notin {"shut", "join"}
        BY <2>1, <3>1, <4>2, <4>3 DEF Sleeps, Told
      <4>5. QED  BY <4>1, <4>3, <4>4 DEF Working
    <3>4. QED  BY <3>2, <3>3
  <2>2. QED  BY <2>1 DEF SleepersHaveWakers
<1>2. QED  BY <1>1, PipeInvariant, PTL
=============================================================================
