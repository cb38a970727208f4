--------------------------- MODULE DiskWork_proofs ----------------------------
(***************************************************************************)
(* Proofs about three of the machines that DiskWork composes.               *)
(*                                                                          *)
(* FileOps, for any set of names, of links and of operations at once: a copy  *)
(* or move that nothing overlaps loses no file, and operations that all go    *)
(* one way have put everything at the target once all have succeeded.        *)
(*                                                                          *)
(* QueuedUpload for files of any number of pieces, any number of workers and   *)
(* of attempts: what is at the final path is what was there or the whole new  *)
(* file, and an upload shown as done is there.                              *)
(*                                                                          *)
(* RarUpload for bodies of any size and any buffer: an archive that is         *)
(* answered as taken was given to the extractor whole and in order.          *)
(***************************************************************************)
EXTENDS FileOps, QueuedUpload, RarUpload, SequenceTheorems, TLAPS

-----------------------------------------------------------------------------
(* FileOps: the inductive invariant.                                                 *)

Started(o) == op[o].pc # "new"
Writing(q, n) == op[q].pc = "write" /\ op[q].name = n

(* A thread has an output only while it writes, and the output is an entry of  *)
(* its folder unless somebody unlinked it.  None has failed before it copies,  *)
(* or succeeded before it is over.                                           *)
Linked ==
  \A q \in Ops :
    /\ op[q].pc \in {"check", "rename", "list"} => ~op[q].bad
    /\ op[q].pc # "over" => ~op[q].ok
    /\ op[q].pc # "write" => op[q].output = None
    /\ op[q].pc = "write" => op[q].name \in EntryNames /\ op[q].reading # None
    /\ op[q].pc = "write" /\ op[q].output # None => file[op[q].output][op[q].name] # None
OneDevice == aliased => devices = 1

(* An operation alone: how far it has come, and what that left.              *)
Lone(o) == Started(o) /\ op[o].alone
LoneOnes == \A o, q \in Ops : Lone(o) /\ q # o => ~Active(q)

OthersKept(o) == \A n \in EntryNames : had[o][n] = None => file[To(o)][n] = hadTo[o][n]
Spared(o) ==
  /\ \A n \in SourceFiles(o) : had[o][n] \in {file[From(o)][n], file[To(o)][n]}
  /\ OthersKept(o)
Arrived(o) == \A n \in SourceFiles(o) : file[To(o)][n] = had[o][n]
Passed(o) ==
  \A n \in op[o].seen \ links : Writing(o, n) \/ file[To(o)][n] = had[o][n]
LoneAt(o) ==
  /\ aliased => op[o].pc \in {"check", "rename", "over"}
  /\ op[o].pc \in {"check", "rename", "list"} => file[From(o)] = had[o] /\ file[To(o)] = hadTo[o]
  /\ op[o].pc \in {"copy", "write"} =>
       /\ file[From(o)] = had[o] /\ OthersKept(o)
       /\ op[o].listed = In(From(o)) /\ op[o].seen \subseteq op[o].listed
       /\ op[o].bad \/ Passed(o)
  /\ op[o].pc = "write" =>
       /\ op[o].name \in op[o].listed \ links /\ op[o].reading = had[o][op[o].name]
       /\ op[o].output = To(o) /\ op[o].whole
  /\ op[o].pc \in {"clear", "unlink"} => Arrived(o) /\ OthersKept(o)
  /\ op[o].pc = "over" => Spared(o)
LoneSpares == \A o \in Ops : Lone(o) /\ op[o].verb # "delete" /\ ~Onto(o) => LoneAt(o)

(* Operations that all go one way, as long as none has failed.               *)
GoodRun(p) ==
  \A q \in Ops : Started(q) =>
    /\ op[q].verb # "delete" /\ op[q].from = p
    /\ Active(q) => ~op[q].bad
    /\ op[q].pc = "over" => op[q].ok
Origin(p) == IF p = "a" THEN Here ELSE There
Covered(p, n) ==
  file[Other(p)][n] = Origin(p) \/ \E q \in Ops : Writing(q, n) /\ op[q].whole
Ahead(o, p, n) ==
  /\ file[p][n] # None
  /\ \/ op[o].pc \in {"check", "rename", "list"}
     \/ op[o].pc \in {"copy", "write"} /\ n \in op[o].listed \ op[o].seen
SourceShrinks(p) ==
  /\ \A n \in EntryNames : file[p][n] \in {None, Origin(p)}
  /\ \A o \in Ops, n \in EntryNames : Started(o) =>
       had[o][n] \in {None, Origin(p)} /\ (file[p][n] # None => had[o][n] # None)
WritersAgree(p) ==
  \A q \in Ops : op[q].pc = "write" =>
    op[q].name \notin links /\ op[q].reading = Origin(p) /\ op[q].output = Other(p)
NoneMissing(p) ==
  \A o \in Ops, n \in EntryNames \ links :
    Started(o) /\ had[o][n] # None => Covered(p, n) \/ Ahead(o, p, n)
FolderMoved(p) == \A o \in Ops : op[o].pc = "over" /\ op[o].verb = "move" => p \notin folders
GoodAt(p) == SourceShrinks(p) /\ WritersAgree(p) /\ NoneMissing(p) /\ FolderMoved(p)
OneWay == ~aliased => \A p \in Places : GoodRun(p) => GoodAt(p)

(* Moves of a folder onto itself.                                           *)
Stays(o) ==
  op[o].pc \in {"check", "rename", "over"} /\ \A n \in EntryNames : had[o][n] \in {None, file["a"][n]}
OntoItself ==
  aliased /\ (\A q \in Ops : Started(q) => op[q].verb = "move") =>
    \A o \in Ops : Started(o) => Stays(o)

FileOpsInv ==
  FileOpsTypeOK /\ Linked /\ OneDevice /\ LoneOnes /\ LoneSpares /\ OneWay /\ OntoItself

-----------------------------------------------------------------------------
(* Places and threads.                                                      *)

LEMMA OtherPlace ==
  \A p \in Places : Other(p) \in Places /\ Other(p) # p /\ Places = {p, Other(p)}
BY DEF Other, Places

LEMMA Ways ==
  ASSUME FileOpsTypeOK, NEW o \in Ops
  PROVE  /\ op[o] \in Op /\ From(o) \in Places /\ To(o) \in Places
         /\ ~aliased => From(o) = op[o].from /\ To(o) = Other(op[o].from) /\ From(o) # To(o)
         /\ aliased => From(o) = "a" /\ To(o) = "a"
<1>1. op[o] \in Op /\ op[o].from \in Places
  BY DEF FileOpsTypeOK, Op
<1> QED  BY <1>1, OtherPlace DEF From, To, Real, Places

LEMMA OverIsOp ==
  ASSUME NEW v \in Op, NEW ok \in BOOLEAN
  PROVE  /\ Over(v, ok) \in Op /\ Over(v, ok).pc = "over" /\ Over(v, ok).verb = v.verb
         /\ Over(v, ok).from = v.from /\ Over(v, ok).alone = v.alone /\ Over(v, ok).ok = ok
         /\ Over(v, ok).bad = FALSE /\ Over(v, ok).output = None
<1>1. NewOp \in Op
  BY DEF NewOp, Op, PCs, Verbs, Places, FileVersions
<1> QED  BY <1>1, ZenonT(30) DEF Over, NewOp, Op, PCs

(* A step of one thread leaves the others as they are, or changes only what    *)
(* they know of the files they read and write.                               *)
Alike(q) ==
  /\ op'[q].pc = op[q].pc /\ op'[q].verb = op[q].verb /\ op'[q].from = op[q].from
  /\ op'[q].listed = op[q].listed /\ op'[q].seen = op[q].seen /\ op'[q].name = op[q].name
  /\ op'[q].bad = op[q].bad /\ op'[q].ok = op[q].ok /\ op'[q].alone = op[q].alone
OthersSame(o) == \A q \in Ops \ {o} : op'[q] = op[q]
OthersAlike(o) == \A q \in Ops \ {o} : Alike(q)

LEMMA SetsOne ==
  ASSUME FileOpsTypeOK, NEW o \in Ops, NEW v \in Op, Set(o, v)
  PROVE  op' \in [Ops -> Op] /\ op'[o] = v /\ OthersSame(o)
BY DEF FileOpsTypeOK, Set, OthersSame

LEMMA EndsOne ==
  ASSUME FileOpsTypeOK, NEW o \in Ops, NEW ok \in BOOLEAN, OpEnds(o, ok)
  PROVE  /\ op' \in [Ops -> Op] /\ OthersSame(o)
         /\ op'[o].pc = "over" /\ op'[o].verb = op[o].verb /\ op'[o].from = op[o].from
         /\ op'[o].alone = op[o].alone /\ op'[o].ok = ok /\ op'[o].bad = FALSE /\ op'[o].output = None
<1>1. op[o] \in Op
  BY DEF FileOpsTypeOK
<1>2. Set(o, Over(op[o], ok)) /\ Over(op[o], ok) \in Op
  BY <1>1, OverIsOp DEF OpEnds
<1> HIDE DEF Set
<1>3. op' \in [Ops -> Op] /\ op'[o] = Over(op[o], ok) /\ OthersSame(o)
  BY <1>2, SetsOne
<1> DEFINE v == Over(op[o], ok)
<1>4. v.pc = "over" /\ v.verb = op[o].verb /\ v.from = op[o].from /\ v.alone = op[o].alone
      /\ v.ok = ok /\ v.bad = FALSE /\ v.output = None
  BY <1>1, OverIsOp
<1>5. op'[o] = v
  BY <1>3
<1> HIDE DEF v
<1> QED  BY <1>3, <1>4, <1>5

(* What goes on is kept: the way, and whether it is alone.                    *)
Keeps(o) ==
  /\ op'[o].verb = op[o].verb /\ op'[o].from = op[o].from /\ op'[o].alone = op[o].alone
  /\ op'[o].pc # "over" => op'[o].ok = op[o].ok
Fails(o) == op'[o].pc = "over" /\ ~op'[o].ok /\ op'[o].output = None /\ op'[o].bad = FALSE
ComesToAnEnd(o)  == op'[o].pc = "over" /\ op'[o].ok /\ ~op[o].bad /\ op'[o].output = None /\ op'[o].bad = FALSE
GoesTo(o, pc) ==
  /\ op'[o].pc = pc /\ op'[o].listed = op[o].listed /\ op'[o].seen = op[o].seen
  /\ op'[o].bad = op[o].bad /\ op'[o].output = op[o].output
Lists(o, pc) ==
  op'[o].pc = pc /\ op'[o].listed = In(From(o)) /\ op'[o].seen = {} /\ op'[o].bad = op[o].bad
  /\ op'[o].output = op[o].output
Passes(o, n, bad) ==
  op'[o].pc = op[o].pc /\ op'[o].listed = op[o].listed /\ op'[o].seen = op[o].seen \cup {n}
  /\ op'[o].bad = bad /\ op'[o].output = op[o].output /\ op'[o].name = op[o].name
Only(o) == op' \in [Ops -> Op] /\ Keeps(o) /\ OthersSame(o)

(* The steps that leave the files alone, and those that write, by what they     *)
(* do to the threads.                                                       *)
LEMMA QuietSteps ==
  ASSUME FileOpsTypeOK, NEW o \in Ops
  PROVE  /\ Check(o) => Only(o) /\ op[o].pc = "check"
              /\ (Fails(o) \/ GoesTo(o, IF op[o].verb = "move" THEN "rename" ELSE "list"))
         /\ List(o) => Only(o) /\ op[o].pc = "list" /\ (Fails(o) \/ Lists(o, "copy"))
         /\ Visit(o) => Only(o) /\ op[o].pc = "copy" /\ \E n \in Returned(o) :
              /\ n \in links \/ n \notin In(From(o))
              /\ Passes(o, n, op[o].bad \/ n \notin In(From(o)))
         /\ OpenFails(o) => Only(o) /\ op[o].pc = "copy" /\ \E n \in Returned(o) : Passes(o, n, TRUE)
         /\ CopyEnds(o) => Only(o) /\ op[o].pc = "copy" /\ Left(o) = {}
              /\ \/ ~op[o].bad /\ op[o].verb = "move" /\ GoesTo(o, "clear")
                 \/ op[o].bad /\ Fails(o)
                 \/ op[o].verb # "move" /\ ComesToAnEnd(o)
         /\ ClearList(o) => Only(o) /\ op[o].pc = "clear" /\ (Fails(o) \/ Lists(o, "unlink"))
         /\ RemoveFolder(o) => Only(o) /\ op[o].pc = "unlink"
              /\ (Fails(o) \/ (ComesToAnEnd(o) /\ folders' = folders \ {From(o)} /\ In(From(o)) = {}))
<1>0. op[o] \in Op /\ In(From(o)) \subseteq EntryNames /\ Returned(o) \subseteq EntryNames
  BY DEF FileOpsTypeOK, In, Returned, Left, Op
<1>1. ASSUME OpEnds(o, FALSE)
      PROVE  Only(o) /\ Fails(o)
  BY <1>1, EndsOne DEF Only, Keeps, Fails
<1>2. ASSUME OpEnds(o, TRUE), ~op[o].bad
      PROVE  Only(o) /\ ComesToAnEnd(o)
  BY <1>2, EndsOne DEF Only, Keeps, ComesToAnEnd
<1>3. ASSUME NEW pc \in PCs, Set(o, [op[o] EXCEPT !.pc = pc])
      PROVE  Only(o) /\ GoesTo(o, pc)
  <2>1. [op[o] EXCEPT !.pc = pc] \in Op
    BY <1>0 DEF Op
  <2>2. op' \in [Ops -> Op] /\ op'[o] = [op[o] EXCEPT !.pc = pc] /\ OthersSame(o)
    BY <1>3, <2>1, SetsOne
  <2> QED  BY <1>0, <2>2 DEF Only, Keeps, GoesTo, Op
<1>4. ASSUME NEW pc \in PCs, Set(o, [op[o] EXCEPT !.pc = pc, !.listed = In(From(o)), !.seen = {}])
      PROVE  Only(o) /\ Lists(o, pc)
  <2> DEFINE v == [op[o] EXCEPT !.pc = pc, !.listed = In(From(o)), !.seen = {}]
  <2>1. v \in Op
    BY <1>0 DEF Op
  <2>2. op' \in [Ops -> Op] /\ op'[o] = v /\ OthersSame(o)
    BY <1>4, <2>1, SetsOne
  <2> QED  BY <1>0, <2>2 DEF Only, Keeps, Lists, Op
<1>5. ASSUME NEW n \in EntryNames, NEW bad \in BOOLEAN,
             Set(o, [op[o] EXCEPT !.seen = op[o].seen \cup {n}, !.bad = bad])
      PROVE  Only(o) /\ Passes(o, n, bad)
  <2> DEFINE v == [op[o] EXCEPT !.seen = op[o].seen \cup {n}, !.bad = bad]
  <2>1. v \in Op
    BY <1>0 DEF Op
  <2>2. op' \in [Ops -> Op] /\ op'[o] = v /\ OthersSame(o)
    BY <1>5, <2>1, SetsOne
  <2> QED  BY <1>0, <2>2 DEF Only, Keeps, Passes, Op
<1> HIDE DEF Set
<1>6. ASSUME Check(o)
      PROVE  Only(o) /\ op[o].pc = "check"
             /\ (Fails(o) \/ GoesTo(o, IF op[o].verb = "move" THEN "rename" ELSE "list"))
  <2>1. OpEnds(o, FALSE)
        \/ Set(o, [op[o] EXCEPT !.pc = IF op[o].verb = "move" THEN "rename" ELSE "list"])
    BY <1>6 DEF Check
  <2> DEFINE pc == IF op[o].verb = "move" THEN "rename" ELSE "list"
  <2>2. pc \in PCs
    BY DEF PCs
  <2>3. Only(o) /\ (Fails(o) \/ GoesTo(o, pc))
    <3> HIDE DEF pc
    <3> QED  BY <1>1, <1>3, <2>1, <2>2 DEF pc
  <2> QED  BY <1>6, <2>3 DEF Check
<1>7. ASSUME List(o)
      PROVE  Only(o) /\ op[o].pc = "list" /\ (Fails(o) \/ Lists(o, "copy"))
  BY <1>1, <1>4, <1>7 DEF List, PCs
<1>8. ASSUME Visit(o)
      PROVE  Only(o) /\ op[o].pc = "copy" /\ \E n \in Returned(o) :
               /\ n \in links \/ n \notin In(From(o))
               /\ Passes(o, n, op[o].bad \/ n \notin In(From(o)))
  <2>1. PICK n \in Returned(o) :
          /\ n \in links \/ n \notin In(From(o))
          /\ Set(o, [op[o] EXCEPT !.seen = op[o].seen \cup {n}, !.bad = op[o].bad \/ n \notin In(From(o))])
    BY <1>8 DEF Visit
  <2>2. op[o].bad \in BOOLEAN
    BY <1>0 DEF Op
  <2> QED  BY <1>0, <1>5, <1>8, <2>1, <2>2 DEF Visit
<1>9. ASSUME OpenFails(o)
      PROVE  Only(o) /\ op[o].pc = "copy" /\ \E n \in Returned(o) : Passes(o, n, TRUE)
  BY <1>0, <1>5, <1>9 DEF OpenFails
<1>10. ASSUME CopyEnds(o)
      PROVE  Only(o) /\ op[o].pc = "copy" /\ Left(o) = {}
              /\ \/ ~op[o].bad /\ op[o].verb = "move" /\ GoesTo(o, "clear")
                 \/ op[o].bad /\ Fails(o)
                 \/ op[o].verb # "move" /\ ComesToAnEnd(o)
  <2>1. CASE ~op[o].bad /\ op[o].verb = "move"
    BY <1>3, <1>10, <2>1 DEF CopyEnds, CopyIsGood, PCs
  <2>2. CASE op[o].bad
    BY <1>0, <1>1, <1>10, <2>2 DEF CopyEnds, CopyIsGood, Op
  <2>3. CASE ~op[o].bad /\ op[o].verb # "move"
    BY <1>0, <1>2, <1>10, <2>3 DEF CopyEnds, CopyIsGood, Op
  <2> QED  BY <1>10, <2>1, <2>2, <2>3 DEF CopyEnds
<1>11. ASSUME ClearList(o)
      PROVE  Only(o) /\ op[o].pc = "clear" /\ (Fails(o) \/ Lists(o, "unlink"))
  BY <1>1, <1>4, <1>11 DEF ClearList, PCs
<1>12. ASSUME RemoveFolder(o)
      PROVE  Only(o) /\ op[o].pc = "unlink"
              /\ (Fails(o) \/ (ComesToAnEnd(o) /\ folders' = folders \ {From(o)} /\ In(From(o)) = {}))
  BY <1>1, <1>2, <1>12 DEF RemoveFolder
<1> QED  BY <1>6, <1>7, <1>8, <1>9, <1>10, <1>11, <1>12

(* What becomes of one entry, and of the threads that use it.                 *)
Puts(p, n, v) ==
  /\ file' \in [Places -> [EntryNames -> FileVersions]] /\ file'[p][n] = v
  /\ \A r \in Places, m \in EntryNames : <<r, m>> # <<p, n>> => file'[r][m] = file[r][m]
Unlinks(o, p, n) ==
  /\ Puts(p, n, None) /\ OthersAlike(o)
  /\ \A q \in Ops \ {o} :
       /\ op'[q].reading = op[q].reading /\ op'[q].whole = op[q].whole
       /\ op'[q].output \in {op[q].output, None}
       /\ op[q].output = p /\ op[q].name = n => op'[q].output = None
       /\ ~(op[q].output = p /\ op[q].name = n) => op'[q].output = op[q].output
Renames(o) ==
  /\ devices = 1 /\ CanRename(o) /\ folders' = (folders \ {From(o)}) \cup {To(o)}
  /\ file' \in [Places -> [EntryNames -> FileVersions]]
  /\ file'[To(o)] = file[From(o)]
  /\ From(o) # To(o) => \A n \in EntryNames : file'[From(o)][n] = None
  /\ op' \in [Ops -> Op] /\ Keeps(o) /\ ComesToAnEnd(o) /\ OthersAlike(o)
  /\ \A q \in Ops \ {o} :
       /\ op'[q].reading = op[q].reading /\ op'[q].whole = op[q].whole
       /\ op'[q].output = IF op[q].output = From(o) THEN To(o) ELSE op[q].output
Opens(o, n) ==
  /\ n \in (Returned(o) \cap In(From(o))) \ links /\ To(o) \in folders
  /\ Puts(To(o), n, Torn)
  /\ op' \in [Ops -> Op] /\ Keeps(o) /\ OthersAlike(o)
  /\ op'[o].pc = "write" /\ op'[o].listed = op[o].listed /\ op'[o].seen = op[o].seen \cup {n}
  /\ op'[o].bad = op[o].bad /\ op'[o].name = n /\ op'[o].output = To(o) /\ op'[o].whole
  /\ op'[o].reading = IF From(o) = To(o) THEN Torn ELSE file[From(o)][n]
  /\ \A q \in Ops \ {o} :
       /\ op'[q].output = op[q].output
       /\ IF Writing(q, n)
            THEN /\ op'[q].whole = (op[q].whole /\ op[q].output # To(o))
                 /\ op'[q].reading = IF From(q) = To(o) THEN Torn ELSE op[q].reading
            ELSE op'[q] = op[q]
LetsGo(o, bad) ==
  /\ op'[o].pc = "copy" /\ op'[o].listed = op[o].listed /\ op'[o].seen = op[o].seen
  /\ op'[o].bad = bad /\ op'[o].output = None
Fills(o) ==
  /\ file' \in [Places -> [EntryNames -> FileVersions]]
  /\ op[o].output = None => file' = file
  /\ op[o].output # None =>
       Puts(op[o].output, op[o].name,
            IF op[o].whole \/ file[op[o].output][op[o].name] = op[o].reading
            THEN op[o].reading ELSE Torn)

LEMMA PutsOne ==
  ASSUME FileOpsTypeOK, NEW p \in Places, NEW n \in EntryNames, NEW v \in FileVersions,
         file' = [file EXCEPT ![p][n] = v]
  PROVE  Puts(p, n, v)
BY DEF FileOpsTypeOK, Puts

LEMMA UnlinksOne ==
  ASSUME FileOpsTypeOK, NEW o \in Ops, NEW p \in Places, NEW n \in EntryNames, NEW v \in Op,
         v.output = None, file' = [file EXCEPT ![p][n] = None],
         op' = Unlinked(p, n, [op EXCEPT ![o] = v])
  PROVE  Unlinks(o, p, n) /\ op' \in [Ops -> Op] /\ op'[o] = v
<1>0. op \in [Ops -> Op] /\ None \in FileVersions /\ None \notin Places
  BY DEF FileOpsTypeOK, FileVersions, None, Places
<1>1. Puts(p, n, None)
  BY <1>0, PutsOne
<1> DEFINE f == [op EXCEPT ![o] = v]
<1>2. f \in [Ops -> Op] /\ f[o] = v /\ \A q \in Ops \ {o} : f[q] = op[q]
  BY <1>0
<1>3. \A q \in Ops : op'[q] = IF f[q].output = p /\ f[q].name = n
                              THEN [f[q] EXCEPT !.output = None] ELSE f[q]
  BY DEF Unlinked
<1>4. DOMAIN op' = Ops /\ op' = [q \in Ops |-> op'[q]]
  BY DEF Unlinked
<1> HIDE DEF f
<1>5. op'[o] = v
  BY <1>0, <1>2, <1>3
<1>6. ASSUME NEW q \in Ops
      PROVE  op'[q] \in Op
  <2>1. f[q] \in Op
    BY <1>2
  <2>2. op'[q] = f[q] \/ op'[q] = [f[q] EXCEPT !.output = None]
    BY <1>3
  <2> QED  BY <2>1, <2>2 DEF Op
<1>7. op' \in [Ops -> Op]
  BY <1>4, <1>6
<1>8. ASSUME NEW q \in Ops \ {o}
      PROVE  /\ Alike(q) /\ op'[q].reading = op[q].reading /\ op'[q].whole = op[q].whole
             /\ op'[q].output \in {op[q].output, None}
             /\ op[q].output = p /\ op[q].name = n => op'[q].output = None
             /\ ~(op[q].output = p /\ op[q].name = n) => op'[q].output = op[q].output
  <2>1. f[q] = op[q] /\ op[q] \in Op
    BY <1>0, <1>2, <1>8
  <2>2. CASE op[q].output = p /\ op[q].name = n
    <3>1. op'[q] = [op[q] EXCEPT !.output = None]
      BY <1>3, <2>1, <2>2
    <3> QED  BY <2>1, <2>2, <3>1 DEF Alike, Op
  <2>3. CASE ~(op[q].output = p /\ op[q].name = n)
    BY <1>3, <2>1, <2>3 DEF Alike
  <2> QED  BY <2>2, <2>3
<1> QED  BY <1>1, <1>5, <1>7, <1>8 DEF Unlinks, OthersAlike

LEMMA WritingSteps ==
  ASSUME FileOpsTypeOK, Linked, NEW o \in Ops
  PROVE  /\ Rename(o) => op[o].pc = "rename" /\
              \/ Only(o) /\ (Fails(o) \/ (devices = 2 /\ GoesTo(o, "list"))) /\ UNCHANGED fileVars
              \/ Renames(o)
         /\ Open(o) => op[o].pc = "copy" /\ folders' = folders /\ \E n \in EntryNames : Opens(o, n)
         /\ AllWritten(o) => op[o].pc = "write" /\ folders' = folders /\ Only(o) /\ LetsGo(o, op[o].bad)
              /\ Fills(o)
         /\ WriteFails(o) => /\ op[o].pc = "write" /\ folders' = folders /\ op' \in [Ops -> Op]
                            /\ Keeps(o) /\ LetsGo(o, TRUE) /\ Unlinks(o, To(o), op[o].name)
         /\ Unlink(o) => op[o].pc = "unlink" /\ folders' = folders /\ \E n \in Returned(o) :
              \/ Only(o) /\ Passes(o, n, TRUE) /\ file' = file
              \/ /\ n \in In(From(o)) /\ op' \in [Ops -> Op] /\ Keeps(o)
                 /\ Passes(o, n, op[o].bad) /\ Unlinks(o, From(o), n)
<1>0. op[o] \in Op /\ In(From(o)) \subseteq EntryNames /\ Returned(o) \subseteq EntryNames
      /\ From(o) \in Places /\ To(o) \in Places /\ op \in [Ops -> Op]
      /\ file \in [Places -> [EntryNames -> FileVersions]]
  BY Ways DEF FileOpsTypeOK, In, Returned, Left, Op
<1>1. ASSUME OpEnds(o, FALSE)
      PROVE  Only(o) /\ Fails(o)
  BY <1>1, EndsOne DEF Only, Keeps, Fails
<1>2. ASSUME Rename(o)
      PROVE  op[o].pc = "rename" /\
              \/ Only(o) /\ (Fails(o) \/ (devices = 2 /\ GoesTo(o, "list"))) /\ UNCHANGED fileVars
              \/ Renames(o)
  <2>1. CASE devices = 2 /\ Set(o, [op[o] EXCEPT !.pc = "list"]) /\ UNCHANGED fileVars
    <3>1. [op[o] EXCEPT !.pc = "list"] \in Op
      BY <1>0 DEF Op, PCs
    <3>2. op' \in [Ops -> Op] /\ op'[o] = [op[o] EXCEPT !.pc = "list"] /\ OthersSame(o)
      BY <2>1, <3>1, SetsOne
    <3> QED  BY <1>0, <1>2, <2>1, <3>2 DEF Only, Keeps, GoesTo, Op, Rename
  <2>2. CASE OpEnds(o, FALSE) /\ UNCHANGED fileVars
    BY <1>1, <1>2, <2>2 DEF Rename
  <2>3. CASE /\ devices = 1 /\ CanRename(o)
             /\ folders' = (folders \ {From(o)}) \cup {To(o)}
             /\ file' = [file EXCEPT ![From(o)] = [n \in EntryNames |-> None],
                                     ![To(o)] = file[From(o)]]
             /\ op' = [q \in Ops |->
                  IF q = o THEN Over(op[o], TRUE)
                  ELSE IF op[q].output = From(o) THEN [op[q] EXCEPT !.output = To(o)]
                  ELSE op[q]]
    <3>1. /\ file' \in [Places -> [EntryNames -> FileVersions]] /\ file'[To(o)] = file[From(o)]
          /\ From(o) # To(o) => \A n \in EntryNames : file'[From(o)][n] = None
      <4>1. [n \in EntryNames |-> None] \in [EntryNames -> FileVersions]
        BY DEF FileVersions
      <4> QED  BY <1>0, <2>3, <4>1
    <3> DEFINE v == Over(op[o], TRUE)
    <3>2. v \in Op /\ v.pc = "over" /\ v.verb = op[o].verb /\ v.from = op[o].from
          /\ v.alone = op[o].alone /\ v.ok /\ v.bad = FALSE /\ v.output = None
      BY <1>0, OverIsOp
    <3>3. op'[o] = v
      BY <2>3
    <3> HIDE DEF v
    <3>4. \A q \in Ops \ {o} : op'[q] = IF op[q].output = From(o) THEN [op[q] EXCEPT !.output = To(o)]
                                       ELSE op[q]
      BY <2>3
    <3>5. ASSUME NEW q \in Ops \ {o}
          PROVE  /\ op'[q] \in Op /\ Alike(q)
                 /\ op'[q].reading = op[q].reading /\ op'[q].whole = op[q].whole
                 /\ op'[q].output = IF op[q].output = From(o) THEN To(o) ELSE op[q].output
      BY <1>0, <3>4, ZenonT(30) DEF Op, Alike
    <3>6. op' \in [Ops -> Op]
      <4>1. op' = [q \in Ops |-> op'[q]]
        BY <2>3
      <4>2. \A q \in Ops : op'[q] \in Op
        BY <3>2, <3>3, <3>5
      <4> QED  BY <4>1, <4>2
    <3>7. op[o].pc = "rename" /\ ~op[o].bad
      BY <1>2 DEF Rename, Linked
    <3> QED  BY <2>3, <3>1, <3>2, <3>3, <3>5, <3>6, <3>7 DEF Renames, Keeps, ComesToAnEnd, OthersAlike
  <2> QED  BY <1>2, <2>1, <2>2, <2>3 DEF Rename
<1>3. ASSUME Open(o)
      PROVE  op[o].pc = "copy" /\ folders' = folders /\ \E n \in EntryNames : Opens(o, n)
  <2>1. PICK n \in (Returned(o) \cap In(From(o))) \ links :
       /\ To(o) \in folders
       /\ file' = [file EXCEPT ![To(o)][n] = Torn]
       /\ op' = [q \in Ops |->
            IF q = o THEN [op[o] EXCEPT !.pc = "write", !.seen = @ \cup {n}, !.name = n,
                                        !.reading = IF From(o) = To(o) THEN Torn
                                                    ELSE file[From(o)][n],
                                        !.output = To(o), !.whole = TRUE]
            ELSE IF op[q].pc = "write" /\ op[q].name = n
              THEN [op[q] EXCEPT !.whole = @ /\ op[q].output # To(o),
                                 !.reading = IF From(q) = To(o) THEN Torn ELSE @]
            ELSE op[q]]
    BY <1>3 DEF Open
  <2>2. n \in EntryNames /\ Torn \in FileVersions
    BY <1>0 DEF FileVersions
  <2>3. Puts(To(o), n, Torn)
    BY <1>0, <2>1, <2>2, PutsOne
  <2> DEFINE r == IF From(o) = To(o) THEN Torn ELSE file[From(o)][n]
             v == [op[o] EXCEPT !.pc = "write", !.seen = op[o].seen \cup {n}, !.name = n,
                                !.reading = r, !.output = To(o), !.whole = TRUE]
  <2>4. r \in FileVersions
    BY <1>0, <2>2
  <2>5. op'[o] = v
    BY <2>1
  <2>6. v \in Op /\ v.pc = "write" /\ v.seen = op[o].seen \cup {n} /\ v.name = n /\ v.reading = r
        /\ v.output = To(o) /\ v.whole /\ v.listed = op[o].listed /\ v.bad = op[o].bad
        /\ v.verb = op[o].verb /\ v.from = op[o].from /\ v.alone = op[o].alone /\ v.ok = op[o].ok
    <3> HIDE DEF r
    <3> QED  BY <1>0, <2>2, <2>4 DEF Op, PCs
  <2>7. ASSUME NEW q \in Ops \ {o}
        PROVE  /\ op'[q] \in Op /\ Alike(q) /\ op'[q].output = op[q].output
               /\ IF Writing(q, n)
                    THEN /\ op'[q].whole = (op[q].whole /\ op[q].output # To(o))
                         /\ op'[q].reading = IF From(q) = To(o) THEN Torn ELSE op[q].reading
                    ELSE op'[q] = op[q]
    <3>1. op[q] \in Op
      BY <1>0
    <3>2. CASE Writing(q, n)
      <4> DEFINE w == op[q].whole /\ op[q].output # To(o)
                 s == IF From(q) = To(o) THEN Torn ELSE op[q].reading
      <4>1. w \in BOOLEAN /\ s \in FileVersions
        BY <2>2, <3>1 DEF Op
      <4>2. op'[q] = [op[q] EXCEPT !.whole = w, !.reading = s]
        BY <2>1, <3>2 DEF Writing
      <4> HIDE DEF w, s
      <4>3. op'[q] \in Op /\ Alike(q) /\ op'[q].output = op[q].output /\ op'[q].whole = w
            /\ op'[q].reading = s
        BY <3>1, <4>1, <4>2 DEF Op, Alike
      <4> QED  BY <3>2, <4>3 DEF w, s
    <3>3. CASE ~Writing(q, n)
      <4>1. op'[q] = op[q]
        BY <2>1, <3>3 DEF Writing
      <4> QED  BY <3>1, <3>3, <4>1 DEF Alike
    <3> QED  BY <3>2, <3>3
  <2>8. op' \in [Ops -> Op]
    <3>1. op' = [q \in Ops |-> op'[q]]
      BY <2>1
    <3>2. \A q \in Ops : op'[q] \in Op
      BY <2>5, <2>6, <2>7
    <3> QED  BY <3>1, <3>2
  <2> HIDE DEF v
  <2>9. Opens(o, n)
    BY <2>1, <2>3, <2>5, <2>6, <2>7, <2>8 DEF Opens, Keeps, OthersAlike
  <2> QED  BY <1>3, <2>2, <2>9 DEF Open
<1>4. ASSUME op[o].pc = "write"
      PROVE  /\ op[o].name \in EntryNames /\ CloseFile(op[o]) \in Op
             /\ [CloseFile(op[o]) EXCEPT !.bad = TRUE] \in Op
  BY <1>0, <1>4 DEF Linked, CloseFile, Op, PCs, FileVersions
<1>5. ASSUME AllWritten(o)
      PROVE  op[o].pc = "write" /\ folders' = folders /\ Only(o) /\ LetsGo(o, op[o].bad) /\ Fills(o)
  <2>1. op[o].pc = "write" /\ folders' = folders /\ Set(o, CloseFile(op[o]))
    BY <1>5 DEF AllWritten
  <2>2. Only(o) /\ LetsGo(o, op[o].bad)
    <3>1. op' \in [Ops -> Op] /\ op'[o] = CloseFile(op[o]) /\ OthersSame(o)
      BY <1>4, <2>1, SetsOne
    <3> QED  BY <1>0, <3>1 DEF Only, Keeps, LetsGo, CloseFile, Op
  <2>3. Fills(o)
    <3>1. CASE op[o].output = None
      BY <1>0, <1>5, <3>1 DEF AllWritten, Fills
    <3>2. CASE op[o].output # None
      <4> DEFINE v == IF op[o].whole \/ file[op[o].output][op[o].name] = op[o].reading
                      THEN op[o].reading ELSE Torn
      <4>1. v \in FileVersions /\ op[o].output \in Places
        BY <1>0, <3>2 DEF Op, FileVersions
      <4>2. file' = [file EXCEPT ![op[o].output][op[o].name] = v]
        BY <1>5, <3>2 DEF AllWritten
      <4> HIDE DEF v
      <4>3. Puts(op[o].output, op[o].name, v)
        BY <1>4, <2>1, <4>1, <4>2, PutsOne
      <4> QED  BY <3>2, <4>3 DEF Fills, Puts, v
    <3> QED  BY <3>1, <3>2
  <2> QED  BY <2>1, <2>2, <2>3
<1>6. ASSUME WriteFails(o)
      PROVE  /\ op[o].pc = "write" /\ folders' = folders /\ op' \in [Ops -> Op]
             /\ Keeps(o) /\ LetsGo(o, TRUE) /\ Unlinks(o, To(o), op[o].name)
  <2> DEFINE v == [CloseFile(op[o]) EXCEPT !.bad = TRUE]
  <2>1. op[o].pc = "write" /\ folders' = folders /\ file' = [file EXCEPT ![To(o)][op[o].name] = None]
        /\ op' = Unlinked(To(o), op[o].name, [op EXCEPT ![o] = v])
    BY <1>6 DEF WriteFails
  <2>2. v \in Op /\ v.output = None /\ v.pc = "copy" /\ v.listed = op[o].listed /\ v.seen = op[o].seen
        /\ v.bad = TRUE /\ v.verb = op[o].verb /\ v.from = op[o].from /\ v.alone = op[o].alone
        /\ v.ok = op[o].ok
    BY <1>0, <1>4, <2>1 DEF CloseFile, Op
  <2> HIDE DEF v
  <2>3. Unlinks(o, To(o), op[o].name) /\ op' \in [Ops -> Op] /\ op'[o] = v
    BY <1>0, <1>4, <2>1, <2>2, UnlinksOne, ZenonT(30)
  <2> QED  BY <2>1, <2>2, <2>3 DEF Keeps, LetsGo
<1>7. ASSUME Unlink(o)
      PROVE  op[o].pc = "unlink" /\ folders' = folders /\ \E n \in Returned(o) :
              \/ Only(o) /\ Passes(o, n, TRUE) /\ file' = file
              \/ /\ n \in In(From(o)) /\ op' \in [Ops -> Op] /\ Keeps(o)
                 /\ Passes(o, n, op[o].bad) /\ Unlinks(o, From(o), n)
  <2>1. op[o].pc = "unlink" /\ folders' = folders /\ op[o].output = None
    BY <1>7 DEF Unlink, Linked
  <2>2. PICK n \in Returned(o) :
          \/ /\ n \in In(From(o)) /\ file' = [file EXCEPT ![From(o)][n] = None]
             /\ op' = Unlinked(From(o), n, [op EXCEPT ![o] = [op[o] EXCEPT !.seen = op[o].seen \cup {n}]])
          \/ file' = file /\ Set(o, [[op[o] EXCEPT !.seen = op[o].seen \cup {n}] EXCEPT !.bad = TRUE])
    BY <1>7 DEF Unlink
  <2> DEFINE v == [op[o] EXCEPT !.seen = op[o].seen \cup {n}]
             w == [v EXCEPT !.bad = TRUE]
  <2>3. /\ v \in Op /\ v.output = None /\ v.pc = op[o].pc /\ v.listed = op[o].listed
        /\ v.seen = op[o].seen \cup {n} /\ v.bad = op[o].bad /\ v.verb = op[o].verb
        /\ v.from = op[o].from /\ v.alone = op[o].alone /\ v.name = op[o].name /\ v.ok = op[o].ok
    BY <1>0, <2>1 DEF Op
  <2>4. /\ w \in Op /\ w.output = None /\ w.pc = op[o].pc /\ w.listed = op[o].listed
        /\ w.seen = op[o].seen \cup {n} /\ w.bad = TRUE /\ w.verb = op[o].verb
        /\ w.from = op[o].from /\ w.alone = op[o].alone /\ w.name = op[o].name /\ w.ok = op[o].ok
    BY <1>0, <2>1 DEF Op
  <2> HIDE DEF v, w
  <2>5. CASE /\ n \in In(From(o)) /\ file' = [file EXCEPT ![From(o)][n] = None]
             /\ op' = Unlinked(From(o), n, [op EXCEPT ![o] = v])
    <3>0. n \in EntryNames /\ From(o) \in Places
      BY <1>0, <2>5
    <3>1. Unlinks(o, From(o), n) /\ op' \in [Ops -> Op] /\ op'[o] = v
      BY <2>3, <2>5, <3>0, UnlinksOne
    <3> QED  BY <2>1, <2>3, <2>5, <3>1 DEF Keeps, Passes
  <2>6. CASE file' = file /\ Set(o, w)
    <3> HIDE DEF Set
    <3>1. op' \in [Ops -> Op] /\ op'[o] = w /\ OthersSame(o)
      BY <2>4, <2>6, SetsOne
    <3> QED  BY <2>1, <2>4, <2>6, <3>1 DEF Only, Keeps, Passes
  <2> QED  BY <2>2, <2>5, <2>6 DEF v, w
<1> QED  BY <1>2, <1>3, <1>5, <1>6, <1>7

(* What all steps of a thread have in common.                                *)
Steps(o) ==
  /\ op' \in [Ops -> Op] /\ Active(o) /\ op'[o].pc # "new" /\ Keeps(o) /\ OthersAlike(o)
  /\ devices' = devices /\ aliased' = aliased /\ links' = links /\ had' = had /\ hadTo' = hadTo
  /\ op'[o].pc = "over" => ~op'[o].bad /\ (op'[o].ok => ~op[o].bad)
  /\ op'[o].pc # "over" /\ op[o].bad => op'[o].bad

LEMMA AllSteps ==
  ASSUME FileOpsTypeOK, Linked, NEW o \in Ops, OpStep(o)
  PROVE  Steps(o)
<1>1. /\ devices' = devices /\ aliased' = aliased /\ links' = links /\ had' = had /\ hadTo' = hadTo
      /\ Active(o)
  BY DEF OpStep, Active, Check, Rename, List, Visit, Open, OpenFails, AllWritten, WriteFails, CopyEnds,
         ClearList, Unlink, RemoveFolder, opHistory
<1>2. OthersSame(o) => OthersAlike(o)
  BY DEF OthersSame, OthersAlike, Alike
<1>3. ASSUME Check(o) \/ List(o) \/ Visit(o) \/ OpenFails(o) \/ CopyEnds(o) \/ ClearList(o) \/ RemoveFolder(o)
      PROVE  Steps(o)
  BY <1>1, <1>2, <1>3, QuietSteps DEF Steps, Only, Fails, ComesToAnEnd, GoesTo, Lists, Passes
<1>4. ASSUME Rename(o) \/ Open(o) \/ AllWritten(o) \/ WriteFails(o) \/ Unlink(o)
      PROVE  Steps(o)
  <2>1. CASE Rename(o)
    BY <1>1, <1>2, <2>1, WritingSteps DEF Steps, Only, Fails, ComesToAnEnd, GoesTo, Renames
  <2>2. CASE Open(o)
    BY <1>1, <1>2, <2>2, WritingSteps DEF Steps, Opens
  <2>3. CASE AllWritten(o)
    BY <1>1, <1>2, <2>3, WritingSteps DEF Steps, Only, LetsGo
  <2>4. CASE WriteFails(o)
    BY <1>1, <1>2, <2>4, WritingSteps DEF Steps, LetsGo, Unlinks
  <2>5. CASE Unlink(o)
    BY <1>1, <1>2, <2>5, WritingSteps DEF Steps, Only, Passes, Unlinks
  <2> QED  BY <1>4, <2>1, <2>2, <2>3, <2>4, <2>5
<1> QED  BY <1>3, <1>4 DEF OpStep

-----------------------------------------------------------------------------
(* Types, and what is linked.                                                *)

(* A folder that is not there has no entries, whatever is written or renamed. *)
FoldersHold == \A p \in Places \ folders : \A n \in EntryNames : file[p][n] = None

LEMMA TypesAre ==
  FileOpsTypeOK <=>
    /\ devices \in Devices /\ aliased \in BOOLEAN /\ links \subseteq EntryNames /\ folders \subseteq Places
    /\ file \in [Places -> [EntryNames -> FileVersions]] /\ FoldersHold /\ op \in [Ops -> Op]
    /\ had \in [Ops -> [EntryNames -> FileVersions]] /\ hadTo \in [Ops -> [EntryNames -> FileVersions]]
BY DEF FileOpsTypeOK, FoldersHold, In

LEMMA SameFiles ==
  ASSUME FileOpsTypeOK, Linked, file' = file, folders \subseteq folders', folders' \subseteq Places
  PROVE  /\ file' \in [Places -> [EntryNames -> FileVersions]] /\ FoldersHold'
BY DEF FileOpsTypeOK, FoldersHold, In

LEMMA PutFiles ==
  ASSUME FileOpsTypeOK, NEW p \in Places, NEW n \in EntryNames, NEW v, Puts(p, n, v), folders' = folders,
         v = None \/ p \in folders
  PROVE  FoldersHold'
BY TypesAre DEF FoldersHold, Puts

(* The folders and files after each step.                                    *)
LEMMA FilesStep ==
  ASSUME FileOpsTypeOK, Linked, NEW o \in Ops, OpStep(o)
  PROVE  folders' \subseteq Places /\ file' \in [Places -> [EntryNames -> FileVersions]] /\ FoldersHold'
<1>0. /\ From(o) \in Places /\ To(o) \in Places /\ folders \subseteq Places /\ op[o] \in Op
      /\ file \in [Places -> [EntryNames -> FileVersions]] /\ FoldersHold
      /\ Returned(o) \subseteq EntryNames
  BY Ways, TypesAre DEF Returned, Left, In, Op
<1>1. ASSUME Check(o) \/ List(o) \/ Visit(o) \/ OpenFails(o) \/ CopyEnds(o) \/ ClearList(o)
      PROVE  folders \subseteq folders' /\ folders' \subseteq Places /\ file' = file
  BY <1>0, <1>1 DEF Check, List, Visit, OpenFails, CopyEnds, ClearList, fileVars
<1>2. ASSUME RemoveFolder(o)
      PROVE  folders' \subseteq Places /\ file' \in [Places -> [EntryNames -> FileVersions]] /\ FoldersHold'
  <2>1. file' = file /\ (folders' = folders \/ (folders' = folders \ {From(o)} /\ In(From(o)) = {}))
    BY <1>2 DEF RemoveFolder
  <2> QED  BY <1>0, <2>1 DEF FoldersHold, In
<1>3. ASSUME Rename(o)
      PROVE  folders' \subseteq Places /\ file' \in [Places -> [EntryNames -> FileVersions]] /\ FoldersHold'
  <2>1. CASE UNCHANGED fileVars
    BY <1>0, <2>1 DEF fileVars, FoldersHold
  <2>2. CASE Renames(o)
    <3>1. ASSUME NEW p \in Places \ folders'
          PROVE  \A n \in EntryNames : file'[p][n] = None
      <4>1. CASE p = From(o)
        BY <2>2, <3>1, <4>1 DEF Renames
      <4>2. CASE p # From(o)
        <5>1. Places = {From(o), To(o)} \/ From(o) = To(o)
          BY <1>0 DEF Places
        <5>2. From(o) = To(o) /\ From(o) \in folders
          BY <2>2, <3>1, <4>2, <5>1 DEF Renames, CanRename
        <5>3. file'[p] = file[p]
          BY <1>0, <1>3, <2>2, <3>1, <4>2, <5>2 DEF Rename, fileVars
        <5> QED  BY <1>0, <2>2, <3>1, <4>2, <5>2, <5>3 DEF FoldersHold, Renames
      <4> QED  BY <4>1, <4>2
    <3> QED  BY <1>0, <2>2, <3>1 DEF Renames, FoldersHold
  <2> QED  BY <1>3, <2>1, <2>2, WritingSteps
<1>4. ASSUME Open(o)
      PROVE  folders' \subseteq Places /\ file' \in [Places -> [EntryNames -> FileVersions]] /\ FoldersHold'
  BY <1>0, <1>4, WritingSteps, PutFiles, ZenonT(30) DEF Opens, Puts
<1>5. ASSUME AllWritten(o)
      PROVE  folders' \subseteq Places /\ file' \in [Places -> [EntryNames -> FileVersions]] /\ FoldersHold'
  <2>1. op[o].pc = "write" /\ folders' = folders /\ Fills(o)
    BY <1>5, WritingSteps
  <2>2. CASE op[o].output = None
    BY <1>0, <2>1, <2>2 DEF Fills, FoldersHold
  <2>3. CASE op[o].output # None
    <3>1. op[o].output \in Places /\ op[o].name \in EntryNames /\ file[op[o].output][op[o].name] # None
      BY <1>0, <2>1, <2>3 DEF Linked, Op
    <3>2. op[o].output \in folders
      BY <1>0, <3>1 DEF FoldersHold
    <3> QED  BY <1>0, <2>1, <2>3, <3>1, <3>2, PutFiles DEF Fills
  <2> QED  BY <2>2, <2>3
<1>6. ASSUME WriteFails(o)
      PROVE  folders' \subseteq Places /\ file' \in [Places -> [EntryNames -> FileVersions]] /\ FoldersHold'
  <2>1. op[o].name \in EntryNames
    BY <1>6, WritingSteps DEF Linked
  <2> QED  BY <1>0, <1>6, <2>1, WritingSteps, PutFiles DEF Unlinks, Puts
<1>7. ASSUME Unlink(o)
      PROVE  folders' \subseteq Places /\ file' \in [Places -> [EntryNames -> FileVersions]] /\ FoldersHold'
  <2>1. folders' = folders /\ \E n \in EntryNames : file' = file \/ Puts(From(o), n, None)
    BY <1>0, <1>7, WritingSteps DEF Unlinks
  <2>2. CASE file' = file
    BY <1>0, <2>1, <2>2 DEF FoldersHold
  <2> QED  BY <1>0, <2>1, <2>2, PutFiles DEF Puts
<1> QED
  BY <1>1, <1>2, <1>3, <1>4, <1>5, <1>6, <1>7, SameFiles DEF OpStep

(* What Linked says of one thread.                                           *)
LinkedAt(q) ==
  /\ op[q].pc \in {"check", "rename", "list"} => ~op[q].bad
  /\ op[q].pc # "over" => ~op[q].ok
  /\ op[q].pc # "write" => op[q].output = None
  /\ op[q].pc = "write" => op[q].name \in EntryNames /\ op[q].reading # None
  /\ op[q].pc = "write" /\ op[q].output # None => file[op[q].output][op[q].name] # None

LEMMA QuietLinks ==
  ASSUME FileOpsTypeOK, Linked, NEW o \in Ops, OthersSame(o), LinkedAt(o)', file' = file
  PROVE  Linked'
BY DEF Linked, LinkedAt, OthersSame

LEMMA LinkedStep ==
  ASSUME FileOpsTypeOK, Linked, NEW o \in Ops, OpStep(o)
  PROVE  Linked'
<1>0. /\ From(o) \in Places /\ To(o) \in Places /\ op[o] \in Op /\ op \in [Ops -> Op]
      /\ file \in [Places -> [EntryNames -> FileVersions]] /\ Returned(o) \subseteq EntryNames
      /\ None \notin Places /\ Torn # None
  BY Ways, TypesAre DEF Returned, Left, In, Op, Places, None, Torn
<1>1. \A q \in Ops : LinkedAt(q)
  BY DEF Linked, LinkedAt
<1>2. SUFFICES \A q \in Ops : LinkedAt(q)'
  BY DEF Linked, LinkedAt
<1>3. ASSUME Check(o) \/ List(o) \/ Visit(o) \/ OpenFails(o) \/ CopyEnds(o) \/ ClearList(o) \/ RemoveFolder(o)
      PROVE  \A q \in Ops : LinkedAt(q)'
  <2>1. file' = file /\ Only(o)
    BY <1>3, QuietSteps DEF Check, List, Visit, OpenFails, CopyEnds, ClearList, RemoveFolder, fileVars
  <2>2. LinkedAt(o)'
    <3>1. LinkedAt(o)
      BY <1>1
    <3> QED  BY <1>3, <3>1, QuietSteps DEF LinkedAt, Only, Keeps, Fails, ComesToAnEnd, GoesTo, Lists, Passes
  <2> QED  BY <1>1, <2>1, <2>2 DEF LinkedAt, Only, OthersSame
<1>4. ASSUME Rename(o)
      PROVE  \A q \in Ops : LinkedAt(q)'
  <2>1. CASE Only(o) /\ (Fails(o) \/ (devices = 2 /\ GoesTo(o, "list"))) /\ UNCHANGED fileVars
    <3>1. LinkedAt(o) /\ op[o].pc = "rename"
      BY <1>1, <1>4 DEF Rename
    <3>2. LinkedAt(o)' /\ file' = file
      BY <2>1, <3>1 DEF LinkedAt, Only, Keeps, Fails, GoesTo, fileVars
    <3> QED  BY <1>1, <2>1, <3>2 DEF LinkedAt, Only, OthersSame
  <2>2. CASE Renames(o)
    <3>1. LinkedAt(o)'
      BY <2>2 DEF Renames, ComesToAnEnd, LinkedAt
    <3>2. ASSUME NEW q \in Ops \ {o}
          PROVE  LinkedAt(q)'
      <4>1. LinkedAt(q) /\ Alike(q) /\ op'[q].reading = op[q].reading /\ op[q] \in Op
            /\ op'[q].output = IF op[q].output = From(o) THEN To(o) ELSE op[q].output
        BY <1>0, <1>1, <2>2 DEF Renames, OthersAlike
      <4>2. CASE op[q].pc # "write"
        BY <1>0, <4>1, <4>2 DEF LinkedAt, Alike
      <4>3. CASE op[q].pc = "write" /\ op[q].output = None
        BY <1>0, <4>1, <4>3 DEF LinkedAt, Alike
      <4>4. CASE op[q].pc = "write" /\ op[q].output = From(o)
        <5>1. file'[To(o)] = file[From(o)]
          BY <2>2 DEF Renames
        <5> QED  BY <1>0, <4>1, <4>4, <5>1 DEF LinkedAt, Alike
      <4>5. CASE op[q].pc = "write" /\ op[q].output \in Places /\ op[q].output # From(o)
        <5>1. From(o) # To(o) => op[q].output = To(o)
          BY <1>0, <4>5 DEF Places
        <5>2. file[op[q].output][op[q].name] # None /\ op[q].name \in EntryNames
          BY <1>0, <4>1, <4>5 DEF LinkedAt
        <5>3. From(o) = To(o)
          BY <2>2, <5>1, <5>2 DEF Renames, CanRename, In
        <5>4. file'[op[q].output] = file[op[q].output]
          BY <1>0, <1>4, <2>2, <4>5, <5>3 DEF Rename, fileVars
        <5> QED  BY <1>0, <4>1, <4>5, <5>2, <5>4 DEF LinkedAt, Alike
      <4> QED  BY <4>1, <4>2, <4>3, <4>4, <4>5 DEF Op
    <3> QED  BY <3>1, <3>2
  <2> QED  BY <1>4, <2>1, <2>2, WritingSteps
<1>5. ASSUME Open(o)
      PROVE  \A q \in Ops : LinkedAt(q)'
  <2>1. PICK n \in EntryNames : Opens(o, n)
    BY <1>5, WritingSteps
  <2>2. Puts(To(o), n, Torn) /\ n \in In(From(o))
    BY <2>1 DEF Opens
  <2>3. LinkedAt(o)'
    <3>1. file[From(o)][n] # None /\ file'[To(o)][n] = Torn
      BY <2>2 DEF In, Puts
    <3>2. LinkedAt(o) /\ op[o].pc = "copy"
      BY <1>1, <1>5 DEF Open
    <3> QED  BY <1>0, <2>1, <3>1, <3>2 DEF Opens, Keeps, LinkedAt
  <2>4. ASSUME NEW q \in Ops \ {o}
        PROVE  LinkedAt(q)'
    <3>1. LinkedAt(q) /\ Alike(q) /\ op'[q].output = op[q].output /\ op[q] \in Op
      BY <1>0, <1>1, <2>1 DEF Opens, OthersAlike
    <3>2. op'[q].reading \in {op[q].reading, Torn}
      BY <2>1 DEF Opens
    <3>3. ASSUME op[q].pc = "write", op[q].output # None
          PROVE  file'[op[q].output][op[q].name] # None
      <4>1. op[q].output \in Places /\ op[q].name \in EntryNames /\ file[op[q].output][op[q].name] # None
        BY <3>1, <3>3 DEF LinkedAt, Op
      <4> QED  BY <1>0, <2>2, <4>1 DEF Puts
    <3> QED  BY <1>0, <3>1, <3>2, <3>3 DEF LinkedAt, Alike
  <2> QED  BY <2>3, <2>4
<1>6. ASSUME AllWritten(o)
      PROVE  \A q \in Ops : LinkedAt(q)'
  <2>1. op[o].pc = "write" /\ Only(o) /\ LetsGo(o, op[o].bad) /\ Fills(o)
    BY <1>6, WritingSteps
  <2>2. LinkedAt(o)'
    BY <1>1, <2>1 DEF Only, Keeps, LetsGo, LinkedAt
  <2>3. ASSUME NEW q \in Ops \ {o}
        PROVE  LinkedAt(q)'
    <3>1. LinkedAt(q) /\ op'[q] = op[q] /\ op[q] \in Op
      BY <1>0, <1>1, <2>1 DEF Only, OthersSame
    <3>2. ASSUME op[q].pc = "write", op[q].output # None
          PROVE  file'[op[q].output][op[q].name] # None
      <4>1. op[q].output \in Places /\ op[q].name \in EntryNames /\ file[op[q].output][op[q].name] # None
        BY <3>1, <3>2 DEF LinkedAt, Op
      <4>2. op[o].reading # None
        BY <1>1, <2>1 DEF LinkedAt
      <4>3. CASE op[o].output = None
        BY <2>1, <4>1, <4>3 DEF Fills
      <4>4. CASE op[o].output # None
        <5> DEFINE v == IF op[o].whole \/ file[op[o].output][op[o].name] = op[o].reading
                        THEN op[o].reading ELSE Torn
        <5>1. v # None
          BY <1>0, <4>2
        <5>2. Puts(op[o].output, op[o].name, v)
          BY <2>1, <4>4 DEF Fills
        <5> HIDE DEF v
        <5> QED  BY <4>1, <5>1, <5>2 DEF Puts
      <4> QED  BY <4>3, <4>4
    <3> QED  BY <3>1, <3>2 DEF LinkedAt
  <2> QED  BY <2>2, <2>3
<1>7. ASSUME NEW p \in Places, NEW n \in EntryNames, Unlinks(o, p, n), LinkedAt(o)'
      PROVE  \A q \in Ops : LinkedAt(q)'
  <2>1. ASSUME NEW q \in Ops \ {o}
        PROVE  LinkedAt(q)'
    <3>1. /\ LinkedAt(q) /\ Alike(q) /\ op'[q].reading = op[q].reading /\ op[q] \in Op
          /\ op'[q].output \in {op[q].output, None}
          /\ op[q].output = p /\ op[q].name = n => op'[q].output = None
      BY <1>0, <1>1, <1>7 DEF Unlinks, OthersAlike
    <3>2. ASSUME op[q].pc = "write", op'[q].output # None
          PROVE  file'[op'[q].output][op[q].name] # None
      <4>1. op'[q].output = op[q].output /\ op[q].output \in Places /\ op[q].name \in EntryNames
            /\ file[op[q].output][op[q].name] # None /\ <<op[q].output, op[q].name>> # <<p, n>>
        BY <3>1, <3>2 DEF LinkedAt, Op
      <4> QED  BY <1>7, <4>1 DEF Unlinks, Puts
    <3> QED  BY <3>1, <3>2 DEF LinkedAt, Alike
  <2> QED  BY <1>7, <2>1
<1>8. ASSUME WriteFails(o)
      PROVE  \A q \in Ops : LinkedAt(q)'
  <2>1. op[o].name \in EntryNames
    BY <1>8, WritingSteps DEF Linked
  <2>2. LinkedAt(o)'
    BY <1>1, <1>8, WritingSteps DEF Keeps, LetsGo, LinkedAt
  <2> QED  BY <1>0, <1>7, <1>8, <2>1, <2>2, WritingSteps
<1>9. ASSUME Unlink(o)
      PROVE  \A q \in Ops : LinkedAt(q)'
  <2>1. op[o].pc = "unlink" /\ LinkedAt(o)
    BY <1>1, <1>9 DEF Unlink
  <2>2. PICK n \in Returned(o) :
          \/ Only(o) /\ Passes(o, n, TRUE) /\ file' = file
          \/ Keeps(o) /\ Passes(o, n, op[o].bad) /\ Unlinks(o, From(o), n)
    BY <1>9, WritingSteps
  <2>3. LinkedAt(o)'
    BY <2>1, <2>2 DEF Only, Keeps, Passes, LinkedAt
  <2>4. CASE Only(o) /\ file' = file
    BY <1>1, <2>3, <2>4 DEF LinkedAt, Only, OthersSame
  <2>5. CASE Unlinks(o, From(o), n)
    <3>1. n \in EntryNames
      BY <1>0
    <3> QED  BY <1>0, <1>7, <2>3, <2>5, <3>1
  <2> QED  BY <2>2, <2>4, <2>5
<1> QED  BY <1>3, <1>4, <1>5, <1>6, <1>8, <1>9 DEF OpStep

-----------------------------------------------------------------------------
(* What a start and a kill do to the threads.                                *)

SameBut(q) ==
  /\ op'[q].pc = op[q].pc /\ op'[q].verb = op[q].verb /\ op'[q].from = op[q].from
  /\ op'[q].listed = op[q].listed /\ op'[q].seen = op[q].seen /\ op'[q].name = op[q].name
  /\ op'[q].bad = op[q].bad /\ op'[q].ok = op[q].ok /\ op'[q].reading = op[q].reading
  /\ op'[q].output = op[q].output /\ op'[q].whole = op[q].whole
Begins(o, verb, p) ==
  /\ op[o].pc = "new" /\ op' \in [Ops -> Op]
  /\ op'[o].pc = (IF verb = "delete" THEN "clear" ELSE "check")
  /\ op'[o].verb = verb /\ op'[o].from = p /\ op'[o].bad = FALSE /\ op'[o].output = None /\ ~op'[o].ok
  /\ op'[o].alone = (\A r \in Ops : ~Active(r))
  /\ \A q \in Ops \ {o} : SameBut(q) /\ op'[q].alone = (op[q].pc = "new")
  /\ had' \in [Ops -> [EntryNames -> FileVersions]] /\ hadTo' \in [Ops -> [EntryNames -> FileVersions]]
  /\ verb # "delete" => had'[o] = file[Real(p)] /\ hadTo'[o] = file[Real(Other(p))]
  /\ verb # "delete" /\ AllFrom(p) => \A q \in Ops \ {o} : had'[q] = had[q]
  /\ \A q \in Ops \ {o}, n \in EntryNames : had'[q][n] \in {None, had[q][n]}
Killed(q) ==
  /\ op'[q].verb = op[q].verb /\ op'[q].from = op[q].from /\ op'[q].alone = op[q].alone
  /\ op'[q].pc = "over" /\ ~op'[q].ok /\ op'[q].bad = FALSE /\ op'[q].output = None

LEMMA Starts ==
  ASSUME FileOpsTypeOK, NEW o \in Ops, NEW verb \in Verbs, NEW p \in Places, Start(o, verb, p)
  PROVE  Begins(o, verb, p)
<1>0. /\ op \in [Ops -> Op] /\ file \in [Places -> [EntryNames -> FileVersions]]
      /\ had \in [Ops -> [EntryNames -> FileVersions]] /\ Nothing \in [Ops -> [EntryNames -> FileVersions]]
      /\ Real(p) \in Places /\ Real(Other(p)) \in Places
  BY TypesAre, OtherPlace DEF Nothing, FileVersions, Real, Places
<1> DEFINE pc == IF verb = "delete" THEN "clear" ELSE "check"
           alone == \A r \in Ops : ~Active(r)
           v == [NewOp EXCEPT !.pc = pc, !.verb = verb, !.from = p, !.alone = alone]
<1>1. v \in Op /\ v.pc = pc /\ v.verb = verb /\ v.from = p /\ v.bad = FALSE /\ v.output = None
      /\ v.alone = alone /\ ~v.ok
  <2>1. pc \in PCs /\ alone \in BOOLEAN
    BY DEF PCs
  <2> HIDE DEF pc, alone
  <2> QED  BY <2>1, ZenonT(30) DEF NewOp, Op, PCs, Verbs, Places, FileVersions
<1>2. op'[o] = v /\ op[o].pc = "new"
  BY DEF Start
<1>3. ASSUME NEW q \in Ops \ {o}
      PROVE  op'[q] \in Op /\ SameBut(q) /\ op'[q].alone = (op[q].pc = "new")
  <2> DEFINE b == op[q].pc = "new"
  <2>1. op'[q] = [op[q] EXCEPT !.alone = b] /\ b \in BOOLEAN
    BY DEF Start
  <2> HIDE DEF b
  <2>2. op[q] \in Op
    BY <1>0
  <2>3. op'[q] \in Op /\ op'[q].alone = b
    BY <2>1, <2>2 DEF Op
  <2>4. SameBut(q)
    BY <2>1, <2>2 DEF SameBut, Op
  <2> QED  BY <2>3, <2>4 DEF b
<1> HIDE DEF v
<1>4. op' \in [Ops -> Op]
  <2>1. op' = [q \in Ops |-> op'[q]]
    BY DEF Start
  <2>2. \A q \in Ops : op'[q] \in Op
    BY <1>1, <1>2, <1>3
  <2> QED  BY <2>1, <2>2
<1>5. /\ had' \in [Ops -> [EntryNames -> FileVersions]]
      /\ verb # "delete" => had'[o] = file[Real(p)]
      /\ verb # "delete" /\ AllFrom(p) => \A q \in Ops \ {o} : had'[q] = had[q]
      /\ \A q \in Ops \ {o}, n \in EntryNames : had'[q][n] \in {None, had[q][n]}
  <2>1. CASE verb = "delete"
    BY <1>0, <2>1 DEF Start, Nothing
  <2>2. CASE verb # "delete"
    <3> DEFINE h == IF AllFrom(p) THEN had ELSE Nothing
    <3>1. h \in [Ops -> [EntryNames -> FileVersions]] /\ (AllFrom(p) => h = had)
          /\ \A q \in Ops, n \in EntryNames : h[q][n] \in {None, had[q][n]}
      BY <1>0 DEF Nothing
    <3>2. had' = [h EXCEPT ![o] = file[Real(p)]]
      BY <2>2 DEF Start
    <3> HIDE DEF h
    <3> QED  BY <1>0, <2>2, <3>1, <3>2
  <2> QED  BY <2>1, <2>2
<1>6. /\ hadTo' \in [Ops -> [EntryNames -> FileVersions]]
      /\ verb # "delete" => hadTo'[o] = file[Real(Other(p))]
  BY <1>0 DEF Start
<1> QED  BY <1>1, <1>2, <1>3, <1>4, <1>5, <1>6 DEF Begins

LEMMA Kills ==
  ASSUME FileOpsTypeOK, Kill
  PROVE  op' \in [Ops -> Op] /\ \A q \in Ops : IF Active(q) THEN Killed(q) ELSE op'[q] = op[q]
<1>1. op \in [Ops -> Op]
  BY DEF FileOpsTypeOK
<1>2. ASSUME NEW q \in Ops
      PROVE  op'[q] \in Op /\ IF Active(q) THEN Killed(q) ELSE op'[q] = op[q]
  <2>1. CASE Active(q)
    <3> DEFINE v == Over(op[q], FALSE)
    <3>1. v \in Op /\ v.pc = "over" /\ v.verb = op[q].verb /\ v.from = op[q].from
          /\ v.alone = op[q].alone /\ ~v.ok /\ v.bad = FALSE /\ v.output = None
      BY <1>1, OverIsOp
    <3>2. op'[q] = v
      BY <2>1 DEF Kill
    <3> HIDE DEF v
    <3> QED  BY <2>1, <3>1, <3>2 DEF Killed
  <2>2. CASE ~Active(q)
    BY <1>1, <2>2 DEF Kill
  <2> QED  BY <2>1, <2>2
<1>3. op' = [q \in Ops |-> op'[q]]
  BY DEF Kill
<1>4. \A q \in Ops : op'[q] \in Op
  BY <1>2
<1> QED  BY <1>2, <1>3, <1>4

(* The three kinds of steps.                                                 *)
LEMMA NextIs ==
  FileOpsNext =>
    \/ \E o \in Ops : OpStep(o)
    \/ \E o \in Ops, verb \in Verbs, p \in Places : Start(o, verb, p)
    \/ Kill
BY DEF FileOpsNext

LEMMA TypesStep ==
  ASSUME FileOpsTypeOK, Linked, OneDevice, FileOpsNext
  PROVE  FileOpsTypeOK' /\ Linked' /\ OneDevice'
<1>1. ASSUME NEW o \in Ops, OpStep(o)
      PROVE  FileOpsTypeOK' /\ Linked' /\ OneDevice'
  <2>1. Steps(o) /\ Linked'
    BY <1>1, AllSteps, LinkedStep
  <2>2. folders' \subseteq Places /\ file' \in [Places -> [EntryNames -> FileVersions]] /\ FoldersHold'
    BY <1>1, FilesStep
  <2>3. FileOpsTypeOK'
    BY <2>1, <2>2 DEF Steps, FileOpsTypeOK, FoldersHold, In
  <2> QED  BY <2>1, <2>3 DEF Steps, OneDevice
<1>2. ASSUME NEW o \in Ops, NEW verb \in Verbs, NEW p \in Places, Start(o, verb, p)
      PROVE  FileOpsTypeOK' /\ Linked' /\ OneDevice'
  <2>1. devices' = devices /\ aliased' = aliased /\ links' = links /\ file' = file /\ folders' = folders
    BY <1>2 DEF Start, fileVars
  <2>2. Begins(o, verb, p)
    BY <1>2, Starts
  <2>3. FileOpsTypeOK'
    BY <2>1, <2>2 DEF Begins, FileOpsTypeOK, In
  <2>4. Linked'
    <3>1. \A q \in Ops \ {o} : LinkedAt(q)'
      BY <2>1, <2>2 DEF Linked, LinkedAt, Begins, SameBut
    <3>2. LinkedAt(o)'
      BY <2>2 DEF LinkedAt, Begins
    <3> QED  BY <3>1, <3>2 DEF Linked, LinkedAt
  <2> QED  BY <2>1, <2>3, <2>4 DEF OneDevice
<1>3. CASE Kill
  <2>1. devices' = devices /\ aliased' = aliased /\ links' = links /\ file' = file /\ folders' = folders
        /\ had' = had /\ hadTo' = hadTo
    BY <1>3 DEF Kill, fileVars, opHistory
  <2>2. op' \in [Ops -> Op] /\ \A q \in Ops : op'[q] = op[q] \/ Killed(q)
    BY <1>3, Kills
  <2>3. FileOpsTypeOK'
    BY <2>1, <2>2 DEF FileOpsTypeOK, In
  <2>4. Linked'
    BY <2>1, <2>2 DEF Linked, Killed
  <2> QED  BY <2>1, <2>3, <2>4 DEF OneDevice
<1> QED  BY <1>1, <1>2, <1>3, NextIs

-----------------------------------------------------------------------------
(* An operation alone.                                                      *)

LEMMA LoneStep ==
  ASSUME FileOpsTypeOK, Linked, LoneOnes, FileOpsNext
  PROVE  LoneOnes'
<1>1. ASSUME NEW o \in Ops, OpStep(o)
      PROVE  LoneOnes'
  <2>1. Steps(o)
    BY <1>1, AllSteps
  <2>2. \A q \in Ops : (Lone(q)' => Lone(q)) /\ (Active(q)' => Active(q))
    BY <2>1 DEF Steps, Keeps, OthersAlike, Alike, Lone, Started, Active
  <2> QED  BY <2>2 DEF LoneOnes
<1>2. ASSUME NEW o \in Ops, NEW verb \in Verbs, NEW p \in Places, Start(o, verb, p)
      PROVE  LoneOnes'
  <2>1. Begins(o, verb, p)
    BY <1>2, Starts
  <2>2. \A q \in Ops \ {o} : ~Lone(q)' /\ (Active(q)' => Active(q))
    BY <2>1, ZenonT(30) DEF Begins, SameBut, Lone, Started, Active
  <2>3. Lone(o)' => \A q \in Ops \ {o} : ~Active(q)'
    BY <2>1, <2>2 DEF Begins, Lone
  <2> QED  BY <2>2, <2>3 DEF LoneOnes
<1>3. CASE Kill
  <2>1. \A q \in Ops : ~Active(q)'
    BY <1>3, Kills DEF Killed, Active
  <2> QED  BY <2>1 DEF LoneOnes
<1> QED  BY <1>1, <1>2, <1>3, NextIs

LEMMA LoneAtSpares ==
  ASSUME FileOpsTypeOK, NEW o \in Ops, Started(o), LoneAt(o)
  PROVE  Spared(o)
<1>1. op[o].pc \in PCs
  BY DEF FileOpsTypeOK, Op
<1> QED  BY <1>1 DEF Started, LoneAt, Spared, Arrived, OthersKept, PCs

(* Its files after a step that leaves them alone.                             *)
LEMMA LoneRests ==
  ASSUME FileOpsTypeOK, NEW o \in Ops, Started(o), LoneAt(o), Steps(o), file' = file
  PROVE  /\ From(o)' = From(o) /\ To(o)' = To(o) /\ SourceFiles(o)' = SourceFiles(o)
         /\ Spared(o)' /\ (OthersKept(o) => OthersKept(o)') /\ (Arrived(o) => Arrived(o)')
         /\ In(From(o))' = In(From(o))
         /\ op'[o].pc = "over" => LoneAt(o)'
<1>1. From(o)' = From(o) /\ To(o)' = To(o) /\ SourceFiles(o)' = SourceFiles(o)
  BY DEF Steps, Keeps, From, To, Real, SourceFiles
<1>2. (OthersKept(o) => OthersKept(o)') /\ (Arrived(o) => Arrived(o)') /\ In(From(o))' = In(From(o))
  BY <1>1 DEF OthersKept, Arrived, In, Steps
<1>3. Spared(o)'
  BY <1>1, <1>2, LoneAtSpares DEF Spared, Steps
<1> QED  BY <1>1, <1>2, <1>3 DEF LoneAt, Steps

LEMMA LoneGoesQuietly ==
  ASSUME FileOpsTypeOK, Linked, NEW o \in Ops, Lone(o), LoneAt(o), op[o].verb # "delete", ~Onto(o),
         Check(o) \/ List(o) \/ Visit(o) \/ OpenFails(o) \/ CopyEnds(o) \/ ClearList(o) \/ RemoveFolder(o)
  PROVE  LoneAt(o)'
<1>0. Started(o) /\ Steps(o) /\ file' = file
  BY AllSteps
  DEF Lone, OpStep, Check, List, Visit, OpenFails, CopyEnds, ClearList, RemoveFolder, fileVars
<1>1. /\ From(o)' = From(o) /\ To(o)' = To(o) /\ SourceFiles(o)' = SourceFiles(o)
      /\ (OthersKept(o) => OthersKept(o)') /\ (Arrived(o) => Arrived(o)')
      /\ In(From(o))' = In(From(o)) /\ (op'[o].pc = "over" => LoneAt(o)')
  BY <1>0, LoneRests
<1>2. aliased' = aliased /\ links' = links /\ had' = had /\ hadTo' = hadTo
  BY <1>0 DEF Steps
<1>3. CASE Check(o)
  <2>1. op[o].pc = "check" /\ (Fails(o) \/ GoesTo(o, IF op[o].verb = "move" THEN "rename" ELSE "list"))
    BY <1>3, QuietSteps
  <2>2. aliased => op[o].verb = "move"
    <3>1. op[o].verb \in Verbs
      BY DEF FileOpsTypeOK, Op
    <3> QED  BY <3>1 DEF Onto, Verbs
  <2> QED  BY <1>0, <1>1, <1>2, <2>1, <2>2 DEF LoneAt, Fails, GoesTo
<1>4. CASE List(o)
  <2>1. op[o].pc = "list" /\ (Fails(o) \/ Lists(o, "copy"))
    BY <1>4, QuietSteps
  <2>2. CASE Lists(o, "copy")
    <3>1. ~aliased /\ file[From(o)] = had[o] /\ OthersKept(o)
      BY <2>1 DEF LoneAt, OthersKept
    <3>2. Passed(o)' /\ op'[o].listed = In(From(o)) /\ op'[o].seen = {} /\ op'[o].pc = "copy"
      BY <2>2 DEF Passed, Lists
    <3> QED  BY <1>0, <1>1, <1>2, <3>1, <3>2 DEF LoneAt
  <2> QED  BY <1>1, <2>1, <2>2 DEF Fails
<1>5. CASE Visit(o) \/ OpenFails(o)
  <2>1. op[o].pc = "copy" /\ ~aliased
    BY <1>5 DEF Visit, OpenFails, LoneAt
  <2>2. /\ file[From(o)] = had[o] /\ OthersKept(o) /\ op[o].listed = In(From(o))
        /\ op[o].seen \subseteq op[o].listed /\ (op[o].bad \/ Passed(o))
    BY <2>1 DEF LoneAt
  <2>3. Returned(o) \subseteq op[o].listed
    BY <2>2 DEF Returned, Left
  <2>4. op[o].bad \in BOOLEAN
    BY DEF FileOpsTypeOK, Op
  <2>5. PICK n \in Returned(o) :
        /\ op'[o].pc = "copy" /\ op'[o].listed = op[o].listed /\ op'[o].seen = op[o].seen \cup {n}
        /\ (op'[o].bad \/ (op'[o].bad = op[o].bad /\ n \in links))
    <3>1. CASE Visit(o)
      <4>1. PICK n \in Returned(o) :
              /\ n \in links \/ n \notin In(From(o))
              /\ Passes(o, n, op[o].bad \/ n \notin In(From(o)))
        BY <3>1, QuietSteps
      <4>2. n \in links /\ op'[o].bad = op[o].bad
        BY <2>2, <2>3, <2>4, <4>1 DEF Passes
      <4> QED  BY <2>1, <4>1, <4>2 DEF Passes
    <3>2. CASE OpenFails(o)
      BY <2>1, <3>2, QuietSteps DEF Passes
    <3> QED  BY <1>5, <3>1, <3>2
  <2>6. op'[o].bad \/ Passed(o)'
    BY <1>0, <1>1, <1>2, <2>1, <2>2, <2>5 DEF Passed, Writing
  <2> QED  BY <1>0, <1>1, <1>2, <2>1, <2>2, <2>3, <2>5, <2>6 DEF LoneAt
<1>6. CASE CopyEnds(o)
  <2>1. op[o].pc = "copy" /\ Left(o) = {} /\
          (Fails(o) \/ ComesToAnEnd(o) \/ (~op[o].bad /\ GoesTo(o, "clear")))
    BY <1>6, QuietSteps
  <2>2. CASE ~op[o].bad /\ GoesTo(o, "clear")
    <3>1. ~aliased /\ file[From(o)] = had[o] /\ OthersKept(o) /\ op[o].listed = In(From(o)) /\ Passed(o)
      BY <2>1, <2>2 DEF LoneAt
    <3>2. Arrived(o)
      BY <2>1, <3>1 DEF Arrived, Passed, Writing, SourceFiles, Left, In
    <3> QED  BY <1>1, <1>2, <2>2, <3>1, <3>2 DEF LoneAt, GoesTo
  <2> QED  BY <1>1, <2>1, <2>2 DEF Fails, ComesToAnEnd
<1>7. CASE ClearList(o)
  <2>1. op[o].pc = "clear" /\ (Fails(o) \/ Lists(o, "unlink"))
    BY <1>7, QuietSteps
  <2> QED  BY <1>1, <1>2, <2>1 DEF LoneAt, Fails, Lists
<1>8. CASE RemoveFolder(o)
  BY <1>1, <1>8, QuietSteps DEF Fails, ComesToAnEnd
<1> QED  BY <1>3, <1>4, <1>5, <1>6, <1>7, <1>8

LEMMA LoneWrites ==
  ASSUME FileOpsTypeOK, Linked, OneDevice, NEW o \in Ops, Lone(o), LoneAt(o),
         Rename(o) \/ Open(o) \/ AllWritten(o) \/ WriteFails(o) \/ Unlink(o)
  PROVE  LoneAt(o)'
<1>0. Started(o) /\ Steps(o) /\ From(o) \in Places /\ To(o) \in Places
      /\ (~aliased => From(o) # To(o)) /\ (aliased => From(o) = To(o))
      /\ file \in [Places -> [EntryNames -> FileVersions]] /\ had[o] \in [EntryNames -> FileVersions]
      /\ Returned(o) \subseteq EntryNames
  BY AllSteps, Ways, TypesAre DEF Lone, OpStep, Returned, Left, In, Op
<1>1. From(o)' = From(o) /\ To(o)' = To(o) /\ SourceFiles(o)' = SourceFiles(o)
      /\ aliased' = aliased /\ links' = links /\ had' = had /\ hadTo' = hadTo
  BY <1>0 DEF Steps, Keeps, From, To, Real, SourceFiles
<1>2. CASE Rename(o)
  <2>0. op[o].pc = "rename" /\ file[From(o)] = had[o] /\ file[To(o)] = hadTo[o]
    BY <1>2 DEF Rename, LoneAt
  <2>1. CASE Fails(o) /\ file' = file
    BY <1>0, <2>1, LoneRests DEF Fails
  <2>2. CASE devices = 2 /\ GoesTo(o, "list") /\ file' = file
    <3>1. ~aliased
      BY <2>2 DEF OneDevice
    <3> QED  BY <1>1, <2>0, <2>2, <3>1 DEF LoneAt, GoesTo
  <2>3. CASE Renames(o)
    <3>1. op'[o].pc = "over" /\ file'[To(o)] = had[o]
      BY <2>0, <2>3 DEF Renames, ComesToAnEnd
    <3>2. \A n \in EntryNames : had[o][n] = None => hadTo[o][n] = None
      <4>1. CASE From(o) = To(o)
        BY <2>0, <4>1
      <4>2. CASE From(o) # To(o)
        BY <1>0, <2>0, <2>3, <4>2 DEF Renames, CanRename, In
      <4> QED  BY <4>1, <4>2
    <3>3. Spared(o)'
      BY <1>1, <3>1, <3>2 DEF Spared, OthersKept, SourceFiles
    <3> QED  BY <3>1, <3>3 DEF LoneAt
  <2> QED  BY <1>2, <2>1, <2>2, <2>3, WritingSteps DEF fileVars
<1>3. CASE Open(o)
  <2>0. /\ op[o].pc = "copy" /\ ~aliased /\ file[From(o)] = had[o] /\ OthersKept(o)
        /\ op[o].listed = In(From(o)) /\ op[o].seen \subseteq op[o].listed /\ (op[o].bad \/ Passed(o))
    BY <1>3 DEF Open, LoneAt
  <2>1. PICK n \in EntryNames : Opens(o, n)
    BY <1>3, WritingSteps
  <2>2. /\ n \in In(From(o)) \ links /\ From(o) # To(o) /\ Puts(To(o), n, Torn)
        /\ op'[o].pc = "write" /\ op'[o].listed = op[o].listed /\ op'[o].seen = op[o].seen \cup {n}
        /\ op'[o].bad = op[o].bad /\ op'[o].name = n /\ op'[o].output = To(o) /\ op'[o].whole
        /\ op'[o].reading = had[o][n]
    BY <1>0, <2>0, <2>1 DEF Opens
  <2>3. file'[From(o)] = file[From(o)]
    BY <1>0, <2>2 DEF Puts
  <2>4. In(From(o))' = In(From(o))
    BY <1>1, <2>3 DEF In
  <2>5. OthersKept(o)'
    <3>1. had[o][n] # None
      BY <2>0, <2>2 DEF In
    <3> QED  BY <1>0, <1>1, <2>0, <2>2, <3>1 DEF OthersKept, Puts
  <2>6. op'[o].bad \/ Passed(o)'
    <3>1. ASSUME Passed(o), NEW m \in op'[o].seen \ links, m # n
          PROVE  file'[To(o)][m] = had[o][m]
      <4>1. m \in op[o].seen \ links /\ m \in EntryNames /\ ~Writing(o, m)
        BY <2>0, <2>2, <3>1 DEF In, Writing
      <4> QED  BY <1>0, <2>2, <3>1, <4>1 DEF Passed, Puts
    <3> QED  BY <1>1, <2>0, <2>2, <3>1 DEF Passed, Writing
  <2> QED  BY <1>1, <2>0, <2>2, <2>3, <2>4, <2>5, <2>6 DEF LoneAt
<1>4. CASE AllWritten(o)
  <2>0. /\ op[o].pc = "write" /\ ~aliased /\ file[From(o)] = had[o] /\ OthersKept(o)
        /\ op[o].listed = In(From(o)) /\ op[o].seen \subseteq op[o].listed /\ (op[o].bad \/ Passed(o))
        /\ op[o].name \in op[o].listed \ links /\ op[o].reading = had[o][op[o].name]
        /\ op[o].output = To(o) /\ op[o].whole
    BY <1>4 DEF AllWritten, LoneAt
  <2>1. LetsGo(o, op[o].bad) /\ Puts(To(o), op[o].name, had[o][op[o].name])
    <3>1. To(o) # None
      BY <1>0 DEF Places, None
    <3> QED  BY <1>4, <2>0, <3>1, WritingSteps DEF Fills
  <2>2. op[o].name \in EntryNames /\ had[o][op[o].name] # None
    BY <2>0 DEF In
  <2>3. file'[From(o)] = file[From(o)]
    BY <1>0, <2>0, <2>1 DEF Puts
  <2>4. In(From(o))' = In(From(o))
    BY <1>1, <2>3 DEF In
  <2>5. OthersKept(o)'
    BY <1>0, <1>1, <2>0, <2>1, <2>2 DEF OthersKept, Puts
  <2>6. op'[o].bad \/ Passed(o)'
    <3>1. ASSUME Passed(o), NEW m \in op[o].seen \ links
          PROVE  file'[To(o)][m] = had[o][m]
      <4>1. m \in EntryNames
        BY <2>0, <3>1 DEF In
      <4> QED  BY <1>0, <2>1, <3>1, <4>1 DEF Passed, Puts, Writing
    <3> QED  BY <1>1, <2>0, <2>1, <3>1 DEF Passed, LetsGo
  <2> QED  BY <1>1, <2>0, <2>1, <2>3, <2>4, <2>5, <2>6 DEF LoneAt, LetsGo
<1>5. CASE WriteFails(o)
  <2>0. /\ op[o].pc = "write" /\ ~aliased /\ file[From(o)] = had[o] /\ OthersKept(o)
        /\ op[o].listed = In(From(o)) /\ op[o].seen \subseteq op[o].listed /\ op[o].name \in op[o].listed
    BY <1>5 DEF WriteFails, LoneAt
  <2>1. LetsGo(o, TRUE) /\ Puts(To(o), op[o].name, None)
    BY <1>5, WritingSteps DEF Unlinks
  <2>2. op[o].name \in EntryNames /\ had[o][op[o].name] # None
    BY <2>0 DEF In
  <2>3. file'[From(o)] = file[From(o)]
    BY <1>0, <2>0, <2>1 DEF Puts
  <2>4. In(From(o))' = In(From(o))
    BY <1>1, <2>3 DEF In
  <2>5. OthersKept(o)'
    BY <1>0, <1>1, <2>0, <2>1, <2>2 DEF OthersKept, Puts
  <2> QED  BY <1>1, <2>0, <2>1, <2>3, <2>4, <2>5 DEF LoneAt, LetsGo
<1>6. CASE Unlink(o)
  <2>0. op[o].pc = "unlink" /\ ~aliased /\ Arrived(o) /\ OthersKept(o)
    BY <1>6 DEF Unlink, LoneAt
  <2>1. PICK n \in Returned(o) : op'[o].pc = "unlink" /\ (file' = file \/ Puts(From(o), n, None))
    BY <1>6, <2>0, WritingSteps DEF Passes, Unlinks
  <2>2. \A m \in EntryNames : file'[To(o)][m] = file[To(o)][m]
    BY <1>0, <2>0, <2>1 DEF Puts
  <2>3. Arrived(o)' /\ OthersKept(o)'
    BY <1>1, <2>0, <2>2 DEF Arrived, OthersKept, SourceFiles
  <2> QED  BY <1>1, <2>0, <2>1, <2>3 DEF LoneAt
<1> QED  BY <1>2, <1>3, <1>4, <1>5, <1>6

LEMMA SparesStep ==
  ASSUME FileOpsTypeOK, Linked, OneDevice, LoneOnes, LoneSpares, FileOpsNext
  PROVE  LoneSpares'
<1>1. ASSUME NEW o \in Ops, OpStep(o), NEW q \in Ops, Lone(q)', op'[q].verb # "delete", ~Onto(q)'
      PROVE  LoneAt(q)'
  <2>1. Steps(o)
    BY <1>1, AllSteps
  <2>2. Lone(q) /\ op[q].verb # "delete" /\ ~Onto(q)
    BY <1>1, <2>1 DEF Steps, Keeps, OthersAlike, Alike, Lone, Started, Active, Onto
  <2>3. q = o
    BY <2>1, <2>2 DEF Steps, LoneOnes
  <2>4. LoneAt(o)
    BY <2>2, <2>3 DEF LoneSpares
  <2> QED  BY <1>1, <2>2, <2>3, <2>4, LoneGoesQuietly, LoneWrites DEF OpStep
<1>2. ASSUME NEW o \in Ops, NEW verb \in Verbs, NEW p \in Places, Start(o, verb, p),
             NEW q \in Ops, Lone(q)', op'[q].verb # "delete", ~Onto(q)'
      PROVE  LoneAt(q)'
  <2>1. Begins(o, verb, p) /\ file' = file /\ aliased' = aliased
    BY <1>2, Starts DEF Start, fileVars
  <2>2. q = o /\ verb # "delete"
    BY <1>2, <2>1, ZenonT(30) DEF Begins, SameBut, Lone, Started
  <2>3. op'[o].pc = "check" /\ had'[o] = file[Real(p)] /\ hadTo'[o] = file[Real(Other(p))]
        /\ op'[o].from = p
    BY <2>1, <2>2 DEF Begins
  <2>4. From(o)' = Real(p) /\ To(o)' = Real(Other(p))
    BY <2>1, <2>3 DEF From, To, Real
  <2> QED  BY <2>1, <2>2, <2>3, <2>4 DEF LoneAt
<1>3. ASSUME Kill, NEW q \in Ops, Lone(q)', op'[q].verb # "delete", ~Onto(q)'
      PROVE  LoneAt(q)'
  <2>1. file' = file /\ had' = had /\ hadTo' = hadTo /\ aliased' = aliased /\ links' = links
        /\ op'[q].pc \in {"new", "over"}
        /\ op'[q].verb = op[q].verb /\ op'[q].from = op[q].from /\ op'[q].alone = op[q].alone
        /\ (op[q].pc = "new" => op'[q].pc = "new")
    BY <1>3, Kills DEF Kill, fileVars, opHistory, Killed, Active
  <2>2. Lone(q) /\ op[q].verb # "delete" /\ ~Onto(q)
    BY <1>3, <2>1 DEF Lone, Started, Onto
  <2>3. Spared(q)
    BY <2>2, LoneAtSpares DEF LoneSpares, Lone
  <2>4. Spared(q)'
    BY <2>1, <2>3 DEF Spared, OthersKept, SourceFiles, From, To, Real
  <2> QED  BY <1>3, <2>1, <2>4 DEF LoneAt, Lone, Started
<1> QED  BY <1>1, <1>2, <1>3, NextIs DEF LoneSpares

-----------------------------------------------------------------------------
(* Operations that all go one way.                                          *)

LEMMA RunWasGood ==
  ASSUME FileOpsTypeOK, NEW o \in Ops, Steps(o), NEW p \in Places, GoodRun(p)', ~aliased
  PROVE  /\ GoodRun(p) /\ Started(o) /\ op[o].verb # "delete" /\ op[o].from = p /\ ~Fails(o)
         /\ op'[o].pc # "over" => ~op'[o].bad
         /\ From(o) = p /\ To(o) = Other(p) /\ p # Other(p) /\ Other(p) \in Places
<1>1. op'[o].pc # "new" /\ op'[o].verb = op[o].verb /\ op'[o].from = op[o].from /\ Active(o)
  BY DEF Steps, Keeps
<1>2. op'[o].verb # "delete" /\ op'[o].from = p /\ (op'[o].pc # "over" => ~op'[o].bad)
      /\ (op'[o].pc = "over" => op'[o].ok)
  BY <1>1 DEF GoodRun, Started, Active
<1>3. ASSUME NEW q \in Ops, Started(q)
      PROVE  /\ op[q].verb # "delete" /\ op[q].from = p /\ (Active(q) => ~op[q].bad)
             /\ op[q].pc = "over" => op[q].ok
  <2>1. CASE q = o
    BY <1>1, <1>2, <2>1 DEF Steps, Active
  <2>2. CASE q # o
    <3>1. Alike(q)
      BY <2>2 DEF Steps, OthersAlike
    <3> QED  BY <1>3, <3>1 DEF GoodRun, Started, Active, Alike
  <2> QED  BY <2>1, <2>2
<1> QED  BY <1>1, <1>2, <1>3, Ways, OtherPlace DEF GoodRun, Fails, Started, Active

LEMMA GoodQuietly ==
  ASSUME FileOpsTypeOK, NEW p \in Places, GoodAt(p), NEW o \in Ops, Steps(o), OthersSame(o),
         file' = file, op[o].pc # "write", op'[o].pc # "write",
         p \notin folders => p \notin folders',
         op'[o].pc = "over" /\ op[o].verb = "move" => p \notin folders',
         \A n \in EntryNames \ links : Ahead(o, p, n) => Ahead(o, p, n)'
  PROVE  GoodAt(p)'
<1>1. had' = had /\ links' = links /\ op'[o].verb = op[o].verb /\ Started(o) /\ Started(o)'
  BY DEF Steps, Keeps, Started, Active
<1>2. \A q \in Ops \ {o} : op'[q] = op[q]
  BY DEF OthersSame
<1>3. SourceShrinks(p)'
  BY <1>1, <1>2 DEF GoodAt, SourceShrinks, Started
<1>4. WritersAgree(p)'
  BY <1>1, <1>2 DEF GoodAt, WritersAgree
<1>5. NoneMissing(p)'
  <2>1. ASSUME NEW n \in EntryNames, Covered(p, n)
        PROVE  Covered(p, n)'
    BY <1>2, <2>1 DEF Covered, Writing
  <2>2. ASSUME NEW q \in Ops \ {o}, NEW n \in EntryNames, Ahead(q, p, n)
        PROVE  Ahead(q, p, n)'
    BY <1>2, <2>2 DEF Ahead
  <2>3. \A q \in Ops : Started(q)' => Started(q)
    BY <1>1, <1>2 DEF Started
  <2> QED  BY <1>1, <2>1, <2>2, <2>3 DEF GoodAt, NoneMissing
<1>6. FolderMoved(p)'
  BY <1>1, <1>2 DEF GoodAt, FolderMoved
<1> QED  BY <1>3, <1>4, <1>5, <1>6 DEF GoodAt

LEMMA GoodGoesQuietly ==
  ASSUME FileOpsTypeOK, ~aliased, NEW p \in Places, GoodAt(p), GoodRun(p)', NEW o \in Ops, Steps(o),
         Check(o) \/ List(o) \/ Visit(o) \/ OpenFails(o) \/ CopyEnds(o) \/ ClearList(o) \/ RemoveFolder(o)
  PROVE  GoodAt(p)'
<1>0. /\ op[o].verb # "delete" /\ ~Fails(o) /\ (op'[o].pc # "over" => ~op'[o].bad)
      /\ From(o) = p /\ To(o) # p /\ links' = links
  BY RunWasGood DEF Steps
<1>1. file' = file /\ Only(o) /\ OthersSame(o) /\ op[o].pc # "write"
  BY QuietSteps
  DEF Check, List, Visit, OpenFails, CopyEnds, ClearList, RemoveFolder, fileVars, Only
<1>2. CASE Check(o)
  <2>1. op[o].pc = "check" /\ op'[o].pc \in {"rename", "list"} /\ folders' = folders
    BY <1>0, <1>2, QuietSteps DEF GoesTo, Check, fileVars
  <2> QED  BY <1>1, <2>1, GoodQuietly DEF Ahead
<1>3. CASE List(o)
  <2>1. op[o].pc = "list" /\ op'[o].pc = "copy" /\ op'[o].listed = In(p) /\ op'[o].seen = {}
    BY <1>0, <1>3, QuietSteps DEF Lists
  <2>2. folders' \subseteq folders \cup {To(o)}
    BY <1>3 DEF List
  <2> QED  BY <1>0, <1>1, <2>1, <2>2, GoodQuietly DEF Ahead, In
<1>4. CASE Visit(o)
  <2>1. PICK n \in Returned(o) : (n \in links \/ n \notin In(From(o)))
                               /\ Passes(o, n, op[o].bad \/ n \notin In(From(o)))
    BY <1>4, QuietSteps
  <2>2. op[o].pc = "copy" /\ op'[o].pc = "copy" /\ folders' = folders
    BY <1>4, <2>1 DEF Visit, Passes, fileVars
  <2>3. n \in links
    BY <1>0, <2>1, <2>2 DEF Passes
  <2> QED  BY <1>1, <2>1, <2>2, <2>3, GoodQuietly DEF Ahead, Passes
<1>5. CASE OpenFails(o)
  <2>1. op'[o].pc = "copy" /\ op'[o].bad
    BY <1>5, QuietSteps DEF Passes
  <2> QED  BY <1>0, <2>1
<1>6. CASE CopyEnds(o)
  <2>1. /\ op[o].pc = "copy" /\ Left(o) = {} /\ folders' = folders
        /\ op'[o].pc = "clear" \/ (op'[o].pc = "over" /\ op[o].verb # "move")
    BY <1>0, <1>6, QuietSteps DEF CopyEnds, fileVars, GoesTo, ComesToAnEnd
  <2> QED  BY <1>1, <2>1, GoodQuietly DEF Ahead, Left
<1>7. CASE ClearList(o)
  <2>1. op[o].pc = "clear" /\ op'[o].pc = "unlink" /\ folders' = folders
    BY <1>0, <1>7, QuietSteps DEF ClearList, fileVars, Lists
  <2> QED  BY <1>1, <2>1, GoodQuietly DEF Ahead
<1>8. CASE RemoveFolder(o)
  <2>1. op[o].pc = "unlink" /\ op'[o].pc = "over" /\ folders' = folders \ {p}
    BY <1>0, <1>8, QuietSteps DEF ComesToAnEnd
  <2> QED  BY <1>1, <2>1, GoodQuietly DEF Ahead
<1> QED  BY <1>2, <1>3, <1>4, <1>5, <1>6, <1>7, <1>8

LEMMA GoodWrites ==
  ASSUME FileOpsTypeOK, Linked, ~aliased, NEW p \in Places, GoodAt(p), GoodRun(p)',
         NEW o \in Ops, Steps(o), Open(o) \/ AllWritten(o) \/ WriteFails(o)
  PROVE  GoodAt(p)'
<1> DEFINE T == Other(p)
<1>0. /\ GoodRun(p) /\ op[o].verb # "delete" /\ ~Fails(o) /\ (op'[o].pc # "over" => ~op'[o].bad)
      /\ From(o) = p /\ To(o) = T /\ T # p /\ T \in Places /\ Started(o)
  BY RunWasGood
<1>1. /\ links' = links /\ had' = had /\ OthersAlike(o) /\ op'[o].verb = op[o].verb /\ op'[o].pc # "new"
      /\ Origin(p) # None /\ Origin(p) # Torn
      /\ file \in [Places -> [EntryNames -> FileVersions]]
  BY TypesAre DEF Steps, Keeps, Origin, None, Here, There, Torn
<1>2. \A q \in Ops : Started(q)' => Started(q)
  BY <1>0, <1>1 DEF Started, OthersAlike, Alike
<1>3. ASSUME NEW n \in EntryNames, NEW v, Puts(T, n, v), folders' = folders, op'[o].pc # "over",
             WritersAgree(p)',
             \A m \in EntryNames : Covered(p, m) => Covered(p, m)',
             \A m \in EntryNames \ links : Ahead(o, p, m) => Covered(p, m)' \/ Ahead(o, p, m)'
      PROVE  GoodAt(p)'
  <2>1. \A m \in EntryNames : file'[p][m] = file[p][m]
    BY <1>0, <1>3 DEF Puts
  <2>2. SourceShrinks(p)'
    BY <1>1, <1>2, <2>1 DEF GoodAt, SourceShrinks
  <2>3. ASSUME NEW q \in Ops \ {o}, NEW m \in EntryNames, Ahead(q, p, m)
        PROVE  Ahead(q, p, m)'
    BY <1>1, <2>1, <2>3 DEF Ahead, OthersAlike, Alike
  <2>4. NoneMissing(p)'
    BY <1>1, <1>2, <1>3, <2>3 DEF GoodAt, NoneMissing
  <2>5. FolderMoved(p)'
    BY <1>1, <1>3 DEF GoodAt, FolderMoved, OthersAlike, Alike
  <2> QED  BY <1>3, <2>2, <2>4, <2>5 DEF GoodAt
<1>4. CASE Open(o)
  <2>1. PICK n \in EntryNames : Opens(o, n)
    BY <1>4, WritingSteps
  <2>2. /\ n \in In(p) /\ n \notin links /\ Puts(T, n, Torn) /\ op[o].pc = "copy" /\ folders' = folders
        /\ op'[o].pc = "write" /\ op'[o].listed = op[o].listed /\ op'[o].seen = op[o].seen \cup {n}
        /\ op'[o].name = n /\ op'[o].output = T /\ op'[o].whole /\ op'[o].reading = file[p][n]
    BY <1>0, <1>4, <2>1 DEF Opens, Open
  <2>3. file[p][n] = Origin(p)
    BY <2>2 DEF In, GoodAt, SourceShrinks
  <2>4. ASSUME NEW q \in Ops \ {o}
        PROVE  /\ Alike(q) /\ op'[q].output = op[q].output
               /\ op[q].pc = "write" => op'[q].reading = op[q].reading
               /\ ~Writing(q, n) => op'[q] = op[q]
    <3>1. op[q].pc = "write" => From(q) = p
      <4>1. Started(q) => op[q].from = p
        BY <1>0 DEF GoodRun
      <4> QED  BY <4>1, Ways DEF Started
    <3> QED  BY <1>0, <1>1, <2>1, <3>1 DEF Opens, OthersAlike
  <2>5. WritersAgree(p)'
    BY <1>0, <1>1, <2>2, <2>3, <2>4 DEF GoodAt, WritersAgree, Alike
  <2>6. ASSUME NEW m \in EntryNames, Covered(p, m)
        PROVE  Covered(p, m)'
    <3>1. CASE m = n
      BY <2>2, <3>1 DEF Covered, Writing
    <3>2. CASE m # n /\ file[T][m] = Origin(p)
      BY <1>0, <2>2, <3>2 DEF Covered, Puts
    <3>3. CASE m # n /\ \E q \in Ops : Writing(q, m) /\ op[q].whole
      <4>1. PICK q \in Ops : Writing(q, m) /\ op[q].whole
        BY <3>3
      <4>2. q # o /\ ~Writing(q, n)
        BY <2>2, <3>3, <4>1 DEF Writing
      <4> QED  BY <2>4, <4>1, <4>2 DEF Covered, Writing
    <3> QED  BY <2>6, <3>1, <3>2, <3>3 DEF Covered
  <2>7. ASSUME NEW m \in EntryNames, Ahead(o, p, m)
        PROVE  Covered(p, m)' \/ Ahead(o, p, m)'
    <3>1. CASE m = n
      BY <2>2, <3>1 DEF Covered, Writing
    <3>2. CASE m # n
      BY <1>0, <2>2, <2>7, <3>2 DEF Ahead, Puts
    <3> QED  BY <3>1, <3>2
  <2> QED  BY <1>3, <2>2, <2>5, <2>6, <2>7
<1>5. CASE AllWritten(o)
  <2>1. op[o].pc = "write" /\ folders' = folders /\ OthersSame(o) /\ LetsGo(o, op[o].bad) /\ Fills(o)
    BY <1>5, WritingSteps DEF Only
  <2>2. op[o].name \in EntryNames /\ op[o].reading = Origin(p) /\ op[o].output = T /\ T # None
    BY <1>0, <2>1 DEF Linked, GoodAt, WritersAgree, Places, None
  <2> DEFINE n == op[o].name
             v == IF op[o].whole \/ file[T][n] = Origin(p) THEN Origin(p) ELSE Torn
  <2>3. Puts(T, n, v) /\ n \in EntryNames
    BY <2>1, <2>2 DEF Fills
  <2>4. \A q \in Ops \ {o} : op'[q] = op[q]
    BY <2>1 DEF OthersSame
  <2>5. WritersAgree(p)'
    BY <1>1, <2>1, <2>4 DEF GoodAt, WritersAgree, LetsGo
  <2>6. ASSUME NEW m \in EntryNames, Covered(p, m)
        PROVE  Covered(p, m)'
    <3>1. CASE file[T][m] = Origin(p)
      <4>1. file'[T][m] = Origin(p)
        BY <1>0, <2>3, <3>1 DEF Puts
      <4> QED  BY <4>1 DEF Covered
    <3>2. CASE \E q \in Ops : Writing(q, m) /\ op[q].whole
      <4>1. PICK q \in Ops : Writing(q, m) /\ op[q].whole
        BY <3>2
      <4>2. CASE q = o
        <5>1. file'[T][m] = Origin(p)
          BY <2>3, <4>1, <4>2 DEF Puts, Writing
        <5> QED  BY <5>1 DEF Covered
      <4>3. CASE q # o
        BY <2>4, <4>1, <4>3 DEF Covered, Writing
      <4> QED  BY <4>2, <4>3
    <3> QED  BY <2>6, <3>1, <3>2 DEF Covered
  <2>7. ASSUME NEW m \in EntryNames, Ahead(o, p, m)
        PROVE  Ahead(o, p, m)'
    <3>1. file'[p][m] = file[p][m]
      BY <1>0, <2>3 DEF Puts
    <3> QED  BY <2>1, <2>7, <3>1 DEF Ahead, LetsGo
  <2>8. op'[o].pc # "over"
    BY <2>1 DEF LetsGo
  <2> HIDE DEF n, v
  <2> QED  BY <1>3, <2>1, <2>3, <2>5, <2>6, <2>7, <2>8
<1>6. CASE WriteFails(o)
  BY <1>0, <1>6, WritingSteps DEF LetsGo
<1> QED  BY <1>4, <1>5, <1>6

LEMMA GoodUnlinks ==
  ASSUME FileOpsTypeOK, Linked, ~aliased, NEW p \in Places, GoodAt(p), GoodRun(p)',
         NEW o \in Ops, Steps(o), Unlink(o)
  PROVE  GoodAt(p)'
<1> DEFINE T == Other(p)
<1>0. /\ (op'[o].pc # "over" => ~op'[o].bad) /\ From(o) = p /\ T # p /\ T \in Places /\ Started(o)
      /\ links' = links /\ had' = had /\ OthersAlike(o) /\ op'[o].pc # "new"
      /\ Origin(p) # None /\ Returned(o) \subseteq EntryNames
  BY RunWasGood DEF Steps, Origin, None, Here, There, FileOpsTypeOK, Returned, Left, In, Op
<1>1. op[o].pc = "unlink" /\ folders' = folders /\ \E n \in Returned(o) :
        Passes(o, n, TRUE) \/ (n \in In(p) /\ Passes(o, n, op[o].bad) /\ Unlinks(o, p, n))
  BY <1>0, WritingSteps
<1>2. PICK n \in EntryNames : n \in In(p) /\ op'[o].pc = "unlink" /\ Unlinks(o, p, n)
  BY <1>0, <1>1 DEF Passes
<1>3. \A m \in EntryNames : file'[T][m] = file[T][m] /\ file'[p][m] = IF m = n THEN None ELSE file[p][m]
  BY <1>0, <1>2 DEF Unlinks, Puts
<1>4. ASSUME NEW q \in Ops \ {o}
      PROVE  /\ Alike(q) /\ op'[q].reading = op[q].reading /\ op'[q].whole = op[q].whole
             /\ op[q].output # p => op'[q].output = op[q].output
  BY <1>2 DEF Unlinks, OthersAlike
<1>5. \A q \in Ops : Started(q)' => Started(q)
  BY <1>0 DEF Started, OthersAlike, Alike
<1>6. SourceShrinks(p)'
  BY <1>0, <1>3, <1>5 DEF GoodAt, SourceShrinks
<1>7. WritersAgree(p)'
  BY <1>0, <1>2, <1>4 DEF GoodAt, WritersAgree, Alike
<1>8. ASSUME NEW m \in EntryNames, Covered(p, m)
      PROVE  Covered(p, m)'
  <2>1. \A q \in Ops : Writing(q, m) /\ op[q].whole => Writing(q, m)' /\ op'[q].whole
    BY <1>1, <1>4 DEF Writing, Alike
  <2> QED  BY <1>3, <1>8, <2>1 DEF Covered
<1>9. ASSUME NEW q \in Ops, NEW m \in EntryNames \ links, Ahead(q, p, m)
      PROVE  Covered(p, m)' \/ Ahead(q, p, m)'
  <2>1. CASE m = n
    <3>1. had[o][n] # None /\ ~Ahead(o, p, n)
      BY <1>0, <1>1, <1>2 DEF GoodAt, SourceShrinks, In, Ahead
    <3>2. Covered(p, n)
      BY <1>0, <1>9, <2>1, <3>1 DEF GoodAt, NoneMissing
    <3> QED  BY <1>8, <2>1, <3>2
  <2>2. CASE m # n
    <3>1. q # o
      BY <1>1, <1>9 DEF Ahead
    <3> QED  BY <1>3, <1>4, <1>9, <2>2, <3>1 DEF Ahead, Alike
  <2> QED  BY <2>1, <2>2
<1>10. NoneMissing(p)'
  BY <1>0, <1>5, <1>8, <1>9 DEF GoodAt, NoneMissing
<1>11. FolderMoved(p)'
  BY <1>0, <1>1, <1>2 DEF GoodAt, FolderMoved, OthersAlike, Alike
<1> QED  BY <1>6, <1>7, <1>10, <1>11 DEF GoodAt

LEMMA GoodRenames ==
  ASSUME FileOpsTypeOK, Linked, ~aliased, NEW p \in Places, GoodAt(p), GoodRun(p)',
         NEW o \in Ops, Steps(o), Rename(o)
  PROVE  GoodAt(p)'
<1> DEFINE T == Other(p)
<1>0. /\ ~Fails(o) /\ From(o) = p /\ To(o) = T /\ T # p /\ T \in Places /\ Started(o)
      /\ links' = links /\ had' = had /\ OthersAlike(o) /\ op'[o].pc # "new" /\ op[o].pc = "rename"
      /\ Origin(p) # None /\ None \notin Places
  BY RunWasGood DEF Steps, Origin, None, Here, There, Rename, Places
<1>1. CASE Only(o) /\ GoesTo(o, "list") /\ UNCHANGED fileVars
  BY <1>0, <1>1, GoodQuietly DEF Only, GoesTo, fileVars, Ahead
<1>2. CASE Renames(o)
  <2>1. /\ folders' = (folders \ {p}) \cup {T} /\ In(T) = {} /\ op'[o].pc = "over"
        /\ \A n \in EntryNames : file'[T][n] = file[p][n] /\ file'[p][n] = None
    BY <1>0, <1>2 DEF Renames, CanRename, ComesToAnEnd
  <2>2. \A q \in Ops : op[q].pc # "write"
    BY <1>0, <2>1 DEF GoodAt, WritersAgree, Linked, In
  <2>3. \A q \in Ops : op'[q].pc # "write" /\ (Started(q)' => Started(q))
    BY <1>0, <2>1, <2>2 DEF OthersAlike, Alike, Started
  <2>4. SourceShrinks(p)'
    BY <1>0, <2>1, <2>3 DEF GoodAt, SourceShrinks
  <2>5. \A n \in EntryNames : ~Covered(p, n)
    BY <1>0, <2>1, <2>2 DEF Covered, Writing, In
  <2>6. ASSUME NEW q \in Ops, NEW n \in EntryNames \ links, Started(q), had[q][n] # None
        PROVE  Covered(p, n)'
    <3>1. file[p][n] = Origin(p)
      BY <2>5, <2>6 DEF GoodAt, NoneMissing, Ahead, SourceShrinks
    <3> QED  BY <2>1, <3>1 DEF Covered
  <2>7. NoneMissing(p)'
    BY <1>0, <2>3, <2>6 DEF NoneMissing
  <2>8. FolderMoved(p)'
    BY <1>0, <2>1 DEF FolderMoved
  <2> QED  BY <2>3, <2>4, <2>7, <2>8 DEF GoodAt, WritersAgree
<1> QED  BY <1>0, <1>1, <1>2, WritingSteps

LEMMA GoodStarts ==
  ASSUME FileOpsTypeOK, ~aliased, OneWay, NEW p \in Places, GoodRun(p)', NEW o \in Ops,
         NEW verb \in Verbs, NEW r \in Places, Start(o, verb, r)
  PROVE  GoodAt(p)'
<1>0. Begins(o, verb, r) /\ file' = file /\ folders' = folders /\ links' = links
  BY Starts DEF Start, fileVars
<1>1. op'[o].verb = verb /\ op'[o].from = r /\ op'[o].pc \in {"clear", "check"} /\ ~Started(o)
      /\ \A q \in Ops \ {o} : SameBut(q)
  BY <1>0 DEF Begins, Started
<1>2. verb # "delete" /\ r = p /\ op'[o].pc = "check"
  BY <1>0, <1>1 DEF GoodRun, Started, Begins
<1>3. GoodRun(p)
  BY <1>1 DEF GoodRun, Started, Active, SameBut
<1>4. GoodAt(p)
  BY <1>3 DEF OneWay
<1>5. AllFrom(p)
  BY <1>3 DEF AllFrom, GoodRun, Started
<1>6. had'[o] = file[p] /\ \A q \in Ops \ {o} : had'[q] = had[q]
  BY <1>0, <1>2, <1>5 DEF Begins, Real
<1>7. SourceShrinks(p)'
  BY <1>0, <1>1, <1>4, <1>6 DEF GoodAt, SourceShrinks, Started, SameBut
<1>8. WritersAgree(p)'
  BY <1>0, <1>1, <1>4 DEF GoodAt, WritersAgree, SameBut
<1>9. NoneMissing(p)'
  <2>1. ASSUME NEW n \in EntryNames, Covered(p, n)
        PROVE  Covered(p, n)'
    <3>1. \A q \in Ops : Writing(q, n) => q # o
      BY <1>1 DEF Writing, Started
    <3> QED  BY <1>0, <1>1, <2>1, <3>1 DEF Covered, Writing, SameBut
  <2>2. ASSUME NEW q \in Ops \ {o}, NEW n \in EntryNames, Ahead(q, p, n)
        PROVE  Ahead(q, p, n)'
    BY <1>0, <1>1, <2>2 DEF Ahead, SameBut
  <2>3. ASSUME NEW n \in EntryNames, had'[o][n] # None
        PROVE  Ahead(o, p, n)'
    BY <1>0, <1>2, <1>6, <2>3 DEF Ahead
  <2>4. \A q \in Ops \ {o} : Started(q)' => Started(q)
    BY <1>1 DEF Started, SameBut
  <2> QED  BY <1>0, <1>4, <1>6, <2>1, <2>2, <2>3, <2>4 DEF GoodAt, NoneMissing
<1>10. FolderMoved(p)'
  BY <1>0, <1>1, <1>4 DEF GoodAt, FolderMoved, SameBut
<1> QED  BY <1>7, <1>8, <1>9, <1>10 DEF GoodAt

LEMMA OneWayStep ==
  ASSUME FileOpsTypeOK, Linked, OneWay, FileOpsNext
  PROVE  OneWay'
<1>1. ASSUME NEW o \in Ops, OpStep(o), ~aliased', NEW p \in Places, GoodRun(p)'
      PROVE  GoodAt(p)'
  <2>1. Steps(o) /\ ~aliased
    BY <1>1, AllSteps DEF Steps
  <2>2. GoodAt(p)
    BY <1>1, <2>1, RunWasGood DEF OneWay
  <2> QED  BY <1>1, <2>1, <2>2, GoodGoesQuietly, GoodWrites, GoodUnlinks, GoodRenames DEF OpStep
<1>2. ASSUME NEW o \in Ops, NEW verb \in Verbs, NEW r \in Places, Start(o, verb, r),
             ~aliased', NEW p \in Places, GoodRun(p)'
      PROVE  GoodAt(p)'
  BY <1>2, GoodStarts DEF Start
<1>3. ASSUME Kill, NEW p \in Places
      PROVE  ~GoodRun(p)'
  <2>1. PICK q \in Ops : Active(q)
    BY <1>3 DEF Kill
  <2>2. op'[q].pc = "over" /\ ~op'[q].ok
    BY <1>3, <2>1, Kills DEF Killed
  <2> QED  BY <2>2 DEF GoodRun, Started
<1> QED  BY <1>1, <1>2, <1>3, NextIs DEF OneWay

(* Moves of a folder onto itself.                                           *)
LEMMA OntoItselfStep ==
  ASSUME FileOpsTypeOK, Linked, OneDevice, OntoItself, FileOpsNext
  PROVE  OntoItself'
<1>1. ASSUME NEW o \in Ops, OpStep(o), aliased', \A q \in Ops : Started(q)' => op'[q].verb = "move"
      PROVE  \A q \in Ops : Started(q)' => Stays(q)'
  <2>1. Steps(o) /\ aliased /\ OthersAlike(o) /\ had' = had
    BY <1>1, AllSteps DEF Steps
  <2>2. \A q \in Ops : (Started(q)' => Started(q)) /\ (Started(q) => op[q].verb = "move")
    BY <1>1, <2>1 DEF Steps, Keeps, OthersAlike, Alike, Started, Active
  <2>3. \A q \in Ops : Started(q) => Stays(q)
    BY <2>1, <2>2 DEF OntoItself
  <2>4. Stays(o) /\ op[o].verb = "move" /\ From(o) = "a" /\ To(o) = "a"
    BY <2>1, <2>2, <2>3, Ways DEF Steps, Started, Active
  <2>5. Check(o) \/ Rename(o)
    BY <1>1, <2>1, <2>4
    DEF OpStep, Stays, Steps, Active, List, Visit, Open, OpenFails, AllWritten, WriteFails, CopyEnds,
        ClearList, Unlink, RemoveFolder
  <2>6. file'["a"] = file["a"] /\ op'[o].pc \in {"rename", "over"}
    <3>1. CASE Check(o)
      BY <2>4, <3>1, QuietSteps DEF Check, fileVars, Fails, GoesTo
    <3>2. CASE Rename(o)
      <4>1. devices = 1
        BY <2>1 DEF OneDevice
      <4>2. \/ Only(o) /\ (Fails(o) \/ (devices = 2 /\ GoesTo(o, "list"))) /\ UNCHANGED fileVars
            \/ Renames(o)
        BY <3>2, WritingSteps
      <4>3. UNCHANGED fileVars => file' = file
        BY DEF fileVars
      <4> QED  BY <2>4, <4>1, <4>2, <4>3 DEF Fails, Renames, ComesToAnEnd
    <3> QED  BY <2>5, <3>1, <3>2
  <2> QED  BY <2>1, <2>2, <2>3, <2>4, <2>6 DEF Stays, OthersAlike, Alike
<1>2. ASSUME NEW o \in Ops, NEW verb \in Verbs, NEW r \in Places, Start(o, verb, r),
             aliased', \A q \in Ops : Started(q)' => op'[q].verb = "move"
      PROVE  \A q \in Ops : Started(q)' => Stays(q)'
  <2>1. Begins(o, verb, r) /\ file' = file /\ aliased
    BY <1>2, Starts DEF Start, fileVars
  <2>2. verb = "move" /\ op'[o].pc = "check" /\ had'[o] = file["a"]
    BY <1>2, <2>1 DEF Begins, Started, Real
  <2>3. ASSUME NEW q \in Ops \ {o}
        PROVE  SameBut(q) /\ \A n \in EntryNames : had'[q][n] \in {None, had[q][n]}
    BY <2>1 DEF Begins
  <2>4. \A q \in Ops : Started(q) => op[q].verb = "move" /\ Stays(q)
    <3>1. ASSUME NEW q \in Ops, Started(q)
          PROVE  Started(q)' /\ op'[q].verb = op[q].verb
      <4>1. q \in Ops \ {o}
        BY <2>1, <3>1 DEF Begins, Started
      <4> QED  BY <2>3, <3>1, <4>1 DEF SameBut, Started
    <3>2. \A q \in Ops : Started(q) => op[q].verb = "move"
      BY <1>2, <3>1
    <3> QED  BY <2>1, <3>2 DEF OntoItself
  <2>5. Stays(o)'
    BY <2>1, <2>2 DEF Stays
  <2>6. ASSUME NEW q \in Ops \ {o}, Started(q)'
        PROVE  Stays(q)'
    BY <2>1, <2>3, <2>4, <2>6 DEF Stays, Started, SameBut
  <2> QED  BY <2>5, <2>6
<1>3. ASSUME Kill, aliased', \A q \in Ops : Started(q)' => op'[q].verb = "move"
      PROVE  \A q \in Ops : Started(q)' => Stays(q)'
  <2>1. aliased /\ file' = file /\ had' = had
        /\ \A q \in Ops : op'[q] = op[q] \/ (Active(q) /\ op'[q].pc = "over" /\ op'[q].verb = op[q].verb)
    BY <1>3, Kills DEF Kill, fileVars, opHistory, Killed
  <2>2. \A q \in Ops : (Started(q)' => Started(q)) /\ (Started(q) => op[q].verb = "move")
    BY <1>3, <2>1 DEF Started, Active
  <2> QED  BY <2>1, <2>2 DEF OntoItself, Stays
<1> QED  BY <1>1, <1>2, <1>3, NextIs DEF OntoItself

-----------------------------------------------------------------------------
(* The theorems.                                                            *)

LEMMA FileOpsStarts == FileOpsInit => FileOpsInv
<1> SUFFICES ASSUME FileOpsInit PROVE FileOpsInv
  OBVIOUS
<1>1. op = [o \in Ops |-> NewOp] /\ had = Nothing /\ hadTo = Nothing /\ devices \in Devices
      /\ aliased \in BOOLEAN /\ links \subseteq EntryNames /\ (aliased => devices = 1)
      /\ NewOp \in Op /\ Nothing \in [Ops -> [EntryNames -> FileVersions]]
  BY FileOpsAssumption
  DEF FileOpsInit, NewOp, Op, PCs, Verbs, Places, FileVersions, Nothing
<1> DEFINE f(here, there) ==
      [p \in Places |-> [n \in EntryNames |->
         IF p = "a" /\ n \in here THEN Here ELSE IF p = "b" /\ n \in there THEN There ELSE None]]
<1>2. \E here, there : file = f(here, there)
  <2>1. file \in {f(here, there) : here \in (SUBSET EntryNames) \ {{}},
                   there \in IF aliased THEN {{}} ELSE SUBSET (EntryNames \ links)}
    BY DEF FileOpsInit
  <2> HIDE DEF f
  <2> QED  BY <2>1
<1>3. /\ file \in [Places -> [EntryNames -> FileVersions]]
      /\ \A p \in Places, n \in EntryNames : file[p][n] \in {None, Origin(p)}
  BY <1>2 DEF FileVersions, Origin, Places
<1>4. folders \subseteq Places /\ \A p \in Places \ folders : In(p) = {}
  BY DEF FileOpsInit, In
<1>5. FileOpsTypeOK
  BY <1>1, <1>3, <1>4 DEF FileOpsTypeOK
<1>6. \A o \in Ops : op[o].pc = "new" /\ op[o].output = None /\ ~op[o].ok /\ ~Started(o)
  BY <1>1 DEF NewOp, Started
<1>7. Linked /\ OneDevice /\ LoneOnes /\ LoneSpares /\ OntoItself
  BY <1>1, <1>6 DEF Linked, OneDevice, LoneOnes, Lone, LoneSpares, OntoItself
<1>8. OneWay
  BY <1>3, <1>6 DEF OneWay, GoodAt, SourceShrinks, WritersAgree, NoneMissing, FolderMoved
<1> QED  BY <1>5, <1>7, <1>8 DEF FileOpsInv

THEOREM FileOpsInvariant == FileOpsSpec => []FileOpsInv
<1>1. FileOpsInv /\ FileOpsNext => FileOpsInv'
  BY TypesStep, LoneStep, SparesStep, OneWayStep, OntoItselfStep DEF FileOpsInv
<1>2. FileOpsInv /\ UNCHANGED opVars => FileOpsInv'
  <2> SUFFICES ASSUME FileOpsInv, UNCHANGED opVars PROVE FileOpsInv'
    OBVIOUS
  <2>1. /\ file' = file /\ folders' = folders /\ devices' = devices /\ aliased' = aliased
        /\ links' = links /\ op' = op /\ had' = had /\ hadTo' = hadTo
    BY DEF opVars
  <2>2. FileOpsTypeOK'
    BY <2>1 DEF FileOpsInv, FileOpsTypeOK, In
  <2>3. Linked' /\ OneDevice' /\ LoneOnes'
    BY <2>1 DEF FileOpsInv, Linked, OneDevice, LoneOnes, Lone, Started, Active
  <2>4. LoneSpares'
    <3>1. \A o \in Ops : LoneAt(o)' = LoneAt(o)
      BY <2>1 DEF LoneAt, OthersKept, Spared, Arrived, Passed, Writing, SourceFiles, From, To, Real, In
    <3> QED  BY <2>1, <3>1 DEF FileOpsInv, LoneSpares, Lone, Started, Onto, From, To, Real
  <2>5. OneWay'
    <3>1. \A p \in Places : GoodRun(p)' = GoodRun(p)
      BY <2>1 DEF GoodRun, Started, Active
    <3>2. \A p \in Places : GoodAt(p)' = GoodAt(p)
      BY <2>1 DEF GoodAt, SourceShrinks, WritersAgree, NoneMissing, FolderMoved, Covered, Ahead,
                  Writing, Started, Origin
    <3> QED  BY <2>1, <3>1, <3>2 DEF FileOpsInv, OneWay
  <2>6. OntoItself'
    BY <2>1 DEF FileOpsInv, OntoItself, Stays, Started
  <2> QED  BY <2>2, <2>3, <2>4, <2>5, <2>6 DEF FileOpsInv
<1> QED  BY <1>1, <1>2, FileOpsStarts, PTL DEF FileOpsSpec

(* Folders, files and threads keep their shape, for any number of entries and  *)
(* operations, and a file lies in a folder that is there.                     *)
THEOREM FileOpsTypeCorrect == FileOpsSpec => []FileOpsTypeOK
<1>1. FileOpsInv => FileOpsTypeOK
  BY DEF FileOpsInv
<1> QED  BY <1>1, FileOpsInvariant, PTL

(* A copy or a move that nothing overlaps loses no file of its source and       *)
(* changes no other of the folder it merges into, however copy_recursive,       *)
(* delete_recursive and rename end and wherever the process is killed.        *)
THEOREM MovesLoseNothing == FileOpsSpec => []MoveLosesNothing
<1>1. FileOpsInv => MoveLosesNothing
  <2> SUFFICES ASSUME FileOpsInv, NEW o \in Ops,
                      op[o].pc # "new", op[o].verb # "delete", op[o].alone, ~Onto(o)
               PROVE  Spared(o)
    BY DEF MoveLosesNothing, Spared, OthersKept
  <2> QED  BY LoneAtSpares DEF FileOpsInv, LoneSpares, Lone, Started
<1> QED  BY <1>1, FileOpsInvariant, PTL

(* However many copies and moves of one folder overlap on the way to one place,  *)
(* once all have reported success the whole folder is there, and a move has      *)
(* left nothing behind.                                                     *)
THEOREM SuccessesAreComplete == FileOpsSpec => []SuccessIsComplete
<1>1. FileOpsInv => SuccessIsComplete
  <2> SUFFICES ASSUME FileOpsInv, NEW o \in Ops, op[o].pc = "over",
                      \A q \in Ops : op[q].pc # "new" => SameWay(o, q)
               PROVE  /\ \A n \in SourceFiles(o) : file[To(o)][n] = had[o][n]
                      /\ op[o].verb = "move" /\ ~aliased => From(o) \notin folders
    BY DEF SuccessIsComplete
  <2>1. FileOpsTypeOK /\ Linked /\ OneWay /\ OntoItself /\ Started(o)
    BY DEF FileOpsInv, Started
  <2>2. CASE aliased
    <3>1. \A q \in Ops : Started(q) => op[q].verb = "move"
      <4>1. \A q \in Ops : op[q].verb \in Verbs
        BY <2>1 DEF FileOpsTypeOK, Op
      <4> QED  BY <2>2, <4>1 DEF SameWay, Onto, Started, Verbs
    <3> QED  BY <2>1, <2>2, <3>1, Ways DEF OntoItself, Stays, SourceFiles
  <2>3. CASE ~aliased
    <3> DEFINE p == op[o].from
    <3>1. p \in Places /\ From(o) = p /\ To(o) = Other(p)
      BY <2>1, <2>3, Ways DEF From, Real
    <3>2. ASSUME NEW q \in Ops, Started(q)
          PROVE  op[q].verb # "delete" /\ op[q].from = p /\ op[q].ok
      BY <2>3, <3>1, <3>2 DEF SameWay, Started, From, Real
    <3>3. ASSUME NEW q \in Ops, Started(q)
          PROVE  op[q].pc = "over"
      BY <2>1, <3>2, <3>3 DEF Linked
    <3>4. GoodAt(p)
      BY <2>1, <2>3, <3>1, <3>2, <3>3 DEF OneWay, GoodRun, Active
    <3> QED  BY <2>1, <2>3, <3>1, <3>3, <3>4
             DEF GoodAt, NoneMissing, SourceShrinks, FolderMoved, Covered, Writing, Ahead, SourceFiles, Started
  <2> QED  BY <2>2, <2>3
<1> QED  BY <1>1, FileOpsInvariant, PTL

-----------------------------------------------------------------------------
(* QueuedUpload: the inductive invariant.                                                 *)

(* What the tab has sent: nothing ahead of the attempt or of the next chunk;  *)
(* while it waits, it has let go of nothing unless it stopped.               *)
Sent ==
  /\ tab.pc # "idle" => Now >= 1
  /\ tab.pc = "placing" => chunked
  /\ \A r \in reqs :
       /\ r.attempt <= Now
       /\ r.attempt = Now /\ tab.pc = "sending" => r.unit < tab.next /\ r.unit \in Pieces
       /\ r.attempt = Now /\ tab.pc = "placing" => r.unit = Complete
       /\ r.attempt = Now /\ r.heard /\ tab.pc \in {"sending", "placing"} => tab.stopped

(* Between two attempts the count of chunks is back at the first; a file that *)
(* is not cut has one request.                                              *)
Rested ==
  /\ tab.pc \in {"idle", "ending"} => tab.next = 1 /\ ~tab.stopped
  /\ ~chunked => tab.next <= 2

(* How far each handler can be.                                             *)
Handled ==
  \A r \in reqs :
    /\ ~chunked => r.unit = 1
    /\ r.pc = "full" => ~chunked
    /\ r.pc = "checked" => r.unit = Complete
    /\ r.pc \in {"sent", "leased"} => r.done = 0
    /\ r.pc = "open" => r.unit # Complete /\ (~chunked => r.done < N)

SentOnce ==
  \A q, r \in reqs : q.attempt = r.attempt /\ q.unit = r.unit => q = r

(* The request that completes an upload is the only one of its attempt.      *)
CompletesAlone ==
  \A q, r \in reqs : q.attempt = Now /\ r.attempt = Now /\ r.unit = Complete => q.unit = Complete

(* No piece lies past the end of the temporary file.                        *)
Filled == \A n \in temp.written : n <= temp.size

(* What the temporary file or the target holds for a request of the attempt   *)
(* that is under way, unless a handler of an earlier one crossed it.         *)
Holds(r) ==
  /\ ~chunked /\ r.pc = "open" => r.at = "temp" /\ 1 .. r.done \subseteq temp.written
  /\ ~chunked /\ r.pc = "full" => temp.written = 1 .. N
  /\ r.unit = Complete /\ r.pc \in {"sent", "leased", "checked"} => temp.written = 1 .. N
  /\ (~chunked \/ r.unit = Complete) /\ r.pc = "ok" => target = WholeFile

Progress == \A r \in reqs : r.attempt = Now => Holds(r)

(* A chunk that was sent is written, on its way, or failed, and the failure   *)
(* is still to be heard.                                                    *)
AChunkFailed == \E r \in reqs : r.attempt = Now /\ r.pc \in {"bad", "failed"}
ChunksOnTheirWay ==
  /\ \A n \in 1 .. N :
       n < tab.next => \/ n \in temp.written
                       \/ \E r \in reqs : /\ r.attempt = Now /\ r.unit = n
                                          /\ r.pc \in {"sent", "leased", "open"}
  /\ \A r \in reqs : r.attempt = Now /\ r.pc = "open" => r.at = "temp"
NoChunkIsLost ==
  chunked /\ tab.pc = "sending" /\ ~tab.stopped => AChunkFailed \/ ChunksOnTheirWay

(* The single request of an attempt is under way until its file is placed.    *)
SingleIsPlaced ==
  ~chunked /\ tab.pc = "sending" /\ ~tab.stopped /\ tab.next = 2 =>
    target = WholeFile \/ \E r \in reqs : r.attempt = Now

(* An inode at the final path is whole before anybody who had it open as the  *)
(* temporary file can write to it there.                                    *)
TargetIsSafe ==
  /\ target.size = 0 \/ target = WholeFile
  /\ \A r \in reqs : r.at = "target" => target = WholeFile
  /\ tab.done => target = WholeFile

UploadInv ==
  /\ UploadTypeOK /\ Sent /\ Rested /\ Handled /\ SentOnce /\ CompletesAlone /\ Filled
  /\ ~crossed => Progress /\ NoChunkIsLost /\ SingleIsPlaced /\ TargetIsSafe

-----------------------------------------------------------------------------
(* Requests and what becomes of the set of them.                            *)

SameRequest(q, p) == q.attempt = p.attempt /\ q.unit = p.unit /\ q.heard = p.heard

(* What Handled says of one request.                                        *)
Fits(r) ==
  /\ ~chunked => r.unit = 1
  /\ r.pc = "full" => ~chunked
  /\ r.pc = "checked" => r.unit = Complete
  /\ r.pc \in {"sent", "leased"} => r.done = 0
  /\ r.pc = "open" => r.unit # Complete /\ (~chunked => r.done < N)

LEMMA Numbers == N \in Nat /\ N >= 1 /\ Complete \in Nat /\ Complete > N /\ 1 \in Units /\ Complete \in Units
                 /\ 1 \in 1 .. N
  BY UploadAssumption DEF Complete, Units

LEMMA Remembered ==
  ASSUME NEW rs, Remember(rs)
  PROVE  \A q : q \in reqs' <=> q \in rs /\ ~(q.heard /\ q.pc \in {"ok", "failed"})
  BY DEF Remember

LEMMA Became ==
  ASSUME NEW r, NEW s, Becomes(r, s)
  PROVE  \A q : q \in reqs' <=> (q = s \/ (q \in reqs /\ q # r)) /\ ~(q.heard /\ q.pc \in {"ok", "failed"})
  BY Remembered DEF Becomes

(* What a request has become when the temporary file was moved.             *)
Moved(q, to) == [q EXCEPT !.at = LiesAt(q.at, to)]

LEMMA MovedIsRequest ==
  ASSUME NEW q \in Req, NEW to \in {"gone", "target"}
  PROVE  /\ Moved(q, to) \in Req /\ SameRequest(Moved(q, to), q)
         /\ Moved(q, to).pc = q.pc /\ Moved(q, to).done = q.done
         /\ Moved(q, to).at = LiesAt(q.at, to)
<1>1. LiesAt(q.at, to) \in {"temp", "target", "gone"}
  BY DEF LiesAt, Req
<1>2. Moved(q, to) \in Req
  BY <1>1 DEF Moved, Req
<1>3. QED  BY <1>2 DEF Moved, Req, SameRequest

(* What the request has become whose handler moved it.                      *)
Ended(r, pc) == [r EXCEPT !.pc = pc]

LEMMA WereMoved ==
  ASSUME NEW r \in reqs, reqs \subseteq Req, NEW to \in {"gone", "target"}, NEW pc \in {"ok", "failed"},
         EndsMoving(r, to, pc)
  PROVE  /\ Ended(r, pc) \in Req /\ SameRequest(Ended(r, pc), r)
         /\ Ended(r, pc).pc = pc /\ Ended(r, pc).at = r.at
         /\ \A q \in reqs' : \/ q = Moved(Ended(r, pc), to)
                             \/ \E p \in reqs \ {r} : q = Moved(p, to)
         /\ \A p \in reqs \ {r} : p.pc \notin {"ok", "failed"} => Moved(p, to) \in reqs'
         /\ ~r.heard => Moved(Ended(r, pc), to) \in reqs'
<1> DEFINE s == Ended(r, pc)
           rs == {[q EXCEPT !.at = LiesAt(@, to)] : q \in (reqs \ {r}) \cup {s}}
<1>1. s \in Req /\ SameRequest(s, r) /\ s.pc = pc /\ s.at = r.at
  BY DEF Req, SameRequest, Ended
<1>2. \A q : q \in reqs' <=> q \in rs /\ ~(q.heard /\ q.pc \in {"ok", "failed"})
  BY Remembered DEF EndsMoving, Ended
<1>3. \A q : q \in rs <=> \E p \in (reqs \ {r}) \cup {s} : q = Moved(p, to)
  BY DEF Moved
<1> HIDE DEF s, rs
<1>4. \A q \in reqs' : q = Moved(s, to) \/ \E p \in reqs \ {r} : q = Moved(p, to)
  BY <1>2, <1>3
<1>5. ASSUME NEW p \in reqs \ {r}, p.pc \notin {"ok", "failed"}
      PROVE  Moved(p, to) \in reqs'
  BY <1>2, <1>3, <1>5, MovedIsRequest DEF SameRequest
<1>6. ~r.heard => Moved(s, to) \in reqs'
  BY <1>1, <1>2, <1>3, MovedIsRequest DEF SameRequest
<1>7. QED  BY <1>1, <1>4, <1>5, <1>6 DEF s

(* Requests that come from requests of before, with the tab where it was.    *)
LEMMA FramedRequests ==
  ASSUME UploadInv, UNCHANGED <<tab, chunked>>,
         \A q \in reqs' : \E p \in reqs : SameRequest(q, p)
  PROVE  Sent' /\ Rested' /\ CompletesAlone'
<1>1. Now' = Now /\ Pieces' = Pieces
  BY DEF Now, Pieces
<1>2. Sent'
  BY <1>1 DEF UploadInv, Sent, SameRequest
<1>3. CompletesAlone'
  BY <1>1 DEF UploadInv, CompletesAlone, SameRequest
<1>4. QED  BY <1>2, <1>3 DEF UploadInv, Rested

-----------------------------------------------------------------------------
(* One handler's step, as far as the requests go: it gives r another state,   *)
(* or moves the temporary file under everybody and ends.                     *)

Shape == UploadTypeOK /\ Sent /\ Rested /\ Handled /\ SentOnce /\ CompletesAlone /\ Filled

FilesOK == temp \in UploadFile /\ target \in UploadFile /\ Filled

LEMMA GivenAnotherState ==
  ASSUME UploadInv, NEW r \in reqs, NEW s \in Req, Becomes(r, s), SameRequest(s, r), Fits(s),
         UNCHANGED <<tab, chunked, leased>>, crossed' \in BOOLEAN, FilesOK'
  PROVE  Shape'
<1>1. \A q : q \in reqs' => q = s \/ (q \in reqs /\ q # r)
  BY Became
<1>2. \A q \in reqs' : \E p \in reqs : SameRequest(q, p)
  BY <1>1 DEF SameRequest
<1>3. UploadTypeOK'
  BY <1>1 DEF UploadInv, UploadTypeOK, FilesOK
<1>4. SentOnce'
  BY <1>1 DEF UploadInv, SentOnce, SameRequest
<1>5. Handled'
  BY <1>1 DEF UploadInv, Handled, Fits
<1>6. QED  BY <1>2, <1>3, <1>4, <1>5, FramedRequests DEF Shape, FilesOK

LEMMA NoFileFits == NoFile \in UploadFile /\ NoFile.written = {} /\ NoFile.size = 0
  BY Numbers DEF NoFile, UploadFile

LEMMA MovedAway ==
  ASSUME UploadInv, NEW r \in reqs, NEW to \in {"gone", "target"}, NEW pc \in {"ok", "failed"},
         EndsMoving(r, to, pc), UNCHANGED <<tab, chunked, leased>>, target' \in UploadFile
  PROVE  Shape'
<1> DEFINE s == Ended(r, pc)
<1>1. /\ s \in Req /\ SameRequest(s, r) /\ s.pc = pc
      /\ \A q \in reqs' : q = Moved(s, to) \/ \E p \in reqs \ {r} : q = Moved(p, to)
  <2>1. reqs \subseteq Req
    BY DEF UploadInv, UploadTypeOK
  <2>2. QED  BY <2>1, WereMoved
<1> HIDE DEF s
<1>2. \A q \in reqs' : /\ q \in Req
                       /\ \/ SameRequest(q, r) /\ q.pc = pc
                          \/ \E p \in reqs \ {r} : /\ q = Moved(p, to) /\ SameRequest(q, p)
                                                   /\ q.pc = p.pc /\ q.done = p.done
  BY <1>1, MovedIsRequest DEF UploadInv, UploadTypeOK, SameRequest
<1>3. \A q \in reqs' : \E p \in reqs : SameRequest(q, p)
  BY <1>2
<1>4. UploadTypeOK' /\ Filled'
  <2>1. crossed' \in BOOLEAN
    BY DEF EndsMoving, Late, UploadInv, UploadTypeOK
  <2>2. temp' = NoFile
    BY DEF EndsMoving
  <2>3. QED  BY <1>2, <2>1, <2>2, NoFileFits DEF UploadInv, UploadTypeOK, Filled
<1>5. SentOnce'
  <2> SUFFICES ASSUME NEW q1 \in reqs', NEW q2 \in reqs',
                      q1.attempt = q2.attempt, q1.unit = q2.unit
               PROVE  q1 = q2
    BY DEF SentOnce
  <2>1. PICK p1 \in reqs : /\ SameRequest(q1, p1)
                           /\ IF p1 = r THEN q1 = Moved(s, to) ELSE q1 = Moved(p1, to)
    BY <1>1, MovedIsRequest DEF UploadInv, UploadTypeOK, SameRequest
  <2>2. PICK p2 \in reqs : /\ SameRequest(q2, p2)
                           /\ IF p2 = r THEN q2 = Moved(s, to) ELSE q2 = Moved(p2, to)
    BY <1>1, MovedIsRequest DEF UploadInv, UploadTypeOK, SameRequest
  <2>3. p1 = p2
    BY <2>1, <2>2 DEF UploadInv, SentOnce, SameRequest
  <2>4. QED  BY <2>1, <2>2, <2>3
<1>6. Handled'
  BY <1>2 DEF UploadInv, Handled, SameRequest
<1>7. QED  BY <1>3, <1>4, <1>5, <1>6, FramedRequests DEF Shape

-----------------------------------------------------------------------------
(* What each step of a handler does to the two files.                       *)

LEMMA FileFacts ==
  ASSUME NEW f \in UploadFile
  PROVE  /\ f.written \subseteq 1 .. N /\ f.size \in 0 .. N /\ f.there \in BOOLEAN
         /\ \A n \in 1 .. N :
              /\ Plus(f, n) \in UploadFile /\ Plus(f, n).written = f.written \cup {n}
              /\ Plus(f, n).size = (IF n > f.size THEN n ELSE f.size) /\ Plus(f, n).there = f.there
         /\ Plus(WholeFile, N) = WholeFile
         /\ \A n \in 1 .. N : Plus(WholeFile, n) = WholeFile
         /\ Cut(f, 0) \in UploadFile /\ Cut(f, 0).written = {} /\ Cut(f, 0).size = 0
<1>1. N \in Nat /\ 0 \in 0 .. N
  BY Numbers
<1>2. f.written \subseteq 1 .. N /\ f.size \in 0 .. N /\ f.there \in BOOLEAN
  BY DEF UploadFile
<1>3. ASSUME NEW n \in 1 .. N
      PROVE  /\ Plus(f, n) \in UploadFile /\ Plus(f, n).written = f.written \cup {n}
             /\ Plus(f, n).size = (IF n > f.size THEN n ELSE f.size) /\ Plus(f, n).there = f.there
  <2>1. (IF n > f.size THEN n ELSE f.size) \in 0 .. N
    BY <1>1, <1>2
  <2>2. QED  BY <1>2, <2>1 DEF Plus, UploadFile
<1>4. ASSUME NEW n \in 1 .. N
      PROVE  Plus(WholeFile, n) = WholeFile
  <2>1. (IF n > N THEN n ELSE N) = N /\ (1 .. N) \cup {n} = 1 .. N
    BY <1>1
  <2>2. WholeFile.written = 1 .. N /\ WholeFile.size = N /\ WholeFile.there = TRUE
        /\ DOMAIN WholeFile = {"there", "written", "size"}
    BY DEF WholeFile
  <2>3. Plus(WholeFile, n) = [WholeFile EXCEPT !.written = 1 .. N, !.size = N]
    BY <2>1, <2>2 DEF Plus
  <2>4. [WholeFile EXCEPT !.written = 1 .. N, !.size = N] = WholeFile
    BY <2>2 DEF WholeFile
  <2>5. QED  BY <2>3, <2>4
<1>5. Cut(f, 0) \in UploadFile /\ Cut(f, 0).written = {} /\ Cut(f, 0).size = 0
  BY <1>1 DEF Cut, UploadFile
<1>6. N \in 1 .. N
  BY Numbers
<1>7. QED  BY <1>2, <1>3, <1>4, <1>5, <1>6

LEMMA WholeIsFull ==
  ASSUME NEW f \in UploadFile, f.there, f.written = 1 .. N, \A n \in f.written : n <= f.size
  PROVE  f = WholeFile
<1>1. f.size = N
  <2>1. f.size \in 0 .. N
    BY FileFacts
  <2>2. N <= f.size
    BY Numbers
  <2>3. QED  BY <2>1, <2>2, Numbers
<1>2. f.there = TRUE
  BY FileFacts
<1>3. QED  BY <1>1, <1>2 DEF WholeFile, UploadFile

LEMMA Opened ==
  ASSUME temp \in UploadFile, Filled, NEW u \in Units
  PROVE  /\ TempOpened(u) \in UploadFile /\ \A n \in TempOpened(u).written : n <= TempOpened(u).size
         /\ chunked => TempOpened(u).written = temp.written
         /\ ~chunked => TempOpened(u).written = {}
<1>1. N \in Nat /\ temp.size \in 0 .. N /\ temp.written \subseteq 1 .. N
  BY Numbers, FileFacts
<1>2. CASE ~chunked
  BY <1>2, FileFacts DEF TempOpened
<1>3. CASE chunked
  <2> DEFINE f == [temp EXCEPT !.there = TRUE, !.size = IF u = 1 THEN N ELSE @]
  <2>1. /\ f \in UploadFile /\ f.written = temp.written
        /\ f.size = IF u = 1 THEN N ELSE temp.size
    <3>1. (IF u = 1 THEN N ELSE temp.size) \in 0 .. N
      BY <1>1
    <3>2. f = [temp EXCEPT !.there = TRUE, !.size = IF u = 1 THEN N ELSE temp.size]
      BY DEF UploadFile
    <3>3. QED  BY <3>1, <3>2 DEF UploadFile
  <2>2. TempOpened(u) = f
    BY <1>3 DEF TempOpened
  <2>3. \A n \in f.written : n <= f.size
    BY <1>1, <2>1 DEF Filled
  <2>4. QED  BY <1>3, <2>1, <2>2, <2>3
<1>4. QED  BY <1>2, <1>3

LEMMA Written ==
  ASSUME temp \in UploadFile, target \in UploadFile, Filled, NEW r, NEW n \in 1 .. N, Writes(r, n)
  PROVE  /\ FilesOK' /\ temp.written \subseteq temp'.written
         /\ r.at = "temp" => n \in temp'.written
         /\ r.at # "target" => target' = target
         /\ target = WholeFile => target' = WholeFile
<1>1. N \in Nat /\ temp.size \in 0 .. N /\ temp.written \subseteq 1 .. N
  BY Numbers, FileFacts
<1>2. Plus(temp, n) \in UploadFile /\ Plus(temp, n).written = temp.written \cup {n}
      /\ Plus(temp, n).size = (IF n > temp.size THEN n ELSE temp.size)
  BY FileFacts
<1>3. Plus(target, n) \in UploadFile /\ Plus(WholeFile, n) = WholeFile
  BY FileFacts
<1>4. \A m \in Plus(temp, n).written : m <= Plus(temp, n).size
  BY <1>1, <1>2 DEF Filled
<1>5. temp' \in UploadFile /\ target' \in UploadFile
  BY <1>2, <1>3 DEF Writes
<1>6. Filled'
  BY <1>4 DEF Writes, Filled
<1>7. QED  BY <1>2, <1>3, <1>5, <1>6 DEF Writes, FilesOK

LEMMA EndedIsRequest ==
  ASSUME NEW r \in Req,
         NEW pc \in {"sent", "leased", "open", "full", "checked", "bad", "ok", "failed"}
  PROVE  /\ Ended(r, pc) \in Req /\ SameRequest(Ended(r, pc), r) /\ Ended(r, pc).pc = pc
         /\ Ended(r, pc).at = r.at /\ Ended(r, pc).done = r.done
  BY DEF Ended, Req, SameRequest

(* What a handler makes of its request when it moves no file.                *)
OpenedTemp(r)     == [r EXCEPT !.pc = "open", !.at = "temp"]
Closed(r, pc) == [r EXCEPT !.pc = pc, !.at = "gone", !.done = 0]
OneMore(r)   == [r EXCEPT !.done = @ + 1, !.pc = IF r.done + 1 = N THEN "full" ELSE @]

LEMMA OpensIsRequest ==
  ASSUME NEW r \in Req
  PROVE  /\ OpenedTemp(r) \in Req /\ SameRequest(OpenedTemp(r), r) /\ OpenedTemp(r).pc = "open"
         /\ OpenedTemp(r).at = "temp" /\ OpenedTemp(r).done = r.done
  BY DEF OpenedTemp, Req, SameRequest

LEMMA ClosedIsRequest ==
  ASSUME NEW r \in Req, NEW pc \in {"ok", "bad"}
  PROVE  /\ Closed(r, pc) \in Req /\ SameRequest(Closed(r, pc), r) /\ Closed(r, pc).pc = pc
         /\ Closed(r, pc).at = "gone" /\ Closed(r, pc).done = 0
<1>1. 0 \in 0 .. N
  BY Numbers
<1>2. QED  BY <1>1 DEF Closed, Req, SameRequest

LEMMA OneMoreIsRequest ==
  ASSUME NEW r \in Req, r.pc = "open", r.done < N
  PROVE  /\ OneMore(r) \in Req /\ SameRequest(OneMore(r), r)
         /\ OneMore(r).at = r.at /\ OneMore(r).done = r.done + 1 /\ r.done + 1 \in 1 .. N
         /\ OneMore(r).pc = IF r.done + 1 = N THEN "full" ELSE "open"
<1>1. r.done \in 0 .. N /\ N \in Nat
  BY Numbers DEF Req
<1>2. r.done + 1 \in 0 .. N /\ r.done + 1 \in 1 .. N
  BY <1>1
<1>3. QED  BY <1>1, <1>2 DEF OneMore, Req, SameRequest

LEMMA HandlerShape ==
  ASSUME UploadInv, NEW r \in reqs, UploadHandler(r)
  PROVE  Shape'
<1> USE DEF Goes, Closes
<1>1. /\ r \in Req /\ Fits(r) /\ temp \in UploadFile /\ target \in UploadFile /\ Filled
      /\ crossed \in BOOLEAN /\ r.unit \in Units
  BY DEF UploadInv, UploadTypeOK, Handled, Fits, Req
<1>2. UNCHANGED <<tab, chunked, leased>> /\ crossed' \in BOOLEAN
  <2>1. UNCHANGED <<tab, chunked, leased>>
    BY DEF UploadHandler, Refused, Leased, OpenTemp, OpenTempFails, WriteChunk, WriteSingle, PieceFails,
           DropTemp, CheckSize, RenameTemp
  <2>2. crossed' = crossed \/ crossed' = (crossed \/ r.attempt # Now)
    BY DEF UploadHandler, Refused, Leased, OpenTemp, OpenTempFails, WriteChunk, WriteSingle, PieceFails,
           DropTemp, CheckSize, RenameTemp, RemoveTemp, EndsMoving, Late
  <2>3. crossed' \in BOOLEAN
    BY <1>1, <2>2
  <2>4. QED  BY <2>1, <2>3
<1>3. ASSUME UNCHANGED bothFiles
      PROVE  FilesOK'
  BY <1>1, <1>3 DEF FilesOK, bothFiles, Filled
<1>4. ASSUME NEW pc \in {"leased", "checked", "bad", "failed"}, Becomes(r, Ended(r, pc)), FilesOK',
             pc = "checked" => r.unit = Complete, pc = "leased" => r.pc = "sent"
      PROVE  Shape'
  <2>1. Fits(Ended(r, pc))
    BY <1>1, <1>4, EndedIsRequest DEF Fits, SameRequest
  <2>2. QED  BY <1>1, <1>2, <1>4, <2>1, EndedIsRequest, GivenAnotherState
<1>5. ASSUME RemoveTemp(r), UNCHANGED <<target>>
      PROVE  Shape'
  BY <1>1, <1>2, <1>5, MovedAway DEF RemoveTemp
<1>6. CASE Refused(r) \/ Leased(r)
  BY <1>3, <1>4, <1>6 DEF Refused, Leased, Ended
<1>7. CASE OpenTemp(r)
  <2>1. FilesOK'
    BY <1>1, <1>7, Opened DEF OpenTemp, FilesOK, Filled
  <2>2. Fits(OpenedTemp(r))
    BY <1>1, <1>7, OpensIsRequest, Numbers DEF OpenTemp, Fits, SameRequest
  <2>3. Becomes(r, OpenedTemp(r))
    BY <1>7 DEF OpenTemp, OpenedTemp
  <2>4. QED  BY <1>1, <1>2, <2>1, <2>2, <2>3, OpensIsRequest, GivenAnotherState
<1>8. CASE OpenTempFails(r)
  <2>1. CASE ~RemoveTemp(r)
    <3>1. \/ temp' = temp \/ temp' = [temp EXCEPT !.there = TRUE]
          \/ temp' = TempOpened(r.unit)
      BY <1>8, <2>1 DEF OpenTempFails
    <3>2. UNCHANGED target /\ Becomes(r, Ended(r, "failed"))
      BY <1>8, <2>1 DEF OpenTempFails, Ended
    <3>3. FilesOK'
      BY <1>1, <3>1, <3>2, Opened DEF FilesOK, Filled, UploadFile
    <3>4. QED  BY <1>4, <3>2, <3>3
  <2>2. CASE RemoveTemp(r)
    BY <1>5, <2>2 DEF RemoveTemp
  <2>3. QED  BY <2>1, <2>2
<1>9. CASE WriteChunk(r)
  <2>1. r.unit \in 1 .. N
    BY <1>1, <1>9, Numbers DEF WriteChunk, Fits, Units, Complete
  <2>2. FilesOK'
    BY <1>1, <1>9, <2>1, Written DEF WriteChunk
  <2>3. Fits(Closed(r, "ok")) /\ Becomes(r, Closed(r, "ok"))
    BY <1>1, <1>9, ClosedIsRequest DEF WriteChunk, Fits, Closed, SameRequest
  <2>4. QED  BY <1>1, <1>2, <2>2, <2>3, ClosedIsRequest, GivenAnotherState
<1>10. CASE WriteSingle(r)
  <2>1. r.pc = "open" /\ r.done < N
    BY <1>1, <1>10 DEF WriteSingle, Fits
  <2>2. FilesOK'
    BY <1>1, <1>10, <2>1, OneMoreIsRequest, Written DEF WriteSingle
  <2>3. Fits(OneMore(r))
    <3>1. r.done \in Nat /\ N \in Nat
      BY <1>1, Numbers DEF Req
    <3>2. QED  BY <1>1, <1>10, <2>1, <3>1, OneMoreIsRequest DEF WriteSingle, Fits, SameRequest
  <2>4. Becomes(r, OneMore(r))
    BY <1>10 DEF WriteSingle, OneMore
  <2>5. QED  BY <1>1, <1>2, <2>1, <2>2, <2>3, <2>4, OneMoreIsRequest, GivenAnotherState
<1>11. CASE PieceFails(r)
  <2>1. Fits(Closed(r, "bad")) /\ Becomes(r, Closed(r, "bad"))
    BY <1>1, <1>11, ClosedIsRequest DEF PieceFails, Fits, Closed, SameRequest
  <2>2. FilesOK'
    BY <1>3, <1>11 DEF PieceFails
  <2>3. QED  BY <1>1, <1>2, <2>1, <2>2, ClosedIsRequest, GivenAnotherState
<1>12. CASE DropTemp(r)
  BY <1>5, <1>12 DEF DropTemp, RemoveTemp
<1>13. CASE CheckSize(r)
  <2>1. CASE RemoveTemp(r)
    BY <1>5, <2>1 DEF RemoveTemp
  <2>2. CASE ~RemoveTemp(r)
    BY <1>3, <1>4, <1>13, <2>2 DEF CheckSize, Ended
  <2>3. QED  BY <2>1, <2>2
<1>14. CASE RenameTemp(r)
  BY <1>1, <1>2, <1>5, <1>14, MovedAway DEF RenameTemp, RemoveTemp
<1>15. QED  BY <1>6, <1>7, <1>8, <1>9, <1>10, <1>11, <1>12, <1>13, <1>14 DEF UploadHandler

-----------------------------------------------------------------------------
(* What a handler's step leaves of the promises to the attempt under way.     *)

Promises == Progress /\ NoChunkIsLost /\ SingleIsPlaced /\ TargetIsSafe

(* Two requests of one attempt are two chunks.                              *)
LEMMA TwoAreChunks ==
  ASSUME UploadInv, NEW q \in reqs, NEW r \in reqs, q # r, q.attempt = Now, r.attempt = Now
  PROVE  chunked /\ q.unit # Complete /\ r.unit # Complete
  BY DEF UploadInv, Handled, SentOnce, CompletesAlone

LEMMA AnotherStateKeeps ==
  ASSUME UploadInv, Promises, NEW r \in reqs, NEW s, Becomes(r, s), SameRequest(s, r),
         UNCHANGED <<tab, chunked>>,
         temp.written \subseteq temp'.written \/ (~chunked /\ r.attempt = Now),
         temp'.written \subseteq 1 .. N,
         target' = target \/ target' = WholeFile,
         s.at = "target" => target' = WholeFile,
         r.attempt = Now => Holds(s)',
         r.attempt = Now /\ r.pc \in {"bad", "failed"} => s.pc \in {"bad", "failed"},
         r.attempt = Now /\ chunked /\ ChunksOnTheirWay =>
           /\ s.pc = "open" => s.at = "temp"
           /\ r.unit # Complete /\ r.pc \in {"sent", "leased", "open"} =>
                s.pc \in {"sent", "leased", "open", "bad", "failed"} \/ s.unit \in temp'.written
  PROVE  Promises'
<1>1. /\ \A q : q \in reqs' <=> (q = s \/ (q \in reqs /\ q # r)) /\ ~(q.heard /\ q.pc \in {"ok", "failed"})
      /\ Now' = Now /\ Pieces' = Pieces
  BY Became DEF Now, Pieces
<1>2. s.attempt = r.attempt /\ s.unit = r.unit /\ s.heard = r.heard
  BY DEF SameRequest
<1>3. target = WholeFile => target' = WholeFile
  OBVIOUS
<1>4. Progress'
  <2> SUFFICES ASSUME NEW q \in reqs', q.attempt = Now
               PROVE  Holds(q)'
    BY <1>1 DEF Progress
  <2>1. CASE q = s
    BY <1>2, <2>1
  <2>2. CASE q # s
    <3>1. q \in reqs /\ q # r /\ Holds(q)
      BY <1>1, <2>2 DEF Promises, Progress
    <3>2. temp.written \subseteq temp'.written
      BY <3>1, TwoAreChunks
    <3>3. QED  BY <1>3, <3>1, <3>2 DEF Holds
  <2>3. QED  BY <2>1, <2>2
<1>5. NoChunkIsLost'
  <2> SUFFICES ASSUME chunked, tab.pc = "sending", ~tab.stopped
               PROVE  (AChunkFailed \/ ChunksOnTheirWay)'
    BY DEF NoChunkIsLost
  <2>1. \A q \in reqs : q.attempt = Now => ~q.heard
    BY DEF UploadInv, Sent
  <2>2. ASSUME NEW q \in reqs, q.attempt = Now, q.pc \in {"bad", "failed"}
        PROVE  AChunkFailed'
    BY <1>1, <1>2, <2>1, <2>2 DEF AChunkFailed
  <2>3. ASSUME ChunksOnTheirWay, ~AChunkFailed'
        PROVE  ChunksOnTheirWay'
    <3>1. ASSUME NEW n \in 1 .. N, n < tab.next
          PROVE  \/ n \in temp'.written
                 \/ \E q \in reqs' : q.attempt = Now /\ q.unit = n /\ q.pc \in {"sent", "leased", "open"}
      <4>1. CASE n \in temp.written
        BY <4>1
      <4>2. ASSUME NEW q \in reqs, q.attempt = Now, q.unit = n, q.pc \in {"sent", "leased", "open"}
            PROVE  \/ n \in temp'.written
                   \/ \E p \in reqs' : p.attempt = Now /\ p.unit = n /\ p.pc \in {"sent", "leased", "open"}
        <5>1. CASE q # r
          BY <1>1, <4>2, <5>1
        <5>2. CASE q = r
          <6>1. s \in reqs' \/ s.pc \notin {"sent", "leased", "open", "bad", "failed"}
            BY <1>1, <1>2, <2>1, <4>2, <5>2
          <6>2. s.pc \notin {"bad", "failed"}
            BY <1>1, <1>2, <2>3, <4>2, <5>2, <6>1 DEF AChunkFailed
          <6>3. n # Complete
            BY Numbers
          <6>4. QED  BY <1>2, <2>3, <4>2, <5>2, <6>1, <6>2, <6>3
        <5>3. QED  BY <5>1, <5>2
      <4>3. QED  BY <2>3, <3>1, <4>1, <4>2 DEF ChunksOnTheirWay
    <3>2. \A q \in reqs' : q.attempt = Now /\ q.pc = "open" => q.at = "temp"
      BY <1>1, <1>2, <2>3 DEF ChunksOnTheirWay
    <3>3. QED  BY <1>1, <3>1, <3>2 DEF ChunksOnTheirWay
  <2>4. QED  BY <2>2, <2>3 DEF Promises, NoChunkIsLost, AChunkFailed
<1>6. SingleIsPlaced'
  <2> SUFFICES ASSUME ~chunked, tab.pc = "sending", ~tab.stopped, tab.next = 2, target # WholeFile
               PROVE  \E q \in reqs' : q.attempt = Now
    BY <1>1, <1>3 DEF SingleIsPlaced
  <2>1. PICK q \in reqs : q.attempt = Now
    BY DEF Promises, SingleIsPlaced
  <2>2. \A p \in reqs : p.attempt = Now => ~p.heard
    BY DEF UploadInv, Sent
  <2>3. QED  BY <1>1, <1>2, <2>1, <2>2
<1>7. TargetIsSafe'
  BY <1>1, <1>3 DEF Promises, TargetIsSafe
<1>8. QED  BY <1>4, <1>5, <1>6, <1>7 DEF Promises

LEMMA MovingKeeps ==
  ASSUME UploadInv, Promises, NEW r \in reqs, r.attempt = Now,
         NEW to \in {"gone", "target"}, NEW pc \in {"ok", "failed"}, EndsMoving(r, to, pc),
         UNCHANGED <<tab, chunked>>,
         to = "gone" => pc = "failed" /\ target' = target,
         to = "target" => pc = "ok" /\ target' = WholeFile /\ (~chunked \/ r.unit = Complete)
  PROVE  Promises'
<1> DEFINE s == Ended(r, pc)
<1>1. reqs \subseteq Req /\ Now' = Now /\ Pieces' = Pieces
  BY DEF UploadInv, UploadTypeOK, Now, Pieces
<1>2. /\ s \in Req /\ SameRequest(s, r) /\ s.pc = pc /\ s.at = r.at
      /\ \A q \in reqs' : q = Moved(s, to) \/ \E p \in reqs \ {r} : q = Moved(p, to)
      /\ ~r.heard => Moved(s, to) \in reqs'
  BY <1>1, WereMoved
<1> HIDE DEF s
<1>3. /\ Moved(s, to).pc = pc /\ Moved(s, to).at = LiesAt(r.at, to)
      /\ SameRequest(Moved(s, to), r)
  BY <1>2, MovedIsRequest DEF SameRequest
<1>4. ASSUME NEW p \in reqs \ {r}
      PROVE  /\ Moved(p, to).pc = p.pc /\ Moved(p, to).at = LiesAt(p.at, to)
             /\ SameRequest(Moved(p, to), p)
  BY <1>1, MovedIsRequest
<1>5. target = WholeFile => target' = WholeFile
  OBVIOUS
<1>6. Progress'
  <2> SUFFICES ASSUME NEW q \in reqs', q.attempt = Now
               PROVE  Holds(q)'
    BY <1>1 DEF Progress
  <2>1. CASE q = Moved(s, to)
    <3>1. q.pc = pc /\ q.unit = r.unit
      BY <1>3, <2>1 DEF SameRequest
    <3>2. QED  BY <3>1 DEF Holds
  <2>2. ASSUME NEW p \in reqs \ {r}, q = Moved(p, to)
        PROVE  Holds(q)'
    <3>1. p.attempt = Now /\ q.unit = p.unit
      BY <1>4, <2>2 DEF SameRequest
    <3>2. chunked /\ q.unit # Complete
      BY <3>1, TwoAreChunks
    <3>3. QED  BY <3>2 DEF Holds, Complete
  <2>3. QED  BY <1>2, <2>1, <2>2
<1>7. ASSUME tab.pc = "sending", ~tab.stopped
      PROVE  Moved(s, to) \in reqs' /\ Moved(s, to).attempt = Now
  BY <1>2, <1>3, <1>7 DEF UploadInv, Sent, SameRequest
<1>8. NoChunkIsLost'
  <2> SUFFICES ASSUME chunked, tab.pc = "sending", ~tab.stopped
               PROVE  AChunkFailed'
    BY DEF NoChunkIsLost
  <2>1. r.unit # Complete
    BY Numbers DEF UploadInv, Sent, Pieces
  <2>2. QED  BY <1>1, <1>3, <1>7, <2>1 DEF AChunkFailed
<1>9. SingleIsPlaced'
  BY <1>1, <1>7 DEF SingleIsPlaced
<1>10. TargetIsSafe'
  <2>1. CASE to = "target"
    BY <2>1 DEF TargetIsSafe
  <2>2. CASE to = "gone"
    <3>1. ASSUME NEW q \in reqs', q.at = "target"
          PROVE  \E p \in reqs : p.at = "target"
      BY <1>2, <1>3, <1>4, <2>2, <3>1 DEF LiesAt
    <3>2. QED  BY <2>2, <3>1 DEF Promises, TargetIsSafe
  <2>3. QED  BY <2>1, <2>2
<1>11. QED  BY <1>6, <1>8, <1>9, <1>10 DEF Promises

LEMMA HandlerKeeps ==
  ASSUME UploadInv, ~crossed', NEW r \in reqs, UploadHandler(r)
  PROVE  Promises'
<1> USE DEF Goes, Closes
<1>1. /\ r \in Req /\ Fits(r) /\ temp \in UploadFile /\ target \in UploadFile /\ Filled
      /\ r.unit \in Units
  BY DEF UploadInv, UploadTypeOK, Handled, Fits, Req
<1>2. UNCHANGED <<tab, chunked>> /\ ~crossed
  <2>1. UNCHANGED <<tab, chunked>>
    BY DEF UploadHandler, Refused, Leased, OpenTemp, OpenTempFails, WriteChunk, WriteSingle, PieceFails,
           DropTemp, CheckSize, RenameTemp
  <2>2. crossed' = crossed \/ crossed' = (crossed \/ r.attempt # Now)
    BY DEF UploadHandler, Refused, Leased, OpenTemp, OpenTempFails, WriteChunk, WriteSingle, PieceFails,
           DropTemp, CheckSize, RenameTemp, RemoveTemp, EndsMoving, Late
  <2>3. crossed \in BOOLEAN
    BY DEF UploadInv, UploadTypeOK
  <2>4. QED  BY <2>1, <2>2, <2>3
<1>3. Promises /\ (r.attempt = Now => Holds(r)) /\ (r.at = "target" => target = WholeFile)
  BY <1>2 DEF UploadInv, Promises, Progress, TargetIsSafe
<1>4. temp.written \subseteq 1 .. N /\ temp'.written \subseteq 1 .. N
  BY FileFacts, HandlerShape DEF UploadInv, Shape, UploadTypeOK
<1>5. ASSUME NEW pc \in {"leased", "checked", "failed"}, Becomes(r, Ended(r, pc)),
             temp'.written = temp.written, UNCHANGED target,
             pc = "leased" => r.pc = "sent", pc = "checked" => r.pc = "leased",
             r.pc \in {"sent", "leased"}, pc = "checked" => r.unit = Complete
      PROVE  Promises'
  <2>1. /\ SameRequest(Ended(r, pc), r) /\ Ended(r, pc).pc = pc /\ Ended(r, pc).at = r.at
        /\ Ended(r, pc).unit = r.unit
    BY <1>1, <1>5, EndedIsRequest DEF SameRequest
  <2>2. r.attempt = Now => Holds(Ended(r, pc))'
    BY <1>3, <1>5, <2>1 DEF Holds, Complete
  <2>3. QED  BY <1>2, <1>3, <1>4, <1>5, <2>1, <2>2, AnotherStateKeeps
<1>6. ASSUME RemoveTemp(r)
      PROVE  Promises'
  <2>1. r.attempt = Now
    BY <1>6 DEF RemoveTemp, EndsMoving, Late
  <2>2. QED  BY <1>2, <1>3, <1>6, <2>1, MovingKeeps DEF RemoveTemp
<1>7. CASE Refused(r) \/ Leased(r)
  BY <1>5, <1>7 DEF Refused, Leased, Ended, bothFiles
<1>8. CASE OpenTemp(r)
  <2>1. temp'.written = temp.written \/ (~chunked /\ r.attempt = Now)
    BY <1>1, <1>8, Opened DEF OpenTemp, Late
  <2>2. r.attempt = Now => Holds(OpenedTemp(r))'
    <3>1. OpenedTemp(r).pc = "open" /\ OpenedTemp(r).at = "temp" /\ OpenedTemp(r).done = 0
      BY <1>1, <1>8, OpensIsRequest DEF OpenTemp, Fits
    <3>2. QED  BY <3>1 DEF Holds
  <2>3. Becomes(r, OpenedTemp(r)) /\ target' = target
    BY <1>8 DEF OpenTemp, OpenedTemp
  <2>4. r.pc = "leased"
    BY <1>8 DEF OpenTemp
  <2>5. QED  BY <1>1, <1>2, <1>3, <1>4, <2>1, <2>2, <2>3, <2>4, OpensIsRequest, AnotherStateKeeps
<1>9. CASE OpenTempFails(r)
  <2>1. CASE ~RemoveTemp(r)
    <3>1. \/ temp' = temp \/ temp' = [temp EXCEPT !.there = TRUE]
          \/ chunked /\ temp' = TempOpened(r.unit)
      BY <1>9, <2>1 DEF OpenTempFails
    <3>2. UNCHANGED target /\ Becomes(r, Ended(r, "failed")) /\ r.pc = "leased"
      BY <1>9, <2>1 DEF OpenTempFails, Ended
    <3>3. temp'.written = temp.written
      BY <1>1, <3>1, Opened DEF UploadFile
    <3>4. QED  BY <1>5, <3>2, <3>3
  <2>2. QED  BY <1>6, <2>1
<1>10. CASE WriteChunk(r)
  <2>1. r.unit \in 1 .. N /\ chunked /\ r.unit # Complete /\ r.pc = "open"
    BY <1>1, <1>10, Numbers DEF WriteChunk, Fits, Units, Complete
  <2>2. /\ temp.written \subseteq temp'.written /\ (r.at = "temp" => r.unit \in temp'.written)
        /\ r.at # "target" => target' = target
        /\ target = WholeFile => target' = WholeFile
    BY <1>1, <1>10, <2>1, Written DEF WriteChunk
  <2>3. /\ SameRequest(Closed(r, "ok"), r) /\ Closed(r, "ok").pc = "ok" /\ Closed(r, "ok").at = "gone"
        /\ Closed(r, "ok").unit = r.unit
    BY <1>1, ClosedIsRequest DEF SameRequest
  <2>4. Holds(Closed(r, "ok"))'
    BY <1>2, <2>1, <2>3 DEF Holds, Complete
  <2>5. Becomes(r, Closed(r, "ok"))
    BY <1>10 DEF WriteChunk, Closed
  <2>6. r.attempt = Now /\ ChunksOnTheirWay => r.at = "temp"
    BY <2>1 DEF ChunksOnTheirWay
  <2>7. QED  BY <1>2, <1>3, <1>4, <2>1, <2>2, <2>3, <2>4, <2>5, <2>6, AnotherStateKeeps
<1>11. CASE WriteSingle(r)
  <2>1. ~chunked /\ r.pc = "open" /\ r.done < N
    BY <1>1, <1>11 DEF WriteSingle, Fits
  <2>2. /\ SameRequest(OneMore(r), r) /\ OneMore(r).at = r.at /\ OneMore(r).done = r.done + 1
        /\ OneMore(r).pc = (IF r.done + 1 = N THEN "full" ELSE "open") /\ r.done + 1 \in 1 .. N
        /\ OneMore(r).unit = r.unit
    BY <1>1, <2>1, OneMoreIsRequest DEF SameRequest
  <2>3. /\ temp.written \subseteq temp'.written /\ (r.at = "temp" => r.done + 1 \in temp'.written)
        /\ r.at # "target" => target' = target
        /\ target = WholeFile => target' = WholeFile
    BY <1>1, <1>11, <2>2, Written DEF WriteSingle
  <2>4. ASSUME r.attempt = Now
        PROVE  Holds(OneMore(r))'
    <3>1. r.at = "temp" /\ 1 .. r.done \subseteq temp.written
      BY <1>3, <2>1, <2>4 DEF Holds
    <3>2. 1 .. r.done + 1 \subseteq temp'.written
      <4>1. r.done \in Nat
        BY <1>1, Numbers DEF Req
      <4>2. 1 .. r.done + 1 = (1 .. r.done) \cup {r.done + 1}
        BY <4>1
      <4>3. QED  BY <2>3, <3>1, <4>2
    <3>3. r.unit # Complete
      BY <1>1, <2>1 DEF Fits
    <3>4. QED  BY <1>2, <1>4, <2>1, <2>2, <3>1, <3>2, <3>3 DEF Holds, Complete
  <2>5. Becomes(r, OneMore(r))
    BY <1>11 DEF WriteSingle, OneMore
  <2>6. QED  BY <1>2, <1>3, <1>4, <2>1, <2>2, <2>3, <2>4, <2>5, AnotherStateKeeps
<1>12. CASE PieceFails(r)
  <2>1. /\ SameRequest(Closed(r, "bad"), r) /\ Closed(r, "bad").pc = "bad" /\ Closed(r, "bad").at = "gone"
    BY <1>1, ClosedIsRequest
  <2>2. Holds(Closed(r, "bad"))'
    BY <2>1 DEF Holds
  <2>3. Becomes(r, Closed(r, "bad")) /\ UNCHANGED <<temp, target>> /\ r.pc = "open"
    BY <1>12 DEF PieceFails, Closed, bothFiles
  <2>4. QED  BY <1>2, <1>3, <1>4, <2>1, <2>2, <2>3, AnotherStateKeeps
<1>13. CASE DropTemp(r)
  BY <1>6, <1>13 DEF DropTemp
<1>14. CASE CheckSize(r)
  <2>1. CASE ~RemoveTemp(r)
    BY <1>5, <1>14, <2>1 DEF CheckSize, Ended, bothFiles
  <2>2. QED  BY <1>6, <2>1
<1>15. CASE RenameTemp(r)
  <2>1. CASE temp.there /\ target' = temp /\ EndsMoving(r, "target", "ok")
    <3>1. r.attempt = Now
      BY <2>1 DEF EndsMoving, Late
    <3>2. temp.written = 1 .. N /\ (~chunked \/ r.unit = Complete)
      BY <1>1, <1>3, <1>15, <3>1 DEF RenameTemp, Holds, Fits
    <3>3. target' = WholeFile
      BY <1>1, <2>1, <3>2, WholeIsFull DEF Filled
    <3>4. QED  BY <1>2, <1>3, <2>1, <3>1, <3>2, <3>3, MovingKeeps
  <2>2. QED  BY <1>6, <1>15, <2>1 DEF RenameTemp
<1>16. QED  BY <1>7, <1>8, <1>9, <1>10, <1>11, <1>12, <1>13, <1>14, <1>15 DEF UploadHandler

-----------------------------------------------------------------------------
(* The tab's steps.                                                         *)

Promised == ~crossed => Promises

(* A request that was just sent.                                            *)
Fresh(u) == [attempt |-> Now, unit |-> u, pc |-> "sent", at |-> "gone", done |-> 0, heard |-> FALSE]

LEMMA FreshIsRequest ==
  ASSUME UploadInv, tab.pc # "idle", NEW u \in Units
  PROVE  Fresh(u) \in Req
<1>1. Now \in 0 .. MaxAttempts /\ Now >= 1 /\ MaxAttempts \in Nat
  BY UploadAssumption DEF UploadInv, UploadTypeOK, UploadTab, Sent, Now
<1>2. Now \in Attempts /\ 0 \in 0 .. N
  BY <1>1, Numbers DEF Attempts
<1>3. QED  BY <1>2 DEF Fresh, Req

LEMMA OfferKeeps ==
  ASSUME UploadInv, Offer
  PROVE  UploadInv'
<1>1. /\ tab \in UploadTab /\ UNCHANGED <<chunked, leased, temp, target, reqs, crossed>>
      /\ MaxAttempts \in Nat /\ \A r \in reqs : r.attempt <= Now /\ r.attempt \in Nat
      /\ Pieces' = Pieces
  BY UploadAssumption DEF Offer, UploadInv, UploadTypeOK, Sent, bothFiles, Req, Attempts, Pieces
<1>2. /\ tab' \in UploadTab /\ Now' = Now + 1 /\ Now \in Nat /\ tab'.pc = "sending"
      /\ tab'.next = tab.next /\ tab'.done = tab.done
  <2>1. tab.attempt + 1 \in 0 .. MaxAttempts /\ tab.attempt \in Nat
    BY <1>1 DEF Offer, UploadTab, Now
  <2>2. QED  BY <1>1, <2>1 DEF Offer, UploadTab, Now
<1>3. \A r \in reqs : r.attempt # Now'
  BY <1>1, <1>2
<1>4. UploadTypeOK'
  BY <1>1, <1>2 DEF UploadInv, UploadTypeOK
<1>5. Sent'
  BY <1>1, <1>2, <1>3 DEF Sent
<1>6. Handled' /\ SentOnce' /\ CompletesAlone' /\ Filled'
  BY <1>1, <1>2, <1>3 DEF UploadInv, Handled, SentOnce, CompletesAlone, Filled, Complete
<1>7. tab.next = 1
  BY DEF Offer, UploadInv, Rested
<1>8. ~crossed => Progress' /\ NoChunkIsLost' /\ SingleIsPlaced' /\ TargetIsSafe'
  BY <1>1, <1>2, <1>3, <1>7 DEF UploadInv, Progress, NoChunkIsLost, ChunksOnTheirWay, SingleIsPlaced, TargetIsSafe
<1>9. Rested'
  BY <1>1, <1>2 DEF UploadInv, Rested
<1>10. QED  BY <1>1, <1>4, <1>5, <1>6, <1>8, <1>9 DEF UploadInv

LEMMA SendKeeps ==
  ASSUME UploadInv, Send
  PROVE  UploadInv'
<1>0. PICK f : f = Fresh(tab.next)
  OBVIOUS
<1>1. /\ tab \in UploadTab /\ UNCHANGED <<chunked, leased, temp, target, crossed>>
      /\ reqs' = reqs \cup {f} /\ tab.pc = "sending" /\ tab.next \in Pieces
      /\ Now' = Now /\ Pieces' = Pieces
      /\ tab' = [tab EXCEPT !.next = @ + 1]
  BY <1>0 DEF Send, Sends, Fresh, UploadInv, UploadTypeOK, bothFiles, UploadTab, Now, Pieces
<1>2. Pieces \subseteq 1 .. N /\ (~chunked => Pieces = {1})
  BY Numbers DEF Pieces
<1>3. tab.next \in 1 .. N /\ tab.next \in Units /\ tab.next # Complete /\ tab.next + 1 \in 1 .. N + 1
  BY <1>1, <1>2, Numbers DEF Units, Complete
<1>4. /\ f \in Req /\ f.attempt = Now /\ f.unit = tab.next /\ f.pc = "sent" /\ f.at = "gone"
      /\ f.done = 0 /\ f.heard = FALSE
  BY <1>0, <1>1, <1>3, FreshIsRequest DEF Fresh
<1>5. /\ tab' \in UploadTab /\ tab'.pc = "sending" /\ tab'.next = tab.next + 1
      /\ tab'.done = tab.done /\ tab'.stopped = tab.stopped
  BY <1>1, <1>3 DEF UploadTab
<1>6. \A r \in reqs : r.attempt = Now => r.unit < tab.next /\ r.unit \in Nat /\ r.unit # Complete
  BY <1>1, <1>2, Numbers DEF UploadInv, Sent
<1>7. UploadTypeOK'
  BY <1>1, <1>4, <1>5 DEF UploadInv, UploadTypeOK
<1>8. Sent'
  <2>1. ASSUME NEW r \in reqs'
        PROVE  /\ r.attempt <= Now
               /\ r.attempt = Now => r.unit < tab.next + 1 /\ r.unit \in Pieces
               /\ r.attempt = Now /\ r.heard => tab.stopped
    <3>1. CASE r = f
      <4>1. Now <= Now /\ tab.next < tab.next + 1
        BY <1>3 DEF Now, UploadInv, UploadTypeOK, UploadTab
      <4>2. QED  BY <1>1, <1>4, <3>1, <4>1
    <3>2. CASE r \in reqs
      <4>1. /\ r.attempt <= Now /\ (r.attempt = Now => r.unit \in Pieces)
            /\ r.attempt = Now /\ r.heard => tab.stopped
        BY <1>1, <3>2 DEF UploadInv, Sent
      <4>2. r.attempt = Now => r.unit < tab.next + 1
        BY <1>3, <1>6, <3>2
      <4>3. QED  BY <4>1, <4>2
    <3>3. QED  BY <1>1, <3>1, <3>2
  <2>2. Now >= 1
    BY <1>1 DEF UploadInv, Sent
  <2>3. QED  BY <1>1, <1>5, <2>1, <2>2 DEF Sent
<1>9. Handled'
  BY <1>1, <1>2, <1>3, <1>4 DEF UploadInv, Handled, Complete
<1>10. SentOnce'
  BY <1>1, <1>3, <1>4, <1>6 DEF UploadInv, SentOnce
<1>11. CompletesAlone' /\ Filled' /\ Rested'
  <2>1. CompletesAlone' /\ Filled'
    BY <1>1, <1>3, <1>4, <1>5, <1>6 DEF UploadInv, CompletesAlone, Filled, Complete
  <2>2. ~chunked => tab.next = 1
    BY <1>1, <1>2
  <2>3. Rested'
    BY <1>1, <1>5, <2>2 DEF Rested
  <2>4. QED  BY <2>1, <2>3
<1>12. ASSUME ~crossed
       PROVE  Progress' /\ NoChunkIsLost' /\ SingleIsPlaced' /\ TargetIsSafe'
  <2>1. Progress'
    <3>1. Holds(f)'
      BY <1>1, <1>3, <1>4 DEF Holds, Complete
    <3>2. \A r \in reqs : Holds(r) => Holds(r)'
      BY <1>1 DEF Holds, Complete
    <3>3. QED  BY <1>1, <1>12, <3>1, <3>2 DEF UploadInv, Progress
  <2>2. NoChunkIsLost'
    <3> SUFFICES ASSUME chunked, ~tab.stopped
                 PROVE  AChunkFailed' \/ ChunksOnTheirWay'
      BY <1>1, <1>5 DEF NoChunkIsLost
    <3>1. AChunkFailed => AChunkFailed'
      BY <1>1 DEF AChunkFailed
    <3>2. \A n \in 1 .. N : n < tab.next + 1 <=> n < tab.next \/ n = tab.next
      BY <1>3
    <3>3. ASSUME ChunksOnTheirWay
          PROVE  ChunksOnTheirWay'
      BY <1>1, <1>4, <1>5, <3>2, <3>3 DEF ChunksOnTheirWay
    <3>4. QED  BY <1>1, <1>12, <3>1, <3>3 DEF UploadInv, NoChunkIsLost
  <2>3. SingleIsPlaced' /\ TargetIsSafe'
    BY <1>1, <1>4, <1>5, <1>12 DEF UploadInv, SingleIsPlaced, TargetIsSafe
  <2>4. QED  BY <2>1, <2>2, <2>3
<1>13. QED  BY <1>1, <1>7, <1>8, <1>9, <1>10, <1>11, <1>12 DEF UploadInv

LEMMA HearOkKeeps ==
  ASSUME UploadInv, NEW r \in Pending, HearOk(r)
  PROVE  UploadInv'
<1>1. /\ UNCHANGED <<chunked, leased, temp, target, crossed, tab>> /\ Now' = Now /\ Pieces' = Pieces
      /\ reqs' = reqs \ {r} /\ r \in reqs /\ r.pc = "ok" /\ r.attempt = Now
  BY DEF HearOk, bothFiles, Now, Pieces, Pending
<1>2. UploadTypeOK' /\ Sent' /\ Rested' /\ Handled' /\ SentOnce' /\ CompletesAlone' /\ Filled'
  BY <1>1 DEF UploadInv, UploadTypeOK, Sent, Rested, Handled, SentOnce, CompletesAlone, Filled, Complete
<1>3. ASSUME ~crossed
      PROVE  Progress' /\ NoChunkIsLost' /\ SingleIsPlaced' /\ TargetIsSafe'
  <2>1. Progress'
    BY <1>1, <1>3 DEF UploadInv, Progress, Holds, Complete
  <2>2. NoChunkIsLost'
    <3>1. AChunkFailed => AChunkFailed'
      BY <1>1 DEF AChunkFailed
    <3>2. ChunksOnTheirWay => ChunksOnTheirWay'
      BY <1>1 DEF ChunksOnTheirWay
    <3>3. QED  BY <1>1, <1>3, <3>1, <3>2 DEF UploadInv, NoChunkIsLost
  <2>3. SingleIsPlaced'
    BY <1>1, <1>3 DEF UploadInv, SingleIsPlaced, Progress, Holds
  <2>4. TargetIsSafe'
    BY <1>1, <1>3 DEF UploadInv, TargetIsSafe
  <2>5. QED  BY <2>1, <2>2, <2>3, <2>4
<1>4. QED  BY <1>1, <1>2, <1>3 DEF UploadInv

(* The tab lets go of its requests: it has stopped, or ends.                 *)
Heard(r) == [r EXCEPT !.heard = TRUE]

LEMMA Aborted ==
  ASSUME reqs \subseteq Req, Abort
  PROVE  \A q \in reqs' : \E p \in reqs :
           /\ q = IF p \in Pending THEN Heard(p) ELSE p
           /\ q \in Req /\ q.attempt = p.attempt /\ q.unit = p.unit /\ q.pc = p.pc
           /\ q.at = p.at /\ q.done = p.done
<1>1. \A q \in reqs' : q \in reqs \ Pending \/ \E p \in Pending : q = Heard(p)
  BY Remembered DEF Abort, Heard
<1>2. \A p \in Req : /\ Heard(p) \in Req /\ Heard(p).attempt = p.attempt /\ Heard(p).unit = p.unit
                     /\ Heard(p).pc = p.pc /\ Heard(p).at = p.at /\ Heard(p).done = p.done
  BY DEF Heard, Req
<1>3. Pending \subseteq reqs
  BY DEF Pending
<1>4. QED  BY <1>1, <1>2, <1>3

LEMMA AbortKeeps ==
  ASSUME UploadInv, Abort, UNCHANGED <<chunked, leased, temp, target, crossed>>, Now >= 1,
         tab' \in UploadTab, Now' = Now, tab'.pc \in {tab.pc, "ending"},
         tab'.pc \in {"sending", "placing"} => tab'.stopped /\ tab'.next = tab.next,
         tab'.pc = "ending" => tab'.next = 1 /\ ~tab'.stopped,
         tab'.pc # "idle",
         tab'.done /\ ~crossed => target = WholeFile
  PROVE  UploadInv'
<1>1. \A q \in reqs' : \E p \in reqs :
           /\ q = IF p \in Pending THEN Heard(p) ELSE p
           /\ q \in Req /\ q.attempt = p.attempt /\ q.unit = p.unit /\ q.pc = p.pc
           /\ q.at = p.at /\ q.done = p.done
  BY Aborted DEF UploadInv, UploadTypeOK
<1>2. Pieces' = Pieces
  BY DEF Pieces
<1>3. UploadTypeOK' /\ Filled'
  BY <1>1 DEF UploadInv, UploadTypeOK, Filled
<1>4. Sent' /\ Rested'
  <2>1. Rested'
    BY DEF UploadInv, Rested, UploadTab
  <2>2. tab'.pc = "placing" => tab.pc = "placing"
    OBVIOUS
  <2>3. QED  BY <1>1, <1>2, <2>1, <2>2 DEF UploadInv, Sent, Complete
<1>5. Handled' /\ CompletesAlone'
  BY <1>1 DEF UploadInv, Handled, CompletesAlone, Complete
<1>6. SentOnce'
  BY <1>1 DEF UploadInv, SentOnce
<1>7. ASSUME ~crossed
      PROVE  Progress' /\ NoChunkIsLost' /\ SingleIsPlaced' /\ TargetIsSafe'
  <2>1. Progress'
    BY <1>1, <1>7 DEF UploadInv, Progress, Holds, Complete
  <2>2. NoChunkIsLost' /\ SingleIsPlaced'
    BY DEF NoChunkIsLost, SingleIsPlaced
  <2>3. TargetIsSafe'
    BY <1>1, <1>7 DEF UploadInv, TargetIsSafe
  <2>4. QED  BY <2>1, <2>2, <2>3
<1>8. QED  BY <1>3, <1>4, <1>5, <1>6, <1>7 DEF UploadInv

LEMMA HearErrorKeeps ==
  ASSUME UploadInv, NEW r \in Pending, HearError(r)
  PROVE  UploadInv'
<1>1. /\ tab \in UploadTab /\ tab.pc = "sending" /\ Now >= 1 /\ Abort
      /\ UNCHANGED <<chunked, leased, temp, target, crossed>>
      /\ ~crossed => (tab.done => target = WholeFile)
  BY DEF HearError, UploadInv, UploadTypeOK, Sent, bothFiles, TargetIsSafe
<1>2. /\ tab' \in UploadTab /\ tab'.pc = tab.pc /\ tab'.stopped /\ tab'.next = tab.next
      /\ tab'.done = tab.done /\ Now' = Now
  BY <1>1 DEF HearError, UploadTab, Now
<1>3. QED  BY <1>1, <1>2, AbortKeeps

(* The requests stay as they are, and the tab does not send.                 *)
LEMMA RequestsStay ==
  ASSUME UploadInv, UNCHANGED <<chunked, temp, target, crossed, reqs>>, leased' \in BOOLEAN,
         tab' \in UploadTab, Now' = Now, tab'.pc # "idle" => Now >= 1,
         \/ tab'.pc = "placing" /\ tab.pc = "placing" /\ tab'.stopped
         \/ tab'.pc \in {"ending", "idle"} /\ tab'.next = 1 /\ ~tab'.stopped
         \/ tab' = tab,
         tab'.done /\ ~crossed => target = WholeFile
  PROVE  UploadInv'
<1>1. Pieces' = Pieces /\ Complete' = Complete
  BY DEF Pieces, Complete
<1>2. UploadTypeOK' /\ Filled' /\ Handled' /\ SentOnce' /\ CompletesAlone'
  BY <1>1 DEF UploadInv, UploadTypeOK, Filled, Handled, SentOnce, CompletesAlone
<1>3. Sent' /\ Rested'
  BY <1>1 DEF UploadInv, Sent, Rested
<1>4. ASSUME ~crossed
      PROVE  Progress' /\ NoChunkIsLost' /\ SingleIsPlaced' /\ TargetIsSafe'
  <2>1. Progress' /\ TargetIsSafe'
    BY <1>1, <1>4 DEF UploadInv, Progress, Holds, TargetIsSafe
  <2>2. NoChunkIsLost'
    BY <1>4 DEF UploadInv, NoChunkIsLost, AChunkFailed, ChunksOnTheirWay
  <2>3. SingleIsPlaced'
    BY <1>4 DEF UploadInv, SingleIsPlaced
  <2>4. QED  BY <2>1, <2>2, <2>3
<1>5. QED  BY <1>2, <1>3, <1>4 DEF UploadInv

LEMMA Shown ==
  ASSUME tab \in UploadTab, NEW ok \in BOOLEAN, Shows(ok)
  PROVE  /\ tab' \in UploadTab /\ tab'.pc = "ending" /\ tab'.next = 1 /\ ~tab'.stopped
         /\ Now' = Now /\ (tab'.done => ok /\ ~tab.stopped)
<1>1. 1 \in 1 .. N + 1
  BY Numbers
<1>2. (ok /\ ~tab.stopped) \in BOOLEAN
  OBVIOUS
<1>3. QED  BY <1>1, <1>2 DEF Shows, UploadTab, Now

LEMMA CancelKeeps ==
  ASSUME UploadInv, Cancel
  PROVE  UploadInv'
<1>1. /\ tab \in UploadTab /\ tab.pc \in {"sending", "placing"} /\ Now >= 1
      /\ UNCHANGED <<chunked, leased, temp, target, crossed>> /\ leased' \in BOOLEAN
      /\ ~crossed => (tab.done => target = WholeFile)
  BY DEF Cancel, UploadInv, UploadTypeOK, Sent, bothFiles, TargetIsSafe
<1>2. /\ tab' \in UploadTab /\ tab'.pc = tab.pc /\ tab'.stopped /\ tab'.next = tab.next
      /\ tab'.done = tab.done /\ Now' = Now
  BY <1>1 DEF Cancel, UploadTab, Now
<1>3. CASE tab.pc = "sending"
  <2>1. Abort
    BY <1>3 DEF Cancel
  <2>2. QED  BY <1>1, <1>2, <2>1, AbortKeeps
<1>4. CASE tab.pc = "placing"
  <2>1. UNCHANGED reqs
    BY <1>4 DEF Cancel
  <2>2. QED  BY <1>1, <1>2, <1>4, <2>1, RequestsStay
<1>5. QED  BY <1>1, <1>3, <1>4

(* Nothing is left to hear: the upload is completed, or shown.               *)
LEMMA SettleKeeps ==
  ASSUME UploadInv, Settle
  PROVE  UploadInv'
<1>1. /\ tab \in UploadTab /\ tab.pc = "sending" /\ Now >= 1 /\ leased' \in BOOLEAN
      /\ UNCHANGED <<chunked, leased, temp, target, crossed>>
      /\ Pending = {} /\ (tab.stopped \/ tab.next \notin Pieces)
      /\ tab.next \in 1 .. N + 1
  BY DEF Settle, UploadInv, UploadTypeOK, Sent, bothFiles, UploadTab
<1>2. ~tab.stopped => \A r \in reqs : r.attempt # Now
  BY <1>1 DEF UploadInv, Sent, Pending
<1>3. CASE tab.stopped \/ ~chunked
  <2>1. Shows(TRUE) /\ UNCHANGED reqs
    BY <1>3 DEF Settle
  <2>2. /\ tab' \in UploadTab /\ tab'.pc = "ending" /\ tab'.next = 1 /\ ~tab'.stopped
        /\ Now' = Now /\ (tab'.done => ~tab.stopped)
    BY <1>1, <2>1, Shown
  <2>3. ASSUME ~crossed, ~tab.stopped
        PROVE  target = WholeFile
    <3>1. ~chunked /\ tab.next # 1
      BY <1>1, <1>3, <2>3 DEF Pieces
    <3>2. tab.next = 2
      <4>1. CASE N = 1
        BY <1>1, <3>1, <4>1
      <4>2. CASE N # 1
        BY <1>1, <3>1 DEF UploadInv, Rested
      <4>3. QED  BY <4>1, <4>2
    <3>3. QED  BY <1>1, <1>2, <2>3, <3>1, <3>2 DEF UploadInv, SingleIsPlaced
  <2>4. QED  BY <1>1, <2>1, <2>2, <2>3, RequestsStay
<1>4. CASE ~tab.stopped /\ chunked
  <2>1. PICK f : f = Fresh(Complete)
    OBVIOUS
  <2>2. reqs' = reqs \cup {f} /\ tab' = [tab EXCEPT !.pc = "placing"]
    BY <1>4, <2>1 DEF Settle, Sends, Fresh
  <2>3. /\ f \in Req /\ f.attempt = Now /\ f.unit = Complete /\ f.pc = "sent" /\ f.at = "gone"
        /\ f.done = 0 /\ f.heard = FALSE
    BY <1>1, <2>1, Numbers, FreshIsRequest DEF Fresh
  <2>4. /\ tab' \in UploadTab /\ tab'.pc = "placing" /\ tab'.next = tab.next
        /\ tab'.done = tab.done /\ tab'.stopped = tab.stopped /\ Now' = Now
    BY <1>1, <2>2 DEF UploadTab, Now
  <2>5. UploadTypeOK' /\ Filled'
    BY <1>1, <2>2, <2>3, <2>4 DEF UploadInv, UploadTypeOK, Filled
  <2>6. Sent' /\ Rested'
    <3>1. Now <= Now
      BY <1>1 DEF UploadTab, Now
    <3>2. QED  BY <1>1, <1>2, <1>4, <2>2, <2>3, <2>4, <3>1 DEF UploadInv, Sent, Rested, Complete
  <2>7. Handled' /\ SentOnce' /\ CompletesAlone'
    BY <1>1, <1>2, <1>4, <2>2, <2>3, <2>4 DEF UploadInv, Handled, SentOnce, CompletesAlone, Complete
  <2>8. ASSUME ~crossed
        PROVE  Progress' /\ NoChunkIsLost' /\ SingleIsPlaced' /\ TargetIsSafe'
    <3>1. temp.written = 1 .. N
      <4>1. \A n \in 1 .. N : n < tab.next
        BY <1>1, <1>4, Numbers DEF Pieces
      <4>2. ~AChunkFailed
        BY <1>2, <1>4 DEF AChunkFailed
      <4>3. 1 .. N \subseteq temp.written
        BY <1>1, <1>2, <1>4, <2>8, <4>1, <4>2 DEF UploadInv, NoChunkIsLost, ChunksOnTheirWay
      <4>4. QED  BY <4>3, FileFacts DEF UploadInv, UploadTypeOK
    <3>2. Holds(f)'
      BY <1>1, <1>4, <2>3, <3>1 DEF Holds
    <3>3. Progress'
      BY <1>2, <1>4, <2>2, <2>4, <3>2 DEF Progress
    <3>4. NoChunkIsLost' /\ SingleIsPlaced'
      BY <2>4 DEF NoChunkIsLost, SingleIsPlaced
    <3>5. TargetIsSafe'
      BY <1>1, <2>2, <2>3, <2>4, <2>8 DEF UploadInv, TargetIsSafe
    <3>6. QED  BY <3>2, <3>3, <3>4, <3>5
  <2>9. QED  BY <1>1, <2>5, <2>6, <2>7, <2>8 DEF UploadInv
<1>5. QED  BY <1>3, <1>4

LEMMA HearPlacedKeeps ==
  ASSUME UploadInv, HearPlaced
  PROVE  UploadInv'
<1>1. /\ tab \in UploadTab /\ tab.pc = "placing" /\ Now >= 1 /\ Abort
      /\ UNCHANGED <<chunked, leased, temp, target, crossed>>
  BY DEF HearPlaced, UploadInv, UploadTypeOK, Sent, bothFiles
<1>2. \/ Shows(FALSE)
      \/ Shows(TRUE) /\ \E r \in Pending : r.pc = "ok"
  BY DEF HearPlaced
<1>3. /\ tab' \in UploadTab /\ tab'.pc = "ending" /\ tab'.next = 1 /\ ~tab'.stopped /\ Now' = Now
      /\ tab'.done => \E r \in Pending : r.pc = "ok"
  BY <1>1, <1>2, Shown
<1>4. ASSUME ~crossed, NEW r \in Pending, r.pc = "ok"
      PROVE  target = WholeFile
  <2>1. r \in reqs /\ r.attempt = Now
    BY DEF Pending
  <2>2. r.unit = Complete
    BY <1>1, <2>1 DEF UploadInv, Sent
  <2>3. QED  BY <1>4, <2>1, <2>2 DEF UploadInv, Progress, Holds
<1>5. QED  BY <1>1, <1>3, <1>4, AbortKeeps

LEMMA ReportKeeps ==
  ASSUME UploadInv, Report \/ Retire
  PROVE  UploadInv'
<1>1. /\ tab \in UploadTab /\ leased \in BOOLEAN /\ (tab.pc # "idle" => Now >= 1)
      /\ UNCHANGED <<chunked, temp, target, reqs, crossed>>
      /\ ~crossed => (tab.done => target = WholeFile)
      /\ tab.pc \in {"idle", "ending"} => tab.next = 1 /\ ~tab.stopped
  BY DEF Report, Retire, UploadInv, UploadTypeOK, Sent, bothFiles, TargetIsSafe, Rested
<1>2. CASE Report
  <2>1. /\ tab' \in UploadTab /\ tab'.pc = "idle" /\ tab'.next = tab.next /\ tab'.stopped = tab.stopped
        /\ tab'.done = tab.done /\ Now' = Now /\ tab.pc = "ending"
    BY <1>1, <1>2 DEF Report, UploadTab, Now
  <2>2. leased' \in BOOLEAN
    BY <1>1, <1>2 DEF Report
  <2>3. QED  BY <1>1, <2>1, <2>2, RequestsStay
<1>3. CASE Retire
  <2>1. tab' = tab /\ Now' = Now /\ leased' \in BOOLEAN
    BY <1>3 DEF Retire, Now
  <2>2. QED  BY <1>1, <2>1, RequestsStay
<1>4. QED  BY <1>2, <1>3

-----------------------------------------------------------------------------
(* The theorems.                                                            *)

LEMMA UploadStarts == UploadInit => UploadInv
<1> SUFFICES ASSUME UploadInit
             PROVE  UploadInv
  OBVIOUS
<1>1. NoFile \in UploadFile /\ [NoFile EXCEPT !.there = TRUE] \in UploadFile
      /\ NoFile.size = 0 /\ [NoFile EXCEPT !.there = TRUE].size = 0 /\ NoFile.written = {}
  <2>1. 0 \in 0 .. N /\ NoFile \in UploadFile /\ NoFile.size = 0 /\ NoFile.written = {}
    BY Numbers, NoFileFits
  <2>2. /\ [NoFile EXCEPT !.there = TRUE] \in UploadFile
        /\ [NoFile EXCEPT !.there = TRUE].size = NoFile.size
    BY <2>1 DEF UploadFile
  <2>3. QED  BY <2>1, <2>2
<1>2. /\ tab \in UploadTab /\ tab.pc = "idle" /\ tab.next = 1 /\ ~tab.stopped /\ ~tab.done
      /\ reqs = {} /\ target.size = 0
  <2>1. 0 \in 0 .. MaxAttempts /\ 1 \in 1 .. N + 1
    BY Numbers, UploadAssumption
  <2>2. tab \in UploadTab
    BY <2>1 DEF UploadInit, UploadTab
  <2>3. QED  BY <1>1, <2>2 DEF UploadInit
<1>3. UploadTypeOK
  BY <1>1, <1>2 DEF UploadInit, UploadTypeOK
<1>4. Sent /\ Rested /\ Handled /\ SentOnce /\ CompletesAlone
  BY <1>2 DEF Sent, Rested, Handled, SentOnce, CompletesAlone
<1>5. Filled
  BY <1>1 DEF UploadInit, Filled
<1>6. Progress /\ NoChunkIsLost /\ SingleIsPlaced /\ TargetIsSafe
  BY <1>2 DEF Progress, NoChunkIsLost, SingleIsPlaced, TargetIsSafe
<1>7. QED  BY <1>3, <1>4, <1>5, <1>6 DEF UploadInv

LEMMA UploadInvIsInductive == UploadInv /\ [UploadNext]_uploadVars => UploadInv'
<1> SUFFICES ASSUME UploadInv, [UploadNext]_uploadVars
             PROVE  UploadInv'
  OBVIOUS
<1>1. ASSUME NEW r \in reqs, UploadHandler(r)
      PROVE  UploadInv'
  BY <1>1, HandlerShape, HandlerKeeps DEF Shape, Promises, UploadInv
<1>2. CASE Client
  BY <1>2, OfferKeeps, SendKeeps, CancelKeeps, SettleKeeps, HearPlacedKeeps, ReportKeeps, HearOkKeeps,
     HearErrorKeeps DEF Client
<1>3. CASE Retire
  BY <1>3, ReportKeeps
<1>4. CASE UNCHANGED uploadVars
  <2>1. /\ UNCHANGED <<chunked, temp, target, crossed, reqs, tab>> /\ leased' = leased
        /\ Now' = Now
    BY <1>4 DEF uploadVars, Now
  <2>2. /\ tab \in UploadTab /\ leased \in BOOLEAN /\ (tab.pc # "idle" => Now >= 1)
        /\ ~crossed => (tab.done => target = WholeFile)
    BY DEF UploadInv, UploadTypeOK, Sent, TargetIsSafe
  <2>3. QED  BY <2>1, <2>2, RequestsStay
<1>5. QED  BY <1>1, <1>2, <1>3, <1>4 DEF UploadNext, Server

(* Every reachable state satisfies the invariant of uploads.                 *)
THEOREM UploadInvariant == UploadSpec => []UploadInv
<1>1. QED  BY UploadStarts, UploadInvIsInductive, PTL DEF UploadSpec

(* Every variable has the shape the code gives it.                          *)
THEOREM UploadTypeCorrect == UploadSpec => []UploadTypeOK
<1>1. UploadInv => UploadTypeOK
  BY DEF UploadInv
<1>2. QED  BY <1>1, UploadInvariant, PTL

(* What is at the final path is what was there or the whole new file, and an  *)
(* upload shown as done is there, whatever fails, is cancelled or lost, unless *)
(* a handler of an attempt given up crossed a later one (upload_handler,      *)
(* upload_complete_handler in transfer.c).                                   *)
THEOREM UploadsArrive == UploadSpec => []UploadArrives
<1>1. UploadInv => UploadArrives
  BY DEF UploadInv, UploadArrives, TargetIsWhole, SuccessIsPlaced, TargetIsSafe
<1>2. QED  BY <1>1, UploadInvariant, PTL

(* How far the body has come.  Its units are numbered from 1 to Size.        *)
Size == body.manifest + body.data
Received == IF feeder.pc = "none" THEN taken ELSE Size - feeder.left
Later(m, n) == IF m < n THEN n ELSE m

RarErrors ==
  {NoError, "cancelled", "manifest", "start", "generic", "other", "interrupted", "place"}

Feeders    == [pc : {"none", "run", "exit"}, todo : Seq(Nat), left : Nat]
RarPipes   == [units : Seq(Nat), done : BOOLEAN, failed : BOOLEAN]
Extractors ==
  [pc : {"manifest", "drainBody", "extract", "drain", "join", "ok", "unplaced", "failed"},
   left : Nat, fed : Seq(Nat), files : BOOLEAN, err : RarErrors]

(* RarUpload: the inductive invariant.  What was read, what is in the pipe,    *)
(* what waits in the buffer and what is on the wire follow each other.       *)
RarShape ==
  /\ body \in RarBodies /\ taken \in 0 .. Size /\ rarCancel \in BOOLEAN /\ connected \in BOOLEAN
  /\ feeder \in Feeders
  /\ queue \in RarPipes
  /\ extractor \in Extractors
  /\ wire \in Seq(Nat) /\ buffered = Upto(0, Len(buffered)) /\ Len(buffered) \in 0 .. Size
WireFollows ==
  feeder.pc # "exit" => \E e \in 0 .. Size : wire = Upto(Later(Received, Len(buffered)), e)
BeforeFeeder ==
  feeder.pc = "none" =>
    /\ extractor.pc \in {"manifest", "drainBody", "failed"} /\ extractor.fed = <<>>
    /\ queue.units = <<>>
    /\ extractor.pc = "manifest" => taken <= body.manifest
SinceFeeder ==
  feeder.pc # "none" =>
    /\ body.claim = body.data /\ extractor.pc \notin {"manifest", "drainBody"}
    /\ feeder.left \in 0 .. extractor.left /\ extractor.left \in 0 .. body.data
    /\ extractor.fed = Upto(body.manifest, Size - extractor.left)
    /\ queue.units = Upto(Size - extractor.left, Size - feeder.left)
    /\ feeder.pc = "run" => feeder.todo = Upto(Size - feeder.left, Len(buffered))
    /\ extractor.pc \in {"join", "ok"} => extractor.left = 0
RarInv == RarShape /\ WireFollows /\ BeforeFeeder /\ SinceFeeder

-----------------------------------------------------------------------------
(* Runs of numbers.                                                          *)
LEMMA UptoIsSeq ==
  ASSUME NEW m \in Nat, NEW n \in Nat
  PROVE  /\ Upto(m, n) \in Seq(Nat)
         /\ Len(Upto(m, n)) = IF m < n THEN n - m ELSE 0
         /\ \A i \in 1 .. (n - m) : Upto(m, n)[i] = m + i
         /\ Upto(m, n) = <<>> <=> n <= m
<1>1. CASE m < n
  <2>1. n - m \in Nat /\ n - m > 0
    BY <1>1
  <2>2. Upto(m, n) \in [1 .. (n - m) -> Nat]
    BY DEF Upto
  <2>3. Upto(m, n) \in Seq(Nat) /\ Len(Upto(m, n)) = n - m
    BY <2>1, <2>2
  <2> QED  BY <1>1, <2>1, <2>3 DEF Upto
<1>2. CASE n <= m
  <2>1. 1 .. (n - m) = {}
    BY <1>2
  <2>2. Upto(m, n) = <<>>
    BY <2>1 DEF Upto
  <2> QED  BY <1>2, <2>1, <2>2
<1> QED  BY <1>1, <1>2

LEMMA UptoTail ==
  ASSUME NEW m \in Nat, NEW n \in Nat, m < n
  PROVE  Head(Upto(m, n)) = m + 1 /\ Tail(Upto(m, n)) = Upto(m + 1, n)
<1>1. Upto(m, n) \in Seq(Nat) /\ Len(Upto(m, n)) = n - m /\ \A i \in 1 .. (n - m) : Upto(m, n)[i] = m + i
  BY UptoIsSeq
<1>2. Upto(m + 1, n) \in Seq(Nat) /\ Len(Upto(m + 1, n)) = n - (m + 1)
      /\ \A i \in 1 .. (n - (m + 1)) : Upto(m + 1, n)[i] = (m + 1) + i
  BY UptoIsSeq
<1>3. Tail(Upto(m, n)) \in Seq(Nat) /\ Len(Tail(Upto(m, n))) = n - (m + 1)
      /\ \A i \in 1 .. (n - (m + 1)) : Tail(Upto(m, n))[i] = Upto(m, n)[i + 1]
  BY <1>1
<1>4. \A i \in 1 .. (n - (m + 1)) : Tail(Upto(m, n))[i] = Upto(m + 1, n)[i]
  BY <1>1, <1>2, <1>3
<1>5. Tail(Upto(m, n)) = Upto(m + 1, n)
  BY <1>2, <1>3, <1>4, SeqEqual
<1> QED  BY <1>1, <1>5

LEMMA UptoGrows ==
  ASSUME NEW m \in Nat, NEW n \in Nat, m <= n
  PROVE  Append(Upto(m, n), n + 1) = Upto(m, n + 1)
<1>1. Upto(m, n) \in Seq(Nat) /\ Len(Upto(m, n)) = n - m /\ \A i \in 1 .. (n - m) : Upto(m, n)[i] = m + i
  BY UptoIsSeq
<1>2. Upto(m, n + 1) \in Seq(Nat) /\ Len(Upto(m, n + 1)) = (n - m) + 1
      /\ \A i \in 1 .. ((n - m) + 1) : Upto(m, n + 1)[i] = m + i
  BY UptoIsSeq
<1>3. Append(Upto(m, n), n + 1) \in Seq(Nat) /\ Len(Append(Upto(m, n), n + 1)) = (n - m) + 1
      /\ \A i \in 1 .. ((n - m) + 1) :
           Append(Upto(m, n), n + 1)[i] = IF i = (n - m) + 1 THEN n + 1 ELSE Upto(m, n)[i]
  <2> DEFINE s == Upto(m, n)
  <2>1. s \in Seq(Nat) /\ Len(s) = n - m /\ n + 1 \in Nat
    BY <1>1
  <2> HIDE DEF s
  <2>2. /\ Append(s, n + 1) \in Seq(Nat) /\ Len(Append(s, n + 1)) = (n - m) + 1
        /\ \A i \in 1 .. ((n - m) + 1) : Append(s, n + 1)[i] = IF i = (n - m) + 1 THEN n + 1 ELSE s[i]
    <3>1. /\ Append(s, n + 1) \in Seq(Nat) /\ Len(Append(s, n + 1)) = Len(s) + 1
          /\ \A i \in 1 .. Len(s) : Append(s, n + 1)[i] = s[i]
          /\ Append(s, n + 1)[Len(s) + 1] = n + 1
      BY <2>1, AppendProperties
    <3>2. QED  BY <2>1, <3>1
  <2> QED  BY <2>2 DEF s
<1>4. ASSUME NEW i \in 1 .. ((n - m) + 1)
      PROVE  Append(Upto(m, n), n + 1)[i] = Upto(m, n + 1)[i]
  <2>1. Upto(m, n + 1)[i] = m + i
    BY <1>2
  <2>2. CASE i = (n - m) + 1
    <3>1. Append(Upto(m, n), n + 1)[i] = n + 1
      BY <1>3, <2>2
    <3>2. m + i = n + 1
      BY <2>2
    <3>3. QED  BY <2>1, <3>1, <3>2
  <2>3. CASE i # (n - m) + 1
    <3>1. Append(Upto(m, n), n + 1)[i] = Upto(m, n)[i]
      BY <1>3, <2>3
    <3>2. i \in 1 .. (n - m)
      BY <2>3
    <3>3. QED  BY <1>1, <2>1, <3>1, <3>2
  <2>4. QED  BY <2>2, <2>3
<1> QED  BY <1>2, <1>3, <1>4, SeqEqual

LEMMA UptoPart ==
  ASSUME NEW m \in Nat, NEW n \in Nat, NEW i \in Nat, NEW j \in Nat, j <= Len(Upto(m, n))
  PROVE  SubSeq(Upto(m, n), i + 1, j) = Upto(m + i, m + j)
<1>1. Upto(m, n) \in Seq(Nat) /\ Len(Upto(m, n)) = (IF m < n THEN n - m ELSE 0)
      /\ \A x \in 1 .. (n - m) : Upto(m, n)[x] = m + x
  BY UptoIsSeq
<1>2. Upto(m + i, m + j) \in Seq(Nat) /\ Len(Upto(m + i, m + j)) = (IF i < j THEN j - i ELSE 0)
      /\ \A x \in 1 .. (j - i) : Upto(m + i, m + j)[x] = (m + i) + x
  <2>1. m + i \in Nat /\ m + j \in Nat /\ (m + j) - (m + i) = j - i /\ (m + i < m + j <=> i < j)
    OBVIOUS
  <2> QED  BY <2>1, UptoIsSeq
<1>3. SubSeq(Upto(m, n), i + 1, j) \in Seq(Nat)
      /\ Len(SubSeq(Upto(m, n), i + 1, j)) = (IF i < j THEN j - i ELSE 0)
      /\ \A x \in 1 .. (j - i) : SubSeq(Upto(m, n), i + 1, j)[x] = Upto(m, n)[i + x]
  <2>1. \A x \in (i + 1) .. j : Upto(m, n)[x] \in Nat
    BY <1>1
  <2> QED  BY <1>1, <2>1
<1>4. \A x \in 1 .. Len(Upto(m + i, m + j)) : SubSeq(Upto(m, n), i + 1, j)[x] = Upto(m + i, m + j)[x]
  <2> SUFFICES ASSUME NEW x \in 1 .. Len(Upto(m + i, m + j))
               PROVE  SubSeq(Upto(m, n), i + 1, j)[x] = Upto(m + i, m + j)[x]
    OBVIOUS
  <2>1. i < j /\ x \in 1 .. (j - i)
    BY <1>2
  <2>2. i + x \in 1 .. (n - m)
    BY <1>1, <2>1
  <2>3. Upto(m, n)[i + x] = m + (i + x)
    BY <1>1, <2>2
  <2> QED  BY <1>2, <1>3, <2>1, <2>3
<1> QED  BY <1>2, <1>3, <1>4, SeqEqual

LEMMA UptoStart ==
  ASSUME NEW m \in Nat, NEW n \in Nat, NEW j \in Nat, j <= Len(Upto(m, n))
  PROVE  SubSeq(Upto(m, n), 1, j) = Upto(m, m + j)
<1> DEFINE i == 0
<1>1. i \in Nat /\ i + 1 = 1 /\ m + i = m
  OBVIOUS
<1> HIDE DEF i
<1>2. \A k \in Nat : SubSeq(Upto(m, n), k + 1, j) = Upto(m + k, m + j)
  <2> TAKE k \in Nat
  <2> QED  BY ZenonT(60), UptoPart
<1>3. SubSeq(Upto(m, n), i + 1, j) = Upto(m + i, m + j)
  BY Zenon, <1>1, <1>2
<1> QED  BY Zenon, <1>1, <1>3

-----------------------------------------------------------------------------
(* Steps.                                                                    *)
LEMMA Sizes ==
  ASSUME RarShape
  PROVE  /\ body.manifest \in Nat /\ body.data \in Nat /\ body.claim \in Nat /\ Size \in Nat
         /\ Size - body.manifest = body.data /\ Remaining = Size - taken
  BY RarAssumption DEF RarShape, Size, Remaining

LEMMA RarStarts == RarInit => RarInv
<1> SUFFICES ASSUME RarInit PROVE RarInv
  OBVIOUS
<1>1. body \in RarBodies /\ body.manifest \in Nat /\ body.data \in Nat /\ Size \in Nat
  BY RarAssumption DEF RarInit, Size
<1>2. PICK k \in 0 .. Size : buffered = Upto(0, k) /\ wire = Upto(k, Size)
  BY <1>1 DEF RarInit, AllUnits, Size
<1>3. Len(buffered) = k /\ wire \in Seq(Nat)
  <2>1. k \in Nat /\ 0 \in Nat /\ (0 < k => k - 0 = k) /\ (~(0 < k) => k = 0)
    BY <1>1
  <2> QED  BY <1>1, <1>2, <2>1, UptoIsSeq
<1>4. taken = 0 /\ feeder = NoFeeder /\ queue = NoQueue /\ connected = TRUE /\ rarCancel = FALSE
      /\ extractor = [pc |-> "manifest", left |-> 0, fed |-> <<>>, files |-> FALSE, err |-> NoError]
  BY DEF RarInit
<1>5. RarShape
  <2>1. feeder \in Feeders
        /\ queue \in RarPipes
    BY <1>4 DEF NoFeeder, NoQueue, Feeders, RarPipes
  <2>2. extractor \in Extractors
    BY <1>4 DEF RarErrors, Extractors
  <2>3. taken \in 0 .. Size /\ connected \in BOOLEAN /\ rarCancel \in BOOLEAN
    <3>1. taken \in 0 .. Size
      BY <1>1, <1>4
    <3>2. connected \in BOOLEAN /\ rarCancel \in BOOLEAN
      BY <1>4
    <3> QED  BY <3>1, <3>2
  <2> QED  BY <1>1, <1>2, <1>3, <2>1, <2>2, <2>3 DEF RarShape
<1>6. WireFollows
  BY <1>1, <1>2, <1>3, <1>4 DEF WireFollows, Received, Later, NoFeeder
<1>7. BeforeFeeder /\ SinceFeeder
  BY <1>1, <1>4 DEF BeforeFeeder, SinceFeeder, NoFeeder, NoQueue
<1> QED  BY <1>5, <1>6, <1>7 DEF RarInv

(* A unit read takes the reader one further, and the wire if the buffer is    *)
(* used up.                                                                 *)
LEMMA UnitsFollow ==
  ASSUME RarInv, ReadUnit, feeder.pc = "none", UNCHANGED <<body, buffered, feeder>>
  PROVE  taken' = taken + 1 /\ taken < Size /\ wire' \in Seq(Nat) /\ WireFollows'
<1>1. taken \in Nat /\ Size \in Nat /\ taken < Size /\ taken' = taken + 1 /\ Len(buffered) \in Nat
      /\ Size' = Size
  BY Sizes DEF RarInv, RarShape, ReadUnit, Size
<1>2. PICK e \in 0 .. Size : wire = Upto(Later(taken, Len(buffered)), e)
  BY DEF RarInv, WireFollows, Received
<1>3. CASE taken < Len(buffered)
  <2>1. wire' = wire /\ Later(taken + 1, Len(buffered)) = Later(taken, Len(buffered))
    BY <1>1, <1>3 DEF ReadUnit, InBuffer, Later
  <2> QED  BY <1>1, <1>2, <2>1 DEF RarInv, RarShape, WireFollows, Received
<1>4. CASE ~(taken < Len(buffered))
  <2>1. Later(taken, Len(buffered)) = taken /\ Later(taken + 1, Len(buffered)) = taken + 1
    BY <1>1, <1>4 DEF Later
  <2>2. wire # <<>> /\ wire' = Tail(wire)
    BY <1>4 DEF ReadUnit, InBuffer
  <2>3. taken < e
    BY <1>1, <1>2, <2>1, <2>2, UptoIsSeq
  <2>4. wire' = Upto(taken + 1, e) /\ wire' \in Seq(Nat)
    <3>1. wire = Upto(taken, e) /\ e \in Nat /\ taken \in Nat /\ taken + 1 \in Nat
      BY <1>1, <1>2, <2>1
    <3>2. Tail(Upto(taken, e)) = Upto(taken + 1, e)
      BY <2>3, <3>1, UptoTail
    <3>3. Upto(taken + 1, e) \in Seq(Nat)
      BY <3>1, UptoIsSeq
    <3> QED  BY <2>2, <3>1, <3>2, <3>3
  <2> QED  BY <1>1, <2>1, <2>4 DEF WireFollows, Received
<1> QED  BY <1>1, <1>3, <1>4

LEMMA ManifestSteps ==
  ASSUME RarInv, ReadManifest \/ ManifestShort \/ StartFeeder \/ StartFails \/ DrainBody
  PROVE  RarInv'
<1> USE DEF KeepBody
<1>1. extractor.pc \in {"manifest", "drainBody"} /\ feeder.pc = "none"
  BY DEF RarInv, SinceFeeder, ReadManifest, ManifestShort, StartFeeder, StartFails, DrainBody
<1>2. body' = body /\ buffered' = buffered /\ rarCancel' = rarCancel /\ Size' = Size /\ queue' = queue
  BY DEF ReadManifest, ManifestShort, StartFeeder, StartFails, DrainBody, Size
<1>3. ASSUME feeder' = feeder, taken' = taken, wire' = wire PROVE WireFollows'
  BY <1>2, <1>3 DEF RarInv, WireFollows, Received
<1>4. ASSUME ReadManifest PROVE RarInv'
  <2>1. taken' = taken + 1 /\ taken < Size /\ wire' \in Seq(Nat) /\ WireFollows'
    BY <1>1, <1>2, <1>4, UnitsFollow DEF ReadManifest
  <2>2. taken < body.manifest /\ UNCHANGED <<connected, feeder, extractor>>
    BY <1>4 DEF ReadManifest
  <2>3. RarShape'
    BY <1>2, <2>1, <2>2, Sizes DEF RarInv, RarShape
  <2>4. BeforeFeeder' /\ SinceFeeder'
    BY <1>1, <1>2, <2>1, <2>2, Sizes DEF RarInv, RarShape, BeforeFeeder, SinceFeeder
  <2> QED  BY <2>1, <2>3, <2>4 DEF RarInv
<1>5. ASSUME ManifestShort PROVE RarInv'
  <2>1. UNCHANGED <<taken, wire, connected, feeder>>
    BY <1>5 DEF ManifestShort
  <2>2. \E pc \in {"failed", "drainBody"}, err \in RarErrors :
          extractor' = [extractor EXCEPT !.pc = pc, !.err = err]
    BY <1>5 DEF ManifestShort, Ends, RarErrors
  <2>3. RarShape'
    <3>1. extractor' \in Extractors
      BY <2>2 DEF RarInv, RarShape, Extractors, RarErrors
    <3>2. wire' \in Seq(Nat)
      <4>1. <<>> \in Seq(Nat)
        OBVIOUS
      <4> QED  BY <2>1, <4>1 DEF RarInv, RarShape
    <3> QED  BY <1>2, <2>1, <3>1, <3>2 DEF RarInv, RarShape
  <2>4. BeforeFeeder' /\ SinceFeeder'
    BY <1>1, <1>2, <2>1, <2>2 DEF RarInv, RarShape, BeforeFeeder, SinceFeeder
  <2> QED  BY <1>3, <2>1, <2>3, <2>4 DEF RarInv
<1>6. ASSUME StartFails PROVE RarInv'
  <2>1. UNCHANGED <<taken, feeder>> /\ connected' \in BOOLEAN /\ (wire' = wire \/ wire' = <<>>)
    BY <1>6 DEF StartFails, RarInv, RarShape
  <2>2. \E pc \in {"failed", "drainBody"} :
          extractor' = [extractor EXCEPT !.pc = pc, !.err = "start"]
    BY <1>6 DEF StartFails, Ends
  <2>3. RarShape'
    <3>1. extractor' \in Extractors
      BY <2>2 DEF RarInv, RarShape, Extractors, RarErrors
    <3>2. wire' \in Seq(Nat)
      <4>1. <<>> \in Seq(Nat)
        OBVIOUS
      <4> QED  BY <2>1, <4>1 DEF RarInv, RarShape
    <3> QED  BY <1>2, <2>1, <3>1, <3>2 DEF RarInv, RarShape
  <2>4. BeforeFeeder' /\ SinceFeeder'
    BY <1>1, <1>2, <2>1, <2>2 DEF RarInv, RarShape, BeforeFeeder, SinceFeeder
  <2>5. wire' = <<>> => WireFollows'
    <3>1. Later(taken, Len(buffered)) \in Nat /\ 0 \in 0 .. Size
      BY Sizes DEF RarInv, RarShape, Later
    <3>2. Upto(Later(taken, Len(buffered)), 0) = <<>>
      BY <3>1, UptoIsSeq
    <3> QED  BY <1>1, <1>2, <2>1, <3>1, <3>2 DEF WireFollows, Received
  <2> QED  BY <1>3, <2>1, <2>3, <2>4, <2>5 DEF RarInv
<1>7. ASSUME DrainBody PROVE RarInv'
  <2>1. UNCHANGED <<connected, feeder>>
    BY <1>7 DEF DrainBody
  <2>2. CASE ReadUnit /\ UNCHANGED extractor
    <3>1. taken' = taken + 1 /\ taken < Size /\ wire' \in Seq(Nat) /\ WireFollows'
      BY <1>1, <1>2, <2>1, <2>2, UnitsFollow
    <3>2. RarShape'
      BY <1>2, <2>1, <2>2, <3>1, Sizes DEF RarInv, RarShape
    <3>3. BeforeFeeder' /\ SinceFeeder'
      BY <1>1, <1>2, <1>7, <2>1, <2>2 DEF RarInv, BeforeFeeder, SinceFeeder, DrainBody
    <3> QED  BY <3>1, <3>2, <3>3 DEF RarInv
  <2>3. CASE Turn("failed") /\ UNCHANGED <<taken, wire>>
    <3>1. RarShape'
      BY <1>2, <2>1, <2>3 DEF RarInv, RarShape, Turn, Extractors
    <3>2. BeforeFeeder' /\ SinceFeeder'
      BY <1>1, <1>2, <2>1, <2>3 DEF RarInv, RarShape, BeforeFeeder, SinceFeeder, Turn
    <3> QED  BY <1>3, <2>1, <2>3, <3>1, <3>2 DEF RarInv
  <2> QED  BY <1>7, <2>2, <2>3 DEF DrainBody
<1>8. ASSUME StartFeeder PROVE RarInv'
  <2>1. UNCHANGED <<taken, wire, connected>> /\ extractor.pc = "manifest" /\ taken = body.manifest
    BY <1>8 DEF StartFeeder
  <2>2. CASE ~ManifestFits
    <3>1. feeder' = feeder /\ extractor' = [extractor EXCEPT !.pc = "drainBody", !.err = "manifest"]
      BY <1>8, <2>2 DEF StartFeeder
    <3>2. RarShape'
      BY <1>2, <2>1, <3>1 DEF RarInv, RarShape, Size, RarErrors, Extractors
    <3>3. BeforeFeeder' /\ SinceFeeder'
      BY <1>1, <1>2, <2>1, <3>1 DEF RarInv, RarShape, BeforeFeeder, SinceFeeder
    <3> QED  BY <1>3, <2>1, <3>1, <3>2, <3>3 DEF RarInv
  <2>3. CASE ManifestFits
    <3>1. feeder' = [pc |-> "run", todo |-> BufferedRest, left |-> Remaining]
          /\ extractor' = [extractor EXCEPT !.pc = "extract", !.left = body.claim]
      BY <1>8, <2>3 DEF StartFeeder
    <3>2. body.claim = body.data /\ Remaining = body.data
      BY <2>1, <2>3, Sizes DEF ManifestFits, RarInv
    <3>3. BufferedRest = Upto(taken, Len(buffered)) /\ BufferedRest \in Seq(Nat)
      <4>1. SubSeq(Upto(0, Len(buffered)), taken + 1, Len(buffered)) = Upto(0 + taken, 0 + Len(buffered))
        <5>1. Len(buffered) \in Nat /\ taken \in Nat /\ Len(Upto(0, Len(buffered))) = Len(buffered)
          BY Sizes DEF RarInv, RarShape
        <5>2. 0 \in Nat /\ Len(buffered) <= Len(Upto(0, Len(buffered)))
          BY <5>1
        <5> QED  BY <5>1, <5>2, UptoPart
      <4>2. BufferedRest = Upto(taken, Len(buffered))
        BY <4>1 DEF RarInv, RarShape, BufferedRest
      <4> QED  BY <4>2, UptoIsSeq DEF RarInv, RarShape
    <3>4. RarShape'
      <4>1. feeder' \in Feeders
        BY <3>1, <3>2, <3>3, Sizes DEF RarInv, Feeders
      <4>2. extractor' \in Extractors
        BY <3>1, Sizes DEF RarInv, RarShape, Extractors
      <4> QED  BY <1>2, <2>1, <4>1, <4>2 DEF RarInv, RarShape
    <3>5. Size - body.data = taken /\ body.data \in Nat /\ taken \in Nat
      BY <2>1, Sizes DEF Size, RarInv
    <3>6. WireFollows'
      BY <1>1, <1>2, <2>1, <3>1, <3>2, <3>5 DEF RarInv, WireFollows, Received
    <3>7. Upto(taken, taken) = <<>>
      BY <3>5, UptoIsSeq
    <3>8. BeforeFeeder'
      BY <3>1 DEF BeforeFeeder
    <3>9. /\ feeder'.pc = "run" /\ feeder'.left = body.data /\ feeder'.todo = Upto(taken, Len(buffered))
          /\ extractor'.pc = "extract" /\ extractor'.left = body.data /\ extractor'.fed = <<>>
          /\ queue'.units = <<>>
      BY <1>1, <1>2, <3>1, <3>2, <3>3 DEF RarInv, RarShape, BeforeFeeder
    <3>10. SinceFeeder'
      BY <1>2, <2>1, <3>2, <3>5, <3>7, <3>9 DEF SinceFeeder
    <3> QED  BY <3>4, <3>6, <3>8, <3>10 DEF RarInv
  <2> QED  BY <2>2, <2>3
<1> QED  BY <1>4, <1>5, <1>6, <1>7, <1>8

LEMMA FeederSteps ==
  ASSUME RarInv, FeedBuffered \/ FeedReceived \/ FeederStops
  PROVE  RarInv'
<1> USE DEF KeepBody
<1>1. feeder.pc = "run" /\ feeder \in Feeders /\ queue \in RarPipes
      /\ UNCHANGED <<body, buffered, rarCancel, taken, connected, extractor>> /\ Size' = Size
  BY DEF FeedBuffered, FeedReceived, FeederStops, Size, RarInv, RarShape
<1>2. /\ feeder.left \in 0 .. extractor.left /\ extractor.left \in 0 .. body.data
      /\ queue.units = Upto(Size - extractor.left, Size - feeder.left)
      /\ feeder.todo = Upto(Size - feeder.left, Len(buffered)) /\ Len(buffered) \in 0 .. Size
      /\ Size \in Nat /\ feeder.left \in 0 .. Size /\ extractor.left \in 0 .. Size
  <2>1. feeder.left \in 0 .. extractor.left /\ extractor.left \in 0 .. body.data
    BY <1>1 DEF RarInv, SinceFeeder
  <2>2. Size \in Nat /\ body.data \in Nat /\ body.data <= Size
    BY Sizes DEF RarInv, Size
  <2>3. feeder.left \in 0 .. Size /\ extractor.left \in 0 .. Size
    BY <2>1, <2>2
  <2> QED  BY <1>1, <2>1, <2>2, <2>3 DEF RarInv, RarShape, SinceFeeder
<1>3. ASSUME feeder' \in Feeders, feeder'.pc = "exit", feeder'.left = feeder.left, queue' \in RarPipes,
             queue'.units = queue.units, wire' \in Seq(Nat)
      PROVE  RarInv'
  <2>1. RarShape'
    BY <1>1, <1>3 DEF RarInv, RarShape
  <2>2. WireFollows' /\ BeforeFeeder'
    BY <1>3 DEF WireFollows, BeforeFeeder
  <2>3. SinceFeeder'
    BY <1>1, <1>3 DEF RarInv, SinceFeeder
  <2> QED  BY <2>1, <2>2, <2>3 DEF RarInv
(* A unit goes into the pipe: the next one.                                  *)
<1>4. ASSUME feeder.left > 0, feeder' \in Feeders, feeder'.pc = "run", feeder'.left = feeder.left - 1,
             feeder'.todo = Upto((Size - feeder.left) + 1, Len(buffered)),
             queue' = [queue EXCEPT !.units = Append(queue.units, (Size - feeder.left) + 1)],
             wire' \in Seq(Nat), WireFollows'
      PROVE  RarInv'
  <2>1. Size - feeder'.left = (Size - feeder.left) + 1 /\ Size - feeder.left \in Nat
        /\ Size - extractor.left \in Nat /\ Size - extractor.left <= Size - feeder.left
    BY <1>2, <1>4
  <2>2. queue'.units = Append(queue.units, (Size - feeder.left) + 1)
    BY <1>1, <1>4 DEF RarPipes
  <2>3. queue'.units = Upto(Size - extractor.left, Size - feeder'.left)
    BY <1>2, <2>1, <2>2, UptoGrows
  <2>4. queue' \in RarPipes
    <3>1. (Size - feeder.left) + 1 \in Nat /\ queue.units \in Seq(Nat)
      BY <1>1, <2>1 DEF RarPipes
    <3>2. Append(queue.units, (Size - feeder.left) + 1) \in Seq(Nat)
      BY <3>1
    <3> QED  BY <1>1, <1>4, <3>2 DEF RarPipes
  <2>5. RarShape'
    BY <1>1, <1>4, <2>4 DEF RarInv, RarShape
  <2>6. BeforeFeeder'
    BY <1>4 DEF BeforeFeeder
  <2>7. feeder'.left \in 0 .. extractor.left
    BY <1>2, <1>4
  <2>8. SinceFeeder'
    BY <1>1, <1>4, <2>1, <2>3, <2>7 DEF RarInv, SinceFeeder
  <2> QED  BY <1>4, <2>5, <2>6, <2>8 DEF RarInv
<1>5. ASSUME FeedBuffered PROVE RarInv'
  <2>1. feeder.todo # <<>> /\ wire' = wire
    BY <1>5 DEF FeedBuffered
  <2>2. Size - feeder.left \in Nat /\ Len(buffered) \in Nat
    BY <1>2
  <2>3. Size - feeder.left < Len(buffered)
    <3>1. Upto(Size - feeder.left, Len(buffered)) = <<>> <=> Len(buffered) <= Size - feeder.left
      BY <2>2, UptoIsSeq
    <3> QED  BY <1>2, <2>1, <2>2, <3>1
  <2>4. Head(feeder.todo) = (Size - feeder.left) + 1
        /\ Tail(feeder.todo) = Upto((Size - feeder.left) + 1, Len(buffered))
    BY <1>2, <2>2, <2>3, UptoTail
  <2>5. CASE queue.failed
    <3>1. feeder' = [feeder EXCEPT !.pc = "exit"] /\ queue' = queue
      BY <1>5, <2>5 DEF FeedBuffered
    <3> QED  BY <1>1, <1>3, <2>1, <3>1 DEF Feeders, RarInv, RarShape
  <2>6. CASE ~queue.failed
    <3>1. queue' = [queue EXCEPT !.units = Append(queue.units, Head(feeder.todo))]
          /\ feeder' = [feeder EXCEPT !.todo = Tail(feeder.todo), !.left = feeder.left - 1]
      BY <1>5, <2>6 DEF FeedBuffered
    <3>2. feeder.left > 0 /\ feeder.left - 1 \in Nat
      BY <1>2, <2>3
    <3>3. Tail(feeder.todo) \in Seq(Nat)
      <4>1. (Size - feeder.left) + 1 \in Nat
        BY <2>2
      <4> QED  BY <2>2, <2>4, <4>1, UptoIsSeq
    <3>4. feeder' \in Feeders /\ feeder'.pc = "run" /\ feeder'.left = feeder.left - 1
          /\ feeder'.todo = Tail(feeder.todo)
      BY <1>1, <3>1, <3>2, <3>3 DEF Feeders
    <3>5. Received = Size - feeder.left /\ Received' = (Size - feeder.left) + 1
      BY <1>1, <1>2, <3>4 DEF Received
    <3>6. Later(Received', Len(buffered)) = Later(Received, Len(buffered))
      BY <2>2, <2>3, <3>5 DEF Later
    <3>7. \E e \in 0 .. Size : wire = Upto(Later(Received, Len(buffered)), e)
      BY <1>1 DEF RarInv, WireFollows
    <3>8. WireFollows'
      BY <1>1, <2>1, <3>6, <3>7 DEF WireFollows
    <3> QED  BY <1>4, <2>1, <2>4, <3>1, <3>2, <3>4, <3>8 DEF RarInv, RarShape
  <2> QED  BY <2>5, <2>6
<1>6. ASSUME FeedReceived PROVE RarInv'
  <2>1. feeder.todo = <<>> /\ feeder.left > 0 /\ wire # <<>> /\ wire' = Tail(wire)
    BY <1>6 DEF FeedReceived
  <2>2. Size - feeder.left \in Nat /\ Len(buffered) \in Nat
    BY <1>2
  <2>3. Len(buffered) <= Size - feeder.left
    BY <1>2, <2>1, <2>2, UptoIsSeq
  <2>4. Received = Size - feeder.left /\ Later(Received, Len(buffered)) = Size - feeder.left
    BY <1>1, <2>2, <2>3 DEF Received, Later
  <2>5. PICK e \in 0 .. Size : wire = Upto(Size - feeder.left, e)
    BY <1>1, <2>4 DEF RarInv, WireFollows
  <2>6. e \in Nat /\ Size - feeder.left < e
    <3>1. e \in Nat
      BY <1>2
    <3>2. Upto(Size - feeder.left, e) = <<>> <=> e <= Size - feeder.left
      BY <2>2, <3>1, UptoIsSeq
    <3> QED  BY <2>1, <2>2, <2>5, <3>1, <3>2
  <2>7. Head(wire) = (Size - feeder.left) + 1 /\ wire' = Upto((Size - feeder.left) + 1, e)
        /\ wire' \in Seq(Nat)
    <3>1. (Size - feeder.left) + 1 \in Nat
      BY <2>2
    <3>2. Head(Upto(Size - feeder.left, e)) = (Size - feeder.left) + 1
          /\ Tail(Upto(Size - feeder.left, e)) = Upto((Size - feeder.left) + 1, e)
      BY <2>2, <2>6, UptoTail
    <3>3. Upto((Size - feeder.left) + 1, e) \in Seq(Nat)
      BY <2>6, <3>1, UptoIsSeq
    <3> QED  BY <2>1, <2>5, <3>2, <3>3
  <2>8. CASE queue.failed
    <3>1. feeder' = [feeder EXCEPT !.pc = "exit"] /\ queue' = queue
      BY <1>6, <2>8 DEF FeedReceived
    <3> QED  BY <1>1, <1>3, <2>7, <3>1 DEF Feeders
  <2>9. CASE ~queue.failed
    <3>1. queue' = [queue EXCEPT !.units = Append(queue.units, Head(wire))]
          /\ feeder' = [feeder EXCEPT !.left = feeder.left - 1]
      BY <1>6, <2>9 DEF FeedReceived
    <3>2. feeder.left - 1 \in Nat
      BY <1>2, <2>1
    <3>3. feeder' \in Feeders /\ feeder'.pc = "run" /\ feeder'.left = feeder.left - 1
          /\ feeder'.todo = <<>>
      BY <1>1, <2>1, <3>1, <3>2 DEF Feeders
    <3>4. Upto((Size - feeder.left) + 1, Len(buffered)) = <<>>
      <4>1. (Size - feeder.left) + 1 \in Nat /\ Len(buffered) <= (Size - feeder.left) + 1
        BY <2>2, <2>3
      <4> QED  BY <2>2, <4>1, UptoIsSeq
    <3>5. Received' = (Size - feeder.left) + 1
      BY <1>1, <1>2, <3>3 DEF Received
    <3>6. Later(Received', Len(buffered)) = (Size - feeder.left) + 1
      BY <2>2, <2>3, <3>5 DEF Later
    <3>7. WireFollows'
      BY <1>1, <2>5, <2>7, <3>6 DEF WireFollows
    <3> QED  BY <1>4, <2>1, <2>7, <3>1, <3>3, <3>4, <3>7
  <2> QED  BY <2>8, <2>9
<1>7. ASSUME FeederStops PROVE RarInv'
  <2>1. wire' = wire /\ feeder' = [feeder EXCEPT !.pc = "exit"]
    BY <1>7 DEF FeederStops
  <2>2. queue' \in RarPipes /\ queue'.units = queue.units
    BY <1>1, <1>7 DEF FeederStops, RarPipes
  <2> QED  BY <1>1, <1>3, <2>1, <2>2 DEF Feeders, RarInv, RarShape
<1> QED  BY <1>5, <1>6, <1>7

(* unrar, the drain after it and what follows.                               *)
LEMMA ExtractorSteps ==
  ASSUME RarInv,
         \/ UnrarReads \/ UnrarWrites \/ \E code \in {NoError, "generic", "other"} : UnrarEnds(code)
         \/ DrainPipe \/ PlaceRar
  PROVE  RarInv'
<1> USE DEF KeepBody
<1>1. /\ feeder.pc # "none" /\ extractor \in Extractors /\ queue \in RarPipes
      /\ UNCHANGED <<body, buffered, rarCancel, taken, wire, connected, feeder>> /\ Size' = Size
      /\ extractor.pc \in {"extract", "drain", "join"}
  BY DEF UnrarReads, UnrarWrites, UnrarEnds, DrainPipe, PlaceRar, Size, RarInv, RarShape, BeforeFeeder
<1>2. /\ feeder.left \in 0 .. extractor.left /\ extractor.left \in 0 .. body.data
      /\ extractor.fed = Upto(body.manifest, Size - extractor.left)
      /\ queue.units = Upto(Size - extractor.left, Size - feeder.left)
      /\ Size \in Nat /\ feeder.left \in 0 .. Size /\ extractor.left \in 0 .. Size
      /\ body.manifest \in Nat /\ body.manifest <= Size - extractor.left
  <2>1. feeder.left \in 0 .. extractor.left /\ extractor.left \in 0 .. body.data
    BY <1>1 DEF RarInv, SinceFeeder
  <2>2. Size \in Nat /\ body.data \in Nat /\ body.data <= Size /\ body.manifest \in Nat
        /\ body.manifest = Size - body.data
    BY Sizes DEF RarInv, Size
  <2>3. feeder.left \in 0 .. Size /\ extractor.left \in 0 .. Size
        /\ body.manifest <= Size - extractor.left
    BY <2>1, <2>2
  <2> QED  BY <1>1, <2>1, <2>2, <2>3 DEF RarInv, RarShape, SinceFeeder
<1>3. ASSUME extractor' \in Extractors, extractor'.pc \notin {"manifest", "drainBody"},
             extractor'.pc \in {"join", "ok"} => extractor'.left = 0,
             queue' \in RarPipes,
             extractor'.left \in feeder.left .. body.data,
             extractor'.fed = Upto(body.manifest, Size - extractor'.left),
             queue'.units = Upto(Size - extractor'.left, Size - feeder.left)
      PROVE  RarInv'
  <2>1. RarShape'
    BY <1>1, <1>3 DEF RarInv, RarShape
  <2>2. WireFollows' /\ BeforeFeeder'
    BY <1>1 DEF RarInv, WireFollows, BeforeFeeder, Received
  <2>3. feeder.left \in 0 .. extractor'.left /\ extractor'.left \in 0 .. body.data
    BY <1>2, <1>3
  <2>4. SinceFeeder'
    BY <1>1, <1>3, <2>3 DEF RarInv, SinceFeeder
  <2> QED  BY <2>1, <2>2, <2>4 DEF RarInv
<1>4. ASSUME TakeUnit PROVE RarInv'
  <2>1. extractor.left > 0 /\ queue.units # <<>> /\ queue' = [queue EXCEPT !.units = Tail(queue.units)]
        /\ extractor' = [extractor EXCEPT !.left = extractor.left - 1,
                                          !.fed = Append(extractor.fed, Head(queue.units))]
    BY <1>4 DEF TakeUnit
  <2>2. Size - extractor.left \in Nat /\ Size - feeder.left \in Nat /\ (Size - extractor.left) + 1 \in Nat
        /\ extractor.left - 1 \in Nat /\ Size - (extractor.left - 1) = (Size - extractor.left) + 1
    BY <1>2, <2>1
  <2>3. PICK a, b : a = Size - extractor.left /\ b = Size - feeder.left
    OBVIOUS
  <2>4. a \in Nat /\ b \in Nat /\ queue.units = Upto(a, b) /\ Upto(a, b) # <<>>
    BY <1>2, <2>1, <2>2, <2>3
  <2>a. a < b
    <3>1. Upto(a, b) = <<>> <=> b <= a
      BY <2>4, UptoIsSeq
    <3>2. QED  BY <2>4, <3>1
  <2>b. Head(Upto(a, b)) = a + 1 /\ Tail(Upto(a, b)) = Upto(a + 1, b)
    BY <2>4, <2>a, UptoTail
  <2>5. Head(queue.units) = (Size - extractor.left) + 1
        /\ Tail(queue.units) = Upto((Size - extractor.left) + 1, Size - feeder.left)
    BY <2>3, <2>4, <2>b
  <2>6. Append(extractor.fed, Head(queue.units)) = Upto(body.manifest, (Size - extractor.left) + 1)
    BY <1>2, <2>2, <2>5, UptoGrows
  <2>7. Tail(queue.units) \in Seq(Nat) /\ Append(extractor.fed, Head(queue.units)) \in Seq(Nat)
    <3>1. a + 1 \in Nat /\ body.manifest \in Nat
      BY <1>2, <2>4
    <3>2. Upto(a + 1, b) \in Seq(Nat) /\ Upto(body.manifest, a + 1) \in Seq(Nat)
      BY <2>4, <3>1, UptoIsSeq
    <3>3. QED  BY <2>3, <2>5, <2>6, <3>2
  <2>8. extractor' \in Extractors /\ queue' \in RarPipes
    BY <1>1, <2>1, <2>2, <2>7 DEF Extractors, RarPipes
  <2>9. /\ extractor'.pc = extractor.pc /\ extractor'.left = extractor.left - 1
        /\ extractor'.fed = Append(extractor.fed, Head(queue.units)) /\ queue'.units = Tail(queue.units)
    BY <1>1, <2>1 DEF Extractors, RarPipes
  <2>10. extractor.left - 1 \in feeder.left .. body.data
    <3>1. extractor.left \in Nat /\ feeder.left \in Nat /\ body.data \in Nat /\ extractor.left <= body.data
      BY <1>2, Sizes DEF RarInv
    <3>2. Size \in Nat
      BY Sizes DEF RarInv
    <3>3. feeder.left < extractor.left
      BY <2>3, <2>a, <3>1, <3>2
    <3> QED  BY <3>1, <3>3
  <2>11. extractor.pc # "join"
    BY <1>2, <2>1, <1>1 DEF RarInv, SinceFeeder
  <2> QED  BY <1>1, <1>3, <2>2, <2>5, <2>6, <2>8, <2>9, <2>10, <2>11
<1>5. ASSUME queue' = queue, NEW pc \in {"drain", "failed", "ok", "unplaced", "join", "extract"},
             NEW err \in RarErrors, NEW files \in BOOLEAN,
             extractor' = [extractor EXCEPT !.pc = pc, !.err = err, !.files = files],
             pc \in {"ok", "join"} => extractor.left = 0
      PROVE  RarInv'
  <2>1. extractor' \in Extractors /\ extractor'.pc = pc /\ extractor'.left = extractor.left
        /\ extractor'.fed = extractor.fed
    BY <1>1, <1>5 DEF Extractors
  <2>2. extractor.left \in feeder.left .. body.data
    BY <1>2
  <2> QED  BY <1>1, <1>2, <1>3, <1>5, <2>1, <2>2
<1>6. ASSUME NEW pc \in {"drain", "failed", "ok", "unplaced", "join", "extract"}, NEW err \in RarErrors,
             Turn(pc) \/ extractor' = [extractor EXCEPT !.pc = pc, !.err = err], queue' = queue,
             pc \in {"ok", "join"} => extractor.left = 0
      PROVE  RarInv'
  <2>1. extractor.err \in RarErrors /\ extractor.files \in BOOLEAN
    BY <1>1 DEF Extractors
  <2>2. CASE Turn(pc)
    <3>1. extractor' = [extractor EXCEPT !.pc = pc, !.err = extractor.err, !.files = extractor.files]
      BY <1>1, <2>2 DEF Turn, Extractors
    <3> QED  BY <1>5, <1>6, <2>1, <3>1
  <2>3. CASE extractor' = [extractor EXCEPT !.pc = pc, !.err = err]
    <3>1. extractor' = [extractor EXCEPT !.pc = pc, !.err = err, !.files = extractor.files]
      BY <1>1, <2>3 DEF Extractors
    <3> QED  BY <1>5, <1>6, <2>1, <3>1
  <2> QED  BY <1>6, <2>2, <2>3
<1>7. ASSUME UnrarWrites PROVE RarInv'
  <2>1. extractor.pc = "extract" /\ extractor' = [extractor EXCEPT !.files = TRUE] /\ queue' = queue
        /\ extractor.err \in RarErrors
    BY <1>1, <1>7 DEF UnrarWrites, Extractors
  <2>2. extractor' = [extractor EXCEPT !.pc = "extract", !.err = extractor.err, !.files = TRUE]
    BY <1>1, <2>1 DEF Extractors
  <2> QED  BY <1>5, <2>1, <2>2
<1>8. ASSUME NEW code \in {NoError, "generic", "other"}, UnrarEnds(code) PROVE RarInv'
  <2>1. queue' = queue
    BY <1>8 DEF UnrarEnds
  <2>2. \E err \in RarErrors : Turn("drain") \/ extractor' = [extractor EXCEPT !.pc = "failed", !.err = err]
    BY <1>8 DEF UnrarEnds, Ends, RarErrors
  <2>3. PICK err \in RarErrors :
               Turn("drain") \/ extractor' = [extractor EXCEPT !.pc = "failed", !.err = err]
    BY <2>2
  <2> QED  BY <1>6, <2>1, <2>3
<1>9. ASSUME DrainPipe PROVE RarInv'
  <2>1. CASE TakeUnit
    BY <1>4, <2>1
  <2>2. CASE Ends("interrupted") /\ queue' = queue
    BY <1>6, <2>2 DEF Ends, RarErrors
  <2>3. CASE extractor.left = 0 /\ Turn("join") /\ queue' = queue
    BY <1>1, <1>6, <2>3 DEF Extractors
  <2> QED  BY <1>9, <2>1, <2>2, <2>3 DEF DrainPipe
<1>10. ASSUME PlaceRar PROVE RarInv'
  <2>1. extractor.pc = "join" /\ extractor.left = 0 /\ queue' = queue
    BY <1>1, <1>10 DEF PlaceRar, RarInv, SinceFeeder
  <2>2. CASE Turn("ok")
    BY <1>1, <1>6, <2>1, <2>2 DEF Extractors
  <2>3. CASE extractor' = [extractor EXCEPT !.pc = "unplaced", !.err = "place"]
    BY <1>6, <2>1, <2>3 DEF RarErrors
  <2> QED  BY <1>10, <2>2, <2>3 DEF PlaceRar
<1>11. UnrarReads => TakeUnit
  BY DEF UnrarReads
<1> QED  BY <1>4, <1>7, <1>8, <1>9, <1>10, <1>11

LEMMA OutsideSteps ==
  ASSUME RarInv, StopFeeder \/ HangUp \/ CancelRar
  PROVE  RarInv'
<1>1. UNCHANGED <<body, buffered, taken, feeder, extractor>> /\ Size' = Size /\ queue'.units = queue.units
      /\ queue' \in RarPipes /\ rarCancel' \in BOOLEAN /\ connected' \in BOOLEAN
  <2>1. UNCHANGED <<body, buffered, taken, feeder, extractor>> /\ rarCancel' \in BOOLEAN
        /\ connected' \in BOOLEAN
    BY DEF StopFeeder, HangUp, CancelRar, KeepBody, RarInv, RarShape
  <2>2. queue'.units = queue.units /\ queue' \in RarPipes
    BY DEF StopFeeder, HangUp, CancelRar, KeepBody, RarInv, RarShape, RarPipes
  <2> QED  BY <2>1, <2>2 DEF Size
<1>2. \E n \in 0 .. Len(wire) : wire' = SubSeq(wire, 1, n)
  <2>1. wire \in Seq(Nat)
    BY DEF RarInv, RarShape
  <2>2. SubSeq(wire, 1, 0) = <<>> /\ SubSeq(wire, 1, Len(wire)) = wire /\ 0 \in 0 .. Len(wire)
        /\ Len(wire) \in 0 .. Len(wire)
    BY <2>1
  <2> QED  BY <2>2 DEF StopFeeder, HangUp, CancelRar
<1>3. wire' \in Seq(Nat) /\ (feeder.pc # "exit" => WireFollows')
  <2>1. PICK n \in 0 .. Len(wire) : wire' = SubSeq(wire, 1, n)
    BY <1>2
  <2>2. wire \in Seq(Nat)
    BY DEF RarInv, RarShape
  <2>3. wire' \in Seq(Nat)
    BY <2>1, <2>2
  <2>4. ASSUME feeder.pc # "exit" PROVE WireFollows'
    <3> DEFINE m == Later(Received, Len(buffered))
    <3>1. m \in Nat /\ m' = m
      <4>1. Received \in Int /\ Len(buffered) \in Nat /\ Received' = Received /\ Len(buffered') = Len(buffered)
        BY <1>1, Sizes DEF RarInv, RarShape, Received, Feeders
      <4> QED  BY <4>1 DEF Later
    <3>2. PICK e \in 0 .. Size : wire = Upto(m, e)
      BY <2>4 DEF RarInv, WireFollows
    <3> HIDE DEF m
    <3>3. n \in Nat /\ e \in Nat /\ Size \in Nat /\ 0 \in Nat /\ n <= Len(Upto(m, e))
      BY <2>1, <2>2, <3>2, Sizes DEF RarInv
    <3>4. SubSeq(Upto(m, e), 1, n) = Upto(m, m + n)
      BY <3>1, <3>3, UptoStart
    <3>5. wire' = Upto(m, m + n)
      BY <2>1, <3>2, <3>4
    <3>6. CASE m < e
      <4>1. Len(Upto(m, e)) = e - m
        BY <3>1, <3>3, <3>6, UptoIsSeq
      <4>2. m + n \in 0 .. Size
        BY <3>1, <3>2, <3>3, <4>1
      <4> QED  BY <1>1, <3>1, <3>5, <4>2 DEF WireFollows, m
    <3>7. CASE e <= m
      <4>1. Len(Upto(m, e)) = 0
        BY <3>1, <3>3, <3>7, UptoIsSeq
      <4>2. n = 0 /\ wire' = Upto(m, e)
        BY <2>1, <2>2, <3>2, <3>3, <4>1
      <4> QED  BY <1>1, <3>1, <3>2, <4>2 DEF WireFollows, m
    <3> QED  BY <3>1, <3>2, <3>3, <3>6, <3>7
  <2> QED  BY <2>3, <2>4
<1>4. RarShape'
  BY <1>1, <1>3 DEF RarInv, RarShape
<1>5. WireFollows' /\ BeforeFeeder' /\ SinceFeeder'
  BY <1>1, <1>3 DEF RarInv, WireFollows, BeforeFeeder, SinceFeeder
<1> QED  BY <1>4, <1>5 DEF RarInv

THEOREM RarInvariant == RarSpec => []RarInv
<1>1. RarInv /\ RarNext => RarInv'
  BY ManifestSteps, FeederSteps, ExtractorSteps, OutsideSteps DEF RarNext
<1>2. RarInv /\ UNCHANGED rarVars => RarInv'
  <2> SUFFICES ASSUME RarInv, UNCHANGED rarVars PROVE RarInv'
    OBVIOUS
  <2>1. RarShape' /\ WireFollows'
    BY DEF RarInv, RarShape, WireFollows, Received, Size, rarVars
  <2>2. BeforeFeeder' /\ SinceFeeder'
    BY DEF RarInv, BeforeFeeder, SinceFeeder, Size, rarVars
  <2> QED  BY <2>1, <2>2 DEF RarInv
<1> QED  BY <1>1, <1>2, RarStarts, PTL DEF RarSpec

(* What is taken for the archive is the archive: however much of the body came  *)
(* with the headers and however it was cut, unrar is given the volumes' bytes in *)
(* order and none of the manifest, and an upload that succeeds took all of them. *)
THEOREM ArchivesAreTakenWhole == RarSpec => []RarIsTakenWhole
<1>1. RarInv => RarIsTakenWhole
  <2> SUFFICES ASSUME RarInv PROVE RarIsTakenWhole
    OBVIOUS
  <2>1. DataUnits(body) = Upto(body.manifest, Size) /\ body.manifest \in Nat /\ Size \in Nat
    BY Sizes DEF RarInv, DataUnits, Upto
  <2>2. CASE feeder.pc = "none"
    <3>1. extractor.fed = <<>> /\ extractor.pc \notin {"join", "ok"}
      BY <2>2 DEF RarInv, BeforeFeeder
    <3>2. Len(<<>>) = 0 /\ DataUnits(body) \in Seq(Nat)
      BY <2>1, UptoIsSeq
    <3>3. SubSeq(<<>>, 1, 0) = SubSeq(DataUnits(body), 1, 0) /\ 0 <= Len(DataUnits(body))
      BY <3>2
    <3> QED  BY <3>1, <3>2, <3>3 DEF RarIsTakenWhole, RarFeedsTheVolumes, RarSuccessTookAll, IsPrefix
  <2>3. CASE feeder.pc # "none"
    <3>1. extractor.fed = Upto(body.manifest, Size - extractor.left) /\ body.claim = body.data
          /\ extractor.left \in 0 .. body.data /\ (extractor.pc \in {"join", "ok"} => extractor.left = 0)
      BY <2>3 DEF RarInv, SinceFeeder
    <3>2. Size - extractor.left \in Nat /\ Size - body.manifest = body.data /\ body.data \in Nat
          /\ body.manifest <= Size - extractor.left
      BY <2>1, <3>1, Sizes DEF RarInv
    <3>3. RarSuccessTookAll
      BY <2>1, <3>1 DEF RarSuccessTookAll
    <3> DEFINE l == (Size - extractor.left) - body.manifest
    <3>4. l \in Nat /\ l <= Size - body.manifest /\ body.manifest + l = Size - extractor.left
      BY <2>1, <3>1, <3>2
    <3> HIDE DEF l
    <3>5. Len(extractor.fed) = l /\ Len(Upto(body.manifest, Size)) = Size - body.manifest
      <4>1. Len(extractor.fed) =
              IF body.manifest < Size - extractor.left THEN (Size - extractor.left) - body.manifest ELSE 0
        <5>1. Len(Upto(body.manifest, Size - extractor.left)) =
              IF body.manifest < Size - extractor.left THEN (Size - extractor.left) - body.manifest ELSE 0
          BY <2>1, <3>2, UptoIsSeq
        <5> QED  BY <3>1, <5>1
      <4>2. Len(Upto(body.manifest, Size)) = IF body.manifest < Size THEN Size - body.manifest ELSE 0
        BY <2>1, UptoIsSeq
      <4> QED  BY <2>1, <3>2, <3>4, <4>1, <4>2 DEF l
    <3>6. SubSeq(Upto(body.manifest, Size), 1, l) = Upto(body.manifest, body.manifest + l)
      BY <2>1, <3>4, <3>5, UptoStart
    <3>7. SubSeq(Upto(body.manifest, Size), 1, l) = extractor.fed
      BY <2>1, <3>1, <3>4, <3>6
    <3>8. extractor.fed \in Seq(Nat)
      BY <2>1, <3>1, <3>2, UptoIsSeq
    <3>9. SubSeq(extractor.fed, 1, l) = extractor.fed
      BY <3>5, <3>8
    <3>10. RarFeedsTheVolumes
      BY <2>1, <3>4, <3>5, <3>7, <3>9 DEF RarFeedsTheVolumes, IsPrefix
    <3> QED  BY <3>3, <3>10 DEF RarIsTakenWhole
  <2> QED  BY <2>2, <2>3
<1> QED  BY <1>1, RarInvariant, PTL

=============================================================================
