------------------------------- MODULE Browser -------------------------------
(***************************************************************************)
(* The file list of one tab.  The tab keeps the path it is at, the entries of  *)
(* the last listing it drew and the names selected among them; an operation    *)
(* joins the path and a name at the moment of the click.  A listing is asked   *)
(* for when a folder is opened, after an operation that answers when it is     *)
(* done, and, for the operations that only start, by a timer that is set when   *)
(* a poll of the activity shows that one has ended.                          *)
(*                                                                          *)
(* The server is reduced to what the folders hold and what each operation      *)
(* does to that; how an operation works is FileOps.                          *)
(***************************************************************************)
EXTENDS Naturals, Sequences, FiniteSets, SequencesExt

CONSTANTS Folders, Names,
          Home,       \* the folder the tab starts in
          NoFolder,   \* not a folder
          MaxClicks,  \* bound: what the user does
          MaxActs,    \* bound: operations, of this tab and of others
          MaxLists    \* bound: listings under way

ASSUME BrowserAssumption ==
  /\ Home \in Folders /\ NoFolder \notin Folders
  /\ MaxClicks \in Nat /\ MaxActs \in Nat /\ MaxLists \in Nat \ {0}

VARIABLES
  held,      \* what each folder holds
  acts,      \* the operations, in the order they were asked for
  at,        \* state.path
  typed,     \* the path in the address field
  entries,   \* state.entries: a folder, and the names it was drawn with
  drawn,     \* the rows are on the screen, not "Loading"
  selected,  \* state.selected
  lists,     \* listings under way
  alarm,     \* fileRefreshTimer: the folder to list again, and where to go if it is gone
  reveal,    \* logRefreshTimer
  side,      \* state.sideMode
  primed,    \* activityEventsPrimed
  overtaken, \* history: the last answer that was drawn is not that of the last listing
  broken,    \* history: the last listing failed
  dropped,   \* history: the timer let a listing go, for the user was typing
  clicks

listVars    == <<at, typed, entries, drawn, selected, lists, overtaken, broken, dropped>>
pollVars    == <<alarm, reveal, side, primed>>
browserVars == <<held, acts, listVars, pollVars, clicks>>

Kinds == {"delete", "move", "make", "upload"}

(* batch: the click it comes from.  seen: what the last poll said of it.  told: *)
(* a poll has reported its end.  right: see Right.                            *)
Act == [kind : Kinds, folder : Folders, name : Names, to : Folders, batch : 0 .. MaxClicks,
        pc : {"waiting", "asked", "running", "over", "refused", "forgotten"},
        seen : {"no", "running", "over"}, told : BOOLEAN, right : BOOLEAN]

Listing == [path : Folders, next : Folders \cup {NoFolder}, read : BOOLEAN,
            names : SUBSET Names, old : BOOLEAN]

NoAlarm == [path |-> NoFolder, next |-> NoFolder]

BrowserInit ==
  /\ held = [p \in Folders |-> IF p = Home THEN Names ELSE {}]
  /\ at = Home /\ typed = at
  /\ entries = [of |-> at, names |-> held[at]]
  /\ acts = <<>> /\ drawn = TRUE /\ selected = {} /\ lists = <<>>
  /\ alarm = NoAlarm /\ reveal = FALSE /\ side \in {"paths", "activity"} /\ primed = FALSE
  /\ overtaken = FALSE /\ broken = FALSE /\ dropped = FALSE /\ clicks = 0

----------------------------------------------------------------------------
(* refresh.  The path is set before the request and the entries after it.     *)

Old(ls) == [i \in DOMAIN ls |-> [ls[i] EXCEPT !.old = TRUE]]
Asks(p, next, ls) ==
  lists' = Append(Old(ls), [path |-> p, next |-> IF next = p THEN NoFolder ELSE next,
                            read |-> FALSE, names |-> {}, old |-> FALSE])

Refresh(p, next) ==
  /\ Len(lists) < MaxLists
  /\ Asks(p, next, lists)
  /\ at' = p /\ typed' = p /\ drawn' = FALSE /\ dropped' = FALSE

(* The server reads the folder.                                              *)
ListReads(i) ==
  /\ ~lists[i].read
  /\ lists' = [lists EXCEPT ![i].read = TRUE, ![i].names = held[lists[i].path]]
  /\ UNCHANGED <<held, acts, at, typed, entries, drawn, selected, overtaken, broken, dropped,
                 pollVars, clicks>>

Draws(i, ns) ==
  /\ entries' = [of |-> lists[i].path, names |-> ns]
  /\ drawn' = TRUE /\ overtaken' = lists[i].old
  /\ lists' = RemoveAt(lists, i)
  /\ UNCHANGED <<at, typed>>

(* Mutant: the selection of the folder that was left stays. *)
ListDrawsKeeping(i) ==
  /\ lists[i].read
  /\ Draws(i, lists[i].names)
  /\ broken' = FALSE
  /\ UNCHANGED <<held, acts, selected, dropped, pollVars, clicks>>

ListDraws(i) ==
  /\ lists[i].read
  /\ Draws(i, lists[i].names)
  /\ selected' = {} /\ broken' = FALSE
  /\ UNCHANGED <<held, acts, dropped, pollVars, clicks>>

(* The path to fall back on is tried, wherever the tab has gone meanwhile;      *)
(* with none the list is drawn empty, and the selection stays.                *)
ListFails(i) ==
  /\ IF lists[i].next # NoFolder
       THEN /\ at' = lists[i].next /\ typed' = lists[i].next
            /\ Asks(lists[i].next, NoFolder, RemoveAt(lists, i)) /\ dropped' = FALSE
            /\ UNCHANGED <<entries, drawn, overtaken, broken, reveal>>
     ELSE Draws(i, {}) /\ broken' = TRUE /\ reveal' = TRUE /\ UNCHANGED dropped
  /\ UNCHANGED <<held, acts, selected, alarm, side, primed, clicks>>

----------------------------------------------------------------------------
(* The user.                                                                *)

Click == clicks < MaxClicks /\ clicks' = clicks + 1

(* A place, a row, the folder above, the target: openPath.                    *)
OpenPath(p) ==
  /\ Click /\ Refresh(p, NoFolder)
  /\ UNCHANGED <<held, acts, entries, selected, overtaken, broken, pollVars>>

TypePath(p) ==
  /\ Click /\ typed' = p
  /\ UNCHANGED <<held, acts, at, entries, drawn, selected, lists, overtaken, broken, dropped,
                 pollVars>>

Go ==
  /\ Click /\ Refresh(typed, NoFolder)
  /\ UNCHANGED <<held, acts, entries, selected, overtaken, broken, pollVars>>

(* One row, or one more.                                                    *)
Select(n) ==
  /\ Click /\ drawn /\ n \in entries.names
  /\ selected' \in {{n}, IF n \in selected THEN selected \ {n} ELSE selected \cup {n}}
  /\ UNCHANGED <<held, acts, at, typed, entries, drawn, lists, overtaken, broken, dropped,
                 pollVars>>

SideMode(mode) ==
  /\ Click /\ side' = mode
  /\ UNCHANGED <<held, acts, listVars, alarm, reveal, primed>>

(* What the user has seen: a name among the rows, of the folder the tab is at;  *)
(* or else that the list is loading, or could not be had, or that two listings  *)
(* were under way at once.                                                   *)
Warned   == lists # <<>> \/ overtaken \/ broken
Right(n) == Warned \/ (entries.of = at /\ n \in entries.names)

(* selectedPaths: the path of now, with the names selected when they were       *)
(* drawn; one request after the other.                                       *)
Started(kind, ns, to) ==
  LET order == SetToSeq(ns)
  IN [i \in DOMAIN order |->
        [kind |-> kind, folder |-> at, name |-> order[i], to |-> to, batch |-> clicks + 1,
         pc |-> IF i = 1 THEN "asked" ELSE "waiting",
         seen |-> "no", told |-> FALSE, right |-> Right(order[i])]]

AsksFor(kind, ns, to) ==
  /\ Len(acts) + Cardinality(ns) <= MaxActs
  /\ acts' = acts \o Started(kind, ns, to)

(* removeEntriesFromView: from the entries of now, whatever folder they are of. *)
Hides(ns) ==
  /\ entries' = [entries EXCEPT !.names = @ \ ns]
  /\ selected' = selected \ ns /\ drawn' = TRUE

(* deleteEntry, deleteSelected: the rows go before the server is asked.       *)
Delete(ns) ==
  /\ Click
  /\ AsksFor("delete", ns, at) /\ Hides(ns) /\ reveal' = TRUE
  /\ UNCHANGED <<held, at, typed, lists, overtaken, broken, dropped, alarm, side, primed>>

DeleteRow(n)   == drawn /\ n \in entries.names /\ Delete({n})
DeleteSelected == selected # {} /\ Delete(selected)

Move(to) ==
  /\ Click /\ selected # {}
  /\ AsksFor("move", selected, to)
  /\ UNCHANGED <<held, listVars, pollVars>>

(* mkdir: like rename, done when it is answered.                              *)
MakeFolder(n) ==
  /\ Click /\ Len(acts) < MaxActs
  /\ acts' = Append(acts, [kind |-> "make", folder |-> at, name |-> n, to |-> at,
                           batch |-> clicks + 1, pc |-> "asked", seen |-> "no", told |-> FALSE,
                           right |-> entries.of = at \/ Warned])
  /\ UNCHANGED <<held, listVars, pollVars>>

Forgotten == [i \in DOMAIN acts |-> [acts[i] EXCEPT !.pc = IF @ = "over" THEN "forgotten" ELSE @]]

(* clearLogs: the server forgets what is over, the tab what it has seen.       *)
ClearActivity ==
  /\ Click /\ primed' = FALSE
  /\ acts' = [i \in DOMAIN acts |-> [Forgotten[i] EXCEPT !.seen = "no"]]
  /\ UNCHANGED <<held, listVars, alarm, reveal, side>>

----------------------------------------------------------------------------
(* Answers to the requests of this tab.                                       *)

Effect(a) ==
  CASE a.kind = "delete" -> [held EXCEPT ![a.folder] = @ \ {a.name}]
    [] a.kind = "move" /\ a.name \in held[a.folder] ->
         [held EXCEPT ![a.folder] = @ \ {a.name}, ![a.to] = @ \cup {a.name}]
    [] a.kind \in {"make", "upload"} -> [held EXCEPT ![a.folder] = @ \cup {a.name}]
    [] OTHER -> held

(* The next of the batch is asked for.                                        *)
Follows(i) == i + 1 \in DOMAIN acts /\ acts[i + 1].pc = "waiting"
Answered(i, pc) ==
  [j \in DOMAIN acts |->
     IF j = i THEN [acts[j] EXCEPT !.pc = pc]
     ELSE IF j = i + 1 /\ Follows(i) THEN [acts[j] EXCEPT !.pc = "asked"] ELSE acts[j]]

Batch(i, as) == {j \in DOMAIN as : as[j].batch = as[i].batch /\ as[j].pc # "refused"}

(* After the last move the names that have started to move go from the view.   *)
MoveAnswered(i) ==
  /\ acts[i].pc = "asked" /\ acts[i].kind = "move"
  /\ \E pc \in {"running", "refused"} :
       /\ acts' = Answered(i, pc)
       /\ IF ~Follows(i) /\ Batch(i, acts') # {}
            THEN Hides({acts[j].name : j \in Batch(i, acts')})
          ELSE UNCHANGED <<entries, selected, drawn>>
       /\ reveal' = (reveal \/ pc = "refused" \/ ~Follows(i))
  /\ UNCHANGED <<held, at, typed, lists, overtaken, broken, dropped, alarm, side, primed, clicks>>

DeleteStarts(i) ==
  /\ acts[i].pc = "asked" /\ acts[i].kind = "delete"
  /\ acts' = Answered(i, "running") /\ reveal' = (reveal \/ ~Follows(i))
  /\ UNCHANGED <<held, listVars, alarm, side, primed, clicks>>

(* The rest of the batch is given up, and the folder listed again.             *)
DeleteRefused(i) ==
  /\ acts[i].pc = "asked" /\ acts[i].kind = "delete"
  /\ acts' = [j \in DOMAIN acts |->
                IF acts[j].batch = acts[i].batch /\ acts[j].pc \in {"asked", "waiting"}
                  THEN [acts[j] EXCEPT !.pc = "refused"] ELSE acts[j]]
  /\ Refresh(typed, NoFolder) /\ reveal' = TRUE
  /\ UNCHANGED <<held, entries, selected, overtaken, broken, alarm, side, primed, clicks>>

FolderMade(i) ==
  /\ acts[i].pc = "asked" /\ acts[i].kind = "make" /\ reveal' = TRUE
  /\ \/ /\ held' = Effect(acts[i]) /\ acts' = Answered(i, "over")
        /\ Refresh(typed, NoFolder)
     \/ acts' = Answered(i, "over") /\ UNCHANGED <<held, at, typed, drawn, lists, dropped>>
  /\ UNCHANGED <<entries, selected, overtaken, broken, alarm, side, primed, clicks>>

----------------------------------------------------------------------------
(* The server, and what others ask of it.                                     *)

ActEnds(i) ==
  /\ acts[i].pc = "running"
  /\ acts' = [acts EXCEPT ![i].pc = "over"]
  /\ held' \in {held, Effect(acts[i])}
  /\ UNCHANGED <<listVars, pollVars, clicks>>

(* An item of the queue that another tab has put there.                       *)
OtherUploads(p, n) ==
  /\ Len(acts) < MaxActs
  /\ acts' = Append(acts, [kind |-> "upload", folder |-> p, name |-> n, to |-> p, batch |-> 0,
                           pc |-> "running", seen |-> "no", told |-> FALSE, right |-> TRUE])
  /\ UNCHANGED <<held, listVars, pollVars, clicks>>

OtherClears ==
  /\ acts' = Forgotten
  /\ UNCHANGED <<held, listVars, pollVars, clicks>>

----------------------------------------------------------------------------
(* refreshLogs and trackActivityFileEvents.  The queue is always polled, the    *)
(* logs, where the other operations are, only in the mode that shows them.     *)

Listed(i, mode) ==
  acts[i].pc \in {"running", "over"} /\ (acts[i].kind = "upload" \/ mode = "activity")
Ended(mode) == {i \in DOMAIN acts : Listed(i, mode) /\ acts[i].pc = "over" /\ acts[i].seen # "over"}

Polls(mode) ==
  LET news == IF primed THEN Ended(mode) ELSE {}
  IN /\ acts' = [i \in DOMAIN acts |->
                   [acts[i] EXCEPT !.seen = IF Listed(i, mode) THEN acts[i].pc ELSE "no",
                                   !.told = @ \/ i \in news]]
     /\ IF news = {} THEN UNCHANGED alarm
        ELSE \E i \in news, gone \in BOOLEAN :
               alarm' = [path |-> at, next |-> IF gone THEN NoFolder ELSE acts[i].to]
     /\ primed' = TRUE
     /\ UNCHANGED <<held, listVars, clicks>>

(* Mutant: the operations that are over are seen, and not told. *)
PollSeesOnly == /\ acts' = [i \in DOMAIN acts |->
                   [acts[i] EXCEPT !.seen = IF Listed(i, side) THEN acts[i].pc ELSE "no",
                                   !.told = @ \/ (primed /\ i \in Ended(side))]]
                /\ primed' = TRUE
                /\ UNCHANGED <<held, listVars, alarm, clicks, side, reveal>>

Poll == Polls(side) /\ UNCHANGED <<side, reveal>>

(* scheduleLogsReveal: what an operation has done is shown where the logs are.  *)
Reveals == reveal /\ reveal' = FALSE /\ side' = "activity" /\ Polls("activity")

(* scheduleFileRefresh: not if the tab has gone elsewhere, nor, perhaps, under  *)
(* the hands of a user who types a path.                                      *)
AlarmRings ==
  /\ alarm # NoAlarm /\ alarm' = NoAlarm
  /\ \/ /\ at = alarm.path /\ Refresh(at, alarm.next)
     \/ /\ at # alarm.path \/ typed # at
        /\ dropped' = (dropped \/ at = alarm.path)
        /\ UNCHANGED <<at, typed, drawn, lists>>
  /\ UNCHANGED <<held, acts, entries, selected, overtaken, broken, reveal, side, primed, clicks>>

----------------------------------------------------------------------------
UserClicks ==
  \/ \E p \in Folders : OpenPath(p) \/ TypePath(p) \/ Move(p)
  \/ Go \/ DeleteSelected \/ ClearActivity
  \/ \E n \in Names : Select(n) \/ DeleteRow(n) \/ MakeFolder(n)
  \/ \E mode \in {"paths", "activity"} : SideMode(mode)

Answers(i) == MoveAnswered(i) \/ DeleteStarts(i) \/ DeleteRefused(i) \/ FolderMade(i)
ListStep(i) == ListReads(i) \/ ListDraws(i) \/ ListFails(i)

BrowserNext ==
  \/ UserClicks
  \/ \E i \in DOMAIN acts : Answers(i) \/ ActEnds(i)
  \/ \E p \in Folders, n \in Names : OtherUploads(p, n)
  \/ OtherClears \/ Poll \/ Reveals \/ AlarmRings
  \/ \E i \in DOMAIN lists : ListStep(i)

BrowserSpec == BrowserInit /\ [][BrowserNext]_browserVars

(* The tab's timers ring, the server answers, an operation ends.              *)
FairBrowserSpec ==
  /\ BrowserSpec
  /\ WF_browserVars(Poll) /\ WF_browserVars(Reveals) /\ WF_browserVars(AlarmRings)
  /\ WF_browserVars(\E i \in DOMAIN lists : ListStep(i))
  /\ WF_browserVars(\E i \in DOMAIN acts : Answers(i) \/ ActEnds(i))

----------------------------------------------------------------------------
(* The shape of what the tab and the server keep.                             *)
BrowserTypeOK ==
  /\ held \in [Folders -> SUBSET Names] /\ acts \in Seq(Act) /\ Len(acts) <= MaxActs
  /\ at \in Folders /\ typed \in Folders
  /\ entries \in [of : Folders, names : SUBSET Names]
  /\ selected \subseteq Names /\ lists \in Seq(Listing) /\ Len(lists) <= MaxLists
  /\ alarm \in [path : Folders \cup {NoFolder}, next : Folders \cup {NoFolder}]
  /\ side \in {"paths", "activity"} /\ clicks \in 0 .. MaxClicks
  /\ {drawn, reveal, primed, overtaken, broken, dropped} \subseteq BOOLEAN

(* An operation works on a row the user saw, in the folder whose rows these      *)
(* were, though path and names are read at different times and other listings,   *)
(* removals and timers come between; unless the click fell while a listing was   *)
(* under way, after two of them had crossed, or after one had failed, which      *)
(* leaves a selection nobody sees.                                            *)
ActsOnWhatIsShown == \A i \in DOMAIN acts : acts[i].right

(* Once the user rests, and the polls have not missed the end of an operation,   *)
(* the list comes to be what the folder holds: a row hidden too early or drawn   *)
(* too late is put right by the listing that follows.                          *)
Missed(a) == (a.pc = "forgotten" \/ a.seen = "over") /\ ~a.told
Rests  == side = "activity" /\ typed = at /\ ~\E i \in DOMAIN acts : Missed(acts[i])
Fresh  == drawn /\ entries = [of |-> at, names |-> held[at]]
ViewCatchesUp == <>[]Rests => <>[](Fresh \/ overtaken \/ broken \/ dropped)
=============================================================================
