------------------------------ MODULE RunQueue ------------------------------
(***************************************************************************)
(* What the Activity queue promises its users, with nothing about leases,   *)
(* heartbeats, slots or requests: items are numbered in the order they are  *)
(* submitted, at most one runs at a time, the one started is the oldest     *)
(* that still waits, and an item that stopped waiting or running is retired *)
(* for good.  ActivityQueue is shown to implement this specification.       *)
(***************************************************************************)
EXTENDS Naturals

VARIABLES next,      \* the number the next submitted item gets
          waiting,   \* numbers of the items that wait
          running    \* numbers of the items that run

vars == <<next, waiting, running>>

Oldest(S) == CHOOSE n \in S : \A m \in S : n <= m

Init == next = 1 /\ waiting = {} /\ running = {}

Submit == /\ waiting' = waiting \cup {next}
          /\ next' = next + 1
          /\ UNCHANGED running

(* Items finish, are cancelled or are given up, and nothing is started.     *)
Retire(D) == /\ waiting' = waiting \ D
             /\ running' = running \ D
             /\ UNCHANGED next

(* One step may give up items and start the oldest of those left, but only  *)
(* when nothing is left running.                                            *)
StartOldest(D) ==
  /\ running \subseteq D
  /\ waiting \ D # {}
  /\ LET n == Oldest(waiting \ D)
     IN  running' = {n} /\ waiting' = (waiting \ D) \ {n}
  /\ UNCHANGED next

Next == \/ Submit
        \/ \E D \in SUBSET (waiting \cup running) : Retire(D) \/ StartOldest(D)

Spec == Init /\ [][Next]_vars
=============================================================================
