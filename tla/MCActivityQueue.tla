--------------------------- MODULE MCActivityQueue ---------------------------
(* Small instances of ActivityQueue for TLC.  A behaviour is one of the Scenes: *)
(* tabs that queue uploads, tabs that queue zips, or one tab ("alone"; the      *)
(* others stay open and ask for nothing) whose first item is a zip and whose   *)
(* next ones are compressions, and which competes with jobs outside the queue. *)
EXTENDS ActivityQueue, TLC

CONSTANT Scenes   \* the scenes to play, of "uploads", "zips" and "jobs"

VARIABLES scene, alone   \* the tab of scene "jobs", else Nobody

MCInit ==
  /\ Init
  /\ scene \in Scenes /\ alone \in IF scene = "jobs" THEN Clients ELSE {Nobody}

TabsQueue(kind) ==
  /\ \A s \in Slots : items'[s].kind \in {"none", kind}
  /\ \A t \in Threads : ~LocalJob(t)

OneTabAndJobs ==
  /\ \A s \in Slots :
       items'[s].kind = CASE items'[s].seq = 0 -> "none" [] items'[s].seq = 1 -> "zip"
                          [] OTHER -> "compress"
  /\ \A t \in Threads : req'[t].client \in {Nobody, alone}
  /\ \A c \in Clients \ {alone} : alive'[c]

Uploads == scene = "uploads" /\ Next /\ TabsQueue("upload")
Zips    == scene = "zips" /\ Next /\ TabsQueue("zip")
Jobs    == scene = "jobs" /\ Next /\ OneTabAndJobs

MCNext == (Uploads \/ Zips \/ Jobs) /\ UNCHANGED <<scene, alone>>
MCSpec == MCInit /\ [][MCNext]_<<vars, scene, alone>>
MCFairSpec == MCSpec /\ Fairness

MCSymmetry == Permutations(Clients) \cup Permutations(Threads)
=============================================================================
