----------------------------- MODULE Background ------------------------------
(***************************************************************************)
(* The jobs that outlast a request, and the process they run in, one machine *)
(* at a time: the conversions of an app as jobs that fail, are killed and    *)
(* are started again (AppConversions), where an image is the set of the files *)
(* in it; the words of one image, from the scan to the last unpacked file     *)
(* (AppImage); the octets of compressed blocks and streams (CompressedData);  *)
(* the block pool that both conversions run on (BlockPool); and the handoff   *)
(* of the port to a new process (Handoff).  A behaviour is one of the five;   *)
(* they share no variable, and the other four stay as they are.              *)
(***************************************************************************)
EXTENDS AppConversions, AppImage, CompressedData, BlockPool, Handoff

VARIABLE view   \* the one that runs

NoConversion == RoundTripInit /\ emptyDir = FALSE /\ unpacked.there = FALSE
NoImageYet ==
  /\ app = NoFiles /\ format = "pfs" /\ streamIn = FALSE /\ streamOut = FALSE
  /\ layout = << >> /\ stage = "none" /\ reader = NewReader /\ slots = <<>> /\ img = <<>>
  /\ gone = 0 /\ plan = <<>> /\ out = NoFiles
NoPool == PoolInit /\ kind = (CHOOSE k \in PoolKinds : TRUE)

BackgroundInit ==
  /\ DataInit
  /\ \/ view = "jobs" /\ RoundTripInit /\ NoImageYet /\ NoPool /\ HandoffInit
     \/ view = "words" /\ NoConversion /\ ImageInit /\ NoPool /\ HandoffInit
     \/ view = "octets" /\ NoConversion /\ NoImageYet /\ NoPool /\ HandoffInit
     \/ view = "pool" /\ NoConversion /\ NoImageYet /\ PoolInit /\ HandoffInit
     \/ view = "handoff" /\ NoConversion /\ NoImageYet /\ NoPool /\ HandoffInit

Converts(A) ==
  view = "jobs" /\ A /\ UNCHANGED <<view, imageVars, dataVars, blockVars, handoffVars>>
Images(A) ==
  view = "words" /\ A /\ UNCHANGED <<view, vars, unpackVars, dataVars, blockVars, handoffVars>>
Compresses(A) ==
  view = "octets" /\ A /\ UNCHANGED <<view, vars, unpackVars, imageVars, blockVars, handoffVars>>
Packs(A) ==
  view = "pool" /\ A /\ UNCHANGED <<view, vars, unpackVars, imageVars, dataVars, handoffVars>>
Ports(A) ==
  view = "handoff" /\ A /\ UNCHANGED <<view, vars, unpackVars, imageVars, dataVars, blockVars>>

BackgroundNext ==
  \/ Converts(RoundTripNext) \/ Images(ImageNext) \/ Compresses(DataNext)
  \/ Packs(PoolNext) \/ Ports(HandoffNext)

(* The fairness is that of FairPoolSpec and FairHandoffSpec. *)
BackgroundSpec ==
  /\ BackgroundInit
  /\ [][BackgroundNext]_<<view, vars, unpackVars, imageVars, dataVars, blockVars, handoffVars>>
  /\ WF_blockVars(Packs(MainStep /\ UNCHANGED kind))
  /\ \A w \in Workers : WF_blockVars(Packs(WorkerStep(w) /\ UNCHANGED kind))
  /\ \A i \in Instances : WF_handoffVars(Ports(InstanceStep(i)))

----------------------------------------------------------------------------
(* With fair threads the job of the pool ends, whatever fails and whoever       *)
(* sleeps.                                                                  *)
PoolEnds == (view = "pool") ~> (main = "over")
=============================================================================
