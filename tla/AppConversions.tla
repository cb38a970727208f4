---------------------------- MODULE AppConversions ----------------------------
(***************************************************************************)
(* An app through both conversions: the user compresses its folder, in as    *)
(* many jobs as that takes, and unpacks the image again, to another place.   *)
(* The image AppDecompress starts from is the one AppCompress has renamed    *)
(* into place.  One job runs at a time: both hold the job slot.             *)
(***************************************************************************)
EXTENDS AppCompress

VARIABLES image, cut, tree, unpacked, unpackJob, unpackJobs, unpackTaken

unpackVars == <<image, cut, tree, unpacked, unpackJob, unpackJobs, unpackTaken>>

D == INSTANCE AppDecompress WITH
       tmp <- tree, output <- unpacked, job <- unpackJob, jobs <- unpackJobs,
       taken <- unpackTaken

RoundTripInit == Init /\ D!Init

CompressStep == unpackJobs = 0 /\ Next /\ UNCHANGED unpackVars

(* AppDecompress starts from an image of all its Files: the bound on what is   *)
(* unpacked, for an image of some of them is one with a smaller FileCount.    *)
UnpackStep ==
  job.pc = "idle" /\ output.there /\ output.files = Files /\ D!Next /\ UNCHANGED vars

RoundTripNext == CompressStep \/ UnpackStep

RoundTripSpec == RoundTripInit /\ [][RoundTripNext]_<<vars, unpackVars>>

----------------------------------------------------------------------------
(* The files of both conversions and their jobs have the shape the code gives *)
(* them.                                                                     *)
BothTypeOK == TypeOK /\ D!TypeOK

(* files.html:4565-4569: unless a job streams, what it starts from is whole    *)
(* until what it makes is in place under its final name: the source folder,   *)
(* then the image.                                                          *)
OriginalStaysUntilRenamed == SourceStaysUntilRenamed /\ D!ImageStaysUntilRenamed

(* Nothing half written passes for whole, in either direction: an image under *)
(* its final name holds the files its tables name, and a job that reports     *)
(* success has unpacked every file.                                          *)
ResultIsWhole == OutputIsWhole /\ D!SuccessIsWhole

(* A conversion replaces one whole with another.                             *)
WholeReplacesWhole == OriginalStaysUntilRenamed /\ ResultIsWhole

(* The files the image, the unpacked tree and the new folder hold.           *)
InUnpack == D!InImage \cup tree.files \cup unpacked.files

(* No job loses a file of what it was started on, whichever policy it has and  *)
(* whichever of its steps, and of the jobs' before it, failed, were cancelled   *)
(* or were killed: a file that was in the folder when the last job was started  *)
(* is in it, in the temporary file or in the image under its final name, and   *)
(* one that was in the image is in it, in the temporary tree or in the new      *)
(* folder.  So there and back no file of the app is lost as long as each job is *)
(* started on all of it.  A job that is started on less promises no more: files *)
(* that only a temporary file or an output holds, which an unfinished job left  *)
(* there, streaming or removing afterwards, go when it truncates the one and    *)
(* replaces the other.                                                      *)
NothingLost ==
  /\ taken \subseteq source \cup tmp.files \cup output.files
  /\ unpackTaken \subseteq InUnpack
=============================================================================
