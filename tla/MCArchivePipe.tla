---------------------------- MODULE MCArchivePipe ----------------------------
(* Constants of ArchivePipe for TLC. *)
EXTENDS ArchivePipe, TLC

MCSymmetry == Permutations(Uploads) \cup Permutations(Cancellers)
=============================================================================
