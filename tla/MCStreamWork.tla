---------------------------- MODULE MCStreamWork -----------------------------
(* StreamWork with the constants of its parts, for TLC: the uploads are the   *)
(* operations whose logs are kept.                                          *)
EXTENDS StreamWork, MCArchivePipe
=============================================================================
