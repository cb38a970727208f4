----------------------------- MODULE MCDiskWork ------------------------------
(* DiskWork with the constants of its parts, for TLC.  The machines never     *)
(* meet, so that they may share model values: both names of the backup are    *)
(* the names of the file operations, and the two restores those operations.   *)
EXTENDS DiskWork, MCZipStream, MCAppPrepare, TLC

MCSymmetry == Permutations(Names) \cup Permutations(Restorers)

-----------------------------------------------------------------------------
(* RAR bodies: good ones, a short and a long one, and a manifest whose sum is *)
(* wrong.                                                                    *)
MCRarBodies ==
  {[manifest |-> 2, claim |-> 3, sizes |-> <<1, 2>>, data |-> n] : n \in {2, 3, 4}}
  \cup {[manifest |-> 1, claim |-> 3, sizes |-> <<1, 1>>, data |-> n] : n \in {2, 3}}
  \cup {[manifest |-> 1, claim |-> 1, sizes |-> <<1>>, data |-> 1]}

==============================================================================
