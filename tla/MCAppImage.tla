----------------------------- MODULE MCAppImage -----------------------------
(* Constants of AppImage for TLC.  Names 1 and 2 differ in case only, name 3 *)
(* is a long one.                                                           *)
EXTENDS AppImage

MCFold        == <<1, 1, 3, 4, 5, 6>>
MCNameSize    == <<1, 1, 2, 1, 1, 1>>
MCNameEntries == <<1, 1, 2, 1, 1, 1>>
MCSizes == <<0, BLOCK + 1, 1, BLOCK>>

(* An app of the given paths whose sizes are the digits of c.                *)
AppOf(paths, c) ==
  [p \in ToSet(paths) |-> MCSizes[((c \div 4^(Index(paths, p) - 1)) % 4) + 1]]

MCPairs == { << <<1>>, <<2>> >>, << <<3>>, <<4, 1>> >>, << <<4, 3>>, <<4, 5, 1>> >> }
MCApps  == {AppOf(paths, c) : paths \in MCPairs, c \in 0 .. 15}
           \cup {AppOf(<< <<1>>, <<2>>, <<4, 1>> >>, c) : c \in {0, 1, 4, 5, 16, 17, 20, 21}}
           \cup { <<1>> :> 21 * BLOCK }

(* Nine inodes of a PFS image: one more than a block has.                    *)
MCManyApps == { [p \in {<<n>> : n \in 1 .. 6} |-> 1] }
=============================================================================
