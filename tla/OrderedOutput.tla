---------------------------- MODULE OrderedOutput ----------------------------
(***************************************************************************)
(* What a block job promises, whatever its threads do: the output file     *)
(* only ever grows by the next blocks of the image, in order, and it        *)
(* reports success only over a whole image.                                *)
(***************************************************************************)
EXTENDS Naturals, Sequences

CONSTANT BlockCount

VARIABLES out, result
vars == <<out, result>>

Init == out = <<>> /\ result = "running"

(* The blocks up to n reach the file.                                       *)
Grow ==
  /\ result = "running"
  /\ \E n \in Len(out) + 1 .. BlockCount : out' = [i \in 1 .. n |-> i - 1]
  /\ UNCHANGED result

Succeed == result = "running" /\ Len(out) = BlockCount /\ result' = "ok" /\ UNCHANGED out
Fail    == result = "running" /\ result' = "failed" /\ UNCHANGED out

Next == Grow \/ Succeed \/ Fail
Spec == Init /\ [][Next]_vars
=============================================================================
