---------------------------- MODULE MCBackground -----------------------------
(* Background with the constants of MCAppImage, the source files of the       *)
(* block pool, and texts to compress, for TLC.                               *)
EXTENDS Background, MCAppImage

MCTwoFiles == <<2, 5>>

(* A small deflate format, and a small window.                               *)
MCFormat ==
  [letters |-> 4, lenBase |-> <<3, 4, 6>>, lenExtra |-> <<0, 1, 0>>,
   distBase |-> <<1, 2, 3, 4, 5, 7, 9, 13>>, distExtra |-> <<0, 0, 0, 0, 1, 1, 2, 2>>,
   maxBits |-> 3, sizeBits |-> 3, fastBits |-> 1, longRun |-> 4, zeroRun |-> 8,
   shortBits |-> 1, longBits |-> 2,
   staticLit |-> <<3, 3, 3, 3, 3, 3, 3, 3>>, staticDist |-> <<3, 3, 3, 3, 3, 3, 3, 3>>]
MCWindow ==
  [dict |-> 16, minMatch |-> 3, maxMatch |-> 6, hashes |-> 4, positionWrap |-> 32, probes |-> 2,
   far |-> 8, staticBelow |-> 6, codeBuffer |-> 22, manyBytes |-> 10]

(* Periodic texts of two letters, such with a letter changed here and there,   *)
(* and texts of four in which nothing near repeats.                          *)
Periodic(n, k) == [i \in 1 .. n |-> (k \div 2 ^ ((i - 1) % 8)) % 2]
Changed(text, j) == [i \in DOMAIN text |-> IF (i * j) % 11 = 3 THEN 1 - text[i] ELSE text[i]]
Long(n, period, k) ==
  [i \in 1 .. n |-> ((((i - 1) % period) * (((i - 1) % period) + k)) \div 2) % 4]
MCTexts ==
  UNION {{Periodic(n, k), Changed(Periodic(n, k), j)} :
            n \in {2, 13, 24, 32}, k \in {0, 1, 37, 85, 119}, j \in {1, 4, 5}}
  \cup {Long(n, period, k) : n \in {20, 32}, period \in {10, 13, 16}, k \in 1 .. 3}

MCReads ==
  {[at |-> 0, size |-> 3], [at |-> 1, size |-> 5], [at |-> 23, size |-> 2], [at |-> 31, size |-> 20]}
MCTrailer == <<80, 75, 7, 8, 255>>

MCSmaller == CompressSmaller
MCStream == RawStream
MCTurn == Inflated
MCWholeBlock == InflateAll
=============================================================================
