------------------------------- MODULE Inflate -----------------------------
(***************************************************************************)
(* tinfl_decompress: a coroutine that stops in the middle of anything when   *)
(* the input it was given is used up or the output has no room, and goes on   *)
(* there when it is called again.  It reads ahead of what it decodes while    *)
(* there is plenty, and gives back whole octets at the end of a call.        *)
(*                                                                          *)
(* A call is [input, first, end, room, flags]: all octets there are, the part *)
(* of them this call may read, how much may have been put out when it ends,   *)
(* and whether a zlib header is parsed ("zlib"), more input will come         *)
(* ("more"), the output does not wrap around ("flat").                       *)
(***************************************************************************)
EXTENDS Huffman

Calls ==
  [input : Seq(0 .. 255), first : Nat, end : Nat, room : Nat,
   flags : SUBSET {"zlib", "more", "flat"}]

(* Where the coroutine is and why it stopped; the bits read and not yet used,  *)
(* how many octets were taken, what is out; whether the block is the last; what *)
(* is left of a raw block or a match; a symbol, distance or letter in hand;    *)
(* what has been read of a header; whether it was reading a code octet by      *)
(* octet; the sizes of the codes, how many were announced, and the tables.     *)
Decompressors ==
  [at : STRING, status : STRING, bits : Seq({0, 1}), taken : Nat, out : Seq(Nat),
   final : BOOLEAN, counter : Nat, sym : Nat, read : Seq(Nat), filling : BOOLEAN,
   sizes : Seq(Seq(Nat)), told : Seq(Nat), tables : Seq(Tables)]

InflateInit ==
  [at |-> "start", status |-> "none", bits |-> <<>>, taken |-> 0, out |-> <<>>,
   final |-> FALSE, counter |-> 0, sym |-> 0, read |-> <<>>, filling |-> FALSE,
   sizes |-> <<>>, told |-> <<>>, tables |-> <<>>]

----------------------------------------------------------------------------
(* Input.                                                                    *)

TakeOctets(z, call, n) ==
  [z EXCEPT !.bits = @ \o Together([i \in 1 .. n |-> Bits(call.input[z.taken + i], 8)]),
            !.taken = @ + n]
Available(z, call) == call.end - z.taken

(* TINFL_GET_BYTE: one more octet, or the call ends here.                    *)
GetOctet(z, call) ==
  IF Available(z, call) > 0 THEN TakeOctets(z, call, 1)
  ELSE [z EXCEPT !.status = IF "more" \in call.flags THEN "needs input" ELSE "no progress"]

(* TINFL_GET_BITS: octet by octet until there are enough, then a number.       *)
Lacks(z, width) == Len(z.bits) < width
FrontBits(z, width) == Number(SubSeq(z.bits, 1, width))
Drop(z, width) == [z EXCEPT !.bits = SubSeq(@, width + 1, Len(@))]
ReadNumber(z, call, width, plus) ==
  IF Lacks(z, width) THEN GetOctet(z, call)
  ELSE [Drop(z, width) EXCEPT !.read = Append(@, FrontBits(z, width) + plus)]

(* TINFL_HUFF_DECODE: two octets at once, unless fewer are left or it was in   *)
(* the middle of reading them one by one when the last call ended, each only   *)
(* if the code is not complete (TINFL_HUFF_BITBUF_FILL).                      *)
LacksCode(z, call, d) ==
  /\ Len(z.bits) < Format.maxBits
  /\ \/ ~z.filling /\ Available(z, call) >= 2
     \/ d.size = 0 \/ d.size > Len(z.bits)
GetCode(z, call) ==
  IF ~z.filling /\ Available(z, call) >= 2 THEN TakeOctets(z, call, 2)
  ELSE [GetOctet(z, call) EXCEPT !.filling = TRUE]
DropCode(z, d) == [Drop(z, d.size) EXCEPT !.filling = FALSE]

Breaks(z) == [z EXCEPT !.status = "failed", !.at = "failed"]

----------------------------------------------------------------------------
(* The beginning of a stream and of a block.                                 *)

GoodHeader(first, second) ==
  (256 * first + second) % 31 = 0 /\ (second \div 32) % 2 = 0 /\ first % 16 = 8
ReadZlibHeader(z, call) ==
  IF Lacks(z, 16) THEN GetOctet(z, call)
  ELSE IF ~GoodHeader(FrontBits(z, 8), FrontBits(Drop(z, 8), 8)) THEN Breaks(z)
  ELSE [Drop(z, 16) EXCEPT !.at = "block"]

StartStream(z, call) ==
  IF "zlib" \in call.flags THEN ReadZlibHeader(z, call) ELSE [z EXCEPT !.at = "block"]

AlignToOctet(z) == Drop(z, Len(z.bits) % 8)

StartKind(z, kind) ==
  CASE kind = 0 -> [AlignToOctet(z) EXCEPT !.at = "raw header"]
    [] kind = 1 -> [z EXCEPT !.at = "tables", !.sizes = <<Format.staticLit, Format.staticDist>>]
    [] kind = 2 -> [z EXCEPT !.at = "counts"]
    [] OTHER -> Breaks(z)
StartBlock(z, call) ==
  IF Lacks(z, 3) THEN GetOctet(z, call)
  ELSE StartKind([Drop(z, 3) EXCEPT !.final = z.bits[1] = 1, !.read = <<>>],
                 z.bits[2] + 2 * z.bits[3])

BlockDone(z) == [z EXCEPT !.at = IF z.final THEN "end" ELSE "block"]

(* A block sent as it is: its length and the complement, then its octets,     *)
(* those first that had been read ahead.                                     *)
ReadRawHeader(z, call) ==
  IF Len(z.read) < 4 THEN ReadNumber(z, call, 8, 0)
  ELSE IF z.read[1] + 256 * z.read[2] + z.read[3] + 256 * z.read[4] # 65535 THEN Breaks(z)
  ELSE [z EXCEPT !.at = "raw", !.counter = z.read[1] + 256 * z.read[2]]

HasRoom(z, call) == Len(z.out) < call.room
WaitForRoom(z) == [z EXCEPT !.status = "has output"]

CopyRaw(z, call) ==
  IF z.counter = 0 THEN BlockDone(z)
  ELSE IF Len(z.bits) > 0
  THEN [Drop(z, 8) EXCEPT !.at = "raw letter", !.sym = FrontBits(z, 8)]
  ELSE IF ~HasRoom(z, call) THEN WaitForRoom(z)
  ELSE GetOctet(z, call)

PutRaw(z, call) ==
  IF HasRoom(z, call) THEN [z EXCEPT !.at = "raw", !.out = Append(@, z.sym), !.counter = @ - 1]
  ELSE WaitForRoom(z)

(* How many sizes of each kind follow, the sizes of the codes for sizes, and   *)
(* the sizes.                                                                *)
ReadCounts(z, call) ==
  LET width == <<5, 5, 4>>
      least == <<Format.letters + 1, 1, 4>>
      i == Len(z.read) + 1
  IN IF i <= 3 THEN ReadNumber(z, call, width[i], least[i])
     ELSE [z EXCEPT !.at = "size sizes", !.told = z.read, !.read = <<>>]

SizeSize(read, s) ==
  LET at == CHOOSE i \in 1 .. 19 : SizeOrder[i] = s IN IF at <= Len(read) THEN read[at] ELSE 0

UseSizeTable(z, t) ==
  IF t = NoTable THEN Breaks(z) ELSE [z EXCEPT !.at = "sizes", !.tables = <<t>>, !.read = <<>>]
ReadSizeSizes(z, call) ==
  IF Len(z.read) < z.told[3] THEN ReadNumber(z, call, 3, 0)
  ELSE UseSizeTable(z, Table([s \in SizeSymbols |-> SizeSize(z.read, s)], 19))

(* A size, or how often the last one or a zero is repeated.                   *)
Repeat(z) ==
  LET width == SizeExtra(z.sym)
      n == FrontBits(z, width) + IF z.sym = ZeroLong THEN Format.longRun + 1 ELSE 3
      value == IF z.sym = RepeatSize THEN z.read[Len(z.read)] ELSE 0
  IN [Drop(z, width) EXCEPT !.sym = 0, !.read = @ \o [i \in 1 .. n |-> value]]

TakeSize(z, call, d) ==
  IF LacksCode(z, call, d) THEN GetCode(z, call)
  ELSE IF d.sym < RepeatSize THEN [DropCode(z, d) EXCEPT !.read = Append(@, d.sym)]
  ELSE [DropCode(z, d) EXCEPT !.sym = d.sym]
TakeRepeat(z, call) ==
  IF z.sym = RepeatSize /\ z.read = <<>> THEN Breaks(z)
  ELSE IF Lacks(z, SizeExtra(z.sym)) THEN GetOctet(z, call) ELSE Repeat(z)
SizesRead(z) ==
  [z EXCEPT !.at = "tables", !.read = <<>>,
            !.sizes = <<SubSeq(z.read, 1, z.told[1]), SubSeq(z.read, z.told[1] + 1, Len(z.read))>>]
ReadSizes(z, call, all) ==
  IF z.sym >= RepeatSize THEN TakeRepeat(z, call)
  ELSE CASE Len(z.read) < all -> TakeSize(z, call, Decoded(z.tables[1], z.bits))
         [] Len(z.read) > all -> Breaks(z)
         [] Len(z.read) = all -> SizesRead(z)

TableOf(sizes) == Table([s \in 0 .. Len(sizes) - 1 |-> sizes[s + 1]], Len(sizes))
UseTables(z, lit, dist) ==
  IF lit = NoTable \/ dist = NoTable THEN Breaks(z)
  ELSE [z EXCEPT !.at = "symbol", !.tables = <<lit, dist>>, !.sizes = <<>>, !.told = <<>>]
MakeTables(z) == UseTables(z, TableOf(z.sizes[1]), TableOf(z.sizes[2]))

----------------------------------------------------------------------------
(* Symbols.                                                                  *)

TakeSymbol(z, s) ==
  CASE s < EndOfBlock -> [z EXCEPT !.at = "letter", !.sym = s]
    [] s = EndOfBlock -> BlockDone([z EXCEPT !.tables = <<>>])
    [] OTHER -> [z EXCEPT !.at = "length", !.sym = s - EndOfBlock]

PutLetter(z, call) ==
  IF HasRoom(z, call) THEN [z EXCEPT !.at = "symbol", !.out = Append(@, z.sym)] ELSE WaitForRoom(z)

(* With four octets of input and room for two of output, two symbols at once.  *)
Plenty(z, call) ==
  ~z.filling /\ Available(z, call) >= 4 /\ call.room - Len(z.out) >= 2

PutSymbol(z, s) == IF s < EndOfBlock THEN [z EXCEPT !.out = Append(@, s)] ELSE TakeSymbol(z, s)
TakeSecond(z, d) == IF d.size = 0 THEN Breaks(z) ELSE PutSymbol(Drop(z, d.size), d.sym)
AfterLetter(z) == TakeSecond(z, Decoded(z.tables[1], z.bits))
TakeFirst(z, d) ==
  CASE d.size = 0 -> Breaks(z)
    [] d.size > 0 /\ d.sym < EndOfBlock -> AfterLetter(PutSymbol(Drop(z, d.size), d.sym))
    [] OTHER -> TakeSymbol(Drop(z, d.size), d.sym)
DecodeTwo(z) == TakeFirst(z, Decoded(z.tables[1], z.bits))
TakeTwo(z, call) ==
  DecodeTwo(IF Len(z.bits) < 2 * Format.maxBits THEN TakeOctets(z, call, 4) ELSE z)

TakeOne(z, call, d) ==
  IF LacksCode(z, call, d) THEN GetCode(z, call) ELSE TakeSymbol(DropCode(z, d), d.sym)
NextSymbol(z, call) ==
  IF Plenty(z, call) THEN TakeTwo(z, call) ELSE TakeOne(z, call, Decoded(z.tables[1], z.bits))

ReadLength(z, call) ==
  LET width == Format.lenExtra[z.sym]
  IN IF Lacks(z, width) THEN GetOctet(z, call)
     ELSE [Drop(z, width) EXCEPT !.at = "distance",
                                 !.counter = Format.lenBase[z.sym] + FrontBits(z, width)]

TakeDistance(z, call, d) ==
  IF LacksCode(z, call, d) THEN GetCode(z, call)
  ELSE [DropCode(z, d) EXCEPT !.at = "extra", !.sym = d.sym + 1]
ReadDistance(z, call) == TakeDistance(z, call, Decoded(z.tables[2], z.bits))

Reaches(z, call, dist) ==
  IF dist > Len(z.out) /\ "flat" \in call.flags THEN Breaks(z)
  ELSE [Drop(z, Format.distExtra[z.sym]) EXCEPT !.at = "copy", !.sym = dist]
ReadExtra(z, call) ==
  IF Lacks(z, Format.distExtra[z.sym]) THEN GetOctet(z, call)
  ELSE Reaches(z, call, Format.distBase[z.sym] + FrontBits(z, Format.distExtra[z.sym]))

(* The octets of a match, each of which may be one that was just put out.     *)
Copied(z, n) ==
  LET out[i \in 0 .. n] ==
        IF i = 0 THEN z.out ELSE Append(out[i - 1], out[i - 1][Len(z.out) + i - z.sym])
  IN out[n]
CopySome(z, n) == [z EXCEPT !.counter = @ - n, !.out = Copied(z, n)]
CopyMatch(z, call) ==
  IF z.counter = 0 THEN [z EXCEPT !.at = "symbol"]
  ELSE IF ~HasRoom(z, call) THEN WaitForRoom(z)
  ELSE CopySome(z, Less(z.counter, call.room - Len(z.out)))

----------------------------------------------------------------------------
(* The end, and a call.                                                      *)

(* Mutant: what was read ahead is kept.                                        *)
KeepAll(z, call) == z

(* Whole octets that were read ahead go back, those of earlier calls cannot.   *)
GiveOctets(z, n) == [z EXCEPT !.taken = @ - n, !.bits = SubSeq(@, 1, Len(@) - 8 * n)]
GiveBack(z, call) == GiveOctets(z, Less(Len(z.bits) \div 8, z.taken - call.first))

EndStream(z, call) ==
  [GiveBack(AlignToOctet(z), call) EXCEPT !.read = <<>>,
     !.at = IF "zlib" \in call.flags THEN "check" ELSE "done"]

ReadCheck(z, call) ==
  IF Len(z.read) < 4 THEN ReadNumber(z, call, 8, 0)
  ELSE [z EXCEPT !.at = "done"]

Step(z, call) ==
  CASE z.at = "start" -> StartStream(z, call)
    [] z.at = "block" -> StartBlock(z, call)
    [] z.at = "raw header" -> ReadRawHeader(z, call)
    [] z.at = "raw" -> CopyRaw(z, call)
    [] z.at = "raw letter" -> PutRaw(z, call)
    [] z.at = "counts" -> ReadCounts(z, call)
    [] z.at = "size sizes" -> ReadSizeSizes(z, call)
    [] z.at = "sizes" -> ReadSizes(z, call, z.told[1] + z.told[2])
    [] z.at = "tables" -> MakeTables(z)
    [] z.at = "symbol" -> NextSymbol(z, call)
    [] z.at = "letter" -> PutLetter(z, call)
    [] z.at = "length" -> ReadLength(z, call)
    [] z.at = "distance" -> ReadDistance(z, call)
    [] z.at = "extra" -> ReadExtra(z, call)
    [] z.at = "copy" -> CopyMatch(z, call)
    [] z.at = "end" -> EndStream(z, call)
    [] z.at = "check" -> ReadCheck(z, call)
    [] z.at = "done" -> [z EXCEPT !.status = IF "zlib" \in call.flags /\ z.read # Adler32(z.out)
                                             THEN "mismatch" ELSE "done"]
    [] z.at = "failed" -> Breaks(z)

RECURSIVE Run(_, _)
Run(z, call) == IF z.status # "running" THEN z ELSE Run(Step(z, call), call)

Returned(z, call) == IF z.status \in {"needs input", "no progress"} THEN z ELSE GiveBack(z, call)
Inflated[z \in Decompressors, call \in Calls] ==
  Returned(Run([z EXCEPT !.status = "running"], call), call)

(* tinfl_decompress_mem_to_mem.                                              *)
Whole(z) ==
  IF z.status = "done" THEN [ok |-> TRUE, out |-> z.out, taken |-> z.taken]
  ELSE [ok |-> FALSE, out |-> <<>>, taken |-> 0]
InflateAll[octets \in Seq(0 .. 255), room \in Nat] ==
  Whole(Inflated[InflateInit, [input |-> octets, first |-> 0, end |-> Len(octets), room |-> room,
                               flags |-> {"zlib", "flat"}]])

=============================================================================
