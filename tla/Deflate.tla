------------------------------- MODULE Deflate ------------------------------
(***************************************************************************)
(* tdefl_compress as the compressor of blocks calls it: all of the input in  *)
(* one call that finishes the stream, one level (greedy parsing, few probes, *)
(* a zlib header), an output that may turn out too small.  A letter stands   *)
(* for an octet and is one where it is sent as it is; positions are numbers   *)
(* modulo positionWrap.                                                      *)
(***************************************************************************)
EXTENDS Huffman

CONSTANT Window
    \* [dict, minMatch, maxMatch, hashes, positionWrap, probes, far, staticBelow,
    \*  codeBuffer, manyBytes]: TDEFL_LZ_DICT_SIZE, .., the distance from which the
    \* shortest match is not worth it, the block size below which static codes are
    \* used, the room for codes, and how many bytes a block has before it may be ended

ASSUME WindowAssumption ==
  /\ Window.minMatch = 3 /\ Window.maxMatch < Window.dict
  /\ Window.positionWrap % Window.dict = 0

Ring(n) == n % Window.dict
Position(n) == n % Window.positionWrap

DeflateInit ==
  [dict |-> [i \in 0 .. Window.dict + Window.maxMatch - 2 |-> 0],
   hash |-> [h \in 0 .. Window.hashes - 1 |-> 0], next |-> [i \in 0 .. Window.dict - 1 |-> 0],
   lookPos |-> 0, lookSize |-> 0, dictSize |-> 0,
   codes |-> <<>>, blockPos |-> 0, block |-> 0, bits |-> <<>>, full |-> FALSE]

----------------------------------------------------------------------------
(* The dictionary: a ring whose first octets are repeated behind its end, so  *)
(* that a match may be compared across it, and chains of equal hashes.       *)

HashOf(d, at) ==
  (4 * d.dict[Ring(at)] + 2 * d.dict[Ring(at + 1)] + d.dict[Ring(at + 2)]) % Window.hashes

Insert(d, c) ==
  LET at == Ring(d.lookPos + d.lookSize)
      e == [d EXCEPT !.lookSize = @ + 1,
                     !.dict = [i \in DOMAIN @ |->
                                 IF i = at \/ (i = at + Window.dict) THEN c ELSE @[i]]]
      ins == d.lookPos + d.lookSize - 2
      h == HashOf(e, ins)
  IN IF e.lookSize + e.dictSize < Window.minMatch THEN e
     ELSE [e EXCEPT !.next[Ring(ins)] = e.hash[h], !.hash[h] = Position(ins)]

(* Fill the look-ahead from the input, of which as much has been taken as is   *)
(* before the look-ahead's end.                                              *)
FillAhead(d, raw) ==
  LET taken == d.lookPos + d.lookSize
      more == Less(Len(raw) - taken, Window.maxMatch - d.lookSize)
      filled[i \in 0 .. more] == IF i = 0 THEN d ELSE Insert(filled[i - 1], raw[taken + i])
      e == filled[more]
  IN [e EXCEPT !.dictSize = Less(Window.dict - e.lookSize, @)]

MatchLength(d, p, q) ==
  CHOOSE n \in 0 .. d.lookSize :
    /\ \A k \in 0 .. n - 1 : d.dict[p + k] = d.dict[q + k]
    /\ n = d.lookSize \/ d.dict[p + n] # d.dict[q + n]

(* Candidates are tried along the chain, three for each probe; only one that   *)
(* agrees where the best match ends is compared.                             *)
Agrees(d, p, pos, len) ==
  d.dict[p + len] = d.dict[pos + len] /\ d.dict[p + len - 1] = d.dict[pos + len - 1]
RECURSIVE ProbeChain(_, _, _, _, _)
RECURSIVE Tried(_, _, _, _, _, _)
Tried(d, left, p, best, dist, len) ==
  IF len <= best.len THEN ProbeChain(d, left, 0, p, best)
  ELSE IF len = d.lookSize THEN [len |-> len, dist |-> dist]
  ELSE ProbeChain(d, left, 0, p, [len |-> len, dist |-> dist])
RECURSIVE Candidate(_, _, _, _, _, _)
Candidate(d, left, turn, next, best, dist) ==
  IF left = 0 \/ next = 0 \/ dist > d.dictSize THEN best
  ELSE IF ~Agrees(d, Ring(next), Ring(d.lookPos), best.len)
  THEN ProbeChain(d, left, (turn + 1) % 3, Ring(next), best)
  ELSE IF dist = 0 THEN best
  ELSE Tried(d, left, Ring(next), best, dist, MatchLength(d, Ring(d.lookPos), Ring(next)))
ProbeChain(d, probes, turn, at, best) ==
  Candidate(d, IF turn = 0 THEN probes - 1 ELSE probes, turn, d.next[at], best,
            Position(d.lookPos - d.next[at]))

NoMatch == [len |-> Window.minMatch - 1, dist |-> 0]
FindMatch(d) ==
  IF d.lookSize <= Window.minMatch - 1 THEN NoMatch
  ELSE ProbeChain(d, Window.probes, 0, Ring(d.lookPos), NoMatch)

WorthIt(d, m) ==
  /\ m.dist # 0
  /\ ~(m.len = Window.minMatch /\ m.dist >= Window.far)
  /\ Ring(d.lookPos) # m.dist

Recorded(d, code) ==
  [d EXCEPT !.codes = Append(@, code), !.lookPos = @ + code.len, !.lookSize = @ - code.len,
            !.dictSize = Less(@ + code.len, Window.dict)]
RecordMatch(d, m) ==
  Recorded(d, IF WorthIt(d, m) THEN m
              ELSE [len |-> 1, dist |-> 0, letter |-> d.dict[Ring(d.lookPos)]])
Record(d) == RecordMatch(d, FindMatch(d))

----------------------------------------------------------------------------
(* A block's codes become bits.                                              *)

Total(codes) == SumUpTo([i \in DOMAIN codes |-> codes[i].len], Len(codes))

LitSymbol(c) == IF c.dist = 0 THEN c.letter
                ELSE EndOfBlock + Symbol(Format.lenBase, c.len)
DistSymbol(c) == Symbol(Format.distBase, c.dist) - 1

LitCount(codes) ==
  [s \in 0 .. LitSymbols - 1 |->
     IF s = EndOfBlock THEN 1 ELSE Cardinality({i \in DOMAIN codes : LitSymbol(codes[i]) = s})]
DistCount(codes) ==
  [s \in 0 .. DistSymbols - 1 |->
     Cardinality({i \in DOMAIN codes : codes[i].dist # 0 /\ DistSymbol(codes[i]) = s})]

ZeroBased(seq) == [s \in 0 .. Len(seq) - 1 |-> seq[s + 1]]

Match(c, l, s, litCode, distCode) ==
  litCode[EndOfBlock + l] \o Bits(c.len - Format.lenBase[l], Format.lenExtra[l])
    \o distCode[s - 1] \o Bits(c.dist - Format.distBase[s], Format.distExtra[s])
CompressCode(c, litCode, distCode) ==
  IF c.dist = 0 THEN litCode[c.letter]
  ELSE Match(c, Symbol(Format.lenBase, c.len), Symbol(Format.distBase, c.dist), litCode, distCode)
CompressCodes(codes, litCode, distCode) ==
  Together([i \in DOMAIN codes |-> CompressCode(codes[i], litCode, distCode)])
    \o litCode[EndOfBlock]

StaticBlock(codes) ==
  Bits(1, 2) \o CompressCodes(codes, Codes(ZeroBased(Format.staticLit)),
                              Codes(ZeroBased(Format.staticDist)))
CodedBlock(codes, lit, dist) ==
  DynamicHeader(lit, dist) \o CompressCodes(codes, Codes(lit), Codes(dist))
DynamicBlock(codes) ==
  CodedBlock(codes, CodeSizes(LitCount(codes), Format.maxBits),
             CodeSizes(DistCount(codes), Format.maxBits))

Pad(bits) == bits \o [i \in 1 .. (8 - (Len(bits) % 8)) % 8 |-> 0]
Octets(bits) == Len(bits) \div 8

RawBlock(d, bits, total) ==
  Pad(bits \o Bits(0, 2)) \o Bits(total, 16) \o [i \in 1 .. 16 |-> 1 - Bits(total, 16)[i]]
    \o Together([i \in 1 .. total |-> Bits(d.dict[Ring(d.blockPos + i - 1)], 8)])

ZlibHeader == <<120, 1>>
OctetBits(octets) == Together([i \in DOMAIN octets |-> Bits(octets[i], 8)])

(* A block that does not shrink is sent as it is, if the dictionary still has *)
(* all of it; the last one is followed by the check of the input.            *)
BlockStart(d, finish) ==
  d.bits \o (IF d.block = 0 THEN OctetBits(ZlibHeader) ELSE <<>>)
    \o Bits(IF finish THEN 1 ELSE 0, 1)
Coded(start, codes) ==
  start \o (IF Total(codes) < Window.staticBelow THEN StaticBlock(codes) ELSE DynamicBlock(codes))
SentAsIs(d, start, block) ==
  /\ Total(d.codes) > 0 /\ Octets(block) - Octets(start) + 1 >= Total(d.codes)
  /\ d.lookPos - d.blockPos <= d.dictSize
Sent(d, start, block) ==
  IF SentAsIs(d, start, block) THEN RawBlock(d, start, Total(d.codes)) ELSE block
Closed(bits, raw, finish) == IF finish THEN Pad(bits) \o OctetBits(Adler32(raw)) ELSE bits
AfterBlock(d, bits, room) ==
  [d EXCEPT !.bits = bits, !.codes = <<>>, !.blockPos = @ + Total(d.codes), !.block = @ + 1,
            !.full = Octets(bits) > room]
SentFrom(d, start) == Sent(d, start, Coded(start, d.codes))
FlushBlock(d, raw, finish, room) ==
  AfterBlock(d, Closed(SentFrom(d, BlockStart(d, finish)), raw, finish), room)

(* pLZ_code_buf: an octet for a literal, three for a match, one for every      *)
(* eight of both.                                                            *)
CodeOctets(codes) ==
  1 + (Len(codes) \div 8)
    + SumUpTo([i \in DOMAIN codes |-> IF codes[i].dist = 0 THEN 1 ELSE 3], Len(codes))
BlockEnds(codes) ==
  \/ CodeOctets(codes) > Window.codeBuffer - 8
  \/ /\ Total(codes) > Window.manyBytes
     /\ (CodeOctets(codes) * 115) \div 128 >= Total(codes)

(* tdefl_compress_normal, and the last block; an output without room stops it. *)
Compressed(d, raw, room) == IF BlockEnds(d.codes) THEN FlushBlock(d, raw, FALSE, room) ELSE d
RECURSIVE CompressAll(_, _, _)
CompressAll(d, raw, room) ==
  IF d.full THEN d
  ELSE IF d.lookPos = Len(raw) THEN FlushBlock(d, raw, TRUE, room)
  ELSE CompressAll(Compressed(Record(FillAhead(d, raw)), raw, room), raw, room)

(* The octets of a block, or none: those that are not smaller are kept raw.    *)
ToOctets(bits) == [i \in 1 .. Len(bits) \div 8 |-> Number(SubSeq(bits, 8 * i - 7, 8 * i))]
OctetsOf(d) == IF d.full THEN <<>> ELSE ToOctets(d.bits)
CompressSmaller[raw \in Seq(Nat)] == OctetsOf(CompressAll(DeflateInit, raw, Len(raw) - 1))

(* A stream without zlib's frame, as archives keep it.                        *)
WithoutFrame(octets) == SubSeq(octets, Len(ZlibHeader) + 1, Len(octets) - 4)
RawStream[text \in Seq(Nat)] ==
  WithoutFrame(ToOctets(CompressAll(DeflateInit, text, 100 + 10 * Len(text)).bits))

=============================================================================
