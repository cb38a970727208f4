------------------------------- MODULE Huffman -------------------------------
(***************************************************************************)
(* The prefix codes of miniz: how its compressor finds the sizes of codes    *)
(* from frequencies and tells them to the decompressor, and the tables the   *)
(* decompressor looks codes up in.                                           *)
(*                                                                          *)
(* A Format is the deflate format with small numbers: letters instead of 256 *)
(* octets' literals, the first entries of its tables of lengths and          *)
(* distances, codes of at most maxBits bits, runs of at most zeroRun zeros.  *)
(* Bits are a sequence in the order of the stream.                           *)
(***************************************************************************)
EXTENDS Integers, Sequences, FiniteSets

CONSTANT Format
    \* [letters, lenBase, lenExtra, distBase, distExtra, maxBits, sizeBits, fastBits,
    \*  longRun, zeroRun, staticLit, staticDist]: letters are 0 .. letters - 1,
    \* maxBits stands for 15, sizeBits for 7, fastBits for 10, longRun for 10,
    \* zeroRun for 138, the static sizes for 8, 9, 7 and for 5

ASSUME FormatAssumption ==
  /\ Format.letters \in Nat \ {0} /\ Format.fastBits \in 1 .. Format.maxBits
  /\ Len(Format.lenBase) = Len(Format.lenExtra) /\ Len(Format.distBase) = Len(Format.distExtra)

(* Symbols: the letters, the end of a block (256), the lengths.              *)
EndOfBlock == Format.letters
LitSymbols == Format.letters + 1 + Len(Format.lenBase)
DistSymbols == Len(Format.distBase)

(* The symbol of a length or a distance: the last base that is not above it. *)
Symbol(base, n) ==
  CHOOSE i \in DOMAIN base : base[i] <= n /\ \A j \in DOMAIN base : j > i => base[j] > n

Number(bits) ==
  LET from[i \in 1 .. Len(bits) + 1] == IF i > Len(bits) THEN 0 ELSE bits[i] + 2 * from[i + 1]
  IN from[1]
Less(m, n) == IF m < n THEN m ELSE n

(* One after another (a function, where FlattenSeq folds with an operator).    *)
Together(parts) ==
  LET upTo[i \in 0 .. Len(parts)] == IF i = 0 THEN <<>> ELSE upTo[i - 1] \o parts[i]
  IN upTo[Len(parts)]

Bits(n, width) == [i \in 1 .. width |-> (n \div 2 ^ (i - 1)) % 2]

----------------------------------------------------------------------------
(* Sizes of codes.                                                           *)

(* The symbols in use, the rarest first.                                     *)
InUse(f) ==
  LET below[n \in 0 .. Cardinality(DOMAIN f)] ==
        IF n = 0 THEN <<>> ELSE IF f[n - 1] = 0 THEN below[n - 1] ELSE Append(below[n - 1], n - 1)
  IN below[Cardinality(DOMAIN f)]
ByFrequency(freq) ==
  LET used == {s \in DOMAIN freq : freq[s] > 0}
      rank(s) == 1 + Cardinality({r \in used : freq[r] < freq[s] \/ (freq[r] = freq[s] /\ r < s)})
  IN [i \in 1 .. Cardinality(used) |-> CHOOSE s \in used : rank(s) = i]

(* One inner node after another joins the two lightest of the leaves left and *)
(* the nodes made: a[i] is a weight until the node has a parent, and then it. *)
JoinNodes(keys) ==
  LET n == Len(keys)
      Lighter(t, i) == t.leaf > n \/ (t.root < i /\ t.a[t.root] < t.a[t.leaf])
      Take(t, i, sum) ==
        IF Lighter(t, i)
        THEN [t EXCEPT !.a = [@ EXCEPT ![i] = sum + t.a[t.root], ![t.root] = i], !.root = @ + 1]
        ELSE [t EXCEPT !.a[i] = sum + t.a[t.leaf], !.leaf = @ + 1]
      joined[i \in 1 .. n - 1] ==
        IF i = 1 THEN [a |-> [keys EXCEPT ![1] = keys[1] + keys[2]], root |-> 1, leaf |-> 3]
        ELSE LET u == Take(joined[i - 1], i, 0) IN Take(u, i, u.a[i])
  IN joined[n - 1].a

(* Parents become depths, from the root down.                                *)
Depths(a) ==
  LET depth[i \in 1 .. Len(a) - 1] == IF i = Len(a) - 1 THEN 0 ELSE depth[a[i]] + 1
  IN depth

(* How many leaves there are at each depth: the places that inner nodes leave. *)
RECURSIVE LeavesBelow(_, _, _, _)
LeavesBelow(a, root, free, depth) ==
  IF free = 0 THEN <<>>
  ELSE LET inner == Cardinality({i \in 1 .. root : a[i] = depth})
       IN <<free - inner>> \o LeavesBelow(a, root - inner, 2 * inner, depth + 1)

MinimumRedundancy(keys) ==
  IF Len(keys) = 1 THEN <<1>>
  ELSE Tail(LeavesBelow(Depths(JoinNodes(keys)), Len(keys) - 1, 1, 0))

(* num[i] codes of i bits; those that are longer than the limit are shortened, *)
(* and others made longer, until the codes fill the tree again.              *)
SumUpTo(f, n) == LET sum[i \in 0 .. n] == IF i = 0 THEN 0 ELSE f[i] + sum[i - 1] IN sum[n]

RECURSIVE Balance(_, _, _)
Balance(num, limit, total) ==
  IF total = 2 ^ limit THEN num
  ELSE LET i == CHOOSE j \in 1 .. limit - 1 : num[j] > 0 /\ \A k \in j + 1 .. limit - 1 : num[k] = 0
           less == [num EXCEPT ![limit] = @ - 1]
           more == [less EXCEPT ![i] = @ - 1]
       IN Balance([more EXCEPT ![i + 1] = @ + 2], limit, total - 1)

Enforced(num, limit) ==
  LET all == [i \in 1 .. limit + Len(num) |-> IF i <= Len(num) THEN num[i] ELSE 0]
      long == SumUpTo(all, limit + Len(num)) - SumUpTo(all, limit)
      cut == [i \in 1 .. limit |-> IF i = limit THEN all[i] + long ELSE all[i]]
  IN Balance(cut, limit, SumUpTo([i \in 1 .. limit |-> cut[i] * 2 ^ (limit - i)], limit))

(* Short codes go to frequent symbols: num[i] codes of i bits, to the symbols  *)
(* of syms from its end.                                                     *)
SizesOf(freq, syms, num) ==
  LET place(s) == Len(syms) + 1 - (CHOOSE i \in DOMAIN syms : syms[i] = s)
      size(i) == CHOOSE k \in DOMAIN num : i <= SumUpTo(num, k) /\ i > SumUpTo(num, k - 1)
  IN [s \in DOMAIN freq |-> IF freq[s] = 0 THEN 0 ELSE size(place(s))]
SizeCounts(keys, limit) ==
  IF Len(keys) < 2 THEN [i \in DOMAIN keys |-> 1] ELSE Enforced(MinimumRedundancy(keys), limit)
SizesFor(freq, syms, limit) ==
  SizesOf(freq, syms, SizeCounts([i \in DOMAIN syms |-> freq[syms[i]]], limit))
CodeSizes(freq, limit) == SizesFor(freq, ByFrequency(freq), limit)

(* The canonical code of a symbol: codes of one size are numbered in the      *)
(* order of symbols, after all shorter ones.                                 *)
FirstCode(sizes, size) ==
  LET first[i \in 1 .. size] ==
        IF i = 1 THEN 0
        ELSE 2 * (first[i - 1] + Cardinality({s \in DOMAIN sizes : sizes[s] = i - 1}))
  IN first[size]
CodeOf(sizes, s) ==
  LET code == FirstCode(sizes, sizes[s])
                + Cardinality({r \in DOMAIN sizes : r < s /\ sizes[r] = sizes[s]})
  IN [i \in 1 .. sizes[s] |-> (code \div 2 ^ (sizes[s] - i)) % 2]
Codes(sizes) == [s \in DOMAIN sizes |-> CodeOf(sizes, s)]

(* The check behind a stream (mz_adler32).                                    *)
Adler32(letters) ==
  LET a == (1 + SumUpTo(letters, Len(letters))) % 65521
      b == SumUpTo([i \in DOMAIN letters |-> 1 + SumUpTo(letters, i)], Len(letters)) % 65521
  IN <<b \div 256, b % 256, a \div 256, a % 256>>

----------------------------------------------------------------------------
(* How a block tells its sizes of codes.                                     *)
RepeatSize == 16
ZeroShort == 17
ZeroLong == 18
SizeSymbols == 0 .. 18
SizeExtra(sym) ==
  CASE sym = RepeatSize -> 2
    [] sym = ZeroShort -> Format.shortBits
    [] sym = ZeroLong -> Format.longBits
    [] OTHER -> 0
SizeOrder == <<16, 17, 18, 0, 8, 7, 9, 6, 10, 5, 11, 4, 12, 3, 13, 2, 14, 1, 15>>

Packed(sym, extra) == <<[sym |-> sym, extra |-> extra]>>
Repeated(n, sym) == [i \in 1 .. n |-> [sym |-> sym, extra |-> 0]]

FlushRepeats(t) ==
  [t EXCEPT !.repeats = 0,
            !.out = @ \o (IF t.repeats < 3 THEN Repeated(t.repeats, t.prev)
                          ELSE Packed(RepeatSize, t.repeats - 3))]
(* Mutant: the short form is used for one zero too many.                        *)
FlushZerosShort(t) ==
  [t EXCEPT !.zeros = 0,
            !.out = @ \o (IF t.zeros < 3 THEN Repeated(t.zeros, 0)
                          ELSE IF t.zeros <= Format.longRun + 1 THEN Packed(ZeroShort, t.zeros - 3)
                          ELSE Packed(ZeroLong, t.zeros - Format.longRun - 1))]
FlushZeros(t) ==
  [t EXCEPT !.zeros = 0,
            !.out = @ \o (IF t.zeros < 3 THEN Repeated(t.zeros, 0)
                          ELSE IF t.zeros <= Format.longRun THEN Packed(ZeroShort, t.zeros - 3)
                          ELSE Packed(ZeroLong, t.zeros - Format.longRun - 1))]

MoreZeros(t) == IF t.zeros = Format.zeroRun THEN FlushZeros(t) ELSE t
MoreRepeats(t) == IF t.repeats = 6 THEN FlushRepeats(t) ELSE t
OneSize(t, size) ==
  CASE size = 0 -> MoreZeros([FlushRepeats(t) EXCEPT !.zeros = @ + 1])
    [] size > 0 /\ size # t.prev ->
         [FlushRepeats(FlushZeros(t)) EXCEPT !.out = @ \o Packed(size, 0)]
    [] OTHER -> MoreRepeats([FlushZeros(t) EXCEPT !.repeats = @ + 1])
FlushLast(t) == IF t.repeats > 0 THEN FlushRepeats(t) ELSE FlushZeros(t)

PackSizes(sizes) ==
  LET pack[i \in 0 .. Len(sizes)] ==
        IF i = 0 THEN [out |-> <<>>, zeros |-> 0, repeats |-> 0, prev |-> -1]
        ELSE [OneSize(pack[i - 1], sizes[i]) EXCEPT !.prev = sizes[i]]
  IN FlushLast(pack[Len(sizes)]).out

(* Sizes without the zeros at their end, of which `least` are told anyhow.    *)
Told(sizes, n, least) ==
  LET last == CHOOSE k \in least .. n : /\ k = least \/ sizes[k - 1] > 0
                                        /\ \A i \in k + 1 .. n : sizes[i - 1] = 0
  IN [i \in 1 .. last |-> sizes[i - 1]]

Count(packed) == [s \in SizeSymbols |-> Cardinality({i \in DOMAIN packed : packed[i].sym = s})]

ToldSizeSizes(sizes) ==
  CHOOSE k \in 4 .. 19 : /\ k = 4 \/ sizes[SizeOrder[k]] > 0
                         /\ \A i \in k + 1 .. 19 : sizes[SizeOrder[i]] = 0
SizeSizesBits(sizes, told) ==
  Bits(told - 4, 4) \o Together([i \in 1 .. told |-> Bits(sizes[SizeOrder[i]], 3)])
PackedBits(packed, code) ==
  Together([i \in DOMAIN packed |->
              code[packed[i].sym] \o Bits(packed[i].extra, SizeExtra(packed[i].sym))])
SizesBits(packed, sizes) ==
  SizeSizesBits(sizes, ToldSizeSizes(sizes)) \o PackedBits(packed, Codes(sizes))
PackedSizesBits(packed) == SizesBits(packed, CodeSizes(Count(packed), Format.sizeBits))
ToldSizesBits(lits, dists) ==
  Bits(Len(lits) - Format.letters - 1, 5) \o Bits(Len(dists) - 1, 5)
    \o PackedSizesBits(PackSizes(lits \o dists))
DynamicHeader(lit, dist) ==
  Bits(2, 2) \o ToldSizesBits(Told(lit, LitSymbols, Format.letters + 1), Told(dist, DistSymbols, 1))

----------------------------------------------------------------------------
(* The decompressor's tables.  An entry of lookUp is 0, a symbol with its     *)
(* size, or, below 0, where the rest of longer codes goes on in the tree.     *)
SizeFactor == 512

(* One more bit of the code on the way down.                                  *)
DownTree(u, slot) ==
  IF u.t.tree[slot] = 0
  THEN [at |-> u.t.next, t |-> [u.t EXCEPT !.tree[slot] = u.t.next, !.next = @ - 2]]
  ELSE [at |-> u.t.tree[slot], t |-> u.t]
Entered(t, first) ==
  IF t.lookUp[first] # 0 THEN [at |-> t.lookUp[first], t |-> t]
  ELSE [at |-> t.next, t |-> [t EXCEPT !.lookUp[first] = t.next, !.next = @ - 2]]
PutLeaf(u, bit, sym) == [u.t EXCEPT !.tree[bit - u.at - 1] = sym]
AddToTree(t, code, sym) ==
  LET start == Entered(t, Number(SubSeq(code, 1, Format.fastBits)))
      walk[i \in Format.fastBits .. Len(code) - 1] ==
        IF i = Format.fastBits THEN start
        ELSE LET u == walk[i - 1] IN DownTree(u, code[i] - u.at - 1)
  IN PutLeaf(walk[Len(code) - 1], code[Len(code)], sym)

AddCode(t, code, sym) ==
  IF Len(code) = 0 THEN t
  ELSE IF Len(code) <= Format.fastBits
  THEN [t EXCEPT !.lookUp = [k \in DOMAIN @ |->
          IF k % 2 ^ Len(code) = Number(code) THEN Len(code) * SizeFactor + sym ELSE @[k]]]
  ELSE AddToTree(t, code, sym)

(* The table for the sizes of symbols 0 .. n - 1; none if the codes do not    *)
(* fill a tree and there are several.                                        *)
TreeSlots == 0 .. 2 * 19
Tables == [lookUp : [0 .. 2 ^ Format.fastBits - 1 -> Int], tree : [TreeSlots -> Int], next : Int]
NoTable == [lookUp |-> <<>>, tree |-> <<>>, next |-> 0]
EmptyTable == [lookUp |-> [k \in 0 .. 2 ^ Format.fastBits - 1 |-> 0],
               tree |-> [k \in TreeSlots |-> 0], next |-> -1]
FilledTable(own, used) ==
  LET table[i \in 0 .. Len(used)] ==
        IF i = 0 THEN EmptyTable ELSE AddCode(table[i - 1], CodeOf(own, used[i]), used[i])
  IN table[Len(used)]
FillsTree(own, used) ==
  SumUpTo([i \in DOMAIN used |-> 2 ^ (Format.maxBits - own[used[i]])], Len(used))
    = 2 ^ Format.maxBits
TableOfUsed(own, used) ==
  IF ~FillsTree(own, used) /\ Len(used) > 1 THEN NoTable ELSE FilledTable(own, used)
TableFor(own) == TableOfUsed(own, InUse(own))
Table(sizes, n) == TableFor([s \in 0 .. n - 1 |-> sizes[s]])

(* The symbol at the front of the bits, with the bits missing taken as zeros, *)
(* and how many bits it took: size 0 where no code begins so.                *)
RECURSIVE Follow(_, _, _, _)
Follow(t, bits, next, size) ==
  IF next >= 0 THEN [sym |-> next, size |-> size]
  ELSE Follow(t, bits, t.tree[(IF size < Len(bits) THEN bits[size + 1] ELSE 0) - next - 1],
              size + 1)

LookedUp(t, bits, temp) ==
  IF temp >= 0 THEN [sym |-> temp % SizeFactor, size |-> temp \div SizeFactor]
  ELSE Follow(t, bits, temp, Format.fastBits)
Decoded(t, bits) ==
  LookedUp(t, bits, t.lookUp[Number(SubSeq(bits, 1, Less(Len(bits), Format.fastBits)))])

=============================================================================
