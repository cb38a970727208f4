--------------------------- MODULE CompressedData --------------------------
(***************************************************************************)
(* What the program keeps and gets compressed.  An image is a table of       *)
(* offsets and blocks of one size, each compressed if that makes it smaller   *)
(* and if it holds nothing of an executable file, written one after the       *)
(* other, the table last; it is read in pieces of any place and size through  *)
(* a cache of one block.  An entry of an archive is one stream that comes in  *)
(* any cuts, put out through a window of one size, and what follows it in the *)
(* archive must be found right behind its last octet.                        *)
(***************************************************************************)
EXTENDS Deflate, Inflate

CONSTANTS
  Texts,      \* what is compressed; the two blocks of an image are one of them twice
  Pieces,     \* sizes of the parts in which an archive is received
  Reads,      \* [at, size]: what is read of an image
  Trailer,    \* the octets that follow a stream
  (* The codec, given as functions, so that it is evaluated as a value:        *)
  Smaller,    \* CompressSmaller
  Stream,     \* RawStream
  Turn,       \* Inflated
  WholeBlock  \* InflateAll

VARIABLES
  pfsc,    \* [raw, force, next, data, offsets, header]: the blocks and which of them are not
           \* to be compressed, how many are written, data, the offsets so far, header written
  cache,   \* [cached, block, read, got, fails]
  entry    \* the stream being inflated: [text, octets, end, z, failed]

dataVars == <<pfsc, cache, entry>>

NoPfsc ==
  [raw |-> <<>>, force |-> {}, next |-> 0, data |-> <<>>, offsets |-> <<>>, header |-> FALSE]
NoCache ==
  [cached |-> 0, block |-> <<>>, read |-> [at |-> 0, size |-> 0], got |-> <<>>, fails |-> FALSE]
NoEntry == [text |-> <<>>, octets |-> <<>>, end |-> 0, z |-> InflateInit, failed |-> FALSE]

DataInit == pfsc = NoPfsc /\ cache = NoCache /\ entry = NoEntry
Unused == pfsc = NoPfsc /\ entry = NoEntry

----------------------------------------------------------------------------
(* Images.                                                                   *)

Backwards(text) == [i \in DOMAIN text |-> text[Len(text) + 1 - i]]

StartImage(text, force) ==
  /\ Unused
  /\ pfsc' = [NoPfsc EXCEPT !.raw = <<text, Backwards(text)>>, !.force = force, !.offsets = <<0>>]
  /\ UNCHANGED <<cache, entry>>

(* A worker compresses, the writer takes what is smaller and goes on there.    *)
Chosen(raw, comp) == IF comp # <<>> /\ Len(comp) < Len(raw) THEN comp ELSE raw
Stored(raw, forced) == IF forced THEN raw ELSE Chosen(raw, Smaller[raw])
WriteBlock ==
  /\ pfsc.next < Len(pfsc.raw)
  /\ \E data \in {Stored(pfsc.raw[pfsc.next + 1], pfsc.next + 1 \in pfsc.force)} :
       pfsc' = [pfsc EXCEPT !.next = @ + 1, !.data = @ \o data,
                              !.offsets = Append(@, Len(pfsc.data) + Len(data))]
  /\ UNCHANGED <<cache, entry>>

WriteHeader ==
  /\ pfsc.raw # <<>> /\ pfsc.next = Len(pfsc.raw) /\ ~pfsc.header
  /\ pfsc' = [pfsc EXCEPT !.header = TRUE]
  /\ UNCHANGED <<cache, entry>>

BlockSize == Len(pfsc.raw[1])
LogicalSize == Len(pfsc.raw) * BlockSize

OffsetsAreGood ==
  \A i \in 1 .. Len(pfsc.offsets) - 1 :
    /\ pfsc.offsets[i] <= pfsc.offsets[i + 1]
    /\ pfsc.offsets[i + 1] - pfsc.offsets[i] <= BlockSize

(* A block as long as its raw form is one; another one must inflate to a       *)
(* whole block.                                                              *)
Good(z) == [ok |-> z.ok /\ Len(z.out) = BlockSize, out |-> z.out]
Decompressed(stored) ==
  IF Len(stored) = BlockSize THEN [ok |-> TRUE, out |-> stored]
  ELSE Good(WholeBlock[stored, BlockSize])
Block(i) == Decompressed(SubSeq(pfsc.data, pfsc.offsets[i] + 1, pfsc.offsets[i + 1]))

(* A read goes block by block; the one decoded last is kept.                  *)
Copy(t, i, b, off, n) ==
  IF ~b.ok THEN [t EXCEPT !.fails = TRUE]
  ELSE [t EXCEPT !.cached = i, !.block = b.out, !.at = @ + n,
                 !.got = @ \o SubSeq(b.out, off + 1, off + n)]
FromBlock(t, size, i, off) ==
  Copy(t, i, IF t.cached = i THEN [ok |-> TRUE, out |-> t.block] ELSE Block(i),
       off, Less(BlockSize - off, size - Len(t.got)))
ReadPart(t, size) ==
  IF Len(t.got) = size \/ t.fails THEN t
  ELSE FromBlock(t, size, (t.at \div BlockSize) + 1, t.at % BlockSize)

Outside(r) == r.at >= LogicalSize \/ r.size > LogicalSize - r.at
ReadAll(r) ==
  LET part[i \in 0 .. Len(pfsc.raw)] ==
        IF i = 0 THEN [cached |-> cache.cached, block |-> cache.block, at |-> r.at, got |-> <<>>,
                       fails |-> Outside(r) \/ ~OffsetsAreGood]
        ELSE ReadPart(part[i - 1], r.size)
  IN part[Len(pfsc.raw)]
Read(r) ==
  /\ pfsc.header
  /\ \E t \in {ReadAll(r)} :
       cache' = [cached |-> t.cached, block |-> t.block, read |-> r,
                 got |-> t.got, fails |-> t.fails]
  /\ UNCHANGED <<pfsc, entry>>

----------------------------------------------------------------------------
(* Entries of archives.                                                     *)

StartEntry(text) ==
  /\ Unused
  /\ entry' = [NoEntry EXCEPT !.text = text, !.octets = Stream[text] \o Trailer]
  /\ UNCHANGED <<pfsc, cache>>

Received == entry.z.taken < entry.end
StreamSize == Len(entry.octets) - Len(Trailer)

(* The buffer is filled when it is empty.                                    *)
Receive(n) ==
  /\ entry.text # <<>> /\ ~entry.failed /\ entry.z.status # "done" /\ ~Received
  /\ entry.end < Len(entry.octets)
  /\ entry' = [entry EXCEPT !.end = Less(@ + n, Len(entry.octets))]
  /\ UNCHANGED <<pfsc, cache>>

(* One call: all that is in the buffer, as much room as the window has left.   *)
InflateCall ==
  /\ Received /\ ~entry.failed /\ entry.z.status # "done"
  /\ \E z \in {Turn[entry.z, [input |-> entry.octets, first |-> entry.z.taken, end |-> entry.end,
                              room |-> Len(entry.z.out) + Window.dict - Ring(Len(entry.z.out)),
                              flags |-> {"more"}]]} :
       entry' = [entry EXCEPT !.z = z,
                   !.failed = z.status \notin {"done", "has output", "needs input"}]
  /\ UNCHANGED <<pfsc, cache>>

----------------------------------------------------------------------------
DataNext ==
  \/ \E text \in Texts, force \in {{}, {1}, {2}} : StartImage(text, force)
  \/ WriteBlock \/ WriteHeader \/ \E r \in Reads : Read(r)
  \/ \E text \in Texts : StartEntry(text)
  \/ \E n \in Pieces : Receive(n)
  \/ InflateCall

DataSpec == DataInit /\ [][DataNext]_dataVars

DataTypeOK ==
  /\ pfsc.next <= Len(pfsc.raw) /\ Len(pfsc.offsets) \in {0, pfsc.next + 1}
  /\ pfsc.force \subseteq 1 .. 2 /\ pfsc.header \in BOOLEAN /\ cache.fails \in BOOLEAN
  /\ entry.end <= Len(entry.octets) /\ entry.z.taken <= entry.end /\ entry.failed \in BOOLEAN

(* Whatever a compressor that parses, counts and packs codes has written, a    *)
(* decompressor that reads ahead, suspends and gives back understands: a read  *)
(* of an image yields what went into it at that place; an entry's output is    *)
(* always a beginning of its text, however its stream is cut and whatever      *)
(* follows it, and when it ends all of the text is out and exactly the stream  *)
(* was taken, with nothing kept back, which it does before the input is used up. *)
ReadsAreRight ==
  LET r == cache.read
  IN r.size > 0 =>
       IF r.at + r.size > LogicalSize THEN cache.fails
       ELSE /\ ~cache.fails
            /\ cache.got = SubSeq(pfsc.raw[1] \o pfsc.raw[2], r.at + 1, r.at + r.size)
EntryIsRight ==
  /\ ~entry.failed
  /\ Len(entry.z.out) <= Len(entry.text)
  /\ entry.z.out = SubSeq(entry.text, 1, Len(entry.z.out))
  /\ entry.z.status = "done" =>
       entry.z.out = entry.text /\ entry.z.taken = StreamSize /\ entry.z.bits = <<>>
  /\ entry.text # <<>> /\ entry.z.taken = Len(entry.octets) => entry.z.status = "done"
InflateUndoesDeflate == ReadsAreRight /\ EntryIsRight

=============================================================================
