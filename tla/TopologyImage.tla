---------------------------- MODULE TopologyImage ----------------------------
(***************************************************************************)
(* The topology image of src/vdev/bmt_topology.hpp (class Topology): data  *)
(* is written into blocks of chained entries, and all blocks are saved to  *)
(* a file under a seed and loaded from it.                                 *)
(*                                                                         *)
(* An entry holds HopBytes bytes of payload and a route: the next entry, or*)
(* one of three reserved numbers, which are also the numbers of the last   *)
(* three entries.  The crc bits of an entry are never looked at and are    *)
(* left out, and so is the root block, which nothing but the image uses;   *)
(* its place in the image is kept.  A seed is its two words; the tag of an *)
(* image is their exclusive or, so two seeds may share one.  A block taken *)
(* from the image under another seed, or from another block's place, is    *)
(* noise: some member of NoiseBlocks.                                      *)
(***************************************************************************)
EXTENDS Integers, Sequences, SequencesExt

CONSTANTS
    EntriesPerBlock,  \* ENTRIES_PER_BLOCK
    HopBytes,         \* PAYLOAD_BYTES_PER_HOP
    LensCount,        \* LENS_COUNT, the number of blocks
    Bytes,            \* byte values, 0 among them
    NoiseByte,        \* a byte of what expand_block generates
    NoiseBlocks,      \* what a block may turn into under the wrong seed
    Seeds,            \* seeds, as pairs of words of one bit
    Chains,           \* the sequences of block numbers that callers use
    Contents,         \* the data that callers write
    MaxOps,           \* bound on the number of operations
    Nothing           \* an absent block, image or history

ASSUME TopologyAssumption ==
    /\ EntriesPerBlock \in Nat /\ EntriesPerBlock > 3
    /\ HopBytes \in Nat \ {0} /\ LensCount \in Nat \ {0}
    /\ 0 \in Bytes /\ NoiseByte \in Bytes
    /\ Seeds \subseteq (0 .. 1) \X (0 .. 1)
    /\ Chains \subseteq Seq(Nat) /\ Contents \subseteq Seq(Bytes)
    /\ MaxOps \in Nat

VARIABLES
    blocks,   \* level1_: what every block holds, or Nothing
    seed,     \* seed_
    dirty,    \* dirty_
    image,    \* the file's pieces in order, or Nothing
    loaded,   \* history: the last operation was a load that returned true
    saved,    \* history: seed and blocks when the image was last opened to write
    holds,    \* history: the bytes last written into a block, if all are reachable
    ops       \* operations so far

memory == <<blocks, seed, dirty>>
imageVars == <<memory, image, loaded, saved, holds, ops>>

Lenses == 0 .. LensCount - 1
EntryNumbers == 0 .. EntriesPerBlock - 1
HALT_ROUTE == EntriesPerBlock - 1
FREE_ROUTE == EntriesPerBlock - 3
BytesPerBlock == EntriesPerBlock * HopBytes
Entry == [route : EntryNumbers, payload : [1 .. HopBytes -> Bytes]]
Least(a, b) == IF a < b THEN a ELSE b

Filled(route, byte) == [e \in EntryNumbers |->
                          [route |-> route, payload |-> [k \in 1 .. HopBytes |-> byte]]]
ExpandedBlock == Filled(FREE_ROUTE, NoiseByte)
ZeroBlock == Filled(0, 0)

ASSUME BlockAssumption ==
    /\ Nothing \notin [EntryNumbers -> Entry]
    /\ NoiseBlocks \subseteq [EntryNumbers -> Entry]

Allocated(bs, b) == b \in Lenses /\ bs[b] # Nothing
-----------------------------------------------------------------------------
(***************************************************************************)
(* Chains of entries and chains of blocks.                                 *)
(***************************************************************************)
Hops(n) == (n + HopBytes - 1) \div HopBytes

Chunk(data, e) ==
    [k \in 1 .. HopBytes |-> IF e * HopBytes + k <= Len(data) THEN data[e * HopBytes + k] ELSE 0]

\* Error: the end of the data is not marked.
NextRouteUnhalted(data, e) == e + 1

NextRoute(data, e) ==
    IF (e + 1) * HopBytes < Len(data) /\ e + 1 < EntriesPerBlock THEN e + 1 ELSE HALT_ROUTE

\* Error: the last, partly filled hop is not written.
WrittenBlockWholeHops(old, data) ==
    [e \in EntryNumbers |->
        IF (e + 1) * HopBytes <= Len(data)
        THEN [route |-> NextRoute(data, e), payload |-> Chunk(data, e)]
        ELSE [old[e] EXCEPT !.route = FREE_ROUTE]]

WrittenBlock(old, data) ==
    [e \in EntryNumbers |->
        IF e < Hops(Len(data)) THEN [route |-> NextRoute(data, e), payload |-> Chunk(data, e)]
                               ELSE [old[e] EXCEPT !.route = FREE_ROUTE]]

\* The hops whose numbers are not reserved reach this many bytes.
Reachable == FREE_ROUTE * HopBytes

Held(data) == IF Len(data) <= Reachable THEN data ELSE Nothing

\* One block of the chain that write_chain is given.
Put(st, b, data) ==
    LET part == SubSeq(data, st.written + 1, Least(Len(data), st.written + BytesPerBlock))
    IN  IF st.written < Len(data) /\ Allocated(st.blocks, b)
        THEN [blocks  |-> [st.blocks EXCEPT ![b] = WrittenBlock(@, part)],
              holds   |-> [st.holds EXCEPT ![b] = Held(part)],
              written |-> st.written + Len(part)]
        ELSE st

Puts(bs, hs, chain, data) ==
    LET st[n \in 0 .. Len(chain)] ==
          IF n = 0 THEN [blocks |-> bs, holds |-> hs, written |-> 0]
                   ELSE Put(st[n - 1], chain[n], data)
    IN  st

WriteChain(bs, hs, chain, data) == Puts(bs, hs, chain, data)[Len(chain)]

\* One entry of the block that read_block_data is given.
Hop(st, block, max) ==
    LET entry == block[st.at]
    IN  IF st.going
        THEN [out   |-> st.out \o SubSeq(entry.payload, 1, Least(HopBytes, max - Len(st.out))),
              at    |-> entry.route,
              going |-> entry.route \notin {HALT_ROUTE, FREE_ROUTE}]
        ELSE st

HopsOf(block, max) ==
    LET st[n \in 0 .. Hops(max)] ==
          IF n = 0 THEN [out |-> <<>>, at |-> 0, going |-> TRUE] ELSE Hop(st[n - 1], block, max)
    IN  st

ReadBlock(block, max) == HopsOf(block, max)[Hops(max)].out

\* One block of the chain that read_chain is given.
Get(st, bs, b, max) ==
    LET got == IF Allocated(bs, b) THEN ReadBlock(bs[b], max - Len(st.out)) ELSE <<>>
    IN  IF st.going /\ Len(st.out) < max
        THEN [out |-> st.out \o got, going |-> Len(got) >= BytesPerBlock]
        ELSE st

Gets(bs, chain, max) ==
    LET st[n \in 0 .. Len(chain)] ==
          IF n = 0 THEN [out |-> <<>>, going |-> TRUE] ELSE Get(st[n - 1], bs, chain[n], max)
    IN  st

ReadChain(bs, chain, max) == Gets(bs, chain, max)[Len(chain)].out
-----------------------------------------------------------------------------
(***************************************************************************)
(* The image: tag, version, root block and the blocks, each obfuscated     *)
(* under the seed and its own number.                                      *)
(***************************************************************************)
TagOf(s) == (s[1] + s[2]) % 2

Saved(bs) == [b \in Lenses |-> IF bs[b] = Nothing THEN ZeroBlock ELSE bs[b]]

TagPiece(s) == [kind |-> "tag", tag |-> TagOf(s)]

BlockPiece(b) == [kind |-> "block", seed |-> seed, number |-> b,
                  content |-> Saved(blocks)[b], holds |-> holds[b]]

Pieces == <<TagPiece(seed), [kind |-> "version"], [kind |-> "root"]>>
              \o [i \in 1 .. LensCount |-> BlockPiece(i - 1)]

\* The image's piece for block b, and whether it is read as what was saved.
PieceOf(b) == b + 4
Readable(piece, s, b) == piece.kind = "block" /\ piece.seed = s /\ piece.number = b
-----------------------------------------------------------------------------
Operation == ops < MaxOps /\ ops' = ops + 1

NoBlocks == [b \in Lenses |-> Nothing]

ImageInit ==
    /\ blocks = NoBlocks /\ seed \in Seeds /\ dirty = FALSE
    /\ image = Nothing /\ saved = Nothing /\ loaded = FALSE
    /\ holds = NoBlocks /\ ops = 0

\* A restart constructs a new Topology; its seed_ is not initialised.
Restart ==
    /\ blocks' = NoBlocks /\ seed' \in Seeds /\ dirty' = FALSE
    /\ holds' = NoBlocks /\ loaded' = FALSE

Initialize(s) ==
    /\ Operation
    /\ blocks' = [b \in Lenses |-> ExpandedBlock] /\ seed' = s /\ dirty' = TRUE
    /\ holds' = [b \in Lenses |-> Nothing] /\ loaded' = FALSE
    /\ UNCHANGED <<image, saved>>

ExpandBlock(b) ==
    /\ Operation /\ blocks[b] # Nothing
    /\ blocks' = [blocks EXCEPT ![b] = ExpandedBlock]
    /\ holds' = [holds EXCEPT ![b] = Nothing] /\ loaded' = FALSE
    /\ UNCHANGED <<seed, dirty, image, saved>>

WriteData(chain, data) ==
    LET done == WriteChain(blocks, holds, chain, data)
    IN  /\ Operation
        /\ blocks' = done.blocks /\ holds' = done.holds
        /\ dirty' = (dirty \/ done.written > 0) /\ loaded' = FALSE
        /\ UNCHANGED <<seed, image, saved>>

ClearBlocks(chain) ==
    LET cleared == {b \in Range(chain) : Allocated(blocks, b)}
    IN  /\ Operation
        /\ blocks' = [b \in Lenses |->
              IF b \in cleared THEN [e \in EntryNumbers |-> [blocks[b][e] EXCEPT !.route = FREE_ROUTE]]
                               ELSE blocks[b]]
        /\ holds' = [b \in Lenses |-> IF b \in cleared THEN Nothing ELSE holds[b]]
        /\ dirty' = TRUE /\ loaded' = FALSE
        /\ UNCHANGED <<seed, image, saved>>

\* fopen truncates the image; a piece whose fwrite fails is missing, which the
\* caller is not told.  (When fopen fails nothing happens at all.)
SaveImage ==
    /\ Operation
    /\ \/ image' = Pieces
       \/ \E i \in 1 .. Len(Pieces) : image' = RemoveAt(Pieces, i)
    /\ saved' = [seed |-> seed, blocks |-> Saved(blocks)] /\ loaded' = FALSE
    /\ UNCHANGED <<memory, holds>>

\* Error: the image is opened without being truncated.
CrashInSaveOver(length) ==
    /\ Operation
    /\ image' = SubSeq(Pieces, 1, length)
                  \o (IF image = Nothing THEN <<>> ELSE SubSeq(image, length + 1, Len(image)))
    /\ saved' = [seed |-> seed, blocks |-> Saved(blocks)]
    /\ Restart

\* A power failure while the image is written leaves the beginning of it.
CrashInSave(length) ==
    /\ Operation
    /\ image' = SubSeq(Pieces, 1, length)
    /\ saved' = [seed |-> seed, blocks |-> Saved(blocks)]
    /\ Restart

PowerFailure == Operation /\ Restart /\ UNCHANGED <<image, saved>>

\* seed_ is replaced first, and every block as soon as its piece is read.
LoadImage(s) ==
    /\ Operation /\ image # Nothing
    /\ seed' = s
    /\ LET opens == Len(image) >= 3 /\ image[1] = TagPiece(s)
           whole == opens /\ Len(image) = LensCount + 3
           Taken(b) == opens /\ PieceOf(b) <= Len(image)
       IN  /\ \E noise \in NoiseBlocks :
                blocks' = [b \in Lenses |->
                    IF ~Taken(b) THEN blocks[b]
                    ELSE IF Readable(image[PieceOf(b)], s, b) THEN image[PieceOf(b)].content
                    ELSE noise]
           /\ holds' = [b \in Lenses |->
                    IF ~Taken(b) THEN holds[b]
                    ELSE IF Readable(image[PieceOf(b)], s, b) THEN image[PieceOf(b)].holds
                    ELSE Nothing]
           /\ dirty' = (dirty /\ ~whole)
           /\ loaded' = whole
    /\ UNCHANGED <<image, saved>>

ImageNext ==
    \/ \E s \in Seeds : Initialize(s) \/ LoadImage(s)
    \/ \E b \in Lenses : ExpandBlock(b)
    \/ \E chain \in Chains : ClearBlocks(chain) \/ \E data \in Contents : WriteData(chain, data)
    \/ SaveImage
    \/ \E length \in 0 .. Len(Pieces) : CrashInSave(length)
    \/ PowerFailure

ImageSpec == ImageInit /\ [][ImageNext]_imageVars
-----------------------------------------------------------------------------
\* Blocks are whole, and an image never has more than one piece for each.
ImageTypeOK ==
    /\ blocks \in [Lenses -> [EntryNumbers -> Entry] \cup {Nothing}]
    /\ seed \in Seeds /\ dirty \in BOOLEAN /\ loaded \in BOOLEAN
    /\ image = Nothing \/ Len(image) <= LensCount + 3
    /\ saved = Nothing \/ saved.blocks \in [Lenses -> [EntryNumbers -> Entry]]
    /\ \A b \in Lenses : holds[b] = Nothing \/ Len(holds[b]) <= Reachable
    /\ ops \in 0 .. MaxOps

(***************************************************************************)
(* What write_chain put into a block, if the entries that are not reserved *)
(* hold it, reads back byte for byte until the block is written again:     *)
(* over longer data that was there before, over neighbours' writes, and    *)
(* through an image saved and loaded, also when that load fails later on.  *)
(***************************************************************************)
ReachableBytesReadBack ==
    \A b \in Lenses : holds[b] # Nothing =>
        ReadChain(blocks, <<b>>, Len(holds[b])) = holds[b]

(***************************************************************************)
(* load_image returns true with the seed of the save only when it took all *)
(* blocks of that one save: crashes, failed writes and earlier images leave*)
(* nothing that passes for an image.                                       *)
(***************************************************************************)
LoadIsAllOrNothing ==
    loaded /\ seed = saved.seed => blocks = saved.blocks

(***************************************************************************)
(* "Multi-block write", "Multi-block read": what write_chain accepts whole *)
(* into a chain of different blocks, read_chain returns from the chain.    *)
(* The code does not: a route to an entry with a reserved number stops the *)
(* reader, so a block never reads back more than Reachable bytes, never    *)
(* counts as full, and the blocks after it are not read.                   *)
(***************************************************************************)
ChainReadsBack ==
    \A chain \in Chains, data \in Contents :
        LET done == WriteChain(blocks, holds, chain, data)
        IN  /\ IsInjective(chain)
            /\ \A i \in 1 .. Len(chain) : Allocated(blocks, chain[i])
            /\ done.written = Len(data)
            => ReadChain(done.blocks, chain, Len(data)) = data
=============================================================================
