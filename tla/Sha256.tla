------------------------------- MODULE Sha256 -------------------------------
(***************************************************************************)
(* The hash of src/crypto/sha256.hpp: how update cuts what it is given     *)
(* into blocks, over calls of any length, and how finalize pads.  The      *)
(* rounds are left out: the state of the hash stands as the sequence of    *)
(* blocks that were put through transform, so that two digests are equal   *)
(* when their blocks are.                                                  *)
(***************************************************************************)
EXTENDS Integers, Sequences

CONSTANTS
    BlockBytes,    \* 64
    LengthBytes,   \* bytes of the length in the last block: 8
    Radix,         \* values of a byte: 256
    Messages,      \* messages a caller feeds, in pieces
    MaxPiece,      \* bound on the length of a piece
    Seeds,         \* seeds that are verified against each other's digests
    SeedBytes,     \* 16
    Unset,         \* a byte of buffer nothing was copied to
    NoDigest

HashedBytes == 0 .. Radix - 1

ASSUME HashAssumption ==
    /\ BlockBytes \in Nat /\ LengthBytes \in 1 .. BlockBytes - 1 /\ Radix \in Nat \ {0}
    /\ Messages \subseteq Seq(HashedBytes) /\ MaxPiece \in Nat
    /\ SeedBytes \in Nat /\ Seeds \subseteq [1 .. SeedBytes -> HashedBytes]

VARIABLES
    message,  \* history: the message
    fed,      \* history: how much of it update was given
    sha,      \* the object: count, buffer and the blocks transformed
    digest    \* what finalize returned

shaVars == <<message, fed, sha, digest>>

\* The constructor leaves the buffer as it is.
NewSha == [count |-> 0, buffer |-> [n \in 1 .. BlockBytes |-> Unset], blocks |-> <<>>]

ShaInit == message \in Messages /\ fed = 0 /\ sha = NewSha /\ digest = NoDigest

Overlaid(buffer, at, data) ==
    [n \in 1 .. BlockBytes |-> IF n \in at + 1 .. at + Len(data) THEN data[n - at] ELSE buffer[n]]

Block(data, k) == SubSeq(data, (k - 1) * BlockBytes + 1, k * BlockBytes)

Begun(object) == object.count % BlockBytes

\* What of the data goes to the block begun before.
First(object, data) ==
    IF Begun(object) = 0 THEN 0
    ELSE IF Len(data) < BlockBytes - Begun(object) THEN Len(data) ELSE BlockBytes - Begun(object)

\* It is transformed when it is full.
Fill(object, data) ==
    LET filled == Overlaid(object.buffer, Begun(object), data)
    IN  [count |-> object.count + Len(data), buffer |-> filled,
         blocks |-> IF Begun(object) + Len(data) = BlockBytes THEN Append(object.blocks, filled)
                                                              ELSE object.blocks]

\* So many blocks are transformed where they lie; the rest is kept.
TakeBlocks(object, data, whole) ==
    LET kept == SubSeq(data, whole * BlockBytes + 1, Len(data))
    IN  [count |-> object.count + Len(data), buffer |-> Overlaid(object.buffer, 0, kept),
         blocks |-> object.blocks \o [k \in 1 .. whole |-> Block(data, k)]]

\* Error: a last whole block is kept for later.
TakeLate(object, data) ==
    TakeBlocks(object, data, IF data = <<>> THEN 0 ELSE (Len(data) - 1) \div BlockBytes)

Take(object, data) == TakeBlocks(object, data, Len(data) \div BlockBytes)

Update(object, data) ==
    LET first == First(object, data)
    IN  Take(IF first = 0 THEN object ELSE Fill(object, SubSeq(data, 1, first)),
             SubSeq(data, first + 1, Len(data)))

\* bit_len byte by byte, from the right; no byte of it is above the word.
Shifted(n) == LET s[k \in 0 .. LengthBytes] == IF k = 0 THEN n ELSE s[k - 1] \div Radix IN s
BigEndian(n) == [k \in 1 .. LengthBytes |-> Shifted(n)[LengthBytes - k] % Radix]

\* The padding goes through update a byte at a time, until the length fits.
Paddings(object) ==
    LET padded[n \in 0 .. BlockBytes - 1] ==
          IF n = 0 THEN Update(object, <<Radix \div 2>>) ELSE Update(padded[n - 1], <<0>>)
    IN  padded

Finalize(object) ==
    LET zeros == CHOOSE n \in 0 .. BlockBytes - 1 :
                    (object.count + 1 + n) % BlockBytes = BlockBytes - LengthBytes
    IN  Update(Paddings(object)[zeros], BigEndian(object.count * 8)).blocks

VerifySeed(seed, expected) == Finalize(Update(NewSha, seed)) = expected

Feed(n) ==
    /\ digest = NoDigest /\ fed + n <= Len(message)
    /\ sha' = Update(sha, SubSeq(message, fed + 1, fed + n)) /\ fed' = fed + n
    /\ UNCHANGED <<message, digest>>

Digest ==
    /\ digest = NoDigest /\ digest' = Finalize(sha)
    /\ UNCHANGED <<message, fed, sha>>

ShaNext == Digest \/ \E n \in 0 .. MaxPiece : Feed(n)

ShaSpec == ShaInit /\ [][ShaNext]_shaVars

-----------------------------------------------------------------------------
\* The padding as the standard has it: a one bit, the fewest zeros, the length.
Padded(data) ==
    LET zeros == (BlockBytes - LengthBytes - 1 - Len(data)) % BlockBytes
    IN  data \o <<Radix \div 2>> \o [k \in 1 .. zeros |-> 0] \o BigEndian(8 * Len(data))

BlocksOf(data) == [k \in 1 .. Len(data) \div BlockBytes |-> Block(data, k)]

(***************************************************************************)
(* A digest is that of the message, however it was cut into calls of       *)
(* update: no byte is lost, repeated or taken from an older block at any   *)
(* of the boundaries, those of the padding among them; and a seed is       *)
(* verified against no other seed's digest.                                *)
(***************************************************************************)
DigestsAreExact ==
    /\ digest # NoDigest => digest = BlocksOf(Padded(SubSeq(message, 1, fed)))
    /\ \A s, t \in Seeds : VerifySeed(s, BlocksOf(Padded(t))) <=> s = t
=============================================================================
