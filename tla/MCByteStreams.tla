---------------------------- MODULE MCByteStreams ----------------------------
(***************************************************************************)
(* The phase fold and the hash, which have nothing to do with each other:  *)
(* a behaviour is one of the one or of the other.                          *)
(*                                                                         *)
(* Sectors of four bytes of two bits, corrections of four, arrays for      *)
(* four, two and two corrections and a residue of one.  Blocks of four     *)
(* bytes with a length of two, messages up to two blocks and a byte, and   *)
(* seeds of a quarter of a block.                                          *)
(***************************************************************************)
EXTENDS PhaseFold, Sha256, Bitwise

MCXor(a, b) == a ^^ b
MCLayerSizes == <<4, 2, 2>>
MCSectors == {<<0, 0, 0, 0>>, <<3, 1, 0, 2>>}

\* Bytes that tell where they stand.
Counting(n) == [k \in 1 .. n |-> k]
MCMessages == {Counting(9), [k \in 1 .. 9 |-> 0]}
MCSeeds == {<<0>>, <<1>>}

StreamsInit == FoldInit /\ ShaInit

StreamsNext ==
    \/ fed = 0 /\ digest = NoDigest /\ FoldNext /\ UNCHANGED shaVars
    \/ writes = 0 /\ ShaNext /\ UNCHANGED foldVars

StreamsSpec == StreamsInit /\ [][StreamsNext]_<<foldVars, shaVars>>
=============================================================================
