--------------------------- MODULE MCStorageStack ---------------------------
(* Two slots of two sectors; two guest blocks inside the capacity, the first
   sector beyond it, and the log's block. *)
EXTENDS StorageStack, TLC

CONSTANTS zero, one, two, junk

MCVBlocks == 0 .. 3
MCValues == {zero, one, two}
MCExtents == {<<0, 1>>, <<1, 1>>}
MCLbas == 0 .. 4

\* The two contents of a sector are interchangeable.
MCSymmetry == Permutations({one, two})
=============================================================================
