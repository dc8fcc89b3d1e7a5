--------------------------- MODULE MCTopologyImage ---------------------------
(***************************************************************************)
(* Two blocks of five entries of two bytes: entries 2, 3 and 4 have        *)
(* reserved numbers.  The messages end inside a hop, with the last         *)
(* reachable hop, and in a second block.  Seeds 00 and 11 share their tag. *)
(***************************************************************************)
EXTENDS TopologyImage

MCChains == {<<0>>, <<1>>, <<0, 1>>, <<7, 1>>}
MCContents == {<<1>>, <<2, 1, 2, 1>>, <<1, 2, 1, 2, 1, 2, 1, 2, 1, 2, 1>>}
MCSeeds == {<<0, 0>>, <<1, 1>>, <<0, 1>>}

\* A block under the wrong seed may lead in a circle.
MCNoiseBlocks == {[e \in EntryNumbers |->
                     [route |-> (e + 1) % 2, payload |-> [k \in 1 .. HopBytes |-> NoiseByte]]]}
=============================================================================
