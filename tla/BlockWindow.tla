---------------------------- MODULE BlockWindow ----------------------------
(***************************************************************************)
(* What the block cache of the Substrate Manifold promises to the code     *)
(* that stores through it, without slots, state bytes, maps or counters:   *)
(* the blocks it holds are the last WindowSize ones that were brought in,  *)
(* oldest first; a block is held at most once; an atom of a held block     *)
(* reads as the value last stored there, or as anything at all when        *)
(* nothing was stored there since the block was brought in; an atom of a   *)
(* block that is not held reads as Zero.                                   *)
(***************************************************************************)
EXTENDS Integers

CONSTANTS
    WindowSize,   \* how many blocks are held
    BlockAtoms,   \* atoms (16-byte values) in a block
    VBlocks,      \* virtual block numbers
    Values,       \* values an atom can be given
    Zero,         \* what a miss reads as
    Unknown,      \* an atom nothing was stored in since its block came in
    Extents       \* the <<first atom, number of atoms>> a store may cover

VARIABLE window   \* position 0 is the oldest place, WindowSize - 1 the newest

Atoms == 0 .. BlockAtoms - 1
Places == 0 .. WindowSize - 1

Held == [block : VBlocks, data : [Atoms -> Values \cup {Unknown}]]
Absent == [block |-> Unknown, data |-> [a \in Atoms |-> Unknown]]

TypeOK == window \in [Places -> Held \cup {Absent}]

Holds(k, vb) == window[k].block = vb

\* The atoms of one store: a run of e[2] atoms from atom e[1].
InExtent(a, e) == e[1] <= a /\ a < e[1] + e[2]

Stored(data, e, v) == [a \in Atoms |-> IF InExtent(a, e) THEN v ELSE data[a]]

Init == window = [k \in Places |-> Absent]

\* A store to a held block changes it where it stands.
Update(vb, e, v) ==
    \E k \in Places :
        /\ Holds(k, vb)
        /\ window' = [window EXCEPT ![k] =
                        [block |-> vb, data |-> Stored(window[k].data, e, v)]]

\* A store to a block that is not held brings it in at the newest place, and
\* whatever stood at the oldest place is gone.
Admit(vb, e, v) ==
    /\ \A k \in Places : ~Holds(k, vb)
    /\ window' = [k \in Places |->
                    IF k = WindowSize - 1
                    THEN [block |-> vb, data |-> Stored(Absent.data, e, v)]
                    ELSE window[k + 1]]

Drop(k) == window' = [window EXCEPT ![k] = Absent]

Next ==
    \/ \E vb \in VBlocks, e \in Extents, v \in Values :
          Update(vb, e, v) \/ Admit(vb, e, v)
    \/ \E k \in Places : Drop(k)

Spec == Init /\ [][Next]_window

-----------------------------------------------------------------------------
\* The values a fetch may return.
Fetchable(vb, a, anything) ==
    IF \E k \in Places : Holds(k, vb)
    THEN LET k == CHOOSE j \in Places : Holds(j, vb)
         IN  IF window[k].data[a] = Unknown THEN anything ELSE {window[k].data[a]}
    ELSE {Zero}
=============================================================================
