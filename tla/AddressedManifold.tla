-------------------------- MODULE AddressedManifold --------------------------
(***************************************************************************)
(* The manifold as its clients see it: a store at byte addresses.  An      *)
(* address names the atom its AtomBytes bytes lie in, so that addresses    *)
(* which differ in the low bits only are one place.  An atom is a record   *)
(* of the route bits of its hi word and of its lo word; the rest of hi is  *)
(* zero in all that the clients store.                                     *)
(***************************************************************************)
EXTENDS SubstrateManifold

CONSTANTS
    AtomBytes,   \* sizeof(Value128)
    LensCount,   \* LENS_COUNT
    WordSpan,    \* the words are 0 .. WordSpan - 1 (2^64)
    WordXor(_, _),  \* the exclusive or of two words
    Junk,        \* an atom that memory nothing was stored in may be read as
    MaxOps,      \* bound on the number of operations of all clients
    None         \* nothing stored yet

ASSUME AddressAssumption ==
    /\ AtomBytes \in Nat \ {0} /\ LensCount \in Nat /\ LensCount > 3 /\ MaxOps \in Nat
    /\ VBlocks \subseteq Nat
    /\ \A v \in Values \cup {Junk} : v.route \in 0 .. LensCount - 1 /\ v.lo \in Nat
    /\ Zero = [route |-> 0, lo |-> 0]
    /\ None \notin Values

WordRange == 0 .. WordSpan - 1

\* What the clients rely on of the exclusive or: LensCount is a power of two, so
\* that the low bits of a result come from low bits alone.
ASSUME XorAssumption ==
    /\ WordSpan \in Nat /\ LensCount <= WordSpan
    /\ \A v \in Values \cup {Junk} : v.lo \in WordRange
    /\ \A x, y \in WordRange : WordXor(x, y) \in WordRange
    /\ \A x \in WordRange : WordXor(0, x) = x
    /\ \A x, y, z \in WordRange : WordXor(WordXor(x, y), z) = WordXor(x, WordXor(y, z))
    /\ \A x, y \in WordRange : WordXor(x % LensCount, y) % LensCount = WordXor(x, y) % LensCount

VARIABLES
    stored,   \* history: what every atom was last given, or None
    touched,  \* history: the blocks of the addresses stored at, however little
    sound,    \* history: no copy ran out of its block, no slot was written or cleared
    ops       \* operations so far

addressedVars == <<manifoldVars, stored, touched, sound>>

HALT_ROUTE == LensCount - 1
ERROR_ROUTE == LensCount - 2
FREE_ROUTE == LensCount - 3

BlockOf(vaddr) == vaddr \div (BlockAtoms * AtomBytes)
AtomOf(vaddr) == (vaddr \div AtomBytes) % BlockAtoms

\* An address that lies in the modelled blocks, and a copy of count atoms to it
\* that is among the modelled ones.
Addressed(vaddr, count) ==
    /\ vaddr \in Nat /\ BlockOf(vaddr) \in VBlocks
    /\ <<AtomOf(vaddr), count>> \in Extents

Fetch(vaddr) ==
    LET atom == HolographicFetch(BlockOf(vaddr), AtomOf(vaddr))
    IN  IF atom = Garbage THEN Junk ELSE atom

AddressedInit ==
    /\ Init
    /\ stored = [vb \in VBlocks |-> [a \in Atoms |-> None]]
    /\ touched = {} /\ sound = TRUE /\ ops = 0

Counted == ops < MaxOps /\ ops' = ops + 1

\* materialize_range of count atoms from an address on.
Store(vaddr, count, value) ==
    LET e == <<AtomOf(vaddr), count>>
    IN  /\ Counted
        /\ Materialize(BlockOf(vaddr), e, value)
        /\ stored' = [stored EXCEPT ![BlockOf(vaddr)] =
                        [a \in Atoms |-> IF a \in OwnAtoms(e) THEN value ELSE @[a]]]
        /\ touched' = touched \cup {BlockOf(vaddr)}
        /\ sound' = (sound /\ AtomOf(vaddr) + count <= BlockAtoms)

\* write_slot and clear_slot, which nothing in the repository calls yet.
TouchSlot ==
    /\ Counted
    /\ \E s \in Slots : ClearSlot(s) \/ \E v \in Values : WriteSlot(s, v)
    /\ sound' = FALSE /\ UNCHANGED <<stored, touched>>

-----------------------------------------------------------------------------
\* The blocks that were ever brought in fit the pool, and nothing went around
\* materialize_range: the clients may count on what they stored.  A store of no
\* bytes brings a block in like any other.
Undisturbed == sound /\ Cardinality(touched) <= PoolSize

\* What a client that stored at an address is owed there: None where the atom
\* was never stored but its block was, which reads whatever the slot held.
Owed(vaddr) ==
    IF BlockOf(vaddr) \notin touched THEN Zero
                                     ELSE stored[BlockOf(vaddr)][AtomOf(vaddr)]
=============================================================================
