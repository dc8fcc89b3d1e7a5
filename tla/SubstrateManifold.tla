------------------------- MODULE SubstrateManifold -------------------------
(***************************************************************************)
(* The block cache of src/vdev/topology.hpp (class SubstrateManifold).     *)
(* Every store of the hypervisor goes through it: guest sectors, audit     *)
(* entries and burnt logic atoms.                                          *)
(*                                                                         *)
(* A pool of PoolSize physical blocks is indexed by cache_state_ and       *)
(* vblock_map_.  A block is looked up by a linear scan and, when it must   *)
(* be created, takes the slot vblock_counter_ % CACHE_POOL_SIZE whatever   *)
(* that slot holds.  Nothing is cleared on the way: neither the pool when  *)
(* it is allocated, nor a slot when it is given to another block, nor the  *)
(* map entry of a slot that is cleared.                                    *)
(*                                                                         *)
(* A virtual address is a pair <<block, atom>>; an atom is 16 bytes.  A    *)
(* copy of several atoms stores one value in all of them.                  *)
(***************************************************************************)
EXTENDS Integers, FiniteSets

CONSTANTS
    PoolSize,     \* CACHE_POOL_SIZE
    BlockAtoms,   \* entries in a Block (1024)
    VBlocks,      \* virtual block numbers that are addressed
    BlockZero,    \* virtual block number 0, what a zeroed map entry names
    Values,       \* values stored in atoms
    Zero,         \* the value {0, 0}
    Garbage,      \* contents of memory nothing was stored in
    Extents,      \* the <<first atom, atoms>> that callers store at once
    CounterMod    \* 2^32: vblock_counter_ is a uint32_t

ASSUME PoolAssumption == PoolSize \in Nat \ {0} /\ BlockAtoms \in Nat \ {0}

\* The counter wraps at a multiple of the pool size (2^32 and 1024).
ASSUME CounterAssumption == \E turns \in 1 .. CounterMod : CounterMod = turns * PoolSize

ASSUME DataAssumption ==
    /\ BlockZero \in VBlocks
    /\ Zero \in Values
    /\ Garbage \notin Values
    /\ Garbage \notin VBlocks

ASSUME ExtentAssumption == Extents \subseteq (0 .. BlockAtoms - 1) \X Nat

VARIABLES
    cache_state,     \* cache_state_: "EMPTY" or "RESIDENT" per slot
    vblock_map,      \* vblock_map_: the virtual block a slot was last given to
    cache_pool,      \* cache_pool_: the contents of every slot
    vblock_counter,  \* vblock_counter_
    written,         \* history: atoms of a slot stored since it was last given out
    revived          \* history: slots made RESIDENT by write_slot while EMPTY

manifoldVars ==
    <<cache_state, vblock_map, cache_pool, vblock_counter, written, revived>>

Slots == 0 .. PoolSize - 1
Atoms == 0 .. BlockAtoms - 1

TypeOK ==
    /\ cache_state \in [Slots -> {"EMPTY", "RESIDENT"}]
    /\ vblock_map \in [Slots -> VBlocks]
    /\ cache_pool \in [Slots -> [Atoms -> Values \cup {Garbage}]]
    /\ vblock_counter \in 0 .. CounterMod - 1
    /\ written \in [Slots -> SUBSET Atoms]
    /\ revived \in SUBSET Slots

-----------------------------------------------------------------------------
\* The constructor, run on zeroed static storage: only cache_state_ is set.
Init ==
    /\ cache_state = [s \in Slots |-> "EMPTY"]
    /\ vblock_map = [s \in Slots |-> BlockZero]
    /\ cache_pool = [s \in Slots |-> [a \in Atoms |-> Garbage]]
    /\ vblock_counter = 0
    /\ written = [s \in Slots |-> {}]
    /\ revived = {}

-----------------------------------------------------------------------------
(* get_physical_block *)

Holder(s, vb) == cache_state[s] # "EMPTY" /\ vblock_map[s] = vb

\* The scan with its bound one too low (kept for mutation).
HeldButForLast(vb) == \E s \in 0 .. PoolSize - 2 : Holder(s, vb)

Held(vb) == \E s \in Slots : Holder(s, vb)

\* The scan returns the first slot that holds the block.
FirstHolder(vb) ==
    CHOOSE s \in Slots : Holder(s, vb) /\ \A t \in Slots : Holder(t, vb) => s <= t

Victim == vblock_counter % PoolSize

\* The counter never reduced, and advanced twice (kept for mutation).
NextCounterUnwrapped == vblock_counter + 1
NextCounterTwice == (vblock_counter + 2) % CounterMod

NextCounter == (vblock_counter + 1) % CounterMod

-----------------------------------------------------------------------------
(* Operations *)

\* A fetch that trusts the map entry of a cleared slot (kept for mutation).
FetchByMapAlone(vb, a) ==
    IF \E s \in Slots : vblock_map[s] = vb
    THEN cache_pool[CHOOSE s \in Slots : vblock_map[s] = vb][a]
    ELSE Zero

\* holographic_fetch
HolographicFetch(vb, a) ==
    IF Held(vb) THEN cache_pool[FirstHolder(vb)][a] ELSE Zero

\* kmemcpy has no bound: the e[2] atoms from atom e[1] of slot p run on into the
\* slots after p.  (What runs past the last slot leaves the modelled state.)
Covers(p, e, s, a) ==
    LET i == (s - p) * BlockAtoms + a IN e[1] <= i /\ i < e[1] + e[2]

Copied(p, e, v) ==
    [s \in Slots |-> [a \in Atoms |-> IF Covers(p, e, s, a) THEN v ELSE cache_pool[s][a]]]

\* Atoms of slot p itself that the copy reaches.
OwnAtoms(e) == {a \in Atoms : e[1] <= a /\ a < e[1] + e[2]}

\* materialize_range on a block some slot holds.
MaterializeHeld(vb, e, v) ==
    /\ Held(vb)
    /\ cache_pool' = Copied(FirstHolder(vb), e, v)
    /\ written' = [written EXCEPT ![FirstHolder(vb)] = @ \cup OwnAtoms(e)]
    /\ UNCHANGED <<cache_state, vblock_map, vblock_counter, revived>>

\* materialize_range on a block no slot holds: get_physical_block(_, true)
\* hands it the victim slot as it is.
MaterializeFresh(vb, e, v) ==
    /\ ~Held(vb)
    /\ vblock_map' = [vblock_map EXCEPT ![Victim] = vb]
    /\ cache_state' = [cache_state EXCEPT ![Victim] = "RESIDENT"]
    /\ vblock_counter' = NextCounter
    /\ cache_pool' = Copied(Victim, e, v)
    /\ written' = [written EXCEPT ![Victim] = OwnAtoms(e)]
    /\ revived' = revived \ {Victim}

Materialize(vb, e, v) == MaterializeHeld(vb, e, v) \/ MaterializeFresh(vb, e, v)

\* write_slot: the slot becomes RESIDENT under whatever its map entry says.
WriteSlot(s, v) ==
    /\ cache_state' = [cache_state EXCEPT ![s] = "RESIDENT"]
    /\ cache_pool' = [cache_pool EXCEPT ![s][0] = v]
    /\ revived' = IF cache_state[s] = "EMPTY" THEN revived \cup {s} ELSE revived
    /\ UNCHANGED <<vblock_map, vblock_counter, written>>

\* clear_slot: the map entry stays.
ClearSlot(s) ==
    /\ cache_state' = [cache_state EXCEPT ![s] = "EMPTY"]
    /\ revived' = revived \ {s}
    /\ UNCHANGED <<vblock_map, cache_pool, vblock_counter, written>>

\* The two operations that name virtual blocks or drop them.
BlockNext ==
    \/ \E vb \in VBlocks, e \in Extents, v \in Values : Materialize(vb, e, v)
    \/ \E s \in Slots : ClearSlot(s)

\* The whole interface.
Next ==
    \/ BlockNext
    \/ \E s \in Slots, v \in Values : WriteSlot(s, v)

BlockSpec == Init /\ [][BlockNext]_manifoldVars
Spec == Init /\ [][Next]_manifoldVars

-----------------------------------------------------------------------------
(* Properties *)

\* Two slots answer for one block only when write_slot brought one of them back
\* with the map entry clear_slot had left in it (get_physical_block would
\* otherwise have found the first and never given out the second).
UniqueUnlessRevived ==
    \A s, t \in Slots :
        s # t /\ cache_state[s] # "EMPTY" /\ cache_state[t] # "EMPTY"
              /\ vblock_map[s] = vblock_map[t]
        => s \in revived \/ t \in revived

\* The blocks held, oldest first: the slot the counter points at is the next to
\* be given away.
Line(s) ==
    IF cache_state[s] = "EMPTY"
    THEN [block |-> Garbage, data |-> [a \in Atoms |-> Garbage]]
    ELSE [block |-> vblock_map[s],
          data |-> [a \in Atoms |->
                      IF a \in written[s] THEN cache_pool[s][a] ELSE Garbage]]

Window == [k \in Slots |-> Line((vblock_counter + k) % PoolSize)]

Promise == INSTANCE BlockWindow WITH
    WindowSize <- PoolSize, Unknown <- Garbage, window <- Window

\* Through materialize_range and clear_slot alone, with copies that stay inside
\* their block, the cache is a window of the last PoolSize blocks.
KeepsPromise == Promise!Spec

\* A fetch returns what the window holds for the address: never the value of a
\* copy that was overwritten, dropped or pushed out.
FetchesFromWindow ==
    \A vb \in VBlocks, a \in Atoms :
        HolographicFetch(vb, a) \in
            Promise!Fetchable(vb, a, Values \cup {Garbage})
=============================================================================
