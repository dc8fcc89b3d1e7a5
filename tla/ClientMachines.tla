--------------------------- MODULE ClientMachines ---------------------------
(***************************************************************************)
(* What the clients of one manifold may count on, without slots, states,   *)
(* maps or counters: a memory of blocks.  While it is kept, that is while  *)
(* no more than PoolSize blocks are in use and nothing went around         *)
(* materialize_range, an atom reads as what was last stored there, or as   *)
(* Zero in a block that is not in use.  Once it is not kept, an atom reads *)
(* as anything.  Beside it stand a directory in which a name keeps its     *)
(* first coordinate, a machine that looks its transitions up in the memory *)
(* and a guest whose exits call the handlers in it.                        *)
(***************************************************************************)
EXTENDS Integers, FiniteSets

CONSTANTS
    PoolSize, BlockAtoms, VBlocks, Extents,  \* blocks kept and their atoms
    Values, Zero, Junk,       \* what is stored, and what else may be read
    None,                     \* an atom of a block in use that was not stored
    LensCount, WordXor(_, _),
    Titles, Coordinates,      \* the names of the directory, cut down, and its coordinates
    Threshold, Inputs, ResetStates, TransitionPlace(_, _),  \* the machine's table
    Reasons, HandlerPlace(_)                                \* the guest's exits

VARIABLES
    memory,   \* the contents of the blocks in use
    intact,   \* nothing went around materialize_range or out of its block
    names,    \* the directory
    state, guesses,   \* the machine: its state, and the guesses since it looked up
    active, called    \* the guest: it runs, and its last exit

machineVars == <<memory, intact, names, state, guesses, active, called>>

Init ==
    /\ memory = [vb \in {} |-> None] /\ intact = TRUE
    /\ names = [title \in {} |-> None]
    /\ state = 0 /\ guesses = 0
    /\ active = FALSE /\ called = None

Kept == intact /\ Cardinality(DOMAIN memory) <= PoolSize

\* What may be read at a place, a block and one of its atoms.
Readable(place) ==
    IF Kept /\ place[1] \notin DOMAIN memory THEN {Zero}
    ELSE IF Kept /\ memory[place[1]][place[2]] # None THEN {memory[place[1]][place[2]]}
    ELSE Values \cup {Junk}

Stored(atoms, e, v) ==
    [a \in 0 .. BlockAtoms - 1 |-> IF e[1] <= a /\ a < e[1] + e[2] THEN v ELSE atoms[a]]

\* A block that was not in use comes into use; no other changes.
ChangesOnly(vb) ==
    /\ DOMAIN memory' = DOMAIN memory \cup {vb}
    /\ \A b \in DOMAIN memory \ {vb} : memory'[b] = memory[b]

Put(vb, e, v) ==
    LET old == IF vb \in DOMAIN memory THEN memory[vb] ELSE [a \in 0 .. BlockAtoms - 1 |-> None]
    IN  memory'[vb] = Stored(old, e, v)

\* A store by any of the clients; that of an image makes the guest run.
Store ==
    /\ active' \in {active, TRUE}
    /\ UNCHANGED <<state, guesses, called, names>>
    /\ \E vb \in VBlocks :
          /\ ChangesOnly(vb)
          /\ \E e \in Extents :
                /\ intact' = (intact /\ e[1] + e[2] <= BlockAtoms)
                /\ \E v \in Values : Put(vb, e, v)

Spoil == UNCHANGED <<memory, names, state, guesses, active, called>> /\ intact' = FALSE

Register(title, coord) ==
    /\ UNCHANGED <<memory, intact, state, guesses, active, called>>
    /\ names' = [t \in DOMAIN names \cup {title} |->
                    IF t \in DOMAIN names THEN names[t] ELSE coord]

-----------------------------------------------------------------------------
Guessed(input) == WordXor(state, input) % LensCount

Move(next, count) ==
    /\ state' = next /\ guesses' = count
    /\ UNCHANGED <<memory, intact, names, active, called>>

Guess(input) == guesses < Threshold /\ Move(Guessed(input), guesses + 1)

\* The error and the free route are no states; a machine goes on by guessing.
LookUp(input) ==
    /\ guesses = Threshold
    /\ \E t \in Readable(TransitionPlace(state, input)) :
          Move(IF t.route \in {LensCount - 2, LensCount - 3} THEN Guessed(input) ELSE t.route, 0)

Ends(handler) == handler.route \in {LensCount - 1, LensCount - 2} \/ handler.lo = 0

Exit(reason) ==
    /\ active
    /\ \E h \in Readable(HandlerPlace(reason)) :
          /\ active' = ~Ends(h)
          /\ called' = [reason |-> reason, handler |-> IF Ends(h) THEN None ELSE h.lo]
    /\ UNCHANGED <<memory, intact, names, state, guesses>>

Next ==
    \/ Store
    \/ Spoil
    \/ \E title \in Titles, coord \in Coordinates : Register(title, coord)
    \/ \E input \in Inputs : Guess(input) \/ LookUp(input)
    \/ \E next \in ResetStates : Move(next, 0)
    \/ \E reason \in Reasons : Exit(reason)

Spec == Init /\ [][Next]_machineVars
=============================================================================
