----------------------------- MODULE StateEngine -----------------------------
(***************************************************************************)
(* The state engine of src/core/state_engine.hpp: a machine whose next     *)
(* state is the route of an atom, looked up only every Threshold + 1       *)
(* inputs; in between it guesses the exclusive or of state and input.  One *)
(* caller steps it.  The transition for a state and an input lies at       *)
(* state * LensCount + input; what a guess puts into the result's value is *)
(* left out.                                                               *)
(***************************************************************************)
EXTENDS AddressedManifold

CONSTANTS
    Threshold,    \* ENTROPY_THRESHOLD
    Inputs,       \* the inputs of step
    ResetStates,  \* the states reset is called with, LENS_COUNT and more among them
    Transitions   \* the <<state, input, route>> that are stored

ASSUME EngineAssumption ==
    /\ Threshold \in Nat /\ Inputs \subseteq WordRange /\ ResetStates \subseteq WordRange
    /\ \A t \in Transitions : [route |-> t[3], lo |-> 0] \in Values

VARIABLES
    current_state,      \* current_state_
    chaos_accumulator,  \* chaos_accumulator_
    base,               \* history: the state after the last lookup or reset
    heard               \* history: the exclusive or of the inputs since then

engineVars == <<current_state, chaos_accumulator, base, heard>>

EngineInit == current_state = 0 /\ chaos_accumulator = 0 /\ base = 0 /\ heard = 0

Transition(state, input) == state * LensCount + (input % LensCount)

ASSUME TransitionAssumption == \A t \in Transitions : Addressed(Transition(t[1], t[2]), 1)

Guess(input) == WordXor(current_state, input) % LensCount

\* A transition table is stored through the manifold like everything else.
StoreTransition(t) ==
    Store(Transition(t[1], t[2]), 1, [route |-> t[3], lo |-> 0]) /\ UNCHANGED engineVars

Settle(state) ==
    /\ Counted /\ UNCHANGED addressedVars
    /\ current_state' = state /\ base' = state /\ chaos_accumulator' = 0 /\ heard' = 0

Reset(initial_state) == Settle(initial_state)

\* Error: the speculation of an input that is looked up counts as well.
SpeculateLong(input) ==
    /\ chaos_accumulator <= Threshold
    /\ chaos_accumulator' = chaos_accumulator + 1
    /\ current_state' = Guess(input) /\ heard' = WordXor(heard, input)
    /\ Counted /\ UNCHANGED <<base, addressedVars>>

Speculate(input) ==
    /\ chaos_accumulator < Threshold
    /\ chaos_accumulator' = chaos_accumulator + 1
    /\ current_state' = Guess(input) /\ heard' = WordXor(heard, input)
    /\ Counted /\ UNCHANGED <<base, addressedVars>>

\* Error: a halt is taken for the end of the machine, as in the virtual machine.
NextStateHalting(route, input) ==
    IF route \in {FREE_ROUTE, ERROR_ROUTE, HALT_ROUTE} THEN Guess(input) ELSE route

NextState(route, input) ==
    IF route \in {FREE_ROUTE, ERROR_ROUTE} THEN Guess(input) ELSE route

LookUp(input) ==
    /\ chaos_accumulator >= Threshold
    /\ Settle(NextState(Fetch(Transition(current_state, input)).route, input))

Step(input) == Speculate(input) \/ LookUp(input)

EngineNext ==
    \/ \E input \in Inputs : Step(input)
    \/ \E state \in ResetStates : Reset(state)
    \/ \E t \in Transitions : StoreTransition(t)

-----------------------------------------------------------------------------
(***************************************************************************)
(* However long the machine has run, and whatever it was reset to, it is   *)
(* never more than Threshold guesses away from a state that was looked up  *)
(* or set, and where it is depends on the inputs since then but not on     *)
(* their order.                                                            *)
(***************************************************************************)
GuessesFoldInputs ==
    /\ chaos_accumulator <= Threshold
    /\ chaos_accumulator = 0 => current_state = base
    /\ chaos_accumulator > 0 => current_state = WordXor(base, heard) % LensCount

(***************************************************************************)
(* While the clients' blocks fit the pool, a machine that looks up goes    *)
(* where the transition last stored for its state and input says: to state *)
(* 0 where no transition was stored and the block is absent, and also to   *)
(* the state whose number is the halt route.                               *)
(***************************************************************************)
TableIsObeyed ==
    [][\A input \in Inputs :
          LET due == Owed(Transition(current_state, input))
          IN  LookUp(input) /\ Undisturbed /\ due # None
              => current_state' = IF due.route \in {FREE_ROUTE, ERROR_ROUTE}
                                  THEN Guess(input) ELSE due.route]_engineVars
=============================================================================
