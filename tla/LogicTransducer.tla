--------------------------- MODULE LogicTransducer ---------------------------
(***************************************************************************)
(* The logic transducer of src/core/logic_transducer.hpp: results burnt    *)
(* into the manifold at addresses that stand for operations, resolved one  *)
(* by one or in chains, and a table of named addresses.  A mnemonic is a   *)
(* sequence of characters; the table keeps the first NameLimit of them.    *)
(***************************************************************************)
EXTENDS AddressedManifold, Sequences, SequencesExt

CONSTANTS
    TableSize,    \* entries of symbol_table
    NameLimit,    \* characters an entry keeps
    Names,        \* the names that are registered and looked up
    Coordinates,  \* the addresses they are registered for
    Intents,      \* the addresses results are burnt at
    Results,      \* the results
    Scripts,      \* the chains that are resolved
    SpatialSpan,  \* 2^56: operands are below it, opcodes above
    Operands      \* operands of resolve_spatial

ASSUME TransducerAssumption ==
    /\ TableSize \in Nat \ {0} /\ NameLimit \in Nat \ {0}
    /\ \A lo \in Results : [route |-> 0, lo |-> lo] \in Values
    /\ \A intent \in Intents : Addressed(intent, 1)
    /\ Scripts \subseteq Seq(WordRange) /\ Operands \subseteq WordRange
    /\ SpatialSpan \in Nat
    /\ \A a \in Operands, b \in Operands : WordXor(a, b) < SpatialSpan

VARIABLE symbol_table   \* the registered entries in order

TransducerInit == symbol_table = <<>>

Truncated(name) == SubSeq(name, 1, IF Len(name) < NameLimit THEN Len(name) ELSE NameLimit)

RegisterHook(name, coord) ==
    /\ Len(symbol_table) < TableSize /\ Counted /\ UNCHANGED addressedVars
    /\ symbol_table' = Append(symbol_table, [name |-> Truncated(name), coordinate |-> coord])

\* get_hook_coordinate: the first entry of that name, or 0.
HookCoordinate(name) ==
    LET i == SelectInSeq(symbol_table, LAMBDA entry : entry.name = name)
    IN  IF i = 0 THEN 0 ELSE symbol_table[i].coordinate

BurnAtom(intent, result) ==
    Store(intent, 1, [route |-> 0, lo |-> result]) /\ UNCHANGED symbol_table

\* Error: the intent is the script's word alone.
LinkUnlinked(st, word) ==
    IF st.fault THEN st
    ELSE IF Fetch(word) = Zero THEN [st EXCEPT !.fault = TRUE]
    ELSE [st EXCEPT !.last = Fetch(word).lo]

\* One round of resolve_chain: an atom of zeros is a fault, which ends it.
Link(st, word) ==
    LET terminal == Fetch(WordXor(st.last, word))
    IN  IF st.fault THEN st
        ELSE IF terminal = Zero THEN [st EXCEPT !.fault = TRUE]
        ELSE [st EXCEPT !.last = terminal.lo]

\* resolve_chain: its state after every round.
Links(script) ==
    LET st[n \in 0 .. Len(script)] ==
          IF n = 0 THEN [last |-> 0, fault |-> FALSE] ELSE Link(st[n - 1], script[n])
    IN  st

ResolveChain(script) == Links(script)[Len(script)]

\* resolve_spatial and the two halves of topological_aes_round.
ResolveSpatial(opcode, a, b) == Fetch(opcode * SpatialSpan + WordXor(a, b)).lo

AesRound(state, key) == [i \in 1 .. 2 |-> ResolveSpatial(1, state[i], key[i])]

TransducerNext ==
    \/ \E intent \in Intents, result \in Results : BurnAtom(intent, result)
    \/ \E name \in Names, coord \in Coordinates : RegisterHook(name, coord)

-----------------------------------------------------------------------------
\* The walk of a script over what is owed at each link.  It ends early ("open")
\* at an atom that nobody stored in a block that is in use.
Pace(st, word) ==
    LET due == Owed(WordXor(st.last, word))
    IN  IF st.end # "none" THEN st
        ELSE IF due = None THEN [st EXCEPT !.end = "open"]
        ELSE IF due = Zero THEN [st EXCEPT !.end = "fault"]
        ELSE [st EXCEPT !.last = due.lo]

Paces(script) ==
    LET st[n \in 0 .. Len(script)] ==
          IF n = 0 THEN [last |-> 0, end |-> "none"] ELSE Pace(st[n - 1], script[n])
    IN  st

Walk(script) == Paces(script)[Len(script)]

(***************************************************************************)
(* While the clients' blocks fit the pool, a chain resolves to the         *)
(* composition of the results last burnt at its links, whoever else stored *)
(* in between; a link never burnt, or burnt with the result 0, is a fault. *)
(* The same holds of a single spatial resolution, on both halves of a      *)
(* round.                                                                  *)
(***************************************************************************)
ResolutionsAreExact ==
    Undisturbed =>
        /\ \A script \in Scripts :
              LET due == Walk(script) got == ResolveChain(script)
              IN  due.end # "open" =>
                    got = [last |-> due.last, fault |-> due.end = "fault"]
        /\ \A a, b \in Operands :
              LET due == Owed(SpatialSpan + WordXor(a, b))
              IN  due # None => \A i \in 1 .. 2 : AesRound(<<a, a>>, <<b, b>>)[i] = due.lo

(***************************************************************************)
(* A name that was found keeps its coordinate, whatever is registered      *)
(* after it: under the same name, under a longer name the table cuts down  *)
(* to it, or into a full table.                                            *)
(***************************************************************************)
HooksKeep ==
    [][\A name \in Names :
          HookCoordinate(name) # 0 => HookCoordinate(name)' = HookCoordinate(name)]_symbol_table
=============================================================================
