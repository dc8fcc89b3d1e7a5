--------------------------- MODULE ManifoldClients ---------------------------
(***************************************************************************)
(* The clients of one manifold together: the logic transducer, the state   *)
(* engine, the virtual machine and the invalid-opcode exception.  They run *)
(* on one core, one operation at a time, and share its address space: what *)
(* one stores may lie where another looks.                                 *)
(***************************************************************************)
EXTENDS LogicTransducer, StateEngine, TopologicalVM, FaultPath

clientVars == <<addressedVars, ops, symbol_table, engineVars, vmVars, faultVars>>

ClientsInit == AddressedInit /\ TransducerInit /\ EngineInit /\ VmInit /\ FaultInit

ClientsNext ==
    \/ TransducerNext /\ UNCHANGED <<engineVars, vmVars, faultVars>>
    \/ EngineNext /\ UNCHANGED <<symbol_table, vmVars, faultVars>>
    \/ VmNext /\ UNCHANGED <<symbol_table, engineVars, faultVars>>
    \/ FaultNext /\ UNCHANGED <<symbol_table, engineVars, vmVars>>
    \/ TouchSlot /\ UNCHANGED <<symbol_table, engineVars, vmVars, faultVars>>

ClientsSpec == ClientsInit /\ [][ClientsNext]_clientVars

-----------------------------------------------------------------------------
Place(vaddr) == <<BlockOf(vaddr), AtomOf(vaddr)>>

TransitionPlace(state, input) == Place(Transition(state, input))
HandlerPlace(reason) == Place(DispatchVaddr(reason))

\* The directory a table of entries stands for: the first entry of a name counts.
Directory(table) ==
    [title \in {table[i].name : i \in DOMAIN table} |->
        table[SelectInSeq(table, LAMBDA entry : entry.name = title)].coordinate]

Machines == INSTANCE ClientMachines WITH
    Titles <- {Truncated(name) : name \in Names},
    memory <- [vb \in touched |-> stored[vb]], intact <- sound,
    names <- Directory(symbol_table), state <- current_state,
    guesses <- chaos_accumulator, active <- is_active

(***************************************************************************)
(* The clients together, on one cache whose slots they take from each      *)
(* other, are the machines of ClientMachines on one memory: every lookup,  *)
(* exit and registration of any of them is a step of its machine, decided  *)
(* by what was stored and by nothing else the cache does (topology.hpp,    *)
(* logic_transducer.hpp, state_engine.hpp, tvm.hpp).                       *)
(***************************************************************************)
ImplementsMachines == Machines!Spec
=============================================================================
