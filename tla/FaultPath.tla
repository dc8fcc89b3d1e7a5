------------------------------ MODULE FaultPath ------------------------------
(***************************************************************************)
(* The invalid-opcode exception: the stub exception_handler_ud of          *)
(* src/boot/boot.S and resolve_hic of src/hal/idt.cpp, which resolves the  *)
(* instruction 0F FF through the manifold.  A frame is what lies on the    *)
(* stack while the stub runs: the interrupted RIP, and the saved RAX and   *)
(* RBX, which the stub restores.  A pointer is the name of its slot.       *)
(***************************************************************************)
EXTENDS AddressedManifold

CONSTANTS
    Words,      \* values of RAX and RBX when the exception comes
    Rips,       \* values of RIP
    NullResult  \* what resolves without a manifold (0x0A)

VARIABLES
    g_fuzz_active,     \* set from outside the repository
    g_fault_detected,
    dumped,            \* dump_registers was called, which never returns
    trap               \* history: the frame of the last 0F FF before and after the
                       \* handler, and the result stored for it

faultVars == <<g_fuzz_active, g_fault_detected, dumped, trap>>

FaultInit ==
    g_fuzz_active = FALSE /\ g_fault_detected = FALSE /\ dumped = FALSE /\ trap = None

Frames == [RIP : Rips, RAX : Words, RBX : Words]

Skipped(frame, rip) == [frame EXCEPT ![rip] = @ + 2]

\* resolve_hic for 0F FF: the result is stored before rip is read again.
Resolved(frame, ready, rip, rax, rbx) ==
    LET result == IF ready THEN Fetch(WordXor(frame[rax], frame[rbx])).lo ELSE NullResult
    IN  Skipped([frame EXCEPT ![rax] = result], rip)

\* The stub takes its second and third pointer before it pushes RCX: they are
\* eight bytes above the slots they are meant for.
Returned(frame, ready) ==
    IF g_fuzz_active THEN Skipped(frame, "RIP")
                     ELSE Resolved(frame, ready, "RIP", "RIP", "RAX")

\* The handler for the instruction 0F FF, before or after kmain has made the
\* manifold, and for any other: that ends in dump_registers.
Hic(frame, ready) ==
    /\ g_fault_detected' = (g_fault_detected \/ g_fuzz_active)
    /\ trap' = [before |-> frame, after |-> Returned(frame, ready),
                result |-> IF g_fuzz_active THEN frame.RAX
                           ELSE IF ready THEN Fetch(WordXor(frame.RAX, frame.RBX)).lo
                           ELSE NullResult]
    /\ UNCHANGED dumped

OtherOpcode ==
    /\ g_fault_detected' = (g_fault_detected \/ g_fuzz_active)
    /\ dumped' = ~g_fuzz_active
    /\ UNCHANGED trap

InvalidOpcode ==
    /\ ~dumped /\ Counted /\ UNCHANGED <<g_fuzz_active, addressedVars>>
    /\ OtherOpcode \/ \E frame \in Frames, ready \in BOOLEAN : Hic(frame, ready)

SetFuzz ==
    /\ g_fuzz_active' = ~g_fuzz_active
    /\ Counted /\ UNCHANGED <<g_fault_detected, dumped, trap, addressedVars>>

FaultNext == SetFuzz \/ InvalidOpcode

-----------------------------------------------------------------------------
(***************************************************************************)
(* "Pointer to saved RAX", "Pointer to saved RBX": the instruction 0F FF   *)
(* leaves in RAX the result stored at RAX ^ RBX and goes on behind itself. *)
(* The code does not: the second pointer is that of RIP and the third that *)
(* of RAX, so the result replaces RIP and RAX stays as it was.             *)
(***************************************************************************)
HicReturnsResult ==
    trap # None => trap.after = [trap.before EXCEPT !.RAX = trap.result, !.RIP = @ + 2]
=============================================================================
