--------------------------- MODULE PhysicalMemory ---------------------------
(***************************************************************************)
(* The bump allocator of src/mm/memory.cpp, behind operator new and every  *)
(* driver's DMA and buffer memory.  Memory is never given back (operator   *)
(* delete is empty), so the state is one address and what it has handed    *)
(* out.                                                                    *)
(***************************************************************************)
EXTENDS Integers, Sequences

CONSTANTS
    Start,       \* first address (0x2000000 in kmain)
    Total,       \* bytes in the arena (0x40000000 in kmain)
    Align,       \* 16384
    WordMod,     \* 2^64: addresses are uintptr_t
    Sizes,       \* sizes that are asked for
    MaxGrants    \* bound on the number of blocks handed out

ASSUME ArenaAssumption ==
    /\ Start \in Nat /\ Total \in Nat /\ Align \in Nat \ {0} /\ WordMod \in Nat \ {0}
    /\ Start + Total + Align < WordMod
    /\ Sizes \subseteq Nat

VARIABLES
    current_address,   \* current_address
    grants             \* history: the blocks returned, in order

pmmVars == <<current_address, grants>>

max_address == Start + Total

Block == [base : Nat, size : Sizes]

TypeOK ==
    /\ current_address \in 0 .. WordMod - 1
    /\ grants \in Seq(Block)

Init ==
    /\ current_address = Start
    /\ grants = <<>>

-----------------------------------------------------------------------------
(* allocate *)

\* Rounding as if the remainder were never zero (kept for mutation).
RoundedAlways ==
    (current_address + (Align - (current_address % Align))) % WordMod

\* The address rounded up; a request that is then refused leaves it rounded.
Rounded ==
    IF current_address % Align = 0
    THEN current_address
    ELSE (current_address + (Align - (current_address % Align))) % WordMod

\* The request left out of the comparison (kept for mutation).
StartFits(size) == Rounded < max_address

\* The sum is taken in an unsigned word; a request that would end exactly at
\* max_address is refused.
Fits(size) == (Rounded + size) % WordMod < max_address

\* The next block starts where this one did, and the size is rounded up instead
\* of the address (kept for mutation).
GrantInPlace(size) ==
    /\ Fits(size)
    /\ Len(grants) < MaxGrants
    /\ current_address' = Rounded
    /\ grants' = Append(grants, [base |-> Rounded, size |-> size])

GrantRoundedSize(size) ==
    LET whole == ((size + Align - 1) \div Align) * Align
    IN  /\ Fits(size)
        /\ Len(grants) < MaxGrants
        /\ current_address' = (current_address + whole) % WordMod
        /\ grants' = Append(grants, [base |-> current_address, size |-> whole])

Grant(size) ==
    /\ Fits(size)
    /\ Len(grants) < MaxGrants
    /\ current_address' = (Rounded + size) % WordMod
    /\ grants' = Append(grants, [base |-> Rounded, size |-> size])

\* A null pointer is returned.
Refuse(size) ==
    /\ ~ Fits(size)
    /\ current_address' = Rounded
    /\ UNCHANGED grants

Next == \E size \in Sizes : Grant(size) \/ Refuse(size)

Spec == Init /\ [][Next]_pmmVars

-----------------------------------------------------------------------------
(* Properties *)

\* No request is so large that its end wraps round the address space.
SizesFit == \A size \in Sizes : Start + Total + Align + size < WordMod

\* Blocks never overlap, however many were refused in between: each ends before
\* every later one starts.
GrantsDisjoint ==
    \A i, j \in 1 .. Len(grants) :
        i < j => grants[i].base + grants[i].size <= grants[j].base

\* Every block is aligned for any device that is given it and lies inside the
\* arena, below its last byte.
GrantsInArena ==
    \A i \in 1 .. Len(grants) :
        /\ grants[i].base % Align = 0
        /\ Start <= grants[i].base
        /\ grants[i].base + grants[i].size < max_address

\* A refused request costs less than one alignment unit and costs it once, so it
\* cannot starve later, smaller ones.
RefusalIsCheap ==
    [][grants' = grants =>
         /\ current_address <= current_address'
         /\ current_address' < current_address + Align
         /\ current_address' % Align = 0]_pmmVars
=============================================================================
