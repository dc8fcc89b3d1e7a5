----------------------------- MODULE BootProofs -----------------------------
(***************************************************************************)
(* Theorems about PhysicalMemory, for every arena, alignment and set of    *)
(* request sizes none of which wraps round the address space, and about    *)
(* Boot over it: the boot uses the allocator as it is meant to be used, so *)
(* that what is proved of the allocator alone holds of every boot on every *)
(* machine.  Where the frame buffer leaves room, the boot is refused       *)
(* nothing it asks for.                                                    *)
(***************************************************************************)
EXTENDS Boot, SlotArithmetic

-----------------------------------------------------------------------------
(* The allocator *)

\* The address never runs more than one alignment unit past the arena: it is
\* inside, or a refused request left it aligned.
AddressInv ==
    /\ Start <= current_address
    /\ current_address < max_address + Align
    /\ current_address < max_address \/ current_address % Align = 0 \/ current_address = Start

\* What every block satisfies, and that all of them lie below the address.
GrantInv ==
    \A i \in 1 .. Len(grants) :
        /\ grants[i].base % Align = 0
        /\ Start <= grants[i].base
        /\ grants[i].base + grants[i].size < max_address
        /\ grants[i].base + grants[i].size <= current_address

MemoryInv == TypeOK /\ AddressInv /\ GrantInv /\ GrantsDisjoint

-----------------------------------------------------------------------------
LEMMA GrantType ==
    ASSUME TypeOK, NEW i \in 1 .. Len(grants)
    PROVE  grants[i].base \in Nat /\ grants[i].size \in Nat
<1>1. grants[i] \in Block
    BY DEF TypeOK
<1> QED
    BY <1>1, ArenaAssumption DEF Block

LEMMA RoundedFacts ==
    ASSUME TypeOK, AddressInv
    PROVE  /\ Rounded \in Nat
           /\ Rounded % Align = 0
           /\ current_address <= Rounded
           /\ Rounded < current_address + Align
           /\ Rounded < max_address + Align
<1> USE ArenaAssumption DEF max_address
<1>1. current_address \in Nat
    BY DEF TypeOK
<1>2. CASE current_address % Align = 0
    BY <1>1, <1>2 DEF Rounded, AddressInv
<1>3. CASE current_address % Align # 0
  <2>1. current_address % Align \in 1 .. Align - 1
      BY <1>1, <1>3, DivMod
  <2>2. PICK x \in Nat : x = current_address + (Align - (current_address % Align))
      BY <1>1, <2>1
  <2>3. current_address < max_address \/ current_address = Start
      BY <1>3 DEF AddressInv
  <2>4. current_address <= x /\ x < current_address + Align /\ x < max_address + Align
      BY <1>1, <2>1, <2>2, <2>3
  <2>5. x % WordMod = x
      BY <2>4, SmallRemainder
  <2>6. x % Align = 0
      BY <1>1, <2>2, RoundedUp
  <2>7. Rounded = x
      BY <1>3, <2>2, <2>5 DEF Rounded
  <2> QED
      BY <2>4, <2>6, <2>7
<1> QED
    BY <1>2, <1>3

\* A request that fits ends inside the arena, in ordinary arithmetic.
LEMMA FittingEnd ==
    ASSUME SizesFit, TypeOK, AddressInv, NEW size \in Sizes
    PROVE  (Rounded + size) % WordMod = Rounded + size
<1>1. size \in Nat /\ Rounded \in Nat /\ Rounded < max_address + Align
    BY ArenaAssumption, RoundedFacts
<1>2. PICK x \in Nat : x = Rounded + size
    BY <1>1
<1>3. x \in 0 .. WordMod - 1
    BY <1>1, <1>2, ArenaAssumption DEF SizesFit, max_address
<1>4. x % WordMod = x
    BY <1>3, ArenaAssumption, SmallRemainder
<1> QED
    BY <1>2, <1>4

LEMMA MemoryInit == Init => MemoryInv
<1> SUFFICES ASSUME Init PROVE MemoryInv
    OBVIOUS
<1>1. grants = <<>> /\ current_address = Start /\ Len(grants) = 0
    BY DEF Init
<1> QED
    BY <1>1, ArenaAssumption
       DEF MemoryInv, TypeOK, AddressInv, GrantInv, GrantsDisjoint, max_address, Block

LEMMA GrantStep ==
    ASSUME SizesFit, MemoryInv, NEW size \in Sizes, Grant(size)
    PROVE  MemoryInv'
<1> USE ArenaAssumption DEF max_address
<1>1. TypeOK /\ AddressInv /\ GrantInv /\ GrantsDisjoint
    BY DEF MemoryInv
<1>2. PICK r \in Nat : /\ r = Rounded
                       /\ r % Align = 0
                       /\ current_address <= r
    BY <1>1, RoundedFacts
<1>3. /\ current_address' = r + size
      /\ r + size < max_address
      /\ size \in Nat
    BY <1>1, <1>2, FittingEnd DEF Grant, Fits
<1>4. PICK g \in Block : g = [base |-> r, size |-> size]
    BY <1>2 DEF Block
<1>5. /\ grants' = Append(grants, g)
      /\ grants \in Seq(Block)
    BY <1>1, <1>2, <1>4 DEF Grant, TypeOK
<1>6. /\ grants' \in Seq(Block)
      /\ Len(grants') = Len(grants) + 1
      /\ \A i \in 1 .. Len(grants) : grants'[i] = grants[i]
      /\ grants'[Len(grants) + 1] = g
      /\ Len(grants) \in Nat
    BY <1>5
<1>7. TypeOK'
    BY <1>1, <1>3, <1>6 DEF TypeOK, AddressInv
<1>8. AddressInv'
    BY <1>1, <1>2, <1>3 DEF AddressInv, TypeOK
<1>9. GrantInv'
  <2> SUFFICES ASSUME NEW i \in 1 .. Len(grants')
               PROVE  /\ grants'[i].base % Align = 0
                      /\ Start <= grants'[i].base
                      /\ grants'[i].base + grants'[i].size < max_address
                      /\ grants'[i].base + grants'[i].size <= current_address'
      BY DEF GrantInv
  <2>1. CASE i \in 1 .. Len(grants)
    <3>1. grants[i].base \in Nat /\ grants[i].size \in Nat
        BY <1>1, <2>1, GrantType
    <3>2. grants'[i] = grants[i]
        BY <1>6, <2>1
    <3>3. /\ grants[i].base % Align = 0 /\ Start <= grants[i].base
          /\ grants[i].base + grants[i].size < max_address
          /\ grants[i].base + grants[i].size <= current_address
        BY <1>1, <2>1 DEF GrantInv
    <3>4. grants[i].base + grants[i].size <= current_address'
      <4>1. PICK e \in Nat : e = grants[i].base + grants[i].size
          BY <3>1
      <4>2. e <= current_address /\ current_address \in Nat
          BY <1>1, <3>3, <4>1 DEF TypeOK
      <4>3. current_address <= current_address'
          BY <1>2, <1>3, <4>2
      <4> QED
          BY <1>2, <1>3, <4>1, <4>2, <4>3
    <3> QED
        BY <3>2, <3>3, <3>4
  <2>2. CASE i = Len(grants) + 1
      BY <1>1, <1>2, <1>3, <1>4, <1>6, <2>2 DEF AddressInv, TypeOK
  <2> QED
      BY <1>6, <2>1, <2>2
<1>10. GrantsDisjoint'
  <2> SUFFICES ASSUME NEW i \in 1 .. Len(grants'), NEW j \in 1 .. Len(grants'), i < j
               PROVE  grants'[i].base + grants'[i].size <= grants'[j].base
      BY DEF GrantsDisjoint
  <2>1. i \in 1 .. Len(grants)
      BY <1>6
  <2>2. CASE j \in 1 .. Len(grants)
      BY <1>1, <1>6, <2>1, <2>2 DEF GrantsDisjoint
  <2>3. CASE j = Len(grants) + 1
    <3>1. grants[i].base \in Nat /\ grants[i].size \in Nat
        BY <1>1, <2>1, GrantType
    <3>2. grants[i].base + grants[i].size <= current_address
        BY <1>1, <2>1 DEF GrantInv
    <3> QED
        BY <1>1, <1>2, <1>4, <1>6, <2>1, <2>3, <3>1, <3>2 DEF TypeOK
  <2> QED
      BY <1>6, <2>2, <2>3
<1> QED
    BY <1>7, <1>8, <1>9, <1>10 DEF MemoryInv

LEMMA RefuseStep ==
    ASSUME MemoryInv, NEW size \in Sizes, Refuse(size)
    PROVE  MemoryInv'
<1> USE ArenaAssumption DEF max_address
<1>1. TypeOK /\ AddressInv /\ GrantInv /\ GrantsDisjoint
    BY DEF MemoryInv
<1>2. /\ current_address' \in Nat
      /\ current_address' % Align = 0
      /\ current_address <= current_address'
      /\ current_address' < max_address + Align
      /\ grants' = grants
    BY <1>1, RoundedFacts DEF Refuse
<1>3. TypeOK'
    BY <1>1, <1>2 DEF TypeOK
<1>4. AddressInv'
  <2>1. PICK c \in Nat : c = current_address'
      BY <1>2
  <2>2. current_address \in Nat
      BY <1>1 DEF TypeOK
  <2>3. Start <= current_address
      BY <1>1 DEF AddressInv
  <2>4. Start <= c
      BY <1>2, <2>1, <2>2, <2>3
  <2>5. c < max_address + Align /\ c % Align = 0
      BY <1>2, <2>1
  <2> QED
      BY <2>1, <2>4, <2>5 DEF AddressInv
<1>5. GrantInv'
  <2> SUFFICES ASSUME NEW i \in 1 .. Len(grants)
               PROVE  grants[i].base + grants[i].size <= current_address'
      BY <1>1, <1>2 DEF GrantInv
  <2>1. grants[i].base \in Nat /\ grants[i].size \in Nat
      BY <1>1, GrantType
  <2>2. grants[i].base + grants[i].size <= current_address
      BY <1>1 DEF GrantInv
  <2> QED
      BY <1>1, <1>2, <2>1, <2>2 DEF TypeOK
<1>6. GrantsDisjoint'
    BY <1>1, <1>2 DEF GrantsDisjoint
<1> QED
    BY <1>3, <1>4, <1>5, <1>6 DEF MemoryInv

LEMMA MemoryStep ==
    ASSUME SizesFit, MemoryInv, [Next]_pmmVars
    PROVE  MemoryInv'
<1>1. CASE UNCHANGED pmmVars
    BY <1>1 DEF pmmVars, MemoryInv, TypeOK, AddressInv, GrantInv, GrantsDisjoint
<1> QED
    BY <1>1, GrantStep, RefuseStep DEF Next

LEMMA MemoryInvariant == SizesFit => (Spec => []MemoryInv)
<1> SUFFICES ASSUME SizesFit PROVE Spec => []MemoryInv
    OBVIOUS
<1>1. Init => MemoryInv
    BY MemoryInit
<1>2. MemoryInv /\ [Next]_pmmVars => MemoryInv'
    BY MemoryStep
<1> QED
    BY <1>1, <1>2, PTL DEF Spec

\* No two blocks the allocator hands out overlap.
THEOREM BlocksNeverOverlap == SizesFit => (Spec => []GrantsDisjoint)
<1>1. MemoryInv => GrantsDisjoint
    BY DEF MemoryInv
<1> QED
    BY <1>1, MemoryInvariant, PTL

\* Every block is aligned and inside the arena.
THEOREM BlocksStayInArena == SizesFit => (Spec => []GrantsInArena)
<1>1. MemoryInv => GrantsInArena
    BY DEF MemoryInv, GrantInv, GrantsInArena
<1> QED
    BY <1>1, MemoryInvariant, PTL

\* A refusal never moves the address by a whole alignment unit.
THEOREM RefusalsAreCheap == SizesFit => (Spec => RefusalIsCheap)
<1> SUFFICES ASSUME SizesFit PROVE Spec => RefusalIsCheap
    OBVIOUS
<1>1. MemoryInv /\ [Next]_pmmVars =>
        [grants' = grants =>
            /\ current_address <= current_address'
            /\ current_address' < current_address + Align
            /\ current_address' % Align = 0]_pmmVars
  <2> SUFFICES ASSUME MemoryInv, Next, grants' = grants
               PROVE  /\ current_address <= current_address'
                      /\ current_address' < current_address + Align
                      /\ current_address' % Align = 0
      BY DEF pmmVars
  <2>1. ASSUME NEW size \in Sizes, Grant(size) PROVE FALSE
    <3>1. grants \in Seq(Block) /\ Rounded \in Nat
        BY RoundedFacts DEF MemoryInv, TypeOK
    <3>2. PICK g \in Block : grants' = Append(grants, g)
        BY <2>1, <3>1 DEF Grant, Block
    <3>3. Len(grants') = Len(grants) + 1 /\ Len(grants) \in Nat
        BY <3>1, <3>2
    <3> QED
        BY <3>3
  <2>2. PICK size \in Sizes : Refuse(size)
      BY <2>1 DEF Next
  <2> QED
      BY <2>2, RoundedFacts DEF MemoryInv, Refuse
<1> QED
    BY <1>1, MemoryInvariant, PTL DEF Spec, RefusalIsCheap

-----------------------------------------------------------------------------
(* The boot over the allocator *)

LEMMA AskAllocates ==
    ASSUME NEW name, NEW size \in Sizes, NEW next, Ask(name, size, next)
    PROVE  Next
<1>1. Grant(size) \/ Refuse(size)
    BY DEF Ask
<1> QED
    BY <1>1 DEF Next

\* Every step of the boot is a request to the allocator or leaves it alone.
LEMMA BootStep ==
    ASSUME machine \in Machines, [BootNext]_bootVars
    PROVE  [Next]_pmmVars
<1>1. CASE UNCHANGED bootVars
    BY <1>1 DEF bootVars
<1>2. CASE FindDisk \/ EnginesStop \/ PrintVerified \/ GeneralProtection \/ StayOff \/ Enable
              \/ EnterKey
    BY <1>2 DEF FindDisk, EnginesStop, PrintVerified, GeneralProtection, StayOff, Enable, EnterKey
<1>3. CASE SetupPort
    BY <1>3, BootAssumption, AskAllocates DEF SetupPort
<1>4. CASE SetUpFrame
  <2>1. CASE ~FrameBytes.found
      BY <1>4, <2>1 DEF SetUpFrame
  <2>2. CASE FrameBytes.found
    <3>1. FrameBytes.bytes \in Sizes
        BY FrameAssumption DEF FrameBytes
    <3> QED
        BY <1>4, <2>2, <3>1, AskAllocates DEF SetUpFrame
  <2> QED
      BY <2>1, <2>2
<1>5. CASE SetUpRegions
    BY <1>5, BootAssumption, AskAllocates DEF SetUpRegions
<1>6. CASE MakeManifold
    BY <1>6, BootAssumption, AskAllocates DEF MakeManifold
<1> QED
    BY <1>1, <1>2, <1>3, <1>4, <1>5, <1>6 DEF BootNext, Kernel

\* The boot implements the allocator's specification.
THEOREM BootAllocates == BootSpec => Spec
<1>1. BootInit => Init /\ machine \in Machines
    BY DEF BootInit
<1>2. machine \in Machines /\ [BootNext]_bootVars => (machine \in Machines)'
  <2> SUFFICES ASSUME machine \in Machines, [BootNext]_bootVars PROVE machine' = machine
      OBVIOUS
  <2> QED
      BY DEF bootVars, BootNext, Kernel, FindDisk, EnginesStop, SetupPort, PrintVerified,
             SetUpFrame, SetUpRegions, GeneralProtection, StayOff, Enable, MakeManifold,
             EnterKey, Ask, GoTo
<1>3. machine \in Machines /\ [BootNext]_bootVars => [Next]_pmmVars
    BY BootStep
<1> QED
    BY <1>1, <1>2, <1>3, PTL DEF BootSpec, Spec

\* The buffers of a boot never overlap, on any machine (allocate, as kmain and the
\* drivers call it).
THEOREM BootNeverOverlaps == SizesFit => (BootSpec => []GrantsDisjoint)
    BY BootAllocates, BlocksNeverOverlap

\* The buffers of a boot are aligned and lie inside the arena.
THEOREM BootStaysInArena == SizesFit => (BootSpec => []GrantsInArena)
    BY BootAllocates, BlocksStayInArena

\* A request the boot is refused costs less than one alignment unit.
THEOREM BootRefusalsAreCheap == SizesFit => (BootSpec => RefusalIsCheap)
    BY BootAllocates, RefusalsAreCheap

-----------------------------------------------------------------------------
(* A frame that leaves room *)

LEMMA UpIs ==
    ASSUME NEW n \in Nat
    PROVE  Up(n) \in Nat /\ n <= Up(n) /\ \E q \in Nat : Up(n) = Align * q
<1> PICK a \in Nat \ {0} : a = Align
    BY ArenaAssumption
<1>1. PICK x \in Nat : x = n + a - 1
    OBVIOUS
<1>2. PICK q \in Nat, r \in 0 .. a - 1 : q = x \div a /\ x = a * q + r
    BY DivMod
<1>3. Up(n) = q * a
    BY <1>1, <1>2 DEF Up
<1>4. PICK z \in Nat : z = a * q
    OBVIOUS
<1>5. q * a = z
    BY <1>4
<1>6. x = z + r /\ n <= z
    BY <1>1, <1>2, <1>4
<1> QED
    BY <1>3, <1>4, <1>5, <1>6

\* An address below a multiple of the unit is rounded up to at most that multiple.
LEMMA RoundedBelow ==
    ASSUME TypeOK, AddressInv, NEW q \in Nat, current_address <= Align * q
    PROVE  Rounded <= Align * q
<1> PICK a \in Nat \ {0}, c \in Nat, r \in Nat :
        a = Align /\ c = current_address /\ r = Rounded
  <2>1. Align \in Nat \ {0} /\ current_address \in Nat /\ Rounded \in Nat
      BY ArenaAssumption, RoundedFacts DEF TypeOK
  <2> QED
      BY <2>1
<1>1. r % a = 0 /\ r < c + a
    BY RoundedFacts
<1>2. PICK z \in Nat : r = a * z
  <2>1. PICK z \in Nat : r = a * z + (r % a)
      BY Remainder
  <2>2. PICK y \in Nat : y = a * z
      OBVIOUS
  <2>3. r = y
      BY <1>1, <2>1, <2>2
  <2> QED
      BY <2>2, <2>3
<1>3. c <= a * q
    OBVIOUS
<1>4. CASE z >= q + 1
  <2>1. a * z >= a * (q + 1)
      BY <1>4
  <2>2. a * (q + 1) = a * q + a
      OBVIOUS
  <2>3. PICK u \in Nat, v \in Nat : u = a * z /\ v = a * q
      OBVIOUS
  <2>4. u >= v + a /\ u < c + a /\ c <= v
      BY <1>1, <1>2, <1>3, <2>1, <2>2, <2>3
  <2> QED
      BY <2>4
<1>5. CASE z <= q
  <2>1. a * z <= a * q
      BY <1>5
  <2> QED
      BY <1>2, <2>1
<1> QED
    BY <1>4, <1>5

LEMMA AskIsGranted ==
    ASSUME TypeOK, AddressInv, NEW name, NEW size \in Sizes, NEW next,
           NEW limit \in Nat, NEW q \in Nat, limit = Align * q,
           current_address <= limit, limit + size < max_address,
           Ask(name, size, next)
    PROVE  /\ Rounded \in Nat /\ current_address <= Rounded
           /\ current_address' = Rounded + size /\ current_address' <= limit + size
           /\ Fits(size)
           /\ grants' = Append(grants, [base |-> Rounded, size |-> size])
           /\ buffers' = Pointing(name, Rounded)
           /\ pc' = next /\ machine' = machine /\ UNCHANGED vmxVars
<1> PICK r \in Nat : r = Rounded
    BY RoundedFacts
<1>1. size \in Nat /\ max_address \in Nat /\ max_address < WordMod /\ WordMod \in Nat \ {0}
    BY ArenaAssumption DEF max_address
<1>2. r <= limit /\ current_address <= r
    BY RoundedBelow, RoundedFacts
<1>3. PICK x \in Nat : x = r + size
    BY <1>1
<1>4. x <= limit + size /\ x < max_address /\ x \in 0 .. WordMod - 1
    BY <1>1, <1>2, <1>3
<1>5. (r + size) % WordMod = r + size
    BY <1>1, <1>3, <1>4, SmallRemainder
<1>6. Fits(size)
    BY <1>3, <1>4, <1>5 DEF Fits
<1>7. Grant(size) /\ buffers' = Pointing(name, Rounded)
    BY <1>6 DEF Ask, Refuse
<1> QED
    BY <1>2, <1>3, <1>4, <1>5, <1>6, <1>7 DEF Ask, Grant, GoTo

-----------------------------------------------------------------------------
\* Buffers are blocks, each for one name, except where a frame has no bytes.
Granted ==
    /\ \A n \in DOMAIN buffers :
          /\ buffers[n] \in Nat /\ buffers[n] <= current_address
          /\ \E i \in 1 .. Len(grants) : buffers[n] = grants[i].base
    /\ \A a, b \in DOMAIN buffers :
          a # b /\ buffers[a] = buffers[b] =>
              FrameBytes.bytes = 0 /\ "back_buffer" \in {a, b}

\* Every buffer with a size starts below the address.
Below ==
    \A n \in DOMAIN buffers :
        n # "back_buffer" \/ FrameBytes.bytes # 0 => buffers[n] < current_address

LEMMA AskKeepsBuffers ==
    ASSUME TypeOK, Granted, Below, NEW name, NEW size \in Nat, NEW r \in Nat,
           current_address <= r, current_address' = r + size,
           grants' = Append(grants, [base |-> r, size |-> size]),
           buffers' = Pointing(name, r), machine' = machine
    PROVE  /\ Granted'
           /\ size > 0 \/ (name = "back_buffer" /\ size = FrameBytes.bytes) => Below'
           /\ DOMAIN buffers' = DOMAIN buffers \cup {name}
           /\ \A n \in DOMAIN buffers : n # name => buffers'[n] = buffers[n]
<1>1. /\ DOMAIN buffers' = DOMAIN buffers \cup {name}
      /\ buffers'[name] = r
      /\ \A n \in DOMAIN buffers : n # name => buffers'[n] = buffers[n]
    BY DEF Pointing
<1>2. current_address \in Nat /\ FrameBytes' = FrameBytes
    BY DEF TypeOK, FrameBytes
<1>3. /\ Len(grants) \in Nat /\ Len(grants') = Len(grants) + 1
      /\ grants'[Len(grants) + 1] = [base |-> r, size |-> size]
      /\ \A i \in 1 .. Len(grants) : grants'[i] = grants[i]
    BY DEF TypeOK
<1>4. ASSUME NEW n \in DOMAIN buffers'
      PROVE  /\ buffers'[n] \in Nat /\ buffers'[n] <= r
             /\ \E i \in 1 .. Len(grants') : buffers'[n] = grants'[i].base
             /\ n # name /\ (n # "back_buffer" \/ FrameBytes.bytes # 0) => buffers'[n] < r
  <2>1. CASE n = name
    <3>1. Len(grants) + 1 \in 1 .. Len(grants')
        BY <1>3
    <3>2. buffers'[n] = grants'[Len(grants) + 1].base
        BY <1>1, <1>3, <2>1
    <3> QED
        BY <1>1, <2>1, <3>1, <3>2
  <2>2. CASE n # name
    <3>1. n \in DOMAIN buffers /\ buffers'[n] = buffers[n]
        BY <1>1, <1>4, <2>2
    <3>2. PICK i \in 1 .. Len(grants) : buffers[n] = grants[i].base
        BY <3>1 DEF Granted
    <3>3. i \in 1 .. Len(grants') /\ grants'[i] = grants[i]
        BY <1>3
    <3>4. /\ buffers[n] \in Nat /\ buffers[n] <= current_address
          /\ n # "back_buffer" \/ FrameBytes.bytes # 0 => buffers[n] < current_address
        BY <3>1 DEF Granted, Below
    <3> QED
        BY <1>2, <3>1, <3>2, <3>3, <3>4
  <2> QED
      BY <2>1, <2>2
<1>5. Granted'
  <2>1. ASSUME NEW a \in DOMAIN buffers', NEW b \in DOMAIN buffers',
               a # b, buffers'[a] = buffers'[b]
        PROVE  FrameBytes.bytes = 0 /\ "back_buffer" \in {a, b}
    <3>1. CASE a # name /\ b # name
        BY <1>1, <2>1, <3>1 DEF Granted
    <3>2. CASE a = name \/ b = name
        BY <1>1, <1>4, <2>1, <3>2
    <3> QED
        BY <3>1, <3>2
  <2>2. r <= r + size /\ current_address' \in Nat
      OBVIOUS
  <2>3. \A n \in DOMAIN buffers' : buffers'[n] \in Nat /\ buffers'[n] <= current_address'
      BY <1>4, <2>2
  <2> QED
      BY <1>2, <1>4, <2>1, <2>3 DEF Granted
<1>6. size > 0 \/ (name = "back_buffer" /\ size = FrameBytes.bytes) => Below'
  <2> SUFFICES ASSUME size > 0 \/ (name = "back_buffer" /\ size = FrameBytes.bytes),
                      NEW n \in DOMAIN buffers', n # "back_buffer" \/ FrameBytes.bytes # 0
               PROVE  buffers'[n] < current_address'
      BY <1>2 DEF Below
  <2>1. CASE n = name
      BY <1>1, <2>1
  <2>2. CASE n # name
      BY <1>4, <2>2
  <2> QED
      BY <2>1, <2>2
<1> QED
    BY <1>1, <1>5, <1>6

-----------------------------------------------------------------------------
\* How far the address may be when kmain stands at a request.
UpFrame == Up(FrameBytes.bytes)

Limit(at) ==
    CASE at \in {"pci", "port"}           -> Up(Start)
      [] at = "fis"                       -> Up(Start) + Align
      [] at = "table"                     -> Up(Start) + 2 * Align
      [] at \in {"verified", "frame"}     -> Up(Start) + 3 * Align
      [] at = "vmxon"                     -> Up(Start) + 3 * Align + UpFrame
      [] at = "vmcs"                      -> Up(Start) + 4 * Align + UpFrame
      [] at \in {"enable", "key", "pool"} -> Up(Start) + 5 * Align + UpFrame

Early == {"pci", "port", "fis", "table", "verified", "frame"}
Ahead == Early \cup {"vmxon", "vmcs", "enable", "key", "pool"}

RoomInv ==
    FrameLeavesRoom =>
        /\ pc \in Ahead \cup {"halted", "menu"}
        /\ Granted
        /\ pc \in Ahead => Below /\ current_address <= Limit(pc)
        /\ pc \in {"vmcs", "enable"} => "vmxon_region" \in DOMAIN buffers
        /\ pc = "enable" => "vmcs_region" \in DOMAIN buffers

VmxInv == pc \in Early \cup {"vmxon", "vmcs", "enable"} => ~ vmx_ready

BootInv == machine \in Machines /\ MemoryInv /\ RoomInv /\ VmxInv /\ ReadyMeansOn

\* The room at a request whose size is at most n units, or the frame's.
LEMMA Rooms ==
    ASSUME machine \in Machines
    PROVE  /\ Up(Start) \in Nat /\ UpFrame \in Nat /\ FrameBytes.bytes \in Nat
           /\ Start <= Up(Start) /\ FrameBytes.bytes <= UpFrame
           /\ \A at \in Ahead : \E q \in Nat : Limit(at) = Align * q
<1> PICK a \in Nat \ {0} : a = Align
    BY ArenaAssumption
<1>1. FrameBytes.bytes \in Nat
    BY FrameAssumption, ArenaAssumption DEF FrameBytes
<1>2. PICK u \in Nat, p \in Nat : u = Up(Start) /\ Start <= u /\ u = a * p
    BY ArenaAssumption, UpIs
<1>3. PICK f \in Nat, q \in Nat : f = UpFrame /\ FrameBytes.bytes <= f /\ f = a * q
    BY <1>1, UpIs DEF UpFrame
<1>4. \A k \in 0 .. 5 : u + k * a = a * (p + k) /\ u + k * a + f = a * (p + k + q)
    BY <1>2, <1>3
<1>5. ASSUME NEW at \in Ahead PROVE \E n \in Nat : Limit(at) = a * n
  <2>1. \A k \in 0 .. 5 : p + k \in Nat /\ p + k + q \in Nat
      OBVIOUS
  <2>2. \/ Limit(at) = u + 0 * a \/ Limit(at) = u + 1 * a \/ Limit(at) = u + 2 * a
        \/ Limit(at) = u + 3 * a \/ Limit(at) = u + 3 * a + f
        \/ Limit(at) = u + 4 * a + f \/ Limit(at) = u + 5 * a + f
    <3>1. u + 0 * a = u /\ 1 * a = a
        OBVIOUS
    <3> QED
        BY <1>2, <1>3, <3>1 DEF Limit, Ahead, Early
  <2>3. PICK k \in 0 .. 5 : Limit(at) = u + k * a \/ Limit(at) = u + k * a + f
      BY <2>2
  <2> QED
      BY <1>4, <2>1, <2>3
<1> QED
    BY <1>1, <1>2, <1>3, <1>5

\* A request that is asked where the frame leaves room.
LEMMA AskInRoom ==
    ASSUME BootInv, FrameLeavesRoom, NEW name, NEW size \in Sizes, NEW next,
           pc \in Ahead, Limit(pc) + size < max_address, Ask(name, size, next)
    PROVE  /\ Granted' /\ current_address' \in Nat /\ Fits(size)
           /\ current_address' <= Limit(pc) + size
           /\ size > 0 \/ (name = "back_buffer" /\ size = FrameBytes.bytes) => Below'
           /\ DOMAIN buffers' = DOMAIN buffers \cup {name}
           /\ pc' = next /\ machine' = machine /\ UNCHANGED vmxVars
<1>1. TypeOK /\ AddressInv /\ Granted /\ Below /\ current_address <= Limit(pc)
    BY DEF BootInv, MemoryInv, RoomInv
<1>2. PICK q \in Nat, limit \in Nat : limit = Limit(pc) /\ limit = Align * q
  <2>1. PICK q \in Nat : Limit(pc) = Align * q
      BY Rooms DEF BootInv
  <2>2. Align * q \in Nat
      BY ArenaAssumption
  <2> QED
      BY <2>1, <2>2
<1>3. /\ Rounded \in Nat /\ current_address <= Rounded
      /\ current_address' = Rounded + size /\ current_address' <= limit + size
      /\ Fits(size)
      /\ grants' = Append(grants, [base |-> Rounded, size |-> size])
      /\ buffers' = Pointing(name, Rounded)
      /\ pc' = next /\ machine' = machine /\ UNCHANGED vmxVars
    BY <1>1, <1>2, AskIsGranted
<1>4. PICK r \in Nat : r = Rounded
    BY <1>3
<1>5. size \in Nat /\ current_address' \in Nat
  <2>1. size \in Nat
      BY ArenaAssumption
  <2>2. r + size \in Nat
      BY <2>1
  <2> QED
      BY <1>3, <1>4, <2>1, <2>2
<1>6. /\ Granted'
      /\ size > 0 \/ (name = "back_buffer" /\ size = FrameBytes.bytes) => Below'
      /\ DOMAIN buffers' = DOMAIN buffers \cup {name}
    BY <1>1, <1>3, <1>4, <1>5, AskKeepsBuffers
<1> QED
    BY <1>2, <1>3, <1>5, <1>6

LEMMA LimitsAscend ==
    ASSUME machine \in Machines, FrameLeavesRoom
    PROVE  /\ \A at \in Ahead : Limit(at) \in Nat /\ Limit(at) + PoolBytes < max_address
           /\ Limit("port") = Limit("pci")
           /\ Limit("fis") = Limit("port") + Align
           /\ Limit("table") = Limit("fis") + Align
           /\ Limit("verified") = Limit("table") + Align
           /\ Limit("frame") = Limit("verified")
           /\ Limit("pci") <= Limit("frame")
           /\ Limit("vmxon") = Limit("frame") + UpFrame
           /\ Limit("vmcs") = Limit("vmxon") + Align
           /\ Limit("enable") = Limit("vmcs") + Align
           /\ Limit("key") = Limit("enable") /\ Limit("pool") = Limit("key")
<1> PICK a \in Nat \ {0}, u \in Nat, f \in Nat, p \in Nat, m \in Nat :
        a = Align /\ u = Up(Start) /\ f = UpFrame /\ p = PoolBytes /\ m = max_address
  <2>1. Align \in Nat \ {0} /\ PoolBytes \in Nat /\ max_address \in Nat
      BY ArenaAssumption, BootAssumption DEF max_address
  <2>2. Up(Start) \in Nat /\ UpFrame \in Nat
      BY Rooms
  <2> QED
      BY <2>1, <2>2
<1>1. u + 5 * a + f + p < m
    BY DEF FrameLeavesRoom, UpFrame
<1>2. /\ Limit("pci") = u /\ Limit("port") = u
      /\ Limit("fis") = u + a /\ Limit("table") = u + 2 * a
      /\ Limit("verified") = u + 3 * a /\ Limit("frame") = u + 3 * a
      /\ Limit("vmxon") = u + 3 * a + f /\ Limit("vmcs") = u + 4 * a + f
      /\ Limit("enable") = u + 5 * a + f
      /\ Limit("key") = u + 5 * a + f /\ Limit("pool") = u + 5 * a + f
    BY DEF Limit
<1>3. ASSUME NEW at \in Ahead PROVE Limit(at) \in Nat /\ Limit(at) + p < m
  <2>1. \/ Limit(at) = u \/ Limit(at) = u + a \/ Limit(at) = u + 2 * a
        \/ Limit(at) = u + 3 * a \/ Limit(at) = u + 3 * a + f
        \/ Limit(at) = u + 4 * a + f \/ Limit(at) = u + 5 * a + f
      BY <1>2 DEF Ahead, Early
  <2> QED
      BY <1>1, <2>1
<1> QED
    BY <1>2, <1>3

\* The frame and what room it leaves depend on the machine alone.
LEMMA MachineDecides ==
    ASSUME machine' = machine
    PROVE  /\ FrameLeavesRoom' = FrameLeavesRoom /\ FrameBytes' = FrameBytes
           /\ UpFrame' = UpFrame /\ \A at : Limit(at)' = Limit(at)
    BY DEF FrameLeavesRoom, FrameBytes, UpFrame, Limit, max_address

\* A small request takes a unit at most.
LEMMA SmallAsk ==
    ASSUME BootInv, NEW name, NEW next \in Ahead, pc \in Ahead,
           FrameLeavesRoom => Limit(next) = Limit(pc) + Align,
           Ask(name, SmallSize, next),
           next \in {"vmcs", "enable"} =>
               "vmxon_region" \in DOMAIN buffers \cup {name},
           next = "enable" => name = "vmcs_region"
    PROVE  RoomInv' /\ pc' = next /\ machine' = machine /\ UNCHANGED vmxVars
<1>1. pc' = next /\ machine' = machine /\ UNCHANGED vmxVars
    BY DEF Ask, GoTo
<1>2. CASE ~ FrameLeavesRoom
    BY <1>1, <1>2, MachineDecides DEF RoomInv
<1>3. CASE FrameLeavesRoom
  <2> PICK s \in Sizes : s = SmallSize
      BY BootAssumption
  <2>1. s \in Nat /\ s > 0 /\ s <= Align /\ PoolBytes \in Nat /\ Align \in Nat
        /\ max_address \in Nat
      BY ArenaAssumption, BootAssumption DEF max_address
  <2>2. /\ Limit(pc) \in Nat /\ Limit(next) \in Nat
        /\ Limit(next) = Limit(pc) + Align /\ Limit(next) + PoolBytes < max_address
      BY <1>3, LimitsAscend DEF BootInv
  <2>3. Limit(pc) + s < max_address /\ Limit(pc) + s <= Limit(next)
      BY <2>1, <2>2
  <2>4. /\ Granted' /\ Below' /\ current_address' \in Nat
        /\ current_address' <= Limit(pc) + s
        /\ DOMAIN buffers' = DOMAIN buffers \cup {name}
      BY <1>3, <2>1, <2>3, AskInRoom
  <2>5. current_address' <= Limit(next)
      BY <2>1, <2>2, <2>3, <2>4
  <2> QED
      BY <1>1, <2>4, <2>5, MachineDecides DEF RoomInv
<1> QED
    BY <1>2, <1>3

\* kmain goes on without a request.
LEMMA RoomWithoutAsk ==
    ASSUME BootInv, NEW next \in Ahead \cup {"halted"},
           UNCHANGED <<pmmVars, machine, buffers>>, pc' = next, pc \in Ahead,
           FrameLeavesRoom /\ next # "halted" => Limit(pc) <= Limit(next),
           next \in {"vmcs", "enable"} => pc = next
    PROVE  RoomInv'
<1>1. CASE ~ FrameLeavesRoom
    BY <1>1, MachineDecides DEF RoomInv
<1>2. CASE FrameLeavesRoom
  <2>1. /\ Granted /\ Below /\ current_address <= Limit(pc) /\ current_address \in Nat
        /\ pc \in {"vmcs", "enable"} => "vmxon_region" \in DOMAIN buffers
        /\ pc = "enable" => "vmcs_region" \in DOMAIN buffers
      BY <1>2 DEF BootInv, RoomInv, MemoryInv, TypeOK
  <2>2. Granted' /\ Below'
      BY <2>1, MachineDecides DEF Granted, Below, pmmVars
  <2>3. next # "halted" => current_address' <= Limit(next)
    <3> SUFFICES ASSUME next # "halted" PROVE current_address <= Limit(next)
        BY DEF pmmVars
    <3>1. Limit(pc) \in Nat /\ Limit(next) \in Nat /\ Limit(pc) <= Limit(next)
        BY <1>2, LimitsAscend DEF BootInv
    <3> QED
        BY <2>1, <3>1
  <2>4. "halted" \notin Ahead
      BY DEF Ahead, Early
  <2> QED
      BY <2>1, <2>2, <2>3, <2>4, MachineDecides DEF RoomInv
<1> QED
    BY <1>1, <1>2

LEMMA RoomStep ==
    ASSUME BootInv, [BootNext]_bootVars
    PROVE  RoomInv' /\ machine' = machine
<1> USE DEF Ahead, Early
<1>0. Align \in Nat
    BY ArenaAssumption
<1>1. FrameLeavesRoom => \A at \in Ahead : Limit(at) \in Nat
    BY LimitsAscend DEF BootInv
<1>2. CASE UNCHANGED bootVars
  <2>1. UNCHANGED <<pmmVars, machine, buffers, pc>>
      BY <1>2 DEF bootVars
  <2> QED
      BY <2>1, MachineDecides DEF BootInv, RoomInv, Granted, Below, pmmVars
<1>3. CASE FindDisk
  <2>1. /\ pc = "pci" /\ pc' \in {"port", "frame"}
        /\ UNCHANGED <<pmmVars, machine, buffers>>
      BY <1>3 DEF FindDisk, GoTo
  <2>2. FrameLeavesRoom => Limit("pci") <= Limit("port") /\ Limit("pci") <= Limit("frame")
      BY <1>1, LimitsAscend DEF BootInv
  <2> QED
      BY <2>1, <2>2, RoomWithoutAsk
<1>4. CASE EnginesStop
    BY <1>1, <1>4, RoomWithoutAsk DEF EnginesStop
<1>5. CASE SetupPort
  <2>1. CASE pc = "port" /\ Ask("cmd_list", SmallSize, "fis")
      BY <2>1, LimitsAscend, SmallAsk DEF BootInv
  <2>2. CASE pc = "fis" /\ Ask("fis_base", SmallSize, "table")
      BY <2>2, LimitsAscend, SmallAsk DEF BootInv
  <2>3. CASE pc = "table" /\ Ask("cmd_table", SmallSize, "verified")
      BY <2>3, LimitsAscend, SmallAsk DEF BootInv
  <2> QED
      BY <1>5, <2>1, <2>2, <2>3 DEF SetupPort
<1>6. CASE PrintVerified
  <2>1. /\ pc = "verified" /\ pc' = "frame" /\ UNCHANGED <<pmmVars, machine, buffers>>
      BY <1>6 DEF PrintVerified, GoTo
  <2>2. FrameLeavesRoom => Limit("verified") <= Limit("frame")
      BY <1>1, LimitsAscend DEF BootInv
  <2> QED
      BY <2>1, <2>2, RoomWithoutAsk
<1>7. CASE SetUpFrame
  <2>1. UpFrame \in Nat /\ FrameBytes.bytes \in Nat /\ FrameBytes.bytes <= UpFrame
      BY Rooms DEF BootInv
  <2>2. FrameLeavesRoom => Limit("vmxon") = Limit("frame") + UpFrame
      BY LimitsAscend DEF BootInv
  <2>3. CASE ~FrameBytes.found
    <3>1. /\ pc = "frame" /\ pc' = "vmxon" /\ UNCHANGED <<pmmVars, machine, buffers>>
        BY <1>7, <2>3 DEF SetUpFrame, GoTo
    <3>2. FrameLeavesRoom => Limit("frame") <= Limit("vmxon")
        BY <1>1, <2>1, <2>2
    <3> QED
        BY <3>1, <3>2, RoomWithoutAsk
  <2>4. CASE FrameBytes.found
    <3>1. PICK next : /\ next = IF Fits(FrameBytes.bytes) THEN "vmxon" ELSE "wild"
                      /\ pc = "frame" /\ Ask("back_buffer", FrameBytes.bytes, next)
        BY <1>7, <2>4 DEF SetUpFrame
    <3>2. pc' = next /\ machine' = machine
        BY <3>1 DEF Ask, GoTo
    <3>3. CASE ~ FrameLeavesRoom
        BY <3>2, <3>3, MachineDecides DEF RoomInv
    <3>4. CASE FrameLeavesRoom
      <4>1. PICK s \in Sizes : s = FrameBytes.bytes
          BY FrameAssumption DEF BootInv, FrameBytes
      <4>2. PoolBytes \in Nat /\ max_address \in Nat
          BY ArenaAssumption, BootAssumption DEF max_address
      <4>3. /\ Limit("frame") \in Nat /\ Limit("vmxon") = Limit("frame") + UpFrame
            /\ Limit("vmxon") + PoolBytes < max_address
          BY <2>2, <3>4, LimitsAscend DEF BootInv
      <4>4. Limit(pc) + s < max_address /\ Limit(pc) + s <= Limit("vmxon")
          BY <2>1, <3>1, <4>1, <4>2, <4>3
      <4>5. /\ Granted' /\ current_address' \in Nat /\ Fits(s)
            /\ current_address' <= Limit(pc) + s /\ Below'
          BY <3>1, <3>4, <4>1, <4>4, AskInRoom
      <4>6. current_address' <= Limit("vmxon")
          BY <2>1, <3>1, <4>1, <4>3, <4>4, <4>5
      <4>7. next = "vmxon"
          BY <3>1, <4>1, <4>5
      <4> QED
          BY <3>2, <4>5, <4>6, <4>7, MachineDecides DEF RoomInv
    <3> QED
        BY <3>2, <3>3, <3>4
  <2> QED
      BY <2>3, <2>4
<1>8. CASE SetUpRegions
  <2>1. CASE pc = "vmxon" /\ Ask("vmxon_region", SmallSize, "vmcs")
      BY <2>1, LimitsAscend, SmallAsk DEF BootInv
  <2>2. CASE pc = "vmcs" /\ Ask("vmcs_region", SmallSize, "enable")
    <3>1. CASE FrameLeavesRoom
      <4>1. "vmxon_region" \in DOMAIN buffers
          BY <2>2, <3>1 DEF BootInv, RoomInv
      <4> QED
          BY <2>2, <4>1, LimitsAscend, SmallAsk DEF BootInv
    <3>2. CASE ~ FrameLeavesRoom
        BY <2>2, <3>2, MachineDecides DEF Ask, GoTo, RoomInv
    <3> QED
        BY <3>1, <3>2
  <2> QED
      BY <1>8, <2>1, <2>2 DEF SetUpRegions
<1>9. CASE GeneralProtection \/ StayOff \/ Enable
  <2>1. /\ pc = "enable" /\ pc' \in {"halted", "key"}
        /\ UNCHANGED <<pmmVars, machine, buffers>>
      BY <1>9 DEF GeneralProtection, StayOff, Enable, GoTo
  <2>2. FrameLeavesRoom => Limit("enable") <= Limit("key")
      BY <1>1, LimitsAscend DEF BootInv
  <2> QED
      BY <2>1, <2>2, RoomWithoutAsk
<1>10. CASE EnterKey
  <2>1. /\ pc = "key" /\ pc' = "pool" /\ UNCHANGED <<pmmVars, machine, buffers>>
      BY <1>10 DEF EnterKey, GoTo
  <2>2. FrameLeavesRoom => Limit("key") <= Limit("pool")
      BY <1>1, LimitsAscend DEF BootInv
  <2> QED
      BY <2>1, <2>2, RoomWithoutAsk
<1>11. CASE MakeManifold
  <2>1. /\ pc = "pool" /\ Ask("cache_pool", PoolBytes, "menu") /\ pc' = "menu"
        /\ machine' = machine
      BY <1>11 DEF MakeManifold, Ask, GoTo
  <2>2. CASE FrameLeavesRoom
    <3>1. PICK s \in Sizes : s = PoolBytes
        BY BootAssumption
    <3>2. Limit(pc) + s < max_address
        BY <2>1, <2>2, <3>1, LimitsAscend DEF BootInv
    <3>3. Granted'
        BY <2>1, <2>2, <3>1, <3>2, AskInRoom
    <3> QED
        BY <2>1, <3>3 DEF RoomInv
  <2>3. CASE ~ FrameLeavesRoom
      BY <2>1, <2>3, MachineDecides DEF RoomInv
  <2> QED
      BY <2>1, <2>2, <2>3
<1>12. machine' = machine
    BY DEF bootVars, BootNext, Kernel, FindDisk, EnginesStop, SetupPort, PrintVerified,
           SetUpFrame, SetUpRegions, GeneralProtection, StayOff, Enable, MakeManifold,
           EnterKey, Ask, GoTo
<1> QED
    BY <1>2, <1>3, <1>4, <1>5, <1>6, <1>7, <1>8, <1>9, <1>10, <1>11, <1>12 DEF BootNext, Kernel

-----------------------------------------------------------------------------
LEMMA VmxStep ==
    ASSUME BootInv, machine' = machine, [BootNext]_bootVars
    PROVE  VmxInv' /\ ReadyMeansOn'
<1> USE DEF Early
<1>1. VmxInv /\ ReadyMeansOn /\ FrameLeavesRoom' = FrameLeavesRoom
    BY MachineDecides DEF BootInv
<1>2. CASE Enable
  <2>1. /\ pc = "enable" /\ pc' = "key" /\ ~ vmx_ready /\ Enabled
        /\ \/ UNCHANGED vmxVars
           \/ vmx_on' = buffers["vmxon_region"] /\ UNCHANGED <<vmcs, vmx_ready>>
           \/ /\ vmx_on' = buffers["vmxon_region"] /\ vmcs' = buffers["vmcs_region"]
              /\ vmx_ready' = TRUE
      BY <1>1, <1>2 DEF Enable, GoTo, VmxInv
  <2>2. FrameLeavesRoom =>
            /\ buffers["vmxon_region"] \in Nat /\ buffers["vmcs_region"] \in Nat
            /\ buffers["vmxon_region"] # buffers["vmcs_region"]
      BY <2>1 DEF BootInv, RoomInv, Granted
  <2>3. FrameLeavesRoom =>
            /\ buffers["vmxon_region"] # Null /\ buffers["vmcs_region"] # Null
      BY <2>2, BootAssumption
  <2>4. VmxInv'
      BY <2>1 DEF VmxInv
  <2>5. ReadyMeansOn'
      BY <1>1, <2>1, <2>2, <2>3 DEF ReadyMeansOn, Enabled, vmxVars
  <2> QED
      BY <2>4, <2>5
<1>3. CASE UNCHANGED vmxVars /\ pc' = "halted"
    BY <1>1, <1>3 DEF VmxInv, ReadyMeansOn, vmxVars
<1>4. CASE /\ UNCHANGED vmxVars
           /\ pc' \in Early \cup {"vmxon", "vmcs", "enable"} =>
                 pc \in Early \cup {"vmxon", "vmcs", "enable"}
    BY <1>1, <1>4 DEF VmxInv, ReadyMeansOn, vmxVars
<1>5. CASE UNCHANGED bootVars
    BY <1>4, <1>5 DEF bootVars, vmxVars
<1>6. CASE FindDisk \/ EnginesStop \/ PrintVerified \/ GeneralProtection \/ StayOff \/ EnterKey
    BY <1>3, <1>4, <1>6
       DEF FindDisk, EnginesStop, PrintVerified, GeneralProtection, StayOff, EnterKey, GoTo
<1>7. CASE SetupPort \/ SetUpFrame \/ SetUpRegions \/ MakeManifold
    BY <1>4, <1>7 DEF SetupPort, SetUpFrame, SetUpRegions, MakeManifold, Ask, GoTo
<1> QED
    BY <1>2, <1>5, <1>6, <1>7 DEF BootNext, Kernel

LEMMA BootInvInit == BootInit => BootInv
<1> SUFFICES ASSUME BootInit PROVE BootInv
    OBVIOUS
<1>1. machine \in Machines /\ MemoryInv /\ pc = "pci" /\ ~ vmx_ready
    BY MemoryInit DEF BootInit
<1>2. DOMAIN buffers = {} /\ current_address = Start
    BY DEF BootInit, Init
<1>3. Start <= Up(Start) /\ Limit("pci") = Up(Start)
    BY <1>1, Rooms DEF Limit
<1>4. RoomInv
    BY <1>1, <1>2, <1>3 DEF RoomInv, Ahead, Early, Granted, Below
<1> QED
    BY <1>1, <1>4 DEF BootInv, VmxInv, ReadyMeansOn

LEMMA BootInvStep ==
    ASSUME SizesFit, BootInv, [BootNext]_bootVars
    PROVE  BootInv'
<1>1. RoomInv' /\ machine' = machine
    BY RoomStep
<1>2. MemoryInv'
    BY BootStep, MemoryStep DEF BootInv
<1>3. VmxInv' /\ ReadyMeansOn'
    BY <1>1, VmxStep
<1> QED
    BY <1>1, <1>2, <1>3 DEF BootInv

LEMMA BootInvariant == SizesFit => (BootSpec => []BootInv)
<1> SUFFICES ASSUME SizesFit PROVE BootSpec => []BootInv
    OBVIOUS
<1>1. BootInit => BootInv
    BY BootInvInit
<1>2. BootInv /\ [BootNext]_bootVars => BootInv'
    BY BootInvStep
<1> QED
    BY <1>1, <1>2, PTL DEF BootSpec

\* The address and the blocks handed out keep their types through every boot.
THEOREM BootTypes == SizesFit => (BootSpec => []TypeOK)
<1>1. BootInv => TypeOK
    BY DEF BootInv, MemoryInv
<1> QED
    BY <1>1, BootInvariant, PTL

\* On a machine whose frame leaves room, every pointer of the boot is a block of its
\* own, whatever else the machine has (allocate, whose callers never look at what it
\* returns).
THEOREM BootBuffersAreGranted == SizesFit => (BootSpec => []BuffersAreGranted)
<1>1. BootInv => BuffersAreGranted
  <2>1. "wild" \notin Ahead \cup {"halted", "menu"}
      BY DEF Ahead, Early
  <2> QED
      BY <2>1 DEF BootInv, RoomInv, Granted, BuffersAreGranted
<1> QED
    BY <1>1, BootInvariant, PTL

\* "[ENABLED]" is only ever shown with VMX on, in a region and with a VMCS that are
\* different blocks (VMXController::enable).
THEOREM ReadyIsTrue == SizesFit => (BootSpec => []ReadyMeansOn)
<1>1. BootInv => ReadyMeansOn
    BY DEF BootInv
<1> QED
    BY <1>1, BootInvariant, PTL
=============================================================================
