---------------------- MODULE SubstrateManifoldProofs ----------------------
(***************************************************************************)
(* Theorems about SubstrateManifold, for every pool size, block size and   *)
(* set of blocks and values: the state stays well-formed, a block is held  *)
(* in one slot unless write_slot revived another, and the operations that  *)
(* address blocks implement BlockWindow.                                   *)
(***************************************************************************)
EXTENDS SubstrateManifold, SlotArithmetic

-----------------------------------------------------------------------------
(* Lemmas about the operators *)

\* The counter, modulo the pool size, is a slot, and the next counter is one.
LEMMA CounterFacts ==
    ASSUME vblock_counter \in 0 .. CounterMod - 1
    PROVE  /\ Victim \in Slots
           /\ NextCounter \in 0 .. CounterMod - 1
<1>1. CounterMod \in Nat \ {0}
    BY PoolAssumption, CounterAssumption
<1>2. Victim \in Slots
    BY PoolAssumption, CounterAssumption, DivMod DEF Victim, Slots
<1>3. NextCounter \in 0 .. CounterMod - 1
  <2>1. vblock_counter + 1 \in Nat
      OBVIOUS
  <2> QED
      BY <1>1, <2>1, DivMod DEF NextCounter
<1> QED
    BY <1>2, <1>3

\* The scan stops at a slot that holds the block.
LEMMA FirstHolderHolds ==
    ASSUME NEW vb, Held(vb)
    PROVE  FirstHolder(vb) \in Slots /\ Holder(FirstHolder(vb), vb)
<1> DEFINE H == {s \in Slots : Holder(s, vb)}
<1>1. H \subseteq Nat /\ H # {}
    BY DEF Held, Slots
<1>2. \E x \in H : \A y \in H : x <= y
    BY <1>1, LeastNatural
<1>3. \E s \in Slots : Holder(s, vb) /\ \A t \in Slots : Holder(t, vb) => s <= t
    BY <1>2
<1> QED
    BY <1>3 DEF FirstHolder

-----------------------------------------------------------------------------
(* Type correctness *)

LEMMA TypeInit == Init => TypeOK
<1> SUFFICES ASSUME Init PROVE TypeOK
    OBVIOUS
<1>1. 0 \in 0 .. CounterMod - 1
    BY PoolAssumption, CounterAssumption
<1> QED
    BY <1>1, DataAssumption DEF Init, TypeOK

\* A copy leaves every slot a block of values.
LEMMA CopiedType ==
    ASSUME TypeOK, NEW p, NEW e, NEW v \in Values
    PROVE  Copied(p, e, v) \in [Slots -> [Atoms -> Values \cup {Garbage}]]
    BY DEF Copied, TypeOK

LEMMA TypeStep == TypeOK /\ [Next]_manifoldVars => TypeOK'
<1> SUFFICES ASSUME TypeOK, [Next]_manifoldVars PROVE TypeOK'
    OBVIOUS
<1> USE DEF TypeOK
<1>1. ASSUME NEW vb \in VBlocks, NEW e \in Extents, NEW v \in Values,
             MaterializeHeld(vb, e, v)
      PROVE  TypeOK'
  <2>1. FirstHolder(vb) \in Slots
      BY <1>1, FirstHolderHolds DEF MaterializeHeld
  <2>2. cache_pool' \in [Slots -> [Atoms -> Values \cup {Garbage}]]
      BY <1>1, CopiedType DEF MaterializeHeld
  <2>3. written' \in [Slots -> SUBSET Atoms]
      BY <1>1, <2>1 DEF MaterializeHeld, OwnAtoms
  <2> QED
      BY <1>1, <2>2, <2>3 DEF MaterializeHeld
<1>2. ASSUME NEW vb \in VBlocks, NEW e \in Extents, NEW v \in Values,
             MaterializeFresh(vb, e, v)
      PROVE  TypeOK'
  <2>1. Victim \in Slots /\ NextCounter \in 0 .. CounterMod - 1
      BY CounterFacts
  <2>2. cache_pool' \in [Slots -> [Atoms -> Values \cup {Garbage}]]
      BY <1>2, CopiedType DEF MaterializeFresh
  <2>3. written' \in [Slots -> SUBSET Atoms]
      BY <1>2, <2>1 DEF MaterializeFresh, OwnAtoms
  <2> QED
      BY <1>2, <2>1, <2>2, <2>3 DEF MaterializeFresh
<1>3. ASSUME NEW s \in Slots, ClearSlot(s)
      PROVE  TypeOK'
    BY <1>3 DEF ClearSlot
<1>4. ASSUME NEW s \in Slots, NEW v \in Values, WriteSlot(s, v)
      PROVE  TypeOK'
  <2>1. 0 \in Atoms
      BY PoolAssumption DEF Atoms
  <2>2. cache_pool' \in [Slots -> [Atoms -> Values \cup {Garbage}]]
      BY <1>4, <2>1 DEF WriteSlot
  <2> QED
      BY <1>4, <2>2 DEF WriteSlot
<1>5. CASE UNCHANGED manifoldVars
    BY <1>5 DEF manifoldVars
<1> QED
    BY <1>1, <1>2, <1>3, <1>4, <1>5 DEF Next, BlockNext, Materialize

\* Whatever is called, in whatever order, the state words stay in range: the
\* wrapped counter always names a slot of the pool.
THEOREM TypeCorrect == Spec => []TypeOK
<1>1. Init => TypeOK
    BY TypeInit
<1>2. TypeOK /\ [Next]_manifoldVars => TypeOK'
    BY TypeStep
<1> QED
    BY <1>1, <1>2, PTL DEF Spec

-----------------------------------------------------------------------------
(* One slot per block *)

LEMMA UniqueStep ==
    TypeOK /\ UniqueUnlessRevived /\ [Next]_manifoldVars => UniqueUnlessRevived'
<1> SUFFICES ASSUME TypeOK, UniqueUnlessRevived, [Next]_manifoldVars
             PROVE  UniqueUnlessRevived'
    OBVIOUS
<1>1. ASSUME NEW vb \in VBlocks, NEW e \in Extents, NEW v \in Values,
             MaterializeHeld(vb, e, v)
      PROVE  UniqueUnlessRevived'
    BY <1>1 DEF MaterializeHeld, UniqueUnlessRevived
<1>2. ASSUME NEW vb \in VBlocks, NEW e \in Extents, NEW v \in Values,
             MaterializeFresh(vb, e, v)
      PROVE  UniqueUnlessRevived'
  <2> SUFFICES ASSUME NEW s \in Slots, NEW t \in Slots, s # t,
                      cache_state'[s] # "EMPTY", cache_state'[t] # "EMPTY",
                      vblock_map'[s] = vblock_map'[t]
               PROVE  s \in revived' \/ t \in revived'
      BY DEF UniqueUnlessRevived
  <2>1. Victim \in Slots
      BY CounterFacts DEF TypeOK
  <2>2. \A u \in Slots : u # Victim =>
            /\ cache_state'[u] = cache_state[u]
            /\ vblock_map'[u] = vblock_map[u]
            /\ u \in revived' <=> u \in revived
      BY <1>2, <2>1 DEF MaterializeFresh, TypeOK
  <2>3. vblock_map'[Victim] = vb
      BY <1>2, <2>1 DEF MaterializeFresh, TypeOK
  <2>4. \A u \in Slots : ~ Holder(u, vb)
      BY <1>2 DEF MaterializeFresh, Held
  <2>5. CASE s = Victim
      BY <2>2, <2>3, <2>4, <2>5 DEF Holder
  <2>6. CASE t = Victim
      BY <2>2, <2>3, <2>4, <2>6 DEF Holder
  <2>7. CASE s # Victim /\ t # Victim
      BY <2>2, <2>7 DEF UniqueUnlessRevived
  <2> QED
      BY <2>5, <2>6, <2>7
<1>3. ASSUME NEW s \in Slots, ClearSlot(s)
      PROVE  UniqueUnlessRevived'
    BY <1>3 DEF ClearSlot, UniqueUnlessRevived, TypeOK
<1>4. ASSUME NEW s \in Slots, NEW v \in Values, WriteSlot(s, v)
      PROVE  UniqueUnlessRevived'
    BY <1>4 DEF WriteSlot, UniqueUnlessRevived, TypeOK
<1>5. CASE UNCHANGED manifoldVars
    BY <1>5 DEF manifoldVars, UniqueUnlessRevived
<1> QED
    BY <1>1, <1>2, <1>3, <1>4, <1>5 DEF Next, BlockNext, Materialize

\* A block is held in one slot, unless write_slot brought back a cleared slot
\* that still names it.
THEOREM OneSlotPerBlock == Spec => []UniqueUnlessRevived
<1>1. Init => UniqueUnlessRevived
    BY DEF Init, UniqueUnlessRevived
<1>2. TypeOK /\ UniqueUnlessRevived /\ [Next]_manifoldVars => UniqueUnlessRevived'
    BY UniqueStep
<1> QED
    BY <1>1, <1>2, TypeCorrect, PTL DEF Spec

-----------------------------------------------------------------------------
(* The block operations implement BlockWindow *)

\* Every copy stays inside the block it starts in.
ExtentsFit == \A e \in Extents : e[1] + e[2] <= BlockAtoms

\* Without write_slot nothing is revived, so a block is in at most one slot.
BlockInv ==
    /\ TypeOK
    /\ UniqueUnlessRevived
    /\ revived = {}

LEMMA BlockInvStep == BlockInv /\ [BlockNext]_manifoldVars => BlockInv'
<1> SUFFICES ASSUME BlockInv, [BlockNext]_manifoldVars PROVE BlockInv'
    OBVIOUS
<1>1. TypeOK'
    BY TypeStep DEF BlockInv, Next
<1>2. UniqueUnlessRevived'
    BY UniqueStep DEF BlockInv, Next
<1>3. revived' = {}
    BY DEF BlockInv, BlockNext, Materialize, MaterializeHeld, MaterializeFresh,
           ClearSlot, manifoldVars
<1> QED
    BY <1>1, <1>2, <1>3 DEF BlockInv

LEMMA BlockInvariant == BlockSpec => []BlockInv
<1>1. Init => BlockInv
    BY TypeInit DEF Init, BlockInv, UniqueUnlessRevived
<1>2. BlockInv /\ [BlockNext]_manifoldVars => BlockInv'
    BY BlockInvStep
<1> QED
    BY <1>1, <1>2, PTL DEF BlockSpec

\* The slot that stands at place k of the window.
SlotAt(k) == (vblock_counter + k) % PoolSize

\* Places and slots are in one-to-one correspondence.
LEMMA PlacesAreSlots ==
    ASSUME TypeOK
    PROVE  /\ \A k \in Slots : SlotAt(k) \in Slots
           /\ \A j, k \in Slots : j # k => SlotAt(j) # SlotAt(k)
           /\ \A s \in Slots : \E k \in Slots : SlotAt(k) = s
           /\ SlotAt(0) = Victim
<1> USE PoolAssumption DEF Slots
<1>1. vblock_counter \in Nat
    BY CounterAssumption DEF TypeOK
<1>2. ASSUME NEW k \in Slots PROVE SlotAt(k) \in Slots
  <2>1. PICK x \in Nat : x = vblock_counter + k
      BY <1>1
  <2>2. x % PoolSize \in Slots
      BY DivMod
  <2> QED
      BY <2>1, <2>2 DEF SlotAt
<1>3. ASSUME NEW j \in Slots, NEW k \in Slots, j # k PROVE SlotAt(j) # SlotAt(k)
  <2>1. CASE j < k
      BY <1>1, <2>1, StepsDiffer DEF SlotAt
  <2>2. CASE k < j
      BY <1>1, <2>2, StepsDiffer DEF SlotAt
  <2> QED
      BY <1>3, <2>1, <2>2
<1>4. ASSUME NEW s \in Slots PROVE \E k \in Slots : SlotAt(k) = s
    BY <1>1, SlotReached DEF SlotAt
<1>5. SlotAt(0) = Victim
    BY <1>1 DEF SlotAt, Victim
<1> QED
    BY <1>2, <1>3, <1>4, <1>5

\* When a block is brought in every place moves down by one, and the slot that
\* was oldest becomes the newest.
LEMMA PlacesMove ==
    ASSUME TypeOK, vblock_counter' = NextCounter
    PROVE  /\ \A k \in Slots : k # PoolSize - 1 =>
                 k + 1 \in Slots /\ SlotAt(k)' = SlotAt(k + 1)
           /\ SlotAt(PoolSize - 1)' = Victim
<1> USE PoolAssumption DEF Slots
<1>1. vblock_counter \in 0 .. CounterMod - 1 /\ vblock_counter \in Nat
    BY CounterAssumption DEF TypeOK
<1>2. PICK t \in Nat \ {0} : CounterMod = t * PoolSize
    BY CounterAssumption
<1>3. CounterMod \in Nat
    BY CounterAssumption
<1>4. ASSUME NEW k \in Slots
      PROVE  SlotAt(k)' = (vblock_counter + 1 + k) % PoolSize
    BY <1>1, <1>2, <1>3, WrapKeepsPlace DEF SlotAt, NextCounter
<1>5. ASSUME NEW k \in Slots, k # PoolSize - 1
      PROVE  k + 1 \in Slots /\ SlotAt(k)' = SlotAt(k + 1)
  <2>1. vblock_counter + 1 + k = vblock_counter + (k + 1)
      BY <1>1
  <2> QED
      BY <1>4, <1>5, <2>1 DEF SlotAt
<1>6. SlotAt(PoolSize - 1)' = Victim
  <2>1. vblock_counter + 1 + (PoolSize - 1) = vblock_counter + PoolSize
      BY <1>1
  <2>2. SlotAt(PoolSize - 1)' = (vblock_counter + PoolSize) % PoolSize
      BY <1>4, <2>1
  <2> QED
      BY <1>1, <2>2, OnceRound DEF Victim
<1> QED
    BY <1>5, <1>6

\* A copy that fits changes its own slot only.
LEMMA CopyStaysInside ==
    ASSUME NEW p \in Slots, NEW e \in Extents, e[1] + e[2] <= BlockAtoms, NEW v
    PROVE  /\ \A s \in Slots : s # p =>
                 \A a \in Atoms : Copied(p, e, v)[s][a] = cache_pool[s][a]
           /\ \A a \in Atoms : Copied(p, e, v)[p][a] =
                 IF a \in OwnAtoms(e) THEN v ELSE cache_pool[p][a]
<1>1. e[1] \in 0 .. BlockAtoms - 1 /\ e[2] \in Nat /\ e[1] + e[2] <= BlockAtoms
    BY ExtentAssumption
<1>2. ASSUME NEW s \in Slots, s # p, NEW a \in Atoms PROVE ~ Covers(p, e, s, a)
  <2>1. s \in Nat /\ p \in Nat /\ a \in 0 .. BlockAtoms - 1 /\ BlockAtoms \in Nat \ {0}
      BY PoolAssumption DEF Slots, Atoms
  <2>2. CASE s < p
    <3>1. (s - p) * BlockAtoms <= (-1) * BlockAtoms
        BY <2>1, <2>2
    <3> QED
        BY <1>1, <2>1, <3>1 DEF Covers
  <2>3. CASE p < s
    <3>1. (s - p) * BlockAtoms >= BlockAtoms
        BY <2>1, <2>3
    <3> QED
        BY <1>1, <2>1, <3>1 DEF Covers
  <2> QED
      BY <1>2, <2>1, <2>2, <2>3
<1>3. ASSUME NEW a \in Atoms PROVE Covers(p, e, p, a) <=> a \in OwnAtoms(e)
    BY <1>1, PoolAssumption DEF Covers, OwnAtoms, Slots, Atoms
<1> QED
    BY <1>2, <1>3 DEF Copied

LEMMA InitRefines == Init => Promise!Init
<1> SUFFICES ASSUME Init PROVE Window = [k \in Slots |-> Promise!Absent]
    BY DEF Promise!Init, Promise!Places, Slots
<1>1. TypeOK
    BY TypeInit
<1>2. ASSUME NEW k \in Slots PROVE Line(SlotAt(k)) = Promise!Absent
  <2>1. SlotAt(k) \in Slots
      BY <1>1, PlacesAreSlots
  <2> QED
      BY <2>1 DEF Init, Line, Promise!Absent, Promise!Atoms, Atoms
<1> QED
    BY <1>2 DEF Window, SlotAt

\* A line changes only with the words of its own slot.
LEMMA LineDepends ==
    ASSUME NEW s \in Slots, cache_state'[s] = cache_state[s],
           vblock_map'[s] = vblock_map[s], written'[s] = written[s],
           \A a \in Atoms : cache_pool'[s][a] = cache_pool[s][a]
    PROVE  Line(s)' = Line(s)
    BY DEF Line

LEMMA HeldRefines ==
    ASSUME BlockInv, ExtentsFit,
           NEW vb \in VBlocks, NEW e \in Extents, NEW v \in Values,
           MaterializeHeld(vb, e, v)
    PROVE  Promise!Update(vb, e, v)
<1>1. PICK h \in Slots : h = FirstHolder(vb) /\ Holder(h, vb)
    BY FirstHolderHolds DEF MaterializeHeld
<1>2. PICK k \in Slots : SlotAt(k) = h
    BY PlacesAreSlots DEF BlockInv
<1>3. TypeOK /\ cache_pool' = Copied(h, e, v)
        /\ written' = [written EXCEPT ![h] = @ \cup OwnAtoms(e)]
        /\ UNCHANGED <<cache_state, vblock_map, vblock_counter>>
    BY <1>1 DEF MaterializeHeld, BlockInv
<1>4. Window[k] = Line(h) /\ Window[k].block = vb
    BY <1>1, <1>2 DEF Window, SlotAt, Line, Holder
<1>5. Line(h)' = [block |-> vb, data |-> Promise!Stored(Window[k].data, e, v)]
  <2>1. \A a \in Atoms : cache_pool'[h][a] = IF a \in OwnAtoms(e) THEN v ELSE cache_pool[h][a]
      BY <1>1, <1>3, CopyStaysInside DEF ExtentsFit
  <2>2. written'[h] = written[h] \cup OwnAtoms(e)
      BY <1>1, <1>3 DEF TypeOK
  <2>3. Window[k].data = [a \in Atoms |-> IF a \in written[h] THEN cache_pool[h][a] ELSE Garbage]
      BY <1>1, <1>4 DEF Line, Holder
  <2>4. Line(h)' = [block |-> vb, data |-> [a \in Atoms |->
                      IF a \in written'[h] THEN cache_pool'[h][a] ELSE Garbage]]
      BY <1>1, <1>3 DEF Line, Holder
  <2>5. Promise!Stored(Window[k].data, e, v) =
          [a \in Atoms |-> IF a \in written'[h] THEN cache_pool'[h][a] ELSE Garbage]
      BY <2>1, <2>2, <2>3
         DEF Promise!Stored, Promise!InExtent, Promise!Atoms, Atoms, OwnAtoms
  <2> QED
      BY <2>4, <2>5
<1>6. ASSUME NEW j \in Slots, j # k PROVE Line(SlotAt(j))' = Line(SlotAt(j))
  <2>1. SlotAt(j) \in Slots /\ SlotAt(j) # h
      BY <1>2, <1>3, <1>6, PlacesAreSlots
  <2>2. \A a \in Atoms : cache_pool'[SlotAt(j)][a] = cache_pool[SlotAt(j)][a]
      BY <1>1, <1>3, <2>1, CopyStaysInside DEF ExtentsFit
  <2>3. written'[SlotAt(j)] = written[SlotAt(j)]
      BY <1>1, <1>3, <2>1 DEF TypeOK
  <2>4. SlotAt(j)' = SlotAt(j)
      BY <1>3 DEF SlotAt
  <2>5. PICK s \in Slots : s = SlotAt(j) /\ s = SlotAt(j)'
      BY <2>1, <2>4
  <2>6. Line(s)' = Line(s)
      BY <1>3, <2>2, <2>3, <2>5, LineDepends
  <2> QED
      BY <2>5, <2>6
<1>7. Window' = [Window EXCEPT ![k] = [block |-> vb, data |-> Promise!Stored(Window[k].data, e, v)]]
  <2>1. SlotAt(k)' = h
      BY <1>2, <1>3 DEF SlotAt
  <2>2. Line(SlotAt(k))' = Line(h)'
      BY <2>1 DEF Line
  <2>3. Window' = [j \in Slots |-> Line(SlotAt(j))']
      BY DEF Window, SlotAt
  <2>4. Window = [j \in Slots |-> Line(SlotAt(j))]
      BY DEF Window, SlotAt
  <2> QED
      BY <1>5, <1>6, <2>2, <2>3, <2>4
<1> QED
    BY <1>4, <1>7 DEF Promise!Update, Promise!Holds, Promise!Places, Slots

LEMMA FreshRefines ==
    ASSUME BlockInv, ExtentsFit,
           NEW vb \in VBlocks, NEW e \in Extents, NEW v \in Values,
           MaterializeFresh(vb, e, v)
    PROVE  Promise!Admit(vb, e, v)
<1>1. TypeOK /\ (\A s \in Slots : ~ Holder(s, vb)) /\ Garbage # vb
    BY DataAssumption DEF BlockInv, MaterializeFresh, Held
<1>2. PICK p \in Slots : p = Victim
    BY <1>1, CounterFacts DEF TypeOK
<1>3. /\ vblock_map' = [vblock_map EXCEPT ![p] = vb]
      /\ cache_state' = [cache_state EXCEPT ![p] = "RESIDENT"]
      /\ vblock_counter' = NextCounter
      /\ cache_pool' = Copied(p, e, v)
      /\ written' = [written EXCEPT ![p] = OwnAtoms(e)]
    BY <1>2 DEF MaterializeFresh
<1>4. ASSUME NEW k \in Slots PROVE ~ (Window[k].block = vb)
  <2>1. PICK s \in Slots : s = SlotAt(k)
      BY <1>1, PlacesAreSlots
  <2>2. Window[k] = Line(s)
      BY <2>1 DEF Window, SlotAt
  <2>3. Line(s).block # vb
      BY <1>1 DEF Line, Holder
  <2> QED
      BY <2>2, <2>3
<1>5. Line(p)' = [block |-> vb, data |-> Promise!Stored(Promise!Absent.data, e, v)]
  <2>1. \A a \in Atoms : a \in OwnAtoms(e) => cache_pool'[p][a] = v
      BY <1>3, CopyStaysInside DEF ExtentsFit
  <2>2. /\ written'[p] = OwnAtoms(e)
        /\ cache_state'[p] = "RESIDENT"
        /\ vblock_map'[p] = vb
      BY <1>1, <1>3 DEF TypeOK
  <2>3. Line(p)' = [block |-> vb, data |-> [a \in Atoms |->
                      IF a \in OwnAtoms(e) THEN cache_pool'[p][a] ELSE Garbage]]
      BY <2>2 DEF Line
  <2>4. Promise!Stored(Promise!Absent.data, e, v) =
          [a \in Atoms |-> IF a \in OwnAtoms(e) THEN cache_pool'[p][a] ELSE Garbage]
      BY <2>1 DEF Promise!Stored, Promise!Absent, Promise!InExtent, Promise!Atoms,
                  Atoms, OwnAtoms
  <2> QED
      BY <2>3, <2>4
<1>6. ASSUME NEW s \in Slots, s # p PROVE Line(s)' = Line(s)
  <2>1. \A a \in Atoms : cache_pool'[s][a] = cache_pool[s][a]
      BY <1>3, <1>6, CopyStaysInside DEF ExtentsFit
  <2>2. /\ written'[s] = written[s]
        /\ cache_state'[s] = cache_state[s]
        /\ vblock_map'[s] = vblock_map[s]
      BY <1>1, <1>3, <1>6 DEF TypeOK
  <2> QED
      BY <2>1, <2>2, LineDepends
<1>7. Window' = [k \in Slots |-> Line(SlotAt(k))']
    BY DEF Window, SlotAt
<1>8. ASSUME NEW k \in Slots, k # PoolSize - 1
      PROVE  Line(SlotAt(k))' = Window[k + 1]
  <2>1. k + 1 \in Slots /\ SlotAt(k)' = SlotAt(k + 1)
      BY <1>1, <1>3, <1>8, PlacesMove
  <2>2. SlotAt(k + 1) \in Slots /\ SlotAt(k + 1) # SlotAt(0) /\ SlotAt(0) = p
    <3>1. 0 \in Slots /\ k + 1 # 0
        BY PoolAssumption DEF Slots
    <3> QED
        BY <1>1, <1>2, <2>1, <3>1, PlacesAreSlots
  <2>3. PICK s \in Slots : s = SlotAt(k + 1) /\ s = SlotAt(k)'
      BY <2>1, <2>2
  <2>4. Line(SlotAt(k))' = Line(s)'
      BY <2>3 DEF Line
  <2>5. Window[k + 1] = Line(s)
      BY <2>1, <2>3 DEF Window, SlotAt
  <2> QED
      BY <1>6, <2>2, <2>3, <2>4, <2>5
<1>9. Line(SlotAt(PoolSize - 1))' = Line(p)'
  <2>1. SlotAt(PoolSize - 1)' = p
      BY <1>1, <1>2, <1>3, PlacesMove
  <2> QED
      BY <2>1 DEF Line
<1> QED
    BY <1>4, <1>5, <1>7, <1>8, <1>9
       DEF Promise!Admit, Promise!Holds, Promise!Places, Slots

LEMMA ClearRefines ==
    ASSUME BlockInv, NEW s \in Slots, ClearSlot(s)
    PROVE  \E k \in Slots : Promise!Drop(k)
<1>1. TypeOK /\ UNCHANGED <<vblock_map, cache_pool, vblock_counter, written>>
        /\ cache_state' = [cache_state EXCEPT ![s] = "EMPTY"]
    BY DEF BlockInv, ClearSlot
<1>2. PICK k \in Slots : SlotAt(k) = s
    BY <1>1, PlacesAreSlots
<1>3. Line(s)' = Promise!Absent
    BY <1>1 DEF Line, Promise!Absent, Promise!Atoms, Atoms, TypeOK
<1>4. \A j \in Slots : SlotAt(j)' = SlotAt(j)
    BY <1>1 DEF SlotAt
<1>5. ASSUME NEW j \in Slots, j # k PROVE Line(SlotAt(j))' = Line(SlotAt(j))
  <2>1. PICK t \in Slots : t = SlotAt(j) /\ t = SlotAt(j)' /\ t # s
      BY <1>1, <1>2, <1>4, <1>5, PlacesAreSlots
  <2>2. Line(t)' = Line(t)
      BY <1>1, <2>1, LineDepends DEF TypeOK
  <2>3. Line(SlotAt(j))' = Line(t)'
      BY <2>1 DEF Line
  <2> QED
      BY <2>1, <2>2, <2>3
<1>6. Line(SlotAt(k))' = Promise!Absent
  <2>1. SlotAt(k)' = s
      BY <1>2, <1>4
  <2>2. Line(SlotAt(k))' = Line(s)'
      BY <2>1 DEF Line
  <2> QED
      BY <1>3, <2>2
<1>7. /\ Window' = [j \in Slots |-> Line(SlotAt(j))']
      /\ Window = [j \in Slots |-> Line(SlotAt(j))]
    BY DEF Window, SlotAt
<1>8. Window' = [Window EXCEPT ![k] = Promise!Absent]
    BY <1>5, <1>6, <1>7
<1> QED
    BY <1>8 DEF Promise!Drop

LEMMA StepRefines ==
    ASSUME BlockInv, ExtentsFit, [BlockNext]_manifoldVars
    PROVE  [Promise!Next]_Window
<1>1. ASSUME NEW vb \in VBlocks, NEW e \in Extents, NEW v \in Values,
             Materialize(vb, e, v)
      PROVE  Promise!Next
    BY <1>1, HeldRefines, FreshRefines DEF Materialize, Promise!Next
<1>2. ASSUME NEW s \in Slots, ClearSlot(s)
      PROVE  Promise!Next
    BY <1>2, ClearRefines DEF Promise!Next, Promise!Places, Slots
<1>3. CASE UNCHANGED manifoldVars
    BY <1>3 DEF manifoldVars, Window, Line
<1> QED
    BY <1>1, <1>2, <1>3 DEF BlockNext

\* Through materialize_range and clear_slot, with copies that stay inside their
\* block, the slots, map and wrapping counter of the class are a window of the
\* last PoolSize blocks: what is held, in which order it leaves, and what every
\* stored atom reads as.
THEOREM ImplementsBlockWindow == ExtentsFit => (BlockSpec => KeepsPromise)
<1> SUFFICES ASSUME ExtentsFit PROVE BlockSpec => KeepsPromise
    OBVIOUS
<1>1. Init => Promise!Init
    BY InitRefines
<1>2. BlockInv /\ [BlockNext]_manifoldVars => [Promise!Next]_Window
    BY StepRefines
<1> QED
    BY <1>1, <1>2, BlockInvariant, PTL DEF BlockSpec, KeepsPromise, Promise!Spec

\* A fetch of a block that is held returns what the window holds for it, and of a
\* block that is not held Zero.
THEOREM FetchesAgree == BlockSpec => []FetchesFromWindow
<1>1. ASSUME BlockInv PROVE FetchesFromWindow
  <2> SUFFICES ASSUME NEW vb \in VBlocks, NEW a \in Atoms
               PROVE  HolographicFetch(vb, a) \in
                          Promise!Fetchable(vb, a, Values \cup {Garbage})
      BY DEF FetchesFromWindow
  <2>1. TypeOK /\ UniqueUnlessRevived /\ revived = {}
      BY <1>1 DEF BlockInv
  <2>2. ASSUME NEW k \in Slots
        PROVE  /\ SlotAt(k) \in Slots
               /\ Window[k] = Line(SlotAt(k))
               /\ Promise!Holds(k, vb) <=> Holder(SlotAt(k), vb)
      BY <2>1, PlacesAreSlots, DataAssumption
         DEF Window, SlotAt, Line, Promise!Holds, Holder
  <2>3. CASE ~ Held(vb)
    <3>1. ~ \E k \in Promise!Places : Promise!Holds(k, vb)
        BY <2>2, <2>3 DEF Held, Promise!Places, Slots
    <3> QED
        BY <2>3, <3>1 DEF HolographicFetch, Promise!Fetchable
  <2>4. CASE Held(vb)
    <3>1. FirstHolder(vb) \in Slots /\ Holder(FirstHolder(vb), vb)
        BY <2>4, FirstHolderHolds
    <3>2. \E k \in Promise!Places : Promise!Holds(k, vb)
        BY <2>1, <2>2, <3>1, PlacesAreSlots DEF Promise!Places, Slots
    <3>3. PICK j \in Slots : /\ j = CHOOSE k \in Promise!Places : Promise!Holds(k, vb)
                             /\ Promise!Holds(j, vb)
        BY <3>2 DEF Promise!Places, Slots
    <3>4. SlotAt(j) = FirstHolder(vb)
        BY <2>1, <2>2, <3>1, <3>3 DEF UniqueUnlessRevived, Holder
    <3>5. Window[j].data[a] =
             IF a \in written[FirstHolder(vb)]
             THEN cache_pool[FirstHolder(vb)][a] ELSE Garbage
      <4>1. PICK s \in Slots : s = FirstHolder(vb) /\ Holder(s, vb)
          BY <3>1
      <4>2. Window[j] = Line(s)
          BY <2>2, <3>4, <4>1
      <4>3. Line(s).data =
               [b \in Atoms |-> IF b \in written[s] THEN cache_pool[s][b] ELSE Garbage]
          BY <4>1 DEF Line, Holder
      <4> QED
          BY <4>1, <4>2, <4>3
    <3>6. HolographicFetch(vb, a) = cache_pool[FirstHolder(vb)][a]
          /\ HolographicFetch(vb, a) \in Values \cup {Garbage}
        BY <2>1, <2>4, <3>1 DEF HolographicFetch, TypeOK
    <3>7. Promise!Fetchable(vb, a, Values \cup {Garbage}) =
             IF Window[j].data[a] = Garbage THEN Values \cup {Garbage}
             ELSE {Window[j].data[a]}
        BY <3>2, <3>3 DEF Promise!Fetchable
    <3> QED
        BY <3>5, <3>6, <3>7
  <2> QED
      BY <2>3, <2>4
<1> QED
    BY <1>1, BlockInvariant, PTL
=============================================================================
