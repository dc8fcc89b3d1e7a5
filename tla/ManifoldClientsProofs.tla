----------------------- MODULE ManifoldClientsProofs -----------------------
(***************************************************************************)
(* Theorems about the clients of the manifold, for every pool, every       *)
(* address space and every script, table and guest: as long as the blocks  *)
(* they touched fit the pool, each of them finds what was last stored at   *)
(* the addresses it looks at, whoever stored in between.                   *)
(***************************************************************************)
EXTENDS ManifoldClients, SubstrateManifoldProofs, FiniteSetTheorems, SequenceTheorems

-----------------------------------------------------------------------------
(* The invariant *)

\* How many blocks the clients touched.
Used == Cardinality(touched)

\* The pool has been filled from slot 0 on, one slot for each block touched.
FilledInOrder ==
    /\ vblock_counter = Used % CounterMod
    /\ \A s \in Slots : cache_state[s] # "EMPTY" <=> s < Used
    /\ \A s \in Slots : s < Used => vblock_map[s] \in touched
    /\ \A s, t \in Slots : s < Used /\ t < Used /\ vblock_map[s] = vblock_map[t] => s = t
    /\ \A vb \in touched : \E s \in Slots : s < Used /\ vblock_map[s] = vb

\* A slot in use holds what was last stored in the atoms of its block.
HoldsStored ==
    \A s \in Slots : s < Used =>
        \A a \in Atoms : stored[vblock_map[s]][a] # None
                         => cache_pool[s][a] = stored[vblock_map[s]][a]

\* The histories are well-formed, and nothing is stored in an untouched block.
HistoryOK ==
    /\ stored \in [VBlocks -> [Atoms -> Values \cup {None}]]
    /\ touched \in SUBSET VBlocks /\ IsFiniteSet(touched)
    /\ sound \in BOOLEAN
    /\ \A vb \in VBlocks : vb \notin touched => \A a \in Atoms : stored[vb][a] = None

ManifoldInv ==
    /\ TypeOK /\ UniqueUnlessRevived /\ HistoryOK
    /\ Undisturbed => FilledInOrder /\ HoldsStored

\* The state engine's words are words, and it never guesses further than it may.
EngineInv ==
    /\ current_state \in WordRange /\ base \in WordRange /\ heard \in WordRange
    /\ chaos_accumulator \in Nat
    /\ chaos_accumulator = 0 => heard = 0
    /\ GuessesFoldInputs

ClientsInv == ManifoldInv /\ EngineInv

-----------------------------------------------------------------------------
(* Addresses and sets of blocks *)

\* An atom of an address is an atom of a block.
LEMMA AtomIsAtom == ASSUME NEW vaddr \in Nat PROVE AtomOf(vaddr) \in Atoms
<1>1. PICK x \in Nat : x = vaddr \div AtomBytes
    BY AddressAssumption, DivMod
<1>2. x % BlockAtoms \in 0 .. BlockAtoms - 1
    BY PoolAssumption, DivMod
<1> QED
    BY <1>1, <1>2 DEF AtomOf, Atoms

\* The number of blocks touched is a number, and grows by one with a new block.
LEMMA UsedFacts ==
    ASSUME HistoryOK
    PROVE  /\ Used \in Nat
           /\ \A vb : touched' = touched \cup {vb} =>
                 /\ IsFiniteSet(touched')
                 /\ Used' = IF vb \in touched THEN Used ELSE Used + 1
    BY FS_CardinalityType, FS_AddElement DEF HistoryOK, Used

\* The pool is filled in order as long as it is not full: the victim is the first
\* slot that is empty.
LEMMA VictimIsNext ==
    ASSUME FilledInOrder, Used \in Nat, Used < PoolSize
    PROVE  /\ Victim = Used
           /\ NextCounter = (Used + 1) % CounterMod
<1>1. PICK t \in Nat \ {0} : CounterMod = t * PoolSize
    BY CounterAssumption
<1>2. CounterMod \in Nat \ {0} /\ PoolSize <= CounterMod
    BY <1>1, PoolAssumption
<1>3. Used % CounterMod = Used
  <2>1. Used \in 0 .. CounterMod - 1
      BY <1>2, PoolAssumption
  <2> QED
      BY <1>2, <2>1, SmallRemainder
<1>4. Used % PoolSize = Used
    BY PoolAssumption, SmallRemainder
<1> QED
    BY <1>3, <1>4 DEF FilledInOrder, Victim, NextCounter

\* While nothing was pushed out, a block is held if it was touched.
LEMMA HeldIsTouched ==
    ASSUME FilledInOrder, NEW vb
    PROVE  Held(vb) <=> vb \in touched
    BY DEF FilledInOrder, Held, Holder

\* The first slot that holds a touched block is in use.
LEMMA HolderInUse ==
    ASSUME FilledInOrder, NEW vb \in touched
    PROVE  /\ FirstHolder(vb) \in Slots
           /\ FirstHolder(vb) < Used
           /\ vblock_map[FirstHolder(vb)] = vb
    BY HeldIsTouched, FirstHolderHolds DEF FilledInOrder, Holder

\* What the clients count on: an address is read as what it is owed.
LEMMA FetchIsOwed ==
    ASSUME ManifoldInv, Undisturbed, NEW vaddr \in Nat, Owed(vaddr) # None
    PROVE  Fetch(vaddr) = Owed(vaddr)
<1>1. FilledInOrder /\ HoldsStored /\ HistoryOK
    BY DEF ManifoldInv
<1>2. PICK vb : vb = BlockOf(vaddr)
    OBVIOUS
<1>3. PICK a \in Atoms : a = AtomOf(vaddr)
    BY AtomIsAtom
<1>4. CASE vb \notin touched
  <2>1. HolographicFetch(vb, a) = Zero
      BY <1>1, <1>4, HeldIsTouched DEF HolographicFetch
  <2> QED
      BY <1>2, <1>3, <1>4, <2>1, DataAssumption DEF Fetch, Owed
<1>5. CASE vb \in touched
  <2>1. PICK h \in Slots : h = FirstHolder(vb) /\ h < Used /\ vblock_map[h] = vb
      BY <1>1, <1>5, HolderInUse
  <2>2. stored[vb][a] # None /\ Owed(vaddr) = stored[vb][a]
      BY <1>2, <1>3, <1>5 DEF Owed
  <2>3. cache_pool[h][a] = stored[vb][a]
      BY <1>1, <2>1, <2>2 DEF HoldsStored
  <2>4. stored[vb][a] \in Values
      BY <1>1, <1>5, <2>2 DEF HistoryOK
  <2>5. HolographicFetch(vb, a) = stored[vb][a]
      BY <1>1, <1>5, <2>1, <2>3, HeldIsTouched DEF HolographicFetch
  <2> QED
      BY <1>2, <1>3, <2>2, <2>4, <2>5, DataAssumption DEF Fetch
<1> QED
    BY <1>4, <1>5

-----------------------------------------------------------------------------
(* The manifold under its clients *)

LEMMA ManifoldStart == AddressedInit => ManifoldInv
<1> SUFFICES ASSUME AddressedInit PROVE ManifoldInv
    OBVIOUS
<1>1. Init /\ TypeOK
    BY TypeInit DEF AddressedInit
<1>2. UniqueUnlessRevived
    BY <1>1 DEF Init, UniqueUnlessRevived
<1>3. IsFiniteSet({}) /\ Cardinality({}) = 0
    BY FS_EmptySet
<1>4. HistoryOK
    BY <1>3 DEF AddressedInit, HistoryOK
<1>5. Used = 0
    BY <1>3 DEF AddressedInit, Used
<1>6. CounterMod \in Nat \ {0} /\ 0 % CounterMod = 0
  <2>1. CounterMod \in Nat \ {0}
      BY PoolAssumption, CounterAssumption
  <2>2. 0 \in 0 .. CounterMod - 1
      BY <2>1
  <2> QED
      BY <2>1, <2>2, SmallRemainder
<1>7. FilledInOrder /\ HoldsStored
    BY <1>1, <1>5, <1>6 DEF Init, AddressedInit, FilledInOrder, HoldsStored, Slots
<1> QED
    BY <1>1, <1>2, <1>4, <1>7 DEF ManifoldInv

LEMMA ManifoldIdle ==
    ASSUME ManifoldInv, UNCHANGED addressedVars PROVE ManifoldInv'
<1>1. TypeOK' /\ UniqueUnlessRevived'
    BY TypeStep, UniqueStep DEF ManifoldInv, addressedVars
<1>2. HistoryOK' /\ (Undisturbed' <=> Undisturbed)
    BY DEF ManifoldInv, HistoryOK, Undisturbed, addressedVars
<1>3. ASSUME FilledInOrder, HoldsStored PROVE FilledInOrder' /\ HoldsStored'
    BY <1>3 DEF FilledInOrder, HoldsStored, Used, addressedVars, manifoldVars
<1> QED
    BY <1>1, <1>2, <1>3 DEF ManifoldInv

LEMMA ManifoldTouched ==
    ASSUME ManifoldInv, TouchSlot PROVE ManifoldInv'
<1>1. [Next]_manifoldVars
    BY DEF TouchSlot, Next, BlockNext
<1>2. TypeOK' /\ UniqueUnlessRevived'
    BY <1>1, TypeStep, UniqueStep DEF ManifoldInv
<1>3. HistoryOK' /\ ~ Undisturbed'
    BY DEF TouchSlot, ManifoldInv, HistoryOK, Undisturbed
<1> QED
    BY <1>2, <1>3 DEF ManifoldInv

\* A store, by whichever client: into the block's slot, or into the next empty
\* one.
LEMMA ManifoldStored ==
    ASSUME ManifoldInv, NEW vaddr, NEW count, NEW value \in Values,
           Addressed(vaddr, count), Store(vaddr, count, value)
    PROVE  ManifoldInv'
<1>1. PICK vb \in VBlocks, e \in Extents :
          vb = BlockOf(vaddr) /\ e = <<AtomOf(vaddr), count>>
    BY DEF Addressed
<1>2. Materialize(vb, e, value)
    BY <1>1 DEF Store
<1>3. TypeOK' /\ UniqueUnlessRevived'
    BY <1>2, TypeStep, UniqueStep DEF ManifoldInv, Next, BlockNext
<1>4. /\ touched' = touched \cup {vb}
      /\ stored' = [stored EXCEPT ![vb] =
                       [a \in Atoms |-> IF a \in OwnAtoms(e) THEN value ELSE @[a]]]
      /\ sound' = (sound /\ e[1] + e[2] <= BlockAtoms)
    BY <1>1 DEF Store
<1>5. HistoryOK /\ TypeOK
    BY DEF ManifoldInv
<1>6. Used \in Nat /\ IsFiniteSet(touched')
      /\ Used' = IF vb \in touched THEN Used ELSE Used + 1
    BY <1>4, <1>5, UsedFacts
<1>7. HistoryOK'
    BY <1>4, <1>5, <1>6 DEF HistoryOK
<1>8. ASSUME Undisturbed' PROVE FilledInOrder' /\ HoldsStored'
  <2>1. sound /\ Used' <= PoolSize /\ e[1] + e[2] <= BlockAtoms
      BY <1>4, <1>5, <1>8 DEF Undisturbed, Used, HistoryOK
  <2>2. FilledInOrder /\ HoldsStored
    <3>1. Used <= PoolSize
        BY <1>6, <2>1, PoolAssumption
    <3> QED
        BY <2>1, <3>1 DEF ManifoldInv, Undisturbed, Used
  <2>3. CASE vb \in touched
    <3>1. PICK h \in Slots : h = FirstHolder(vb) /\ h < Used /\ vblock_map[h] = vb
        BY <2>2, <2>3, HolderInUse
    <3>2. MaterializeHeld(vb, e, value) /\ Used' = Used /\ touched' = touched
        BY <1>2, <1>4, <1>6, <2>2, <2>3, HeldIsTouched DEF Materialize, MaterializeFresh
    <3>3. UNCHANGED <<cache_state, vblock_map, vblock_counter>>
        BY <3>2 DEF MaterializeHeld
    <3>4. FilledInOrder'
        BY <2>2, <3>2, <3>3 DEF FilledInOrder
    <3>5. cache_pool' = Copied(h, e, value)
        BY <3>1, <3>2 DEF MaterializeHeld
    <3>6. HoldsStored'
      <4> SUFFICES ASSUME NEW s \in Slots, s < Used, NEW a \in Atoms,
                          stored'[vblock_map[s]][a] # None
                   PROVE  cache_pool'[s][a] = stored'[vblock_map[s]][a]
          BY <3>2, <3>3 DEF HoldsStored
      <4>1. vblock_map[s] \in VBlocks
          BY <1>5 DEF TypeOK
      <4>2. CASE s = h
        <5>1. cache_pool'[h][a] = IF a \in OwnAtoms(e) THEN value ELSE cache_pool[h][a]
            BY <2>1, <3>5, CopyStaysInside
        <5>2. stored'[vb][a] = IF a \in OwnAtoms(e) THEN value ELSE stored[vb][a]
            BY <1>4, <1>5 DEF HistoryOK
        <5> QED
            BY <2>2, <3>1, <4>2, <5>1, <5>2 DEF HoldsStored
      <4>3. CASE s # h
        <5>1. cache_pool'[s][a] = cache_pool[s][a]
            BY <2>1, <3>5, <4>3, CopyStaysInside
        <5>2. vblock_map[s] # vb
            BY <2>2, <3>1, <4>3 DEF FilledInOrder
        <5>3. stored'[vblock_map[s]] = stored[vblock_map[s]]
            BY <1>4, <1>5, <4>1, <5>2 DEF HistoryOK
        <5> QED
            BY <2>2, <5>1, <5>3 DEF HoldsStored
      <4> QED
          BY <4>2, <4>3
    <3> QED
        BY <3>4, <3>6
  <2>4. CASE vb \notin touched
    <3>1. Used < PoolSize /\ Used' = Used + 1 /\ touched' = touched \cup {vb}
        BY <1>4, <1>6, <2>1, <2>4, PoolAssumption
    <3>2. Used \in Slots /\ Victim = Used /\ NextCounter = (Used + 1) % CounterMod
        BY <1>6, <2>2, <3>1, PoolAssumption, VictimIsNext DEF Slots
    <3>3. MaterializeFresh(vb, e, value)
        BY <1>2, <2>2, <2>4, HeldIsTouched DEF Materialize, MaterializeHeld
    <3>4. /\ vblock_map' = [vblock_map EXCEPT ![Used] = vb]
          /\ cache_state' = [cache_state EXCEPT ![Used] = "RESIDENT"]
          /\ vblock_counter' = (Used + 1) % CounterMod
          /\ cache_pool' = Copied(Used, e, value)
        BY <3>2, <3>3 DEF MaterializeFresh
    <3>5. /\ vblock_map'[Used] = vb /\ cache_state'[Used] = "RESIDENT"
          /\ \A s \in Slots : s # Used => /\ vblock_map'[s] = vblock_map[s]
                                          /\ cache_state'[s] = cache_state[s]
        BY <1>5, <3>2, <3>4 DEF TypeOK
    <3>6. FilledInOrder'
      <4>1. vblock_counter' = Used' % CounterMod
          BY <3>1, <3>4
      <4>2. \A s \in Slots : s < Used' <=> s < Used \/ s = Used
          BY <1>6, <3>1 DEF Slots
      <4>3. \A s \in Slots : cache_state'[s] # "EMPTY" <=> s < Used'
          BY <2>2, <3>5, <4>2 DEF FilledInOrder
      <4>4. \A s \in Slots : s < Used' => vblock_map'[s] \in touched'
          BY <2>2, <3>1, <3>5, <4>2 DEF FilledInOrder
      <4>5. ASSUME NEW s \in Slots, NEW t \in Slots, s < Used', t < Used',
                   vblock_map'[s] = vblock_map'[t]
            PROVE  s = t
          BY <2>2, <2>4, <3>5, <4>2, <4>5 DEF FilledInOrder
      <4>6. ASSUME NEW b \in touched'
            PROVE  \E s \in Slots : s < Used' /\ vblock_map'[s] = b
        <5>1. CASE b = vb
            BY <3>2, <3>5, <4>2, <5>1
        <5>2. CASE b \in touched
          <6>1. PICK s \in Slots : s < Used /\ vblock_map[s] = b
              BY <2>2, <5>2 DEF FilledInOrder
          <6>2. s # Used
              BY <1>6, <6>1 DEF Slots
          <6> QED
              BY <3>5, <4>2, <6>1, <6>2
        <5> QED
            BY <3>1, <5>1, <5>2
      <4> QED
          BY <4>1, <4>3, <4>4, <4>5, <4>6 DEF FilledInOrder
    <3>7. HoldsStored'
      <4> SUFFICES ASSUME NEW s \in Slots, s < Used', NEW a \in Atoms,
                          stored'[vblock_map'[s]][a] # None
                   PROVE  cache_pool'[s][a] = stored'[vblock_map'[s]][a]
          BY DEF HoldsStored
      <4>1. CASE s = Used
        <5>1. stored'[vb][a] = IF a \in OwnAtoms(e) THEN value ELSE stored[vb][a]
            BY <1>4, <1>5 DEF HistoryOK
        <5>2. a \in OwnAtoms(e) /\ stored'[vb][a] = value
            BY <1>5, <2>4, <3>5, <4>1, <5>1 DEF HistoryOK
        <5>3. cache_pool'[s][a] = value
            BY <2>1, <3>4, <4>1, <5>2, CopyStaysInside
        <5> QED
            BY <3>5, <4>1, <5>2, <5>3
      <4>2. CASE s # Used
        <5>1. s < Used
            BY <1>6, <3>1, <4>2 DEF Slots
        <5>2. vblock_map'[s] = vblock_map[s] /\ vblock_map[s] \in touched
            BY <2>2, <3>5, <4>2, <5>1 DEF FilledInOrder
        <5>3. stored'[vblock_map[s]] = stored[vblock_map[s]]
            BY <1>4, <1>5, <2>4, <5>2 DEF HistoryOK
        <5>4. cache_pool'[s][a] = cache_pool[s][a]
            BY <2>1, <3>2, <3>4, <4>2, CopyStaysInside
        <5> QED
            BY <2>2, <5>1, <5>2, <5>3, <5>4 DEF HoldsStored
      <4> QED
          BY <4>1, <4>2
    <3> QED
        BY <3>6, <3>7
  <2> QED
      BY <2>3, <2>4
<1> QED
    BY <1>3, <1>7, <1>8 DEF ManifoldInv

\* Each of the clients' operations is a store, a touched slot or nothing at all
\* to the manifold.
LEMMA ManifoldStep ==
    ASSUME ManifoldInv, [ClientsNext]_clientVars PROVE ManifoldInv'
<1>1. CASE TransducerNext
  <2>1. ASSUME NEW intent \in Intents, NEW result \in Results, BurnAtom(intent, result)
        PROVE  ManifoldInv'
      BY <2>1, TransducerAssumption, ManifoldStored DEF BurnAtom
  <2>2. ASSUME NEW name \in Names, NEW coord \in Coordinates, RegisterHook(name, coord)
        PROVE  ManifoldInv'
      BY <2>2, ManifoldIdle DEF RegisterHook
  <2> QED
      BY <1>1, <2>1, <2>2 DEF TransducerNext
<1>2. CASE EngineNext
  <2>1. ASSUME NEW input \in Inputs, Step(input) PROVE ManifoldInv'
      BY <2>1, ManifoldIdle DEF Step, Speculate, LookUp, Settle
  <2>2. ASSUME NEW state \in ResetStates, Reset(state) PROVE ManifoldInv'
      BY <2>2, ManifoldIdle DEF Reset, Settle
  <2>3. ASSUME NEW t \in Transitions, StoreTransition(t) PROVE ManifoldInv'
      BY <2>3, EngineAssumption, TransitionAssumption, ManifoldStored DEF StoreTransition
  <2> QED
      BY <1>2, <2>1, <2>2, <2>3 DEF EngineNext
<1>3. CASE VmNext
  <2>1. ASSUME NEW atoms \in ImageSizes, LoadGuest(atoms) PROVE ManifoldInv'
      BY <2>1, MachineAssumption, PlacesAssumption, ManifoldStored DEF LoadGuest
  <2>2. ASSUME NEW reason \in Reasons, GuestExit(reason) PROVE ManifoldInv'
      BY <2>2, ManifoldIdle DEF GuestExit
  <2>3. ASSUME NEW reason \in Reasons, NEW h \in Handlers, InstallHandler(reason, h)
        PROVE  ManifoldInv'
      BY <2>3, MachineAssumption, PlacesAssumption, ManifoldStored DEF InstallHandler
  <2> QED
      BY <1>3, <2>1, <2>2, <2>3 DEF VmNext
<1>4. CASE FaultNext
    BY <1>4, ManifoldIdle DEF FaultNext, SetFuzz, InvalidOpcode
<1>5. CASE TouchSlot
    BY <1>5, ManifoldTouched
<1>6. CASE UNCHANGED clientVars
    BY <1>6, ManifoldIdle DEF clientVars
<1> QED
    BY <1>1, <1>2, <1>3, <1>4, <1>5, <1>6 DEF ClientsNext

LEMMA ManifoldInvariant == ClientsSpec => []ManifoldInv
<1>1. ClientsInit => ManifoldInv
    BY ManifoldStart DEF ClientsInit
<1>2. ManifoldInv /\ [ClientsNext]_clientVars => ManifoldInv'
    BY ManifoldStep
<1> QED
    BY <1>1, <1>2, PTL DEF ClientsSpec

\* Whatever the clients do, the words of the manifold under them stay in range.
THEOREM ClientsTypeCorrect == ClientsSpec => []TypeOK
<1>1. ManifoldInv => TypeOK
    BY DEF ManifoldInv
<1> QED
    BY <1>1, ManifoldInvariant, PTL

\* Whatever the clients do, a block is in one slot unless write_slot revived
\* another.
THEOREM ClientsOneSlotPerBlock == ClientsSpec => []UniqueUnlessRevived
<1>1. ManifoldInv => UniqueUnlessRevived
    BY DEF ManifoldInv
<1> QED
    BY <1>1, ManifoldInvariant, PTL

-----------------------------------------------------------------------------
(* The state engine *)

\* What is fetched is a value, or what memory nobody wrote may hold.
LEMMA FetchIsAtom ==
    ASSUME TypeOK, NEW vaddr \in Nat
    PROVE  Fetch(vaddr) \in Values \cup {Junk}
<1>1. PICK a \in Atoms : a = AtomOf(vaddr)
    BY AtomIsAtom
<1>2. PICK atom : atom = HolographicFetch(BlockOf(vaddr), a)
    OBVIOUS
<1>3. atom \in Values \cup {Garbage}
    BY <1>2, FirstHolderHolds, DataAssumption DEF HolographicFetch, TypeOK
<1> QED
    BY <1>1, <1>2, <1>3 DEF Fetch

\* A remainder by LENS_COUNT is a word.
LEMMA LowBitsAreWords ==
    ASSUME NEW x \in WordRange
    PROVE  x % LensCount \in 0 .. LensCount - 1 /\ x % LensCount \in WordRange
<1>1. x \in Nat /\ LensCount \in Nat \ {0}
    BY AddressAssumption, XorAssumption DEF WordRange
<1>2. x % LensCount \in 0 .. LensCount - 1
    BY <1>1, DivMod
<1> QED
    BY <1>2, AddressAssumption, XorAssumption DEF WordRange

\* A route is a word.
LEMMA RoutesAreWords ==
    ASSUME NEW atom \in Values \cup {Junk} PROVE atom.route \in WordRange
    BY AddressAssumption, XorAssumption DEF WordRange

\* Every state and input have an address.
LEMMA TransitionIsAddress ==
    ASSUME NEW state \in Nat, NEW input \in Nat
    PROVE  Transition(state, input) \in Nat
<1>1. LensCount \in Nat \ {0}
    BY AddressAssumption
<1>2. PICK r \in Nat : r = input % LensCount
    BY <1>1, DivMod
<1>3. state * LensCount \in Nat
    BY <1>1
<1> QED
    BY <1>2, <1>3 DEF Transition

LEMMA EngineStart == EngineInit => EngineInv
    BY AddressAssumption, XorAssumption, EngineAssumption
    DEF EngineInit, EngineInv, GuessesFoldInputs, WordRange

LEMMA EngineStep ==
    ASSUME ManifoldInv, EngineInv, [ClientsNext]_clientVars PROVE EngineInv'
<1>1. ASSUME UNCHANGED engineVars PROVE EngineInv'
    BY <1>1 DEF EngineInv, GuessesFoldInputs, engineVars
<1>2. ASSUME NEW state \in WordRange, Settle(state) PROVE EngineInv'
    BY <1>2, AddressAssumption, XorAssumption, EngineAssumption
    DEF Settle, EngineInv, GuessesFoldInputs, WordRange
<1>3. ASSUME NEW input \in Inputs, Speculate(input) PROVE EngineInv'
  <2>1. input \in WordRange /\ current_state \in WordRange /\ base \in WordRange
        /\ heard \in WordRange
      BY EngineAssumption DEF EngineInv
  <2>2. PICK h \in WordRange : h = WordXor(heard, input)
      BY <2>1, XorAssumption
  <2>3. PICK c \in WordRange : c = WordXor(current_state, input)
      BY <2>1, XorAssumption
  <2>4. Guess(input) = c % LensCount
      BY <2>3 DEF Guess
  <2>5. Guess(input) = WordXor(base, h) % LensCount
    <3>1. CASE chaos_accumulator = 0
      <4>1. current_state = base /\ h = input
          BY <2>1, <2>2, <3>1, XorAssumption DEF EngineInv, GuessesFoldInputs
      <4> QED
          BY <4>1 DEF Guess
    <3>2. CASE chaos_accumulator > 0
      <4>1. PICK b \in WordRange : b = WordXor(base, heard)
          BY <2>1, XorAssumption
      <4>2. current_state = b % LensCount
          BY <3>2, <4>1 DEF EngineInv, GuessesFoldInputs
      <4>3. WordXor(b % LensCount, input) % LensCount = WordXor(b, input) % LensCount
          BY <2>1, <4>1, XorAssumption
      <4>4. WordXor(b, input) = WordXor(base, h)
          BY <2>1, <2>2, <4>1, XorAssumption
      <4> QED
          BY <4>2, <4>3, <4>4 DEF Guess
    <3> QED
        BY <3>1, <3>2 DEF EngineInv
  <2>6. current_state' \in WordRange
      BY <1>3, <2>4, LowBitsAreWords DEF Speculate
  <2> QED
      BY <1>3, <2>2, <2>5, <2>6, EngineAssumption DEF Speculate, EngineInv, GuessesFoldInputs
<1>4. ASSUME NEW input \in Inputs, LookUp(input) PROVE EngineInv'
  <2>1. input \in WordRange /\ input \in Nat /\ current_state \in WordRange /\ current_state \in Nat
      BY EngineAssumption, XorAssumption DEF EngineInv, WordRange
  <2>2. Transition(current_state, input) \in Nat
      BY <2>1, TransitionIsAddress
  <2>3. PICK atom \in Values \cup {Junk} : atom = Fetch(Transition(current_state, input))
      BY <2>2, FetchIsAtom DEF ManifoldInv
  <2>4. atom.route \in WordRange
      BY RoutesAreWords
  <2>5. Guess(input) \in WordRange
    <3>1. WordXor(current_state, input) \in WordRange
        BY <2>1, XorAssumption
    <3> QED
        BY <3>1, LowBitsAreWords DEF Guess
  <2>6. NextState(atom.route, input) \in WordRange
      BY <2>4, <2>5 DEF NextState
  <2> QED
      BY <1>2, <1>4, <2>3, <2>6 DEF LookUp
<1>5. CASE EngineNext
  <2>1. ASSUME NEW state \in ResetStates, Reset(state) PROVE EngineInv'
      BY <1>2, <2>1, EngineAssumption DEF Reset
  <2>2. ASSUME NEW t \in Transitions, StoreTransition(t) PROVE EngineInv'
      BY <1>1, <2>2 DEF StoreTransition
  <2> QED
      BY <1>3, <1>4, <1>5, <2>1, <2>2 DEF EngineNext, Step
<1> QED
    BY <1>1, <1>5 DEF ClientsNext, clientVars

\* However long the machine runs and whatever it is reset to, it is at most
\* Threshold guesses away from a state that was looked up or set, and the guesses
\* depend on the inputs since then but not on their order.
THEOREM GuessesFold == ClientsSpec => []GuessesFoldInputs
<1>1. ClientsInit => ManifoldInv /\ EngineInv
    BY ManifoldStart, EngineStart DEF ClientsInit
<1>2. ManifoldInv /\ EngineInv /\ [ClientsNext]_clientVars => ManifoldInv' /\ EngineInv'
    BY ManifoldStep, EngineStep
<1>3. EngineInv => GuessesFoldInputs
    BY DEF EngineInv
<1> QED
    BY <1>1, <1>2, <1>3, PTL DEF ClientsSpec

\* A machine that looks up, while the clients' blocks fit the pool, goes where
\* the transition last stored for its state and input says.
THEOREM TablesAreObeyed == ClientsSpec => TableIsObeyed
<1> DEFINE Obeyed ==
        \A input \in Inputs :
          LET due == Owed(Transition(current_state, input))
          IN  LookUp(input) /\ Undisturbed /\ due # None
              => current_state' = IF due.route \in {FREE_ROUTE, ERROR_ROUTE}
                                  THEN Guess(input) ELSE due.route
<1>1. ManifoldInv /\ EngineInv => [Obeyed]_engineVars
  <2> SUFFICES ASSUME ManifoldInv, EngineInv, NEW input \in Inputs, LookUp(input), Undisturbed,
                      Owed(Transition(current_state, input)) # None
               PROVE  current_state' =
                        IF Owed(Transition(current_state, input)).route \in {FREE_ROUTE, ERROR_ROUTE}
                        THEN Guess(input) ELSE Owed(Transition(current_state, input)).route
      OBVIOUS
  <2>1. current_state \in Nat /\ input \in Nat
      BY EngineAssumption, XorAssumption DEF EngineInv, WordRange
  <2>2. Transition(current_state, input) \in Nat
      BY <2>1, TransitionIsAddress
  <2>3. Fetch(Transition(current_state, input)) = Owed(Transition(current_state, input))
      BY <2>2, FetchIsOwed
  <2> QED
      BY <2>3 DEF LookUp, Settle, NextState
<1>2. ClientsInit => ManifoldInv /\ EngineInv
    BY ManifoldStart, EngineStart DEF ClientsInit
<1>3. ManifoldInv /\ EngineInv /\ [ClientsNext]_clientVars => ManifoldInv' /\ EngineInv'
    BY ManifoldStep, EngineStep
<1>4. TableIsObeyed <=> [][Obeyed]_engineVars
    BY DEF TableIsObeyed
<1> QED
    BY <1>1, <1>2, <1>3, <1>4, PTL DEF ClientsSpec

-----------------------------------------------------------------------------
(* The virtual machine *)

\* An exit, while the clients' blocks fit the pool, calls the handler last
\* installed for its reason, and stops the guest only where that atom says so.
THEOREM ExitsReach == ClientsSpec => ExitsReachTheirHandlers
<1> DEFINE Due(reason) == Owed(DispatchVaddr(reason))
           Ends(reason) ==
              Due(reason).route \in {HALT_ROUTE, ERROR_ROUTE} \/ Due(reason).lo = 0
           Reached ==
        \A reason \in Reasons :
          LET due == Owed(DispatchVaddr(reason))
              ends == due.route \in {HALT_ROUTE, ERROR_ROUTE} \/ due.lo = 0
          IN  GuestExit(reason) /\ Undisturbed /\ due # None =>
                /\ is_active' = ~ends
                /\ ~ends => called' = [reason |-> reason, handler |-> due.lo]
<1>1. ManifoldInv => [Reached]_vmVars
  <2> SUFFICES ASSUME ManifoldInv, NEW reason \in Reasons, GuestExit(reason), Undisturbed,
                      Due(reason) # None
               PROVE  /\ is_active' = ~Ends(reason)
                      /\ ~Ends(reason) => called' = [reason |-> reason, handler |-> Due(reason).lo]
      OBVIOUS
  <2>1. DispatchVaddr(reason) \in Nat
      BY PlacesAssumption DEF Addressed
  <2>2. Fetch(DispatchVaddr(reason)) = Due(reason)
      BY <2>1, FetchIsOwed
  <2>3. Stops(Due(reason)) <=> Ends(reason)
      BY DEF Stops
  <2>4. is_active
      BY DEF GuestExit
  <2>5. \/ Stops(Due(reason)) /\ is_active' = FALSE
        \/ /\ ~Stops(Due(reason)) /\ is_active' = is_active
           /\ called' = [reason |-> reason, handler |-> Due(reason).lo]
      BY <2>2 DEF GuestExit
  <2> QED
      BY <2>3, <2>4, <2>5
<1>2. ExitsReachTheirHandlers <=> [][Reached]_vmVars
    BY DEF ExitsReachTheirHandlers
<1> QED
    BY <1>1, <1>2, ManifoldInvariant, PTL

-----------------------------------------------------------------------------
(* The logic transducer *)

ChainStates == [last : WordRange, fault : BOOLEAN]
WalkStates == [last : WordRange, end : {"none", "open", "fault"}]

\* A link leads from state to state, wherever its address lies.
LEMMA LinkType ==
    ASSUME TypeOK, NEW st \in ChainStates, NEW word \in WordRange
    PROVE  Link(st, word) \in ChainStates
<1>1. st.last \in WordRange /\ st.fault \in BOOLEAN
    BY DEF ChainStates
<1>2. PICK x \in WordRange : x = WordXor(st.last, word)
    BY <1>1, XorAssumption
<1>3. PICK atom \in Values \cup {Junk} : atom = Fetch(x)
    BY FetchIsAtom, XorAssumption DEF WordRange
<1>4. atom.lo \in WordRange
    BY XorAssumption
<1> QED
    BY <1>2, <1>3, <1>4 DEF Link, ChainStates

LEMMA PaceType ==
    ASSUME HistoryOK, NEW st \in WalkStates, NEW word \in WordRange
    PROVE  Pace(st, word) \in WalkStates
<1>1. st.last \in WordRange /\ st.end \in {"none", "open", "fault"}
    BY DEF WalkStates
<1>2. PICK x \in WordRange : x = WordXor(st.last, word)
    BY <1>1, XorAssumption
<1>3. x \in Nat
    BY XorAssumption DEF WordRange
<1>4. PICK due \in Values \cup {None} : due = Owed(x)
    BY <1>3, AtomIsAtom, DataAssumption DEF Owed, HistoryOK
<1>5. due # None => due.lo \in WordRange
    BY XorAssumption
<1> QED
    BY <1>2, <1>4, <1>5 DEF Pace, WalkStates

\* The states of a chain and of a walk, one round after another.
LEMMA LinksAre ==
    ASSUME TypeOK, NEW script \in Seq(WordRange)
    PROVE  /\ Links(script)[0] = [last |-> 0, fault |-> FALSE]
           /\ \A n \in 1 .. Len(script) :
                 Links(script)[n] = Link(Links(script)[n - 1], script[n])
<1> DEFINE start == [last |-> 0, fault |-> FALSE]
           Round(f) == [n \in 0 .. Len(script) |->
                           IF n = 0 THEN start ELSE Link(f[n - 1], script[n])]
<1>1. Links(script) = CHOOSE f : f = Round(f)
    BY DEF Links
<1>2. PICK N \in Nat : N = Len(script)
    OBVIOUS
<1>3. PICK s \in ChainStates : s = start
  <2>1. 0 \in WordRange
      BY XorAssumption, AddressAssumption DEF WordRange
  <2>2. start \in ChainStates
      BY <2>1 DEF ChainStates
  <2> QED
      BY <2>2
<1>4. PICK step : step = [p \in ChainStates \X (1 .. N) |-> Link(p[1], script[p[2]])]
    OBVIOUS
<1>5. IsStep(step, ChainStates, N)
    BY <1>2, <1>4, LinkType DEF IsStep
<1>6. PICK f : IsWalk(f, s, N, step, ChainStates)
    BY <1>5, WalkExists
<1>7. ASSUME NEW n \in 1 .. N PROVE f[n] = Link(f[n - 1], script[n])
  <2>1. f[n - 1] \in ChainStates /\ f[n] = step[<<f[n - 1], n>>]
      BY <1>6 DEF IsWalk
  <2> QED
      BY <1>4, <2>1
<1>8. f = Round(f)
    BY <1>2, <1>3, <1>6, <1>7 DEF IsWalk
<1>9. Links(script) = Round(Links(script))
  <2> HIDE DEF Round
  <2> QED
      BY <1>1, <1>8
<1>10. PICK g : g = Links(script)
    OBVIOUS
<1>11. g = [n \in 0 .. N |-> IF n = 0 THEN start ELSE Link(g[n - 1], script[n])]
    BY <1>2, <1>9, <1>10
<1>12. ASSUME NEW n \in 1 .. N PROVE g[n] = Link(g[n - 1], script[n])
  <2>1. n \in 0 .. N /\ n # 0
      OBVIOUS
  <2> QED
      BY <1>11, <2>1
<1>13. g[0] = start
    BY <1>11
<1> QED
    BY <1>2, <1>10, <1>12, <1>13

LEMMA PacesAre ==
    ASSUME HistoryOK, NEW script \in Seq(WordRange)
    PROVE  /\ Paces(script)[0] = [last |-> 0, end |-> "none"]
           /\ \A n \in 1 .. Len(script) :
                 Paces(script)[n] = Pace(Paces(script)[n - 1], script[n])
<1> DEFINE start == [last |-> 0, end |-> "none"]
           Round(f) == [n \in 0 .. Len(script) |->
                           IF n = 0 THEN start ELSE Pace(f[n - 1], script[n])]
<1>1. Paces(script) = CHOOSE f : f = Round(f)
    BY DEF Paces
<1>2. PICK N \in Nat : N = Len(script)
    OBVIOUS
<1>3. PICK s \in WalkStates : s = start
  <2>1. 0 \in WordRange
      BY XorAssumption, AddressAssumption DEF WordRange
  <2>2. start \in WalkStates
      BY <2>1 DEF WalkStates
  <2> QED
      BY <2>2
<1>4. PICK step : step = [p \in WalkStates \X (1 .. N) |-> Pace(p[1], script[p[2]])]
    OBVIOUS
<1>5. IsStep(step, WalkStates, N)
    BY <1>2, <1>4, PaceType DEF IsStep
<1>6. PICK f : IsWalk(f, s, N, step, WalkStates)
    BY <1>5, WalkExists
<1>7. ASSUME NEW n \in 1 .. N PROVE f[n] = Pace(f[n - 1], script[n])
  <2>1. f[n - 1] \in WalkStates /\ f[n] = step[<<f[n - 1], n>>]
      BY <1>6 DEF IsWalk
  <2> QED
      BY <1>4, <2>1
<1>8. f = Round(f)
    BY <1>2, <1>3, <1>6, <1>7 DEF IsWalk
<1>9. Paces(script) = Round(Paces(script))
  <2> HIDE DEF Round
  <2> QED
      BY <1>1, <1>8
<1>10. PICK g : g = Paces(script)
    OBVIOUS
<1>11. g = [n \in 0 .. N |-> IF n = 0 THEN start ELSE Pace(g[n - 1], script[n])]
    BY <1>2, <1>9, <1>10
<1>12. ASSUME NEW n \in 1 .. N PROVE g[n] = Pace(g[n - 1], script[n])
  <2>1. n \in 0 .. N /\ n # 0
      OBVIOUS
  <2> QED
      BY <1>11, <2>1
<1>13. g[0] = start
    BY <1>11
<1> QED
    BY <1>2, <1>10, <1>12, <1>13

\* A chain goes where the walk goes, as long as the walk is not open.
Agree(chain, walk) ==
    walk.end # "open" => chain = [last |-> walk.last, fault |-> walk.end = "fault"]

LEMMA LinkFollowsPace ==
    ASSUME ManifoldInv, Undisturbed, NEW chain, NEW walk \in WalkStates,
           NEW word \in WordRange, Agree(chain, walk)
    PROVE  Agree(Link(chain, word), Pace(walk, word))
<1>1. walk.last \in WordRange /\ walk.end \in {"none", "open", "fault"}
    BY DEF WalkStates
<1>2. CASE walk.end = "open"
    BY <1>2 DEF Agree, Pace
<1>3. CASE walk.end = "fault"
  <2>1. Pace(walk, word) = walk
      BY <1>3 DEF Pace
  <2>2. chain = [last |-> walk.last, fault |-> TRUE]
      BY <1>3, Zenon DEF Agree
  <2>3. Link(chain, word) = chain
      BY <2>2 DEF Link
  <2> QED
      BY <2>1, <2>3
<1>4. CASE walk.end = "none"
  <2>1. PICK x \in WordRange : x = WordXor(walk.last, word)
      BY <1>1, XorAssumption
  <2>2. chain = [last |-> walk.last, fault |-> FALSE]
      BY <1>4 DEF Agree
  <2>3. CASE Owed(x) = None
      BY <1>4, <2>1, <2>3 DEF Pace, Agree, WalkStates
  <2>4. CASE Owed(x) # None
    <3>1. Fetch(x) = Owed(x)
        BY <2>4, FetchIsOwed, XorAssumption DEF WordRange
    <3>2. PICK due : due = Owed(x)
        OBVIOUS
    <3>3. CASE due = Zero
      <4>1. Pace(walk, word) = [walk EXCEPT !.end = "fault"]
          BY <1>4, <2>1, <2>4, <3>2, <3>3 DEF Pace
      <4>2. Link(chain, word) = [chain EXCEPT !.fault = TRUE]
          BY <2>1, <2>2, <3>1, <3>2, <3>3 DEF Link
      <4> QED
          BY <2>2, <4>1, <4>2 DEF Agree, WalkStates
    <3>4. CASE due # Zero
      <4>1. Pace(walk, word) = [walk EXCEPT !.last = due.lo]
          BY <1>4, <2>1, <2>4, <3>2, <3>4 DEF Pace
      <4>2. Link(chain, word) = [chain EXCEPT !.last = due.lo]
          BY <2>1, <2>2, <3>1, <3>2, <3>4 DEF Link
      <4> QED
          BY <1>4, <2>2, <4>1, <4>2 DEF Agree, WalkStates
    <3> QED
        BY <3>3, <3>4
  <2> QED
      BY <2>3, <2>4
<1> QED
    BY <1>1, <1>2, <1>3, <1>4

LEMMA ChainFollowsWalk ==
    ASSUME ManifoldInv, Undisturbed, NEW script \in Seq(WordRange)
    PROVE  Agree(ResolveChain(script), Walk(script))
<1>1. TypeOK /\ HistoryOK
    BY DEF ManifoldInv
<1>2. PICK N \in Nat : N = Len(script)
    OBVIOUS
<1>3. PICK chain, walk : chain = Links(script) /\ walk = Paces(script)
    OBVIOUS
<1>4. /\ chain[0] = [last |-> 0, fault |-> FALSE]
      /\ \A n \in 1 .. N : chain[n] = Link(chain[n - 1], script[n])
    BY <1>1, <1>2, <1>3, LinksAre
<1>5. /\ walk[0] = [last |-> 0, end |-> "none"]
      /\ \A n \in 1 .. N : walk[n] = Pace(walk[n - 1], script[n])
    BY <1>1, <1>2, <1>3, PacesAre
<1> DEFINE P == {n \in 0 .. N : walk[n] \in WalkStates /\ Agree(chain[n], walk[n])}
<1>6. 0 \in P
  <2>1. 0 \in WordRange
      BY XorAssumption, AddressAssumption DEF WordRange
  <2>2. walk[0] \in WalkStates
      BY <1>5, <2>1 DEF WalkStates
  <2>3. Agree(chain[0], walk[0])
    <3>1. walk[0].last = 0 /\ walk[0].end = "none"
        BY <1>5
    <3>2. (walk[0].end = "fault") = FALSE
        BY <3>1
    <3>3. chain[0] = [last |-> walk[0].last, fault |-> walk[0].end = "fault"]
        BY <1>4, <3>1, <3>2
    <3> QED
        BY <3>3 DEF Agree
  <2> QED
      BY <2>2, <2>3
<1>7. ASSUME NEW n \in 1 .. N, n - 1 \in P PROVE n \in P
  <2>1. script[n] \in WordRange
      BY <1>2
  <2>2. walk[n] \in WalkStates
      BY <1>1, <1>5, <1>7, <2>1, PaceType
  <2>3. Agree(chain[n], walk[n])
      BY <1>4, <1>5, <1>7, <2>1, LinkFollowsPace
  <2> QED
      BY <2>2, <2>3
<1>8. N \in P
  <2> HIDE DEF P
  <2>1. \A n \in 0 .. N : n \in P
      BY <1>6, <1>7, AllTheWay
  <2> QED
      BY <2>1
<1> QED
    BY <1>2, <1>3, <1>8 DEF ResolveChain, Walk

\* While the clients' blocks fit the pool, a chain resolves to the composition of
\* what was last burnt at its links, and both halves of a round to what was burnt
\* for their operands.
THEOREM ChainsResolveExactly == ClientsSpec => []ResolutionsAreExact
<1>1. ManifoldInv => ResolutionsAreExact
  <2> SUFFICES ASSUME ManifoldInv, Undisturbed PROVE ResolutionsAreExact
      BY DEF ResolutionsAreExact
  <2>1. ASSUME NEW script \in Scripts, Walk(script).end # "open"
        PROVE  ResolveChain(script) = [last |-> Walk(script).last, fault |-> Walk(script).end = "fault"]
      BY <2>1, TransducerAssumption, ChainFollowsWalk DEF Agree
  <2>2. ASSUME NEW a \in Operands, NEW b \in Operands,
               Owed(SpatialSpan + WordXor(a, b)) # None, NEW i \in 1 .. 2
        PROVE  AesRound(<<a, a>>, <<b, b>>)[i] = Owed(SpatialSpan + WordXor(a, b)).lo
    <3>1. PICK x \in Nat : x = WordXor(a, b)
        BY XorAssumption, TransducerAssumption DEF WordRange
    <3>2. SpatialSpan + x \in Nat /\ 1 * SpatialSpan + x = SpatialSpan + x
        BY TransducerAssumption
    <3>3. Fetch(SpatialSpan + x) = Owed(SpatialSpan + x)
        BY <2>2, <3>1, <3>2, FetchIsOwed
    <3>4. AesRound(<<a, a>>, <<b, b>>)[i] = Fetch(1 * SpatialSpan + x).lo
        BY <3>1 DEF AesRound, ResolveSpatial
    <3> QED
        BY <3>1, <3>2, <3>3, <3>4
  <2> QED
      BY <2>1, <2>2 DEF ResolutionsAreExact
<1> QED
    BY <1>1, ManifoldInvariant, PTL

\* The places of a name in a table.
Places(table, name) == {i \in 1 .. Len(table) : table[i].name = name}

\* Where the scan of get_hook_coordinate stops.
FirstPlace(table, name) == SelectInSeq(table, LAMBDA entry : entry.name = name)

\* The scan finds the first place of a name, or none.
LEMMA ScanFindsFirst ==
    ASSUME NEW W, NEW table \in Seq(W), NEW name
    PROVE  IF Places(table, name) = {} THEN FirstPlace(table, name) = 0
           ELSE /\ FirstPlace(table, name) \in Places(table, name)
                /\ \A j \in Places(table, name) : FirstPlace(table, name) <= j
<1> DEFINE I == Places(table, name)
<1>1. FirstPlace(table, name) = IF I # {} THEN Min(I) ELSE 0
    BY DEF FirstPlace, SelectInSeq, Places
<1>2. ASSUME I # {} PROVE Min(I) \in I /\ \A j \in I : Min(I) <= j
  <2>1. I \subseteq Nat
      BY DEF Places
  <2> HIDE DEF I
  <2>2. \E x \in I : \A y \in I : x <= y
      BY <1>2, <2>1, LeastNatural
  <2> QED
      BY <2>2 DEF Min
<1> QED
    BY <1>1, <1>2

Entries == [name : {Truncated(name) : name \in Names}, coordinate : Coordinates]

TableOK == symbol_table \in Seq(Entries)

\* The table grows by one entry at a time, at its end.
LEMMA TableGrows ==
    ASSUME [ClientsNext]_clientVars
    PROVE  \/ symbol_table' = symbol_table
           \/ \E entry \in Entries : symbol_table' = Append(symbol_table, entry)
<1>1. ASSUME NEW name \in Names, NEW coord \in Coordinates, RegisterHook(name, coord)
      PROVE  \E entry \in Entries : symbol_table' = Append(symbol_table, entry)
  <2>1. [name |-> Truncated(name), coordinate |-> coord] \in Entries
      BY DEF Entries
  <2> QED
      BY <1>1, <2>1 DEF RegisterHook
<1>2. CASE TransducerNext
    BY <1>1, <1>2 DEF TransducerNext, BurnAtom
<1> QED
    BY <1>2 DEF ClientsNext, clientVars

LEMMA TableStep == TableOK /\ [ClientsNext]_clientVars => TableOK'
<1> SUFFICES ASSUME TableOK, [ClientsNext]_clientVars PROVE TableOK'
    OBVIOUS
<1>1. CASE symbol_table' = symbol_table
    BY <1>1 DEF TableOK
<1>2. ASSUME NEW entry \in Entries, symbol_table' = Append(symbol_table, entry)
      PROVE  TableOK'
    BY <1>2, AppendProperties DEF TableOK
<1> QED
    BY <1>1, <1>2, TableGrows

\* A name that is found keeps its coordinate, whatever is registered after it.
THEOREM HooksStay == ClientsSpec => HooksKeep
<1> DEFINE Keeps ==
        \A name \in Names :
            HookCoordinate(name) # 0 => HookCoordinate(name)' = HookCoordinate(name)
<1>1. TableOK /\ [ClientsNext]_clientVars => [Keeps]_symbol_table
  <2> SUFFICES ASSUME TableOK, [ClientsNext]_clientVars,
                      symbol_table' # symbol_table,
                      NEW name \in Names, HookCoordinate(name) # 0
               PROVE  HookCoordinate(name)' = HookCoordinate(name)
      OBVIOUS
  <2>1. PICK entry \in Entries : symbol_table' = Append(symbol_table, entry)
      BY TableGrows
  <2>2. PICK old \in Seq(Entries), new \in Seq(Entries) :
            old = symbol_table /\ new = symbol_table' /\ new = Append(old, entry)
      BY <2>1, AppendProperties DEF TableOK
  <2>3. /\ Len(old) \in Nat /\ Len(new) = Len(old) + 1
        /\ \A i \in 1 .. Len(old) : new[i] = old[i]
      BY <2>2, AppendProperties
  <2>4. PICK i : i = FirstPlace(old, name)
      OBVIOUS
  <2>5. HookCoordinate(name) = IF i = 0 THEN 0 ELSE old[i].coordinate
      BY <2>2, <2>4 DEF HookCoordinate, FirstPlace
  <2>6. i \in Places(old, name) /\ \A j \in Places(old, name) : i <= j
      BY <2>4, <2>5, ScanFindsFirst
  <2>7. i \in Places(new, name) /\ \A j \in Places(new, name) : i <= j
      BY <2>3, <2>6 DEF Places
  <2>8. PICK k : k = FirstPlace(new, name)
      OBVIOUS
  <2>9. k \in Places(new, name) /\ \A j \in Places(new, name) : k <= j
      BY <2>7, <2>8, ScanFindsFirst
  <2>10. k = i /\ i \in 1 .. Len(old)
      BY <2>6, <2>7, <2>9 DEF Places
  <2>11. HookCoordinate(name)' = IF k = 0 THEN 0 ELSE new[k].coordinate
      BY <2>2, <2>8 DEF HookCoordinate, FirstPlace, SelectInSeq
  <2> QED
      BY <2>3, <2>5, <2>10, <2>11
<1>2. ClientsInit => TableOK
    BY EmptySeq DEF ClientsInit, TransducerInit, TableOK
<1>3. HooksKeep <=> [][Keeps]_symbol_table
    BY DEF HooksKeep
<1> QED
    BY <1>1, <1>2, <1>3, TableStep, PTL DEF ClientsSpec

-----------------------------------------------------------------------------
(* The machines the clients implement *)

\* The memory of ClientMachines: what was last stored in the blocks in use.
InUse == [vb \in touched |-> stored[vb]]

\* What a client fetches is what may be read at the place of the address.
LEMMA FetchIsReadable ==
    ASSUME ManifoldInv, NEW vaddr \in Nat
    PROVE  Fetch(vaddr) \in Machines!Readable(Place(vaddr))
<1>1. PICK vb, a : vb = BlockOf(vaddr) /\ a = AtomOf(vaddr)
    OBVIOUS
<1>2. PICK got : got = Fetch(vaddr)
    OBVIOUS
<1>3. got \in Values \cup {Junk}
    BY <1>2, FetchIsAtom DEF ManifoldInv
<1>4. Undisturbed /\ Owed(vaddr) # None => got = Owed(vaddr)
    BY <1>2, FetchIsOwed
<1>5. Owed(vaddr) = IF vb \notin touched THEN Zero ELSE stored[vb][a]
    BY <1>1 DEF Owed
<1>6. PICK w : w = InUse
    OBVIOUS
<1>7. DOMAIN w = touched /\ \A b \in touched : w[b] = stored[b]
    BY <1>6 DEF InUse
<1>8. Zero # None
    BY DataAssumption, AddressAssumption
<1>9. PICK kept : kept = Undisturbed
    OBVIOUS
<1>10. Machines!Kept = (sound /\ Cardinality(DOMAIN w) <= PoolSize)
  <2>1. Machines!Kept = (sound /\ Machines!Cardinality(DOMAIN w) <= PoolSize)
      BY <1>6 DEF Machines!Kept, InUse
  <2>2. Machines!Cardinality(DOMAIN w) = Cardinality(DOMAIN w)
      BY DEF Cardinality, Machines!Cardinality
  <2> QED
      BY <2>1, <2>2
<1>11. Machines!Readable(Place(vaddr)) =
          IF Machines!Kept /\ vb \notin DOMAIN w THEN {Zero}
          ELSE IF Machines!Kept /\ w[vb][a] # None THEN {w[vb][a]}
          ELSE Values \cup {Junk}
    BY <1>1, <1>6 DEF Machines!Readable, Place, InUse
<1>12. Machines!Kept = Undisturbed
    BY <1>7, <1>10 DEF Undisturbed
<1>13. CASE Undisturbed /\ vb \notin touched
    BY <1>2, <1>4, <1>5, <1>7, <1>8, <1>11, <1>12, <1>13
<1>14. CASE Undisturbed /\ vb \in touched /\ w[vb][a] # None
    BY <1>2, <1>4, <1>5, <1>7, <1>11, <1>12, <1>14
<1>15. CASE ~ Undisturbed \/ (vb \in touched /\ w[vb][a] = None)
    BY <1>2, <1>3, <1>7, <1>11, <1>12, <1>15
<1> QED
    BY <1>7, <1>13, <1>14, <1>15

\* Whichever client stores, the memory takes it.
LEMMA StorePuts ==
    ASSUME ManifoldInv, NEW vaddr, NEW count, NEW value \in Values,
           Addressed(vaddr, count), Store(vaddr, count, value),
           UNCHANGED <<symbol_table, current_state, chaos_accumulator, called>>,
           is_active' \in {is_active, TRUE}
    PROVE  Machines!Next
<1>1. PICK vb \in VBlocks, e \in Extents :
          vb = BlockOf(vaddr) /\ e = <<AtomOf(vaddr), count>>
    BY DEF Addressed
<1>2. /\ touched' = touched \cup {vb}
      /\ stored' = [stored EXCEPT ![vb] =
                       [a \in Atoms |-> IF a \in OwnAtoms(e) THEN value ELSE @[a]]]
      /\ sound' = (sound /\ e[1] + e[2] <= BlockAtoms)
    BY <1>1 DEF Store
<1>3. HistoryOK
    BY DEF ManifoldInv
<1>4. PICK old : old = IF vb \in touched THEN stored[vb] ELSE [a \in 0 .. BlockAtoms - 1 |-> None]
    OBVIOUS
<1>5. \A a \in Atoms : old[a] = stored[vb][a]
    BY <1>3, <1>4 DEF HistoryOK, Atoms
<1>6. stored'[vb] = Machines!Stored(old, e, value)
  <2>1. stored'[vb] = [a \in Atoms |-> IF a \in OwnAtoms(e) THEN value ELSE stored[vb][a]]
      BY <1>2, <1>3 DEF HistoryOK
  <2> QED
      BY <1>5, <2>1 DEF Machines!Stored, Atoms, OwnAtoms
<1>7. \A b \in touched : b # vb => stored'[b] = stored[b]
    BY <1>2, <1>3 DEF HistoryOK
<1>8. InUse' = [b \in touched \cup {vb} |-> stored'[b]]
    BY <1>2 DEF InUse
<1>9. DOMAIN InUse = touched /\ \A b \in touched : InUse[b] = stored[b]
    BY DEF InUse
<1>10. Machines!ChangesOnly(vb)
  <2>1. DOMAIN InUse' = DOMAIN InUse \cup {vb}
      BY <1>8, <1>9
  <2>2. ASSUME NEW b \in DOMAIN InUse \ {vb} PROVE InUse'[b] = InUse[b]
      BY <1>7, <1>8, <1>9, <2>2
  <2> QED
      BY <2>1, <2>2 DEF Machines!ChangesOnly, InUse
<1>11. Machines!Put(vb, e, value)
  <2>1. InUse'[vb] = Machines!Stored(old, e, value)
      BY <1>6, <1>8
  <2> QED
      BY <1>4, <1>9, <2>1 DEF Machines!Put, InUse
<1>12. UNCHANGED Directory(symbol_table)
    OBVIOUS
<1>13. Machines!Store
    BY <1>2, <1>10, <1>11, <1>12 DEF Machines!Store
<1> QED
    BY <1>13 DEF Machines!Next

\* The names that have an entry; what a search for a title finds; and when an
\* append leaves it alone.
TitlesIn(table) == {table[i].name : i \in DOMAIN table}
Found(table, title) == table[FirstPlace(table, title)]
Finds(old, new, entry, title) ==
    /\ title \in TitlesIn(new) <=> title \in TitlesIn(old) \/ title = entry.name
    /\ title \in TitlesIn(old) => Found(new, title) = Found(old, title)
    /\ title \notin TitlesIn(old) /\ title = entry.name => Found(new, title) = entry

LEMMA FirstPlaceStays ==
    ASSUME NEW old \in Seq(Entries), NEW entry \in Entries,
           NEW new, new = Append(old, entry), NEW title
    PROVE  Finds(old, new, entry, title)
<1>1. PICK n \in Nat : n = Len(old)
    OBVIOUS
<1>2. /\ new \in Seq(Entries) /\ Len(new) = n + 1 /\ new[n + 1] = entry
      /\ \A i \in 1 .. n : new[i] = old[i]
    BY <1>1, AppendProperties
<1>3. DOMAIN old = 1 .. n /\ DOMAIN new = 1 .. n + 1
    BY <1>1, <1>2
<1>4. /\ Places(old, title) = {i \in 1 .. n : old[i].name = title}
      /\ Places(new, title) = {i \in 1 .. n + 1 : new[i].name = title}
    BY <1>1, <1>2 DEF Places
<1>5. PICK i, k : i = FirstPlace(old, title) /\ k = FirstPlace(new, title)
    OBVIOUS
<1>6. title \in TitlesIn(new) <=> title \in TitlesIn(old) \/ title = entry.name
    BY <1>2, <1>3 DEF TitlesIn
<1>7. ASSUME title \in TitlesIn(old) PROVE new[k] = old[i]
  <2>1. Places(old, title) # {}
      BY <1>3, <1>4, <1>7 DEF TitlesIn
  <2>2. i \in Places(old, title) /\ \A j \in Places(old, title) : i <= j
      BY <1>5, <2>1, ScanFindsFirst
  <2>3. i \in Places(new, title) /\ \A j \in Places(new, title) : i <= j
      BY <1>2, <1>4, <2>2
  <2>4. k \in Places(new, title) /\ \A j \in Places(new, title) : k <= j
      BY <1>2, <1>5, <2>3, ScanFindsFirst
  <2>5. i \in 1 .. n /\ k \in 1 .. n + 1
    <3>1. Places(old, title) \subseteq 1 .. n /\ Places(new, title) \subseteq 1 .. n + 1
        BY <1>4
    <3> QED
        BY <2>2, <2>4, <3>1
  <2>6. i <= k /\ k <= i
      BY <2>3, <2>4
  <2>7. k = i
      BY <2>5, <2>6
  <2> QED
      BY <1>2, <2>5, <2>7
<1>8. ASSUME title \notin TitlesIn(old), title = entry.name PROVE new[k] = entry
  <2>1. \A j \in 1 .. n : new[j].name # title
      BY <1>2, <1>3, <1>8 DEF TitlesIn
  <2>2. n + 1 \in Places(new, title)
      BY <1>2, <1>4, <1>8
  <2>3. k \in Places(new, title)
      BY <1>2, <1>5, <2>2, ScanFindsFirst
  <2>4. k \in 1 .. n + 1 /\ new[k].name = title
      BY <1>4, <2>3
  <2>5. ~(k \in 1 .. n)
      BY <2>1, <2>4
  <2>6. k = n + 1
    <3>1. k \in 1 .. n + 1
        BY <2>4
    <3> QED
        BY <2>5, <3>1
  <2> QED
      BY <1>2, <2>6
<1> QED
    BY <1>5, <1>6, <1>7, <1>8 DEF Finds, Found

\* A registration enters a name that is not there yet, and changes no other.
LEMMA RegisterEnters ==
    ASSUME TableOK, NEW name \in Names, NEW coord \in Coordinates, RegisterHook(name, coord),
           UNCHANGED <<engineVars, vmVars>>
    PROVE  Machines!Register(Truncated(name), coord)
<1>1. PICK title : title = Truncated(name)
    OBVIOUS
<1>2. PICK entry \in Entries :
          /\ entry = [name |-> title, coordinate |-> coord]
          /\ symbol_table' = Append(symbol_table, entry)
    BY <1>1 DEF RegisterHook, Entries
<1>3. entry.name = title /\ entry.coordinate = coord
    BY <1>2
<1>4. PICK old, new : old \in Seq(Entries) /\ old = symbol_table /\ new = symbol_table'
    BY DEF TableOK
<1>5. new = Append(old, entry)
    BY <1>2, <1>4
<1>6. PICK d, e : d = Directory(old) /\ e = Directory(new)
    OBVIOUS
<1>7. /\ d = [t \in TitlesIn(old) |-> Found(old, t).coordinate]
      /\ e = [t \in TitlesIn(new) |-> Found(new, t).coordinate]
    BY <1>6 DEF Directory, TitlesIn, FirstPlace, Found
<1>8. ASSUME NEW t PROVE Finds(old, new, entry, t)
  <2>1. old \in Seq(Entries) /\ entry \in Entries /\ new = Append(old, entry)
      BY <1>2, <1>4, <1>5
  <2> QED
      BY <2>1, FirstPlaceStays
<1>9. TitlesIn(new) = TitlesIn(old) \cup {title}
  <2>1. ASSUME NEW t PROVE t \in TitlesIn(new) <=> t \in TitlesIn(old) \/ t = title
      BY <1>3, <1>8 DEF Finds
  <2> QED
      BY <2>1
<1>10. ASSUME NEW t \in TitlesIn(new)
       PROVE  Found(new, t).coordinate = IF t \in TitlesIn(old) THEN d[t] ELSE coord
  <2>1. Finds(old, new, entry, t)
      BY <1>8
  <2>2. CASE t \in TitlesIn(old)
    <3>1. Found(new, t) = Found(old, t)
        BY <2>1, <2>2 DEF Finds
    <3> QED
        BY <1>7, <2>2, <3>1
  <2>3. CASE t \notin TitlesIn(old)
    <3>1. t = title
        BY <1>9, <1>10, <2>3
    <3>2. Found(new, t) = entry
        BY <1>3, <2>1, <2>3, <3>1 DEF Finds
    <3> QED
        BY <1>3, <2>3, <3>2
  <2> QED
      BY <2>2, <2>3
<1>11. e = [t \in DOMAIN d \cup {title} |-> IF t \in DOMAIN d THEN d[t] ELSE coord]
  <2>1. DOMAIN d = TitlesIn(old)
      BY <1>7
  <2> QED
      BY <1>7, <1>9, <1>10, <2>1
<1>12. UNCHANGED <<touched, stored, sound, engineVars, vmVars>>
    BY DEF RegisterHook, addressedVars
<1>13. Directory(symbol_table)' = e
  <2>1. Directory(symbol_table)' = Directory(new)
      BY <1>4 DEF Directory, SelectInSeq
  <2> QED
      BY <1>6, <2>1
<1> QED
    BY <1>1, <1>4, <1>6, <1>11, <1>12, <1>13 DEF Machines!Register, engineVars, vmVars

\* What the state engine does is a move of its machine.
LEMMA EngineMoves ==
    ASSUME ManifoldInv, EngineInv, EngineNext, UNCHANGED <<symbol_table, vmVars>>
    PROVE  Machines!Next
<1>1. ASSUME NEW input \in Inputs, Speculate(input) PROVE Machines!Guess(input)
  <2>1. UNCHANGED <<touched, stored, sound, symbol_table, is_active, called>>
      BY <1>1 DEF Speculate, addressedVars, vmVars
  <2> QED
      BY <1>1, <2>1 DEF Speculate, Guess, Machines!Guess, Machines!Guessed, Machines!Move
<1>2. ASSUME NEW state, Settle(state) PROVE Machines!Move(state, 0)
  <2>1. UNCHANGED <<touched, stored, sound, symbol_table, is_active, called>>
      BY <1>2 DEF Settle, addressedVars, vmVars
  <2> QED
      BY <1>2, <2>1 DEF Settle, Machines!Move
<1>3. ASSUME NEW input \in Inputs, LookUp(input) PROVE Machines!LookUp(input)
  <2>1. current_state \in Nat /\ input \in Nat
      BY EngineAssumption, XorAssumption DEF EngineInv, WordRange
  <2>2. PICK vaddr \in Nat : vaddr = Transition(current_state, input)
      BY <2>1, TransitionIsAddress
  <2>3. PICK t : t = Fetch(vaddr)
      OBVIOUS
  <2>4. t \in Machines!Readable(TransitionPlace(current_state, input))
      BY <2>2, <2>3, FetchIsReadable DEF TransitionPlace
  <2>5. Settle(NextState(t.route, input))
      BY <1>3, <2>2, <2>3 DEF LookUp
  <2>6. NextState(t.route, input) =
           IF t.route \in {LensCount - 2, LensCount - 3} THEN Machines!Guessed(input) ELSE t.route
      BY DEF NextState, FREE_ROUTE, ERROR_ROUTE, Guess, Machines!Guessed
  <2>7. chaos_accumulator = Threshold
      BY <1>3, EngineAssumption DEF LookUp, EngineInv, GuessesFoldInputs
  <2>8. Machines!Move(IF t.route \in {LensCount - 2, LensCount - 3}
                      THEN Machines!Guessed(input) ELSE t.route, 0)
      BY <1>2, <2>5, <2>6
  <2> QED
      BY <2>4, <2>7, <2>8 DEF Machines!LookUp
<1>4. ASSUME NEW state \in ResetStates, Reset(state) PROVE Machines!Next
    BY <1>2, <1>4 DEF Reset, Machines!Next
<1>5. ASSUME NEW t \in Transitions, StoreTransition(t) PROVE Machines!Next
    BY <1>5, EngineAssumption, TransitionAssumption, StorePuts
    DEF StoreTransition, engineVars, vmVars
<1> QED
    BY <1>1, <1>3, <1>4, <1>5 DEF EngineNext, Step, Machines!Next

\* What the virtual machine does is a store or an exit of its guest.
LEMMA GuestExits ==
    ASSUME ManifoldInv, VmNext, UNCHANGED <<symbol_table, engineVars>>
    PROVE  Machines!Next
<1>1. ASSUME NEW atoms \in ImageSizes, LoadGuest(atoms) PROVE Machines!Next
    BY <1>1, MachineAssumption, PlacesAssumption, StorePuts DEF LoadGuest, engineVars
<1>2. ASSUME NEW reason \in Reasons, NEW h \in Handlers, InstallHandler(reason, h)
      PROVE  Machines!Next
    BY <1>2, MachineAssumption, PlacesAssumption, StorePuts DEF InstallHandler, engineVars, vmVars
<1>3. ASSUME NEW reason \in Reasons, GuestExit(reason) PROVE Machines!Exit(reason)
  <2>1. PICK vaddr \in Nat : vaddr = DispatchVaddr(reason)
      BY PlacesAssumption DEF Addressed
  <2>2. PICK h : h = Fetch(vaddr)
      OBVIOUS
  <2>3. h \in Machines!Readable(HandlerPlace(reason))
      BY <2>1, <2>2, FetchIsReadable DEF HandlerPlace
  <2>4. Stops(h) <=> Machines!Ends(h)
      BY DEF Stops, Machines!Ends, HALT_ROUTE, ERROR_ROUTE
  <2>5. /\ is_active /\ is_active' = ~Stops(h)
        /\ called' = [reason |-> reason, handler |-> IF Stops(h) THEN None ELSE h.lo]
      BY <1>3, <2>1, <2>2 DEF GuestExit
  <2>6. UNCHANGED <<touched, stored, sound, symbol_table, current_state, chaos_accumulator>>
      BY <1>3 DEF GuestExit, addressedVars, engineVars
  <2>7. is_active' = ~Machines!Ends(h)
      BY <2>4, <2>5
  <2>8. called' = [reason |-> reason, handler |-> IF Machines!Ends(h) THEN None ELSE h.lo]
      BY <2>4, <2>5
  <2> QED
      BY <2>3, <2>5, <2>6, <2>7, <2>8 DEF Machines!Exit
<1> QED
    BY <1>1, <1>2, <1>3 DEF VmNext, Machines!Next

\* A step that leaves what the machines are made of alone is none of theirs.
LEMMA MachinesStutter ==
    ASSUME UNCHANGED <<stored, touched, sound, symbol_table, engineVars, vmVars>>
    PROVE  UNCHANGED Machines!machineVars
    BY DEF engineVars, vmVars, Machines!machineVars

LEMMA MachinesStart == ClientsInit => Machines!Init
<1> SUFFICES ASSUME ClientsInit PROVE Machines!Init
    OBVIOUS
<1>1. touched = {} /\ sound = TRUE /\ symbol_table = <<>>
    BY DEF ClientsInit, AddressedInit, TransducerInit
<1>2. TitlesIn(<<>>) = {}
    BY DEF TitlesIn
<1>3. Directory(symbol_table) = [title \in {} |-> None]
    BY <1>1, <1>2 DEF Directory, TitlesIn
<1>4. [vb \in touched |-> stored[vb]] = [vb \in {} |-> None]
    BY <1>1
<1>5. current_state = 0 /\ chaos_accumulator = 0 /\ is_active = FALSE /\ called = None
    BY DEF ClientsInit, EngineInit, VmInit
<1> QED
    BY <1>1, <1>3, <1>4, <1>5 DEF Machines!Init

\* The clients, sharing one cache, are the machines of ClientMachines on one memory:
\* every lookup, exit and registration is decided by what was last stored, as long as
\* the blocks in use fit the pool, and every store does to that memory what it says.
THEOREM ClientsAreMachines == ClientsSpec => ImplementsMachines
<1>1. ASSUME ManifoldInv, EngineInv, TableOK, [ClientsNext]_clientVars
      PROVE  [Machines!Next]_Machines!machineVars
  <2>1. CASE TransducerNext /\ UNCHANGED <<engineVars, vmVars, faultVars>>
    <3>1. ASSUME NEW intent \in Intents, NEW result \in Results, BurnAtom(intent, result)
          PROVE  Machines!Next
      <4>1. PICK atom \in Values : atom = [route |-> 0, lo |-> result]
          BY TransducerAssumption
      <4>2. Addressed(intent, 1) /\ Store(intent, 1, atom)
          BY <3>1, <4>1, TransducerAssumption DEF BurnAtom
      <4>3. UNCHANGED <<symbol_table, current_state, chaos_accumulator, called, is_active>>
          BY <2>1, <3>1 DEF BurnAtom, engineVars, vmVars
      <4> QED
          BY <1>1, <4>2, <4>3, StorePuts
    <3>2. ASSUME NEW name \in Names, NEW coord \in Coordinates, RegisterHook(name, coord)
          PROVE  Machines!Next
      <4>1. Machines!Register(Truncated(name), coord)
          BY <1>1, <2>1, <3>2, RegisterEnters
      <4> QED
          BY <4>1 DEF Machines!Next
    <3> QED
        BY <2>1, <3>1, <3>2 DEF TransducerNext
  <2>2. CASE EngineNext /\ UNCHANGED <<symbol_table, vmVars, faultVars>>
      BY <1>1, <2>2, EngineMoves
  <2>3. CASE VmNext /\ UNCHANGED <<symbol_table, engineVars, faultVars>>
      BY <1>1, <2>3, GuestExits
  <2>4. CASE FaultNext /\ UNCHANGED <<symbol_table, engineVars, vmVars>>
      BY <2>4, MachinesStutter DEF FaultNext, SetFuzz, InvalidOpcode, addressedVars
  <2>5. CASE TouchSlot /\ UNCHANGED <<symbol_table, engineVars, vmVars, faultVars>>
    <3>1. Machines!Spoil
        BY <2>5 DEF TouchSlot, Machines!Spoil, engineVars, vmVars
    <3> QED
        BY <3>1 DEF Machines!Next
  <2>6. CASE UNCHANGED clientVars
      BY <2>6, MachinesStutter DEF clientVars, addressedVars
  <2> QED
      BY <1>1, <2>1, <2>2, <2>3, <2>4, <2>5, <2>6 DEF ClientsNext
<1>2. ClientsInit => ManifoldInv /\ EngineInv /\ TableOK
    BY ManifoldStart, EngineStart, EmptySeq DEF ClientsInit, TransducerInit, TableOK
<1>3. ManifoldInv /\ EngineInv /\ TableOK /\ [ClientsNext]_clientVars
      => ManifoldInv' /\ EngineInv' /\ TableOK'
    BY ManifoldStep, EngineStep, TableStep
<1> QED
    BY <1>1, <1>2, <1>3, MachinesStart, PTL DEF ClientsSpec, ImplementsMachines, Machines!Spec
=============================================================================
