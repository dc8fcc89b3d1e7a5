-------------------------- MODULE StorageStackProofs --------------------------
(***************************************************************************)
(* The storage service and the audit log use the cache within its          *)
(* interface: they only store whole atoms inside a block, so that what is  *)
(* proved of the cache alone holds under any mix of requests and events.   *)
(* What the service itself promises follows: writes read back, whole       *)
(* blocks read clean, and the log's trail is intact.                       *)
(***************************************************************************)
EXTENDS StorageStack, SubstrateManifoldProofs, SequenceTheorems

\* A write in progress has a value of the guest for each of its sectors.
WriteInv(r) ==
    /\ DOMAIN r.data = 0 .. r.count - 1
    /\ \A i \in DOMAIN r.data : r.lba + i \in Lbas /\ r.data[i] \in Values

RequestInv ==
    \/ request = None
    \/ /\ request = [op |-> request.op, lba |-> request.lba, count |-> request.count,
                     next |-> request.next, data |-> request.data, ok |-> request.ok]
       /\ request.next \in Nat /\ request.count \in Nat
       /\ request.op = "write" => WriteInv(request)

UseInv == RequestInv /\ log_head \in 0 .. BlockAtoms - 1

-----------------------------------------------------------------------------
\* A guest's request has values of the guest.
LEMMA RequestsAreSound ==
    ASSUME NEW r \in Requests, Sensible(r)
    PROVE  /\ r = [op |-> r.op, lba |-> r.lba, count |-> r.count,
                   next |-> r.next, data |-> r.data, ok |-> r.ok]
           /\ r.next = 0 /\ r.count \in Nat /\ WriteInv(r)
<1>1. PICK op \in {"read", "write"}, lba \in Lbas, n \in 0 .. MaxSectors,
           data \in UNION {Buffers(m) : m \in 0 .. MaxSectors} :
          r = [op |-> op, lba |-> lba, count |-> n, next |-> 0, data |-> data, ok |-> TRUE]
    BY DEF Requests
<1>2. PICK m \in 0 .. MaxSectors : data \in [0 .. m - 1 -> Values \ {Zero}]
    BY <1>1 DEF Buffers
<1>3. \A i \in DOMAIN r.data : r.data[i] \in Values
    BY <1>1, <1>2
<1> QED
    BY <1>1, <1>3, StackAssumption DEF WriteInv, Sensible

\* The sector a turn writes is one of the cache's blocks, and its place an atom.
LEMMA SectorsHavePlaces ==
    ASSUME NEW lba \in Lbas
    PROVE  Block(lba) \in VBlocks /\ <<Place(lba), 1>> \in Extents
<1>1. lba \in Nat /\ BlockAtoms \in Nat \ {0}
    BY StackAssumption, PoolAssumption
<1>2. lba % BlockAtoms \in 0 .. BlockAtoms - 1
    BY <1>1, DivMod
<1> QED
    BY <1>2, StackAssumption DEF Block, Place

LEMMA WriteTurnStores ==
    ASSUME UseInv, WriteSector
    PROVE  BlockNext
<1>1. /\ request # None /\ request.op = "write" /\ request.next < request.count
      /\ Materialize(Block(Sector), <<Place(Sector), 1>>, request.data[request.next])
    BY DEF WriteSector, WriteTurn, Store
<1>2. WriteInv(request) /\ request.next \in Nat /\ request.count \in Nat
    BY <1>1 DEF UseInv, RequestInv
<1>3. request.next \in DOMAIN request.data
    BY <1>1, <1>2 DEF WriteInv
<1>4. Sector \in Lbas /\ request.data[request.next] \in Values
    BY <1>2, <1>3 DEF WriteInv, Sector
<1> QED
    BY <1>1, <1>4, SectorsHavePlaces DEF BlockNext

LEMMA LogStores ==
    ASSUME UseInv, NEW e \in Values \ {Zero}, Log(e)
    PROVE  BlockNext
<1>1. Materialize(LogBlock, <<log_head, 1>>, e)
    BY DEF Log, Logged
<1>2. LogBlock \in VBlocks /\ <<log_head, 1>> \in Extents
    BY StackAssumption DEF UseInv
<1> QED
    BY <1>1, <1>2 DEF BlockNext

\* Every step of the stack stores into the cache through materialize_range or
\* leaves it alone.
LEMMA StackStep ==
    ASSUME UseInv, [StackNext]_stackVars
    PROVE  [BlockNext]_manifoldVars
<1>1. CASE UNCHANGED stackVars
    BY <1>1 DEF stackVars
<1>2. ASSUME NEW r \in Requests, Notify(r) PROVE UNCHANGED manifoldVars
    BY <1>2 DEF Notify
<1>3. CASE ReadSector \/ Complete
    BY <1>3 DEF ReadSector, Complete
<1>4. ASSUME NEW hint \in 1 .. MaxHint, UtilizeIdleCycles(hint) PROVE UNCHANGED manifoldVars
    BY <1>4 DEF UtilizeIdleCycles
<1>5. CASE WriteSector
    BY <1>5, WriteTurnStores
<1>6. ASSUME NEW e \in Values \ {Zero}, Log(e) PROVE BlockNext
    BY <1>6, LogStores
<1> QED
    BY <1>1, <1>2, <1>3, <1>4, <1>5, <1>6 DEF StackNext

-----------------------------------------------------------------------------
LEMMA UseStep ==
    ASSUME UseInv, [StackNext]_stackVars
    PROVE  UseInv'
<1>1. CASE UNCHANGED stackVars
    BY <1>1 DEF stackVars, serviceVars, auditVars, UseInv, RequestInv, WriteInv
<1>2. ASSUME NEW r \in Requests, Notify(r) PROVE UseInv'
  <2>1. request' = r /\ Sensible(r) /\ UNCHANGED log_head
      BY <1>2 DEF Notify, auditVars
  <2> QED
      BY <2>1, RequestsAreSound DEF UseInv, RequestInv
<1>3. CASE ReadSector
  <2>1. /\ request # None /\ request.op = "read" /\ request.next < request.count
        /\ UNCHANGED log_head
      BY <1>3 DEF ReadSector, auditVars
  <2>2. request.next \in Nat /\ request.count \in Nat
      BY <2>1 DEF UseInv, RequestInv
  <2>3. ASSUME NEW data, NEW ok, NEW next \in Nat,
               request' = [op |-> "read", lba |-> request.lba, count |-> request.count,
                           next |-> next, data |-> data, ok |-> ok]
        PROVE  UseInv'
      BY <2>1, <2>2, <2>3 DEF UseInv, RequestInv
  <2>4. CASE Sector >= Capacity
    <3>1. request' = [request EXCEPT !.ok = FALSE, !.next = request.count]
        BY <1>3, <2>4 DEF ReadSector
    <3>2. request' = [op |-> "read", lba |-> request.lba, count |-> request.count,
                      next |-> request.count, data |-> request.data, ok |-> FALSE]
        BY <2>1, <3>1 DEF UseInv, RequestInv
    <3> QED
        BY <2>2, <2>3, <3>2
  <2>5. CASE ~(Sector >= Capacity)
    <3>1. PICK v : request' = [request EXCEPT !.data[request.next] = v,
                                             !.next = request.next + 1]
        BY <1>3, <2>5 DEF ReadSector
    <3>2. request' = [op |-> "read", lba |-> request.lba, count |-> request.count,
                      next |-> request.next + 1,
                      data |-> [request.data EXCEPT ![request.next] = v], ok |-> request.ok]
        BY <2>1, <3>1 DEF UseInv, RequestInv
    <3> QED
        BY <2>2, <2>3, <3>2
  <2> QED
      BY <2>4, <2>5
<1>4. CASE WriteSector
  <2>1. /\ request # None /\ request.op = "write"
        /\ request' = [request EXCEPT !.next = @ + 1] /\ UNCHANGED log_head
      BY <1>4 DEF WriteSector, WriteTurn, auditVars
  <2>2. request' = [op |-> "write", lba |-> request.lba, count |-> request.count,
                    next |-> request.next + 1, data |-> request.data, ok |-> request.ok]
      BY <2>1 DEF UseInv, RequestInv
  <2>3. /\ request.next + 1 \in Nat /\ request.count \in Nat /\ WriteInv(request)
        /\ log_head' \in 0 .. BlockAtoms - 1
      BY <2>1 DEF UseInv, RequestInv
  <2>4. WriteInv(request')
      BY <2>2, <2>3 DEF WriteInv
  <2>5. /\ request' = [op |-> request'.op, lba |-> request'.lba, count |-> request'.count,
                       next |-> request'.next, data |-> request'.data, ok |-> request'.ok]
        /\ request'.next \in Nat /\ request'.count \in Nat
      BY <2>2, <2>3
  <2>6. RequestInv'
      BY <2>4, <2>5 DEF RequestInv, WriteInv
  <2> QED
      BY <2>3, <2>6 DEF UseInv
<1>5. CASE Complete
    BY <1>5 DEF Complete, auditVars, UseInv, RequestInv
<1>6. ASSUME NEW hint \in 1 .. MaxHint, UtilizeIdleCycles(hint) PROVE UseInv'
    BY <1>6 DEF UtilizeIdleCycles, auditVars, UseInv, RequestInv, WriteInv
<1>7. ASSUME NEW e \in Values \ {Zero}, Log(e) PROVE UseInv'
  <2>1. log_head' = (log_head + 1) % BlockAtoms /\ UNCHANGED request
      BY <1>7 DEF Log, Logged, NextHead, serviceVars
  <2>2. log_head' \in 0 .. BlockAtoms - 1
      BY <2>1, PoolAssumption, DivMod DEF UseInv
  <2> QED
      BY <2>1, <2>2 DEF UseInv, RequestInv, WriteInv
<1> QED
    BY <1>1, <1>2, <1>3, <1>4, <1>5, <1>6, <1>7 DEF StackNext

-----------------------------------------------------------------------------
\* Under the storage service and the audit log the cache is driven through its
\* block operations only.
THEOREM StackUsesBlocks == StackSpec => BlockSpec
<1>1. StackInit => Init /\ UseInv
    BY PoolAssumption DEF StackInit, UseInv, RequestInv
<1>2. UseInv /\ [StackNext]_stackVars => UseInv'
    BY UseStep
<1>3. UseInv /\ [StackNext]_stackVars => [BlockNext]_manifoldVars
    BY StackStep
<1> QED
    BY <1>1, <1>2, <1>3, PTL DEF StackSpec, BlockSpec

\* The cache keeps its promise to the guest and the log: it is a window of the last
\* blocks they brought in (get_physical_block under serve_write and log).
THEOREM StackKeepsPromise == ExtentsFit => (StackSpec => KeepsPromise)
    BY StackUsesBlocks, ImplementsBlockWindow

\* Whatever the guest reads is what that window holds (holographic_fetch under
\* serve_read).
THEOREM StackFetchesAgree == StackSpec => []FetchesFromWindow
    BY StackUsesBlocks, FetchesAgree

-----------------------------------------------------------------------------
(* What a store does to the blocks that are held *)

\* A block that is held is held by one slot, and a fetch reads that slot.
OneHolder ==
    \A vb : \A s \in Slots : Holder(s, vb) =>
        /\ Held(vb)
        /\ \A a \in Atoms : HolographicFetch(vb, a) = cache_pool[s][a]

LEMMA OneHolderNow == BlockInv => OneHolder
<1> SUFFICES ASSUME BlockInv, NEW vb, NEW s \in Slots, Holder(s, vb)
             PROVE  /\ Held(vb)
                    /\ \A a \in Atoms : HolographicFetch(vb, a) = cache_pool[s][a]
    BY DEF OneHolder
<1>1. Held(vb)
    BY DEF Held
<1>2. FirstHolder(vb) \in Slots /\ Holder(FirstHolder(vb), vb)
    BY <1>1, FirstHolderHolds
<1>3. FirstHolder(vb) = s
    BY <1>2 DEF BlockInv, UniqueUnlessRevived, Holder
<1> QED
    BY <1>1, <1>3 DEF HolographicFetch

LEMMA OneHolderNext == BlockInv' => OneHolder'
    BY OneHolderNow, PTL

\* Storing one atom changes that atom of that slot.
LEMMA OneAtomCopied ==
    ASSUME NEW p \in Slots, NEW a \in Atoms, NEW v, NEW s \in Slots, NEW b \in Atoms
    PROVE  Copied(p, <<a, 1>>, v)[s][b] = IF s = p /\ b = a THEN v ELSE cache_pool[s][b]
<1>1. /\ s \in Nat /\ p \in Nat /\ BlockAtoms \in Nat \ {0}
      /\ a \in 0 .. BlockAtoms - 1 /\ b \in 0 .. BlockAtoms - 1
    BY PoolAssumption DEF Slots, Atoms
<1>2. PICK i \in Int : i = (s - p) * BlockAtoms + b
    BY <1>1
<1>3. i = a <=> s = p /\ b = a
  <2>1. CASE s = p
      BY <1>1, <1>2, <2>1
  <2>2. CASE s < p
    <3>1. (s - p) * BlockAtoms <= (-1) * BlockAtoms
        BY <1>1, <2>2
    <3> QED
        BY <1>1, <1>2, <2>2, <3>1
  <2>3. CASE p < s
    <3>1. (s - p) * BlockAtoms >= BlockAtoms
        BY <1>1, <2>3
    <3> QED
        BY <1>1, <1>2, <2>3, <3>1
  <2> QED
      BY <1>1, <2>1, <2>2, <2>3
<1>4. Covers(p, <<a, 1>>, s, b) <=> s = p /\ b = a
    BY <1>1, <1>2, <1>3 DEF Covers
<1> QED
    BY <1>4 DEF Copied

\* What storing an atom does to the blocks that are held: the atom reads back, the
\* rest of its block stays, and another block stays or is gone.
LEMMA StoreReadsBack ==
    ASSUME BlockInv, BlockInv', NEW vb \in VBlocks, NEW a \in Atoms, NEW v,
           Materialize(vb, <<a, 1>>, v)
    PROVE  /\ Held(vb)' /\ HolographicFetch(vb, a)' = v
           /\ Held(vb) => \A b \in Atoms \ {a} :
                 HolographicFetch(vb, b)' = HolographicFetch(vb, b)
           /\ \A other : other # vb /\ Held(other)' =>
                 /\ Held(other)
                 /\ \A b \in Atoms : HolographicFetch(other, b)' = HolographicFetch(other, b)
<1>1. OneHolder /\ OneHolder'
    BY OneHolderNow, OneHolderNext
<1>2. PICK p \in Slots :
          /\ cache_pool' = Copied(p, <<a, 1>>, v)
          /\ Held(vb) => Holder(p, vb)
          /\ cache_state'[p] # "EMPTY" /\ vblock_map'[p] = vb
          /\ \A s \in Slots : s # p => /\ cache_state'[s] = cache_state[s]
                                       /\ vblock_map'[s] = vblock_map[s]
  <2>1. CASE MaterializeHeld(vb, <<a, 1>>, v)
    <3>1. FirstHolder(vb) \in Slots /\ Holder(FirstHolder(vb), vb)
        BY <2>1, FirstHolderHolds DEF MaterializeHeld
    <3> QED
        BY <2>1, <3>1 DEF MaterializeHeld, Holder
  <2>2. CASE MaterializeFresh(vb, <<a, 1>>, v)
    <3>1. Victim \in Slots
        BY CounterFacts DEF BlockInv, TypeOK
    <3> QED
        BY <2>2, <3>1 DEF MaterializeFresh, BlockInv, TypeOK
  <2> QED
      BY <2>1, <2>2 DEF Materialize
<1>3. \A s \in Slots, b \in Atoms :
          cache_pool'[s][b] = IF s = p /\ b = a THEN v ELSE cache_pool[s][b]
    BY <1>2, OneAtomCopied
<1>4. Holder(p, vb)' /\ \A s \in Slots : s # p => (Holder(s, vb)' <=> Holder(s, vb))
    BY <1>2 DEF Holder
<1>5. Held(vb)' /\ \A b \in Atoms : HolographicFetch(vb, b)' = cache_pool'[p][b]
    BY <1>1, <1>4 DEF OneHolder
<1>6. Held(vb) => \A b \in Atoms : HolographicFetch(vb, b) = cache_pool[p][b]
    BY <1>1, <1>2 DEF OneHolder
<1>7. ASSUME NEW other, other # vb, Held(other)'
      PROVE  /\ Held(other)
             /\ \A b \in Atoms : HolographicFetch(other, b)' = HolographicFetch(other, b)
  <2>1. PICK s \in Slots : Holder(s, other)'
      BY <1>7 DEF Held
  <2>2. s # p /\ Holder(s, other)
      BY <1>2, <1>7, <2>1 DEF Holder
  <2>3. \A b \in Atoms : HolographicFetch(other, b)' = cache_pool'[s][b]
      BY <1>1, <2>1 DEF OneHolder
  <2>4. Held(other) /\ \A b \in Atoms : HolographicFetch(other, b) = cache_pool[s][b]
      BY <1>1, <2>2 DEF OneHolder
  <2> QED
      BY <1>3, <2>2, <2>3, <2>4
<1> QED
    BY <1>3, <1>5, <1>6, <1>7

-----------------------------------------------------------------------------
(* The request in progress *)

ShapeInv ==
    request # None =>
        /\ request \in Served
        /\ request.op \in {"read", "write"} /\ request.lba \in Lbas
        /\ request.count \in Nat /\ request.next \in 0 .. request.count
        /\ DOMAIN request.data = 0 .. request.count - 1
        /\ \A i \in DOMAIN request.data : request.lba + i \in Lbas

Writing == request # None /\ request.op = "write"

\* The sectors written so far in the block the last of them is in.
LastInv ==
    Writing /\ request.next > 0 =>
        /\ Held(Block(request.lba + request.next - 1))
        /\ \A i \in 0 .. request.next - 1 :
              Block(request.lba + i) = Block(request.lba + request.next - 1) =>
                  Reads(request.lba + i) = request.data[i]

LEMMA CacheAlone ==
    ASSUME UNCHANGED manifoldVars
    PROVE  \A vb : /\ Held(vb)' = Held(vb)
                   /\ \A a : HolographicFetch(vb, a)' = HolographicFetch(vb, a)
    BY DEF manifoldVars, Held, HolographicFetch, FirstHolder, Holder

\* Sectors are told apart by block and place, and a later one is in a later block.
LEMMA SectorsApart ==
    ASSUME NEW x \in Nat, NEW y \in Nat
    PROVE  /\ Place(x) \in Atoms
           /\ x # y /\ Block(x) = Block(y) => Place(x) # Place(y)
           /\ x <= y => Block(x) <= Block(y)
           /\ Block(x) \in Nat
<1>1. /\ BlockAtoms \in Nat \ {0}
      /\ Block(x) \in Nat /\ Place(x) \in 0 .. BlockAtoms - 1
      /\ Block(y) \in Nat /\ Place(y) \in 0 .. BlockAtoms - 1
      /\ x = BlockAtoms * Block(x) + Place(x)
      /\ y = BlockAtoms * Block(y) + Place(y)
    BY PoolAssumption, DivMod DEF Block, Place
<1>2. ASSUME x <= y PROVE Block(x) <= Block(y)
  <2>1. CASE Block(x) >= Block(y) + 1
    <3>1. BlockAtoms * Block(x) >= BlockAtoms * Block(y) + BlockAtoms
        BY <1>1, <2>1
    <3> QED
        BY <1>1, <1>2, <3>1
  <2> QED
      BY <1>1, <2>1
<1> QED
    BY <1>1, <1>2 DEF Atoms

LEMMA FetchedType ==
    ASSUME BlockInv, NEW vb, NEW a \in Atoms
    PROVE  HolographicFetch(vb, a) \in Values \cup {Garbage}
    BY DataAssumption, FirstHolderHolds DEF BlockInv, TypeOK, HolographicFetch

\* A request stays one when its loop goes on and a place of its buffer is filled.
LEMMA ServedOn ==
    ASSUME NEW r \in Served, NEW next \in 0 .. r.count, NEW ok \in BOOLEAN, NEW i,
           NEW v \in Values \cup {Garbage}
    PROVE  /\ [op |-> r.op, lba |-> r.lba, count |-> r.count, next |-> next,
               data |-> r.data, ok |-> ok] \in Served
           /\ [op |-> r.op, lba |-> r.lba, count |-> r.count, next |-> next,
               data |-> [r.data EXCEPT ![i] = v], ok |-> ok] \in Served
<1>1. /\ r.op \in {"read", "write"} /\ r.lba \in Lbas /\ r.count \in 0 .. MaxSectors
      /\ r.data \in UNION {[0 .. m - 1 -> Values \cup {Garbage}] : m \in 0 .. MaxSectors}
    BY DEF Served
<1>2. next \in 0 .. MaxSectors
    BY <1>1, StackAssumption
<1>3. PICK m \in 0 .. MaxSectors : r.data \in [0 .. m - 1 -> Values \cup {Garbage}]
    BY <1>1
<1>4. [r.data EXCEPT ![i] = v] \in [0 .. m - 1 -> Values \cup {Garbage}]
    BY <1>3
<1>5. [r.data EXCEPT ![i] = v] \in
          UNION {[0 .. k - 1 -> Values \cup {Garbage}] : k \in 0 .. MaxSectors}
    BY <1>4
<1> QED
    BY <1>1, <1>2, <1>5 DEF Served

\* What a request becomes in a turn of its loop.
LEMMA ReadTurn ==
    ASSUME UseInv, ShapeInv, BlockInv, ReadSector
    PROVE  /\ request # None /\ request.op = "read" /\ request' \in Served
           /\ request'.op = "read" /\ request'.lba = request.lba
           /\ request'.count = request.count /\ request'.next \in 0 .. request.count
           /\ DOMAIN request'.data = DOMAIN request.data
           /\ \/ ~ request'.ok
              \/ /\ request'.next = request.next + 1 /\ request'.ok = request.ok
                 /\ request.next \in DOMAIN request.data
                 /\ \A i \in DOMAIN request.data : request'.data[i] =
                       IF i = request.next THEN Reads(Sector) ELSE request.data[i]
           /\ UNCHANGED <<manifoldVars, auditVars, historyVars>>
<1>1. /\ request # None /\ request.op = "read" /\ request.next < request.count
      /\ request = [op |-> "read", lba |-> request.lba, count |-> request.count,
                    next |-> request.next, data |-> request.data, ok |-> request.ok]
      /\ UNCHANGED <<manifoldVars, auditVars, historyVars>>
    BY DEF ReadSector, UseInv, RequestInv
<1>2. /\ request.next \in DOMAIN request.data /\ request.count \in Nat
      /\ request.next \in Nat /\ request \in Served /\ request.ok \in BOOLEAN
      /\ Sector \in Nat
    BY <1>1, StackAssumption DEF ShapeInv, Served, Sector
<1> PICK v \in Values \cup {Garbage} : v = Reads(Sector)
    BY <1>2, SectorsApart, FetchedType DEF Reads
<1>3. CASE Sector >= Capacity
  <2>1. request' = [request EXCEPT !.ok = FALSE, !.next = request.count]
      BY <1>3 DEF ReadSector
  <2>2. request' = [op |-> "read", lba |-> request.lba, count |-> request.count,
                    next |-> request.count, data |-> request.data, ok |-> FALSE]
      BY <1>1, <2>1
  <2>3. request' \in Served
    <3>1. request.count \in 0 .. request.count /\ FALSE \in BOOLEAN
        BY <1>2
    <3>2. request' = [op |-> request.op, lba |-> request.lba, count |-> request.count,
                      next |-> request.count, data |-> request.data, ok |-> FALSE]
        BY <1>1, <2>2
    <3> QED
        BY <1>2, <3>1, <3>2, ServedOn
  <2> QED
      BY <1>1, <1>2, <2>2, <2>3
<1>4. CASE ~ (Sector >= Capacity)
  <2>1. request' = [request EXCEPT !.data[request.next] = Reads(Sector), !.next = @ + 1]
      BY <1>4 DEF ReadSector, Reads
  <2>2. request' = [op |-> "read", lba |-> request.lba, count |-> request.count,
                    next |-> request.next + 1,
                    data |-> [request.data EXCEPT ![request.next] = Reads(Sector)],
                    ok |-> request.ok]
      BY <1>1, <2>1
  <2>3. /\ [request.data EXCEPT ![request.next] = Reads(Sector)]
               = [request.data EXCEPT ![request.next] = v]
        /\ request.next + 1 \in 0 .. request.count
      BY <1>1, <1>2
  <2>4. request' \in Served
      BY <1>1, <1>2, <2>2, <2>3, ServedOn
  <2> QED
      BY <1>1, <1>2, <2>2, <2>3, <2>4
<1> QED
    BY <1>3, <1>4

\* What is to be known of a turn that writes: n is the sector's place in the request.
LEMMA WriteTurnDoes ==
    ASSUME UseInv, ShapeInv, BlockInv, BlockInv', WriteSector,
           NEW n, n = request.next, NEW s, s = request.lba + n
    PROVE  /\ Writing /\ n \in 0 .. request.count - 1 /\ n \in DOMAIN request.data
           /\ s \in Lbas /\ request.data[n] \in Values
           /\ request' = [op |-> "write", lba |-> request.lba, count |-> request.count,
                          next |-> n + 1, data |-> request.data, ok |-> request.ok]
           /\ request' \in Served
           /\ latest' = [latest EXCEPT ![s] = request.data[n]]
           /\ UNCHANGED <<auditVars, whole>>
           /\ Held(Block(s))' /\ Reads(s)' = request.data[n]
           /\ Held(Block(s)) => \A a \in Atoms \ {Place(s)} :
                 HolographicFetch(Block(s), a)' = HolographicFetch(Block(s), a)
           /\ \A other : other # Block(s) /\ Held(other)' =>
                 /\ Held(other)
                 /\ \A a \in Atoms :
                       HolographicFetch(other, a)' = HolographicFetch(other, a)
<1>1. /\ Writing /\ n < request.count /\ request' = [request EXCEPT !.next = @ + 1]
      /\ Materialize(Block(s), <<Place(s), 1>>, request.data[n])
      /\ latest' = [latest EXCEPT ![s] = request.data[n]]
      /\ UNCHANGED <<auditVars, whole>>
    BY DEF WriteSector, WriteTurn, Store, Sector, Writing
<1>2. /\ request = [op |-> "write", lba |-> request.lba, count |-> request.count,
                    next |-> request.next, data |-> request.data, ok |-> request.ok]
      /\ WriteInv(request)
    BY <1>1 DEF UseInv, RequestInv, Writing
<1>3. /\ n \in 0 .. request.count - 1 /\ n \in DOMAIN request.data
      /\ s \in Lbas /\ request.data[n] \in Values
    BY <1>1, <1>2 DEF ShapeInv, Writing, WriteInv
<1>4. request' = [op |-> "write", lba |-> request.lba, count |-> request.count,
                  next |-> n + 1, data |-> request.data, ok |-> request.ok]
    BY <1>1, <1>2
<1>8. request' \in Served
  <2>1. request \in Served /\ n + 1 \in 0 .. request.count /\ request.ok \in BOOLEAN
      BY <1>1, <1>3 DEF ShapeInv, Writing, Served
  <2>2. Zero \in Values \cup {Garbage}
      BY DataAssumption
  <2>3. request' = [op |-> request.op, lba |-> request.lba, count |-> request.count,
                    next |-> n + 1, data |-> request.data, ok |-> request.ok]
      BY <1>1, <1>4 DEF Writing
  <2> QED
      BY <2>1, <2>2, <2>3, ServedOn
<1>5. s \in Nat /\ Block(s) \in VBlocks /\ Place(s) \in Atoms
    BY <1>3, StackAssumption, SectorsHavePlaces, SectorsApart
<1>6. /\ Held(Block(s))' /\ HolographicFetch(Block(s), Place(s))' = request.data[n]
      /\ Held(Block(s)) => \A a \in Atoms \ {Place(s)} :
            HolographicFetch(Block(s), a)' = HolographicFetch(Block(s), a)
      /\ \A other : other # Block(s) /\ Held(other)' =>
            /\ Held(other)
            /\ \A a \in Atoms : HolographicFetch(other, a)' = HolographicFetch(other, a)
    BY <1>1, <1>5, StoreReadsBack
<1>7. Reads(s)' = request.data[n]
  <2>1. Reads(s)' = HolographicFetch(Block(s), Place(s))'
      BY DEF Reads
  <2> QED
      BY <1>6, <2>1
<1> QED
    BY <1>1, <1>3, <1>4, <1>6, <1>7, <1>8

\* A guest's request addresses sectors, in both directions.
LEMMA RequestsHaveShape ==
    ASSUME NEW r \in Requests, Sensible(r)
    PROVE  /\ r \in Served
           /\ r.op \in {"read", "write"} /\ r.lba \in Lbas /\ r.count \in Nat /\ r.next = 0
           /\ DOMAIN r.data = 0 .. r.count - 1
           /\ \A i \in DOMAIN r.data : r.lba + i \in Lbas
<1>1. PICK op \in {"read", "write"}, lba \in Lbas, n \in 0 .. MaxSectors,
           data \in UNION {Buffers(m) : m \in 0 .. MaxSectors} :
          r = [op |-> op, lba |-> lba, count |-> n, next |-> 0, data |-> data, ok |-> TRUE]
    BY DEF Requests
<1>2. PICK m \in 0 .. MaxSectors : data \in [0 .. m - 1 -> Values \ {Zero}]
    BY <1>1 DEF Buffers
<1>3. data \in [0 .. m - 1 -> Values \cup {Garbage}] /\ 0 \in 0 .. MaxSectors
    BY <1>2, StackAssumption
<1>4. r \in Served
    BY <1>1, <1>3 DEF Served
<1> QED
    BY <1>1, <1>4, StackAssumption DEF Sensible

LEMMA ShapeStep ==
    ASSUME UseInv, ShapeInv, BlockInv, BlockInv', [StackNext]_stackVars
    PROVE  ShapeInv'
<1>1. CASE UNCHANGED request
    BY <1>1 DEF ShapeInv
<1>2. ASSUME NEW r \in Requests, Notify(r) PROVE ShapeInv'
  <2>1. request' = r /\ Sensible(r)
      BY <1>2 DEF Notify
  <2> QED
      BY <2>1, RequestsHaveShape DEF ShapeInv
<1>3. CASE ReadSector
    BY <1>3, ReadTurn DEF ShapeInv
<1>4. CASE WriteSector
  <2>1. PICK n, s : n = request.next /\ s = request.lba + n
      OBVIOUS
  <2>2. /\ n \in 0 .. request.count - 1 /\ Writing
        /\ request' = [op |-> "write", lba |-> request.lba, count |-> request.count,
                       next |-> n + 1, data |-> request.data, ok |-> request.ok]
        /\ request' \in Served
      BY <1>4, <2>1, WriteTurnDoes
  <2>3. /\ request.lba \in Lbas /\ request.count \in Nat
        /\ DOMAIN request.data = 0 .. request.count - 1
        /\ \A i \in DOMAIN request.data : request.lba + i \in Lbas
      BY <2>2 DEF ShapeInv, Writing
  <2> QED
      BY <2>2, <2>3 DEF ShapeInv
<1>5. CASE Complete
    BY <1>5 DEF Complete, ShapeInv
<1>6. CASE \/ \E hint \in 1 .. MaxHint : UtilizeIdleCycles(hint)
           \/ \E e \in Values \ {Zero} : Log(e)
           \/ UNCHANGED stackVars
  <2>1. UNCHANGED request
      BY <1>6 DEF UtilizeIdleCycles, Log, Logged, stackVars, serviceVars
  <2> QED
      BY <1>1, <2>1
<1> QED
    BY <1>2, <1>3, <1>4, <1>5, <1>6 DEF StackNext

\* A turn that writes keeps the sectors of its own block, and a turn that goes on
\* to another block starts that block's sectors anew.
LEMMA LastStep ==
    ASSUME UseInv, ShapeInv, LastInv, BlockInv, BlockInv', [StackNext]_stackVars
    PROVE  LastInv'
<1>1. CASE UNCHANGED <<manifoldVars, request>>
  <2>1. \A vb : /\ Held(vb)' = Held(vb)
                /\ \A a : HolographicFetch(vb, a)' = HolographicFetch(vb, a)
      BY <1>1, CacheAlone
  <2>2. \A lba : Reads(lba)' = Reads(lba)
      BY <2>1 DEF Reads
  <2> QED
      BY <1>1, <2>1, <2>2 DEF LastInv, Writing
<1>2. ASSUME NEW r \in Requests, Notify(r) PROVE LastInv'
  <2>1. request' = r /\ Sensible(r)
      BY <1>2 DEF Notify
  <2> QED
      BY <2>1, RequestsHaveShape DEF LastInv
<1>3. CASE ReadSector
    BY <1>3, ReadTurn DEF LastInv, Writing
<1>4. CASE WriteSector
  <2>1. PICK n, s : n = request.next /\ s = request.lba + n
      OBVIOUS
  <2>2. /\ n \in 0 .. request.count - 1 /\ Writing
        /\ s \in Lbas /\ Held(Block(s))' /\ Reads(s)' = request.data[n]
        /\ request' = [op |-> "write", lba |-> request.lba, count |-> request.count,
                       next |-> n + 1, data |-> request.data, ok |-> request.ok]
        /\ Held(Block(s)) => \A a \in Atoms \ {Place(s)} :
              HolographicFetch(Block(s), a)' = HolographicFetch(Block(s), a)
      BY <1>4, <2>1, WriteTurnDoes
  <2>3. PICK l \in Nat : l = request.lba
      BY <2>2, StackAssumption DEF ShapeInv, Writing
  <2>4. n \in Nat /\ s \in Nat /\ s = l + n
      BY <2>1, <2>2, <2>3, StackAssumption
  <2>5. ASSUME NEW i \in 0 .. n, Block(l + i) = Block(s)
        PROVE  Reads(l + i)' = request.data[i]
    <3>1. CASE i = n
        BY <2>2, <2>4, <3>1
    <3>2. CASE i # n
      <4>1. PICK x \in Nat, y \in Nat : x = l + i /\ y = l + n - 1
          BY <2>3, <2>4, <3>2
      <4>2. x <= y /\ y <= s /\ x # s
          BY <2>4, <3>2, <4>1
      <4>3. Block(y) = Block(s)
          BY <2>4, <2>5, <4>1, <4>2, SectorsApart
      <4>4. Held(Block(s)) /\ Reads(x) = request.data[i]
        <5>1. i \in 0 .. n - 1 /\ n > 0
            BY <2>4, <3>2
        <5> QED
            BY <2>1, <2>2, <2>3, <2>5, <4>1, <4>3, <5>1 DEF LastInv
      <4>5. Place(x) \in Atoms \ {Place(s)}
          BY <2>4, <2>5, <4>1, <4>2, SectorsApart
      <4>6. HolographicFetch(Block(x), Place(x))' = HolographicFetch(Block(x), Place(x))
          BY <2>2, <2>5, <4>1, <4>4, <4>5
      <4>7. Reads(x)' = Reads(x)
          BY <4>6 DEF Reads
      <4> QED
          BY <4>1, <4>4, <4>7
    <3> QED
        BY <3>1, <3>2
  <2>6. /\ request'.lba = l /\ request'.data = request.data
        /\ request'.next = n + 1 /\ l + request'.next - 1 = s /\ request'.next - 1 = n
      BY <2>2, <2>3, <2>4
  <2> QED
      BY <2>2, <2>5, <2>6 DEF LastInv
<1>5. CASE Complete
    BY <1>5 DEF Complete, LastInv, Writing
<1>6. CASE UNCHANGED stackVars \/ \E hint \in 1 .. MaxHint : UtilizeIdleCycles(hint)
    BY <1>1, <1>6 DEF UtilizeIdleCycles, stackVars, serviceVars
<1>7. CASE \E e \in Values \ {Zero} : Log(e)
    BY <1>7 DEF Log, Logged, serviceVars, LastInv, Writing
<1> QED
    BY <1>2, <1>3, <1>4, <1>5, <1>6, <1>7 DEF StackNext

-----------------------------------------------------------------------------
(* The log *)

TrailInv ==
    /\ events \in Seq(Values) /\ Len(events) <= BlockAtoms
    /\ kept \in 0 .. Len(events)
    /\ AuditTrailIntact

LEMMA LeastOfTwo ==
    ASSUME NEW a \in Nat, NEW b \in Nat
    PROVE  Min({a, b}) = IF a <= b THEN a ELSE b
    BY DEF Min

\* The place of the k-th event from the newest, below a head h.
LEMMA PlaceBelow ==
    ASSUME NEW b \in Nat \ {0}, NEW h \in 0 .. b - 1, NEW k \in 0 .. b - 1
    PROVE  (IF k < h THEN h - 1 - k ELSE h - 1 - k + b) \in 0 .. b - 1
    OBVIOUS

LEMMA TrailPlace ==
    ASSUME NEW b \in Nat \ {0}, NEW h \in 0 .. b - 1, NEW k \in 0 .. b - 1
    PROVE  (h - 1 - k) % b = IF k < h THEN h - 1 - k ELSE h - 1 - k + b
<1>1. PICK r \in 0 .. b - 1 : r = IF k < h THEN h - 1 - k ELSE h - 1 - k + b
    BY PlaceBelow
<1>2. PICK x \in Int : x = h - 1 - k
    OBVIOUS
<1>3. x = b * 0 + r \/ x = b * (-1) + r
    BY <1>1, <1>2
<1>4. x % b = r
    BY <1>3
<1> QED
    BY <1>1, <1>2, <1>4

LEMMA NextHeadIs ==
    ASSUME log_head \in 0 .. BlockAtoms - 1
    PROVE  /\ NextHead \in 0 .. BlockAtoms - 1
           /\ NextHead = IF log_head = BlockAtoms - 1 THEN 0 ELSE log_head + 1
<1>1. BlockAtoms \in Nat \ {0} /\ log_head + 1 \in Nat
    BY PoolAssumption
<1>2. CASE log_head = BlockAtoms - 1
  <2>1. log_head + 1 = BlockAtoms * 1 + 0 /\ 0 \in 0 .. BlockAtoms - 1
      BY <1>1, <1>2
  <2>2. (log_head + 1) % BlockAtoms = 0
      BY <1>1, <2>1, RemainderIs
  <2> QED
      BY <1>1, <1>2, <2>2 DEF NextHead
<1>3. CASE log_head # BlockAtoms - 1
  <2>1. log_head + 1 \in 0 .. BlockAtoms - 1
      BY <1>1, <1>3
  <2> QED
      BY <1>1, <1>3, <2>1, SmallRemainder DEF NextHead
<1> QED
    BY <1>2, <1>3

\* The first n elements of a sequence.
LEMMA FirstOf ==
    ASSUME NEW S, NEW u \in Seq(S), NEW n \in 1 .. Len(u)
    PROVE  /\ SubSeq(u, 1, n) \in Seq(S) /\ Len(SubSeq(u, 1, n)) = n
           /\ \A k \in 1 .. n : SubSeq(u, 1, n)[k] = u[k]
    OBVIOUS

\* A sequence with an element put before it.
Before(e, s) == <<e>> \o s

LEMMA BeforeIs ==
    ASSUME NEW S, NEW s \in Seq(S), NEW e \in S
    PROVE  /\ Before(e, s) \in Seq(S) /\ Len(Before(e, s)) = Len(s) + 1
           /\ Before(e, s)[1] = e
           /\ \A k \in 2 .. Len(s) + 1 : Before(e, s)[k] = s[k - 1]
<1>1. <<e>> \in Seq(S) /\ Len(<<e>>) = 1 /\ <<e>>[1] = e /\ Len(s) \in Nat
    OBVIOUS
<1>2. PICK u : u = <<e>> \o s
    OBVIOUS
<1>3. /\ u \in Seq(S) /\ Len(u) = Len(s) + 1
      /\ \A k \in 1 .. Len(u) : u[k] = IF k <= 1 THEN <<e>>[k] ELSE s[k - 1]
    BY <1>1, <1>2, ConcatProperties
<1>4. u[1] = e /\ \A k \in 2 .. Len(s) + 1 : u[k] = s[k - 1]
    BY <1>1, <1>3
<1>5. u = Before(e, s)
    BY <1>2 DEF Before
<1> QED
    BY <1>3, <1>4, <1>5

\* The events remembered after one more.
Remembered(e, s) == SubSeq(Before(e, s), 1, Min({Len(s) + 1, BlockAtoms}))

\* The log remembers as many events as its block has places, the newest first.
LEMMA RememberedIs ==
    ASSUME NEW s \in Seq(Values), Len(s) <= BlockAtoms, NEW e \in Values
    PROVE  /\ Remembered(e, s) \in Seq(Values)
           /\ Len(Remembered(e, s)) \in 1 .. BlockAtoms
           /\ Len(Remembered(e, s)) =
                 IF Len(s) + 1 <= BlockAtoms THEN Len(s) + 1 ELSE BlockAtoms
           /\ Remembered(e, s)[1] = e
           /\ \A k \in 2 .. Len(Remembered(e, s)) : Remembered(e, s)[k] = s[k - 1]
<1>1. Len(s) \in Nat /\ Len(s) + 1 \in Nat /\ BlockAtoms \in Nat \ {0}
    BY PoolAssumption
<1>2. PICK n \in 1 .. BlockAtoms :
          n = IF Len(s) + 1 <= BlockAtoms THEN Len(s) + 1 ELSE BlockAtoms
    BY <1>1
<1>3. PICK u \in Seq(Values) :
          /\ u = Before(e, s) /\ Len(u) = Len(s) + 1 /\ u[1] = e
          /\ \A k \in 2 .. Len(s) + 1 : u[k] = s[k - 1]
    BY BeforeIs
<1>4. Min({Len(s) + 1, BlockAtoms}) = n
    BY <1>1, <1>2, LeastOfTwo
<1>5. n \in 1 .. Len(u)
    BY <1>1, <1>2, <1>3
<1>6. /\ SubSeq(u, 1, n) \in Seq(Values) /\ Len(SubSeq(u, 1, n)) = n
      /\ \A k \in 1 .. n : SubSeq(u, 1, n)[k] = u[k]
    BY <1>5, FirstOf
<1>7. PICK t : t = SubSeq(u, 1, n)
    OBVIOUS
<1>8. t \in Seq(Values) /\ Len(t) = n /\ \A k \in 1 .. n : t[k] = u[k]
    BY <1>6, <1>7
<1>9. t[1] = e /\ \A k \in 2 .. n : t[k] = s[k - 1]
    BY <1>1, <1>2, <1>3, <1>8
<1>10. t = Remembered(e, s)
    BY <1>3, <1>4, <1>7 DEF Remembered
<1> QED
    BY <1>2, <1>8, <1>9, <1>10

LEMMA LogKeepsTrail ==
    ASSUME UseInv, TrailInv, BlockInv, BlockInv', NEW e \in Values \ {Zero}, Log(e)
    PROVE  TrailInv'
<1> PICK h \in Atoms : h = log_head
    BY DEF UseInv, Atoms
<1> PICK b \in Nat \ {0} : b = BlockAtoms
    BY PoolAssumption
<1>1. /\ Materialize(LogBlock, <<h, 1>>, e) /\ log_head' = NextHead
      /\ events' = Remembered(e, events)
      /\ kept' = IF Held(LogBlock) THEN Min({kept + 1, BlockAtoms}) ELSE 1
    BY DEF Log, Logged, Remembered, Before
<1>2. /\ h \in 0 .. b - 1 /\ LogBlock \in VBlocks /\ Atoms = 0 .. b - 1
      /\ events \in Seq(Values) /\ Len(events) \in Nat /\ Len(events) <= b
      /\ kept \in 0 .. Len(events)
    BY StackAssumption DEF TrailInv, Atoms
<1>3. /\ HolographicFetch(LogBlock, h)' = e
      /\ Held(LogBlock) => \A c \in Atoms \ {h} :
            HolographicFetch(LogBlock, c)' = HolographicFetch(LogBlock, c)
    BY <1>1, <1>2, StoreReadsBack
<1> PICK q \in 1 .. b, t \in Seq(Values) :
        /\ t = events'
        /\ q = IF Len(events) + 1 <= b THEN Len(events) + 1 ELSE b
        /\ Len(t) = q /\ t[1] = e
        /\ \A k \in 2 .. q : t[k] = events[k - 1]
  <2>1. Len(events) <= BlockAtoms /\ e \in Values
      BY <1>2
  <2>2. PICK t : t = Remembered(e, events)
      OBVIOUS
  <2>3. /\ t \in Seq(Values) /\ Len(t) \in 1 .. b
        /\ Len(t) = IF Len(events) + 1 <= b THEN Len(events) + 1 ELSE b
        /\ t[1] = e
        /\ \A k \in 2 .. Len(t) : t[k] = events[k - 1]
      BY <1>2, <2>1, <2>2, RememberedIs
  <2> QED
      BY <1>1, <2>2, <2>3
<1> PICK m \in 1 .. q :
        /\ m = kept'
        /\ m = IF Held(LogBlock) THEN IF kept + 1 <= b THEN kept + 1 ELSE b ELSE 1
  <2>1. kept + 1 \in Nat /\ b \in Nat
      BY <1>2
  <2>2. Min({kept + 1, BlockAtoms}) = IF kept + 1 <= b THEN kept + 1 ELSE b
      BY <2>1, LeastOfTwo
  <2> QED
      BY <1>1, <1>2, <2>2
<1>7. /\ log_head' \in 0 .. b - 1
      /\ log_head' = IF h = b - 1 THEN 0 ELSE h + 1
    BY <1>1, <1>2, NextHeadIs
<1>8. ASSUME NEW k \in 0 .. m - 1
      PROVE  HolographicFetch(LogBlock, (log_head - 1 - k) % BlockAtoms)' = t[k + 1]
  <2>1. k \in 0 .. b - 1
      OBVIOUS
  <2>2. PICK c \in 0 .. b - 1 :
            /\ c = (log_head' - 1 - k) % b
            /\ c = IF k < log_head' THEN log_head' - 1 - k ELSE log_head' - 1 - k + b
    <3>1. PICK hh \in 0 .. b - 1 : hh = log_head'
        BY <1>7
    <3>2. (hh - 1 - k) % b = IF k < hh THEN hh - 1 - k ELSE hh - 1 - k + b
        BY <2>1, <3>1, TrailPlace
    <3> QED
        BY <2>1, <3>1, <3>2, PlaceBelow
  <2>3. CASE k = 0
    <3>1. c = h
        BY <1>2, <1>7, <2>2, <2>3
    <3> QED
        BY <1>3, <2>2, <2>3, <3>1
  <2>4. CASE k # 0
    <3>1. Held(LogBlock) /\ k - 1 \in 0 .. kept - 1
        BY <1>2, <2>4
    <3>2. /\ k - 1 \in 0 .. b - 1
          /\ c # h
          /\ c = IF k - 1 < h THEN h - 1 - (k - 1) ELSE h - 1 - (k - 1) + b
        BY <1>2, <1>7, <2>1, <2>2, <2>4
    <3>3. (h - 1 - (k - 1)) % b = c
        BY <1>2, <3>2, TrailPlace
    <3>4. HolographicFetch(LogBlock, c) = events[k - 1 + 1]
        BY <3>1, <3>3 DEF TrailInv, AuditTrailIntact
    <3>5. HolographicFetch(LogBlock, c)' = HolographicFetch(LogBlock, c)
        BY <1>2, <1>3, <3>1, <3>2
    <3>6. t[k + 1] = events[k]
      <4>1. k + 1 \in 2 .. q /\ k + 1 - 1 = k
          BY <2>1, <2>4
      <4>2. t[k + 1] = events[k + 1 - 1]
          BY <4>1
      <4> QED
          BY <4>1, <4>2
    <3>7. k - 1 + 1 = k
        BY <2>1
    <3> QED
        BY <2>2, <3>4, <3>5, <3>6, <3>7
  <2> QED
      BY <2>3, <2>4
<1> QED
  <2>1. AuditTrailIntact'
      BY <1>8 DEF AuditTrailIntact
  <2>2. kept' \in 0 .. Len(events') /\ Len(events') <= BlockAtoms /\ events' \in Seq(Values)
      OBVIOUS
  <2> QED
      BY <2>1, <2>2 DEF TrailInv

LEMMA TrailStep ==
    ASSUME UseInv, ShapeInv, TrailInv, BlockInv, BlockInv', [StackNext]_stackVars
    PROVE  TrailInv'
<1>1. CASE UNCHANGED <<manifoldVars, auditVars>>
  <2>1. \A vb : /\ Held(vb)' = Held(vb)
                /\ \A a : HolographicFetch(vb, a)' = HolographicFetch(vb, a)
      BY <1>1, CacheAlone
  <2> QED
      BY <1>1, <2>1 DEF auditVars, TrailInv, AuditTrailIntact
<1>2. CASE \/ \E r \in Requests : Notify(r)
           \/ ReadSector \/ Complete
           \/ \E hint \in 1 .. MaxHint : UtilizeIdleCycles(hint)
           \/ UNCHANGED stackVars
    BY <1>1, <1>2 DEF Notify, ReadSector, Complete, UtilizeIdleCycles, stackVars
<1>3. CASE WriteSector
  <2>1. PICK n, s : n = request.next /\ s = request.lba + n
      OBVIOUS
  <2>2. /\ s \in Lbas /\ UNCHANGED auditVars
        /\ \A other : other # Block(s) /\ Held(other)' =>
              /\ Held(other)
              /\ \A a \in Atoms : HolographicFetch(other, a)' = HolographicFetch(other, a)
      BY <1>3, <2>1, WriteTurnDoes
  <2>3. LogBlock # Block(s)
      BY <2>2, StackAssumption DEF Block
  <2>4. \A k \in 0 .. kept - 1 : (log_head - 1 - k) % BlockAtoms \in Atoms
    <3>1. ASSUME NEW k \in 0 .. kept - 1
          PROVE  (log_head - 1 - k) % BlockAtoms \in Atoms
      <4>1. k \in 0 .. BlockAtoms - 1 /\ log_head \in 0 .. BlockAtoms - 1
          BY PoolAssumption DEF TrailInv, UseInv
      <4>2. PICK b \in Nat \ {0}, h \in Nat : b = BlockAtoms /\ h = log_head /\ h < b
          BY <4>1, PoolAssumption
      <4>3. (h - 1 - k) % b \in 0 .. b - 1
          BY <4>1, <4>2, TrailPlace, PlaceBelow
      <4> QED
          BY <4>2, <4>3 DEF Atoms
    <3> QED
        BY <3>1
  <2>5. Held(LogBlock)' =>
            /\ Held(LogBlock)
            /\ \A a \in Atoms : HolographicFetch(LogBlock, a)' = HolographicFetch(LogBlock, a)
      BY <2>2, <2>3
  <2> QED
      BY <2>2, <2>4, <2>5 DEF auditVars, TrailInv, AuditTrailIntact
<1>4. CASE \E e \in Values \ {Zero} : Log(e)
    BY <1>4, LogKeepsTrail
<1> QED
    BY <1>2, <1>3, <1>4 DEF StackNext

-----------------------------------------------------------------------------
(* Whole blocks *)

\* A sector the write in progress has yet to write.
Outstanding(lba) ==
    Writing /\ request.lba + request.next <= lba /\ lba < request.lba + request.count

CleanInv ==
    /\ latest \in [Lbas -> Values \cup {None}]
    /\ whole =>
        /\ Writing => ~ Partial(request)
        /\ \A lba \in Lbas :
              Held(Block(lba)) => Reads(lba) = latest[lba] \/ Outstanding(lba)
        /\ request # None /\ request.op = "read" /\ request.ok =>
              \A i \in 0 .. request.next - 1 :
                  request.data[i] \in {Zero, latest[request.lba + i]}

\* A write of whole blocks that comes to a block no slot holds stands at its first
\* sector and will write the others.
LEMMA WholeBlockAhead ==
    ASSUME NEW l \in Nat, NEW c \in Nat, NEW s \in Nat, NEW x \in Nat,
           Place(l) = 0, c % BlockAtoms = 0, l <= s, s < l + c,
           Block(x) = Block(s), x # s,
           s # l => Block(s - 1) # Block(s)
    PROVE  s < x /\ x < l + c
<1> PICK b \in Nat \ {0} : b = BlockAtoms
    BY PoolAssumption
<1>1. PICK bl \in Nat, bc \in Nat : l = b * bl /\ c = b * bc
  <2>1. l % b = 0 /\ c % b = 0
      BY DEF Place
  <2>2. l \div b \in Nat /\ l = b * (l \div b) + (l % b)
      BY DivMod
  <2>3. c \div b \in Nat /\ c = b * (c \div b) + (c % b)
      BY DivMod
  <2>4. b * (l \div b) \in Nat /\ b * (c \div b) \in Nat
      BY <2>2, <2>3
  <2>5. l = b * (l \div b) /\ c = b * (c \div b)
      BY <2>1, <2>2, <2>3, <2>4
  <2> QED
      BY <2>2, <2>3, <2>5
<1>2. PICK bs \in Nat, p \in 0 .. b - 1, q \in 0 .. b - 1 :
          /\ bs = Block(s) /\ s = b * bs + p /\ x = b * bs + q
  <2>1. s \div b \in Nat /\ s % b \in 0 .. b - 1 /\ s = b * (s \div b) + (s % b)
      BY DivMod
  <2>2. x % b \in 0 .. b - 1 /\ x = b * (x \div b) + (x % b)
      BY DivMod
  <2>3. Block(s) = s \div b /\ x \div b = s \div b
      BY DEF Block
  <2> QED
      BY <2>1, <2>2, <2>3
<1>3. bl <= bs
  <2>1. CASE bl >= bs + 1
    <3>1. b * bl >= b * bs + b
        BY <2>1
    <3> QED
        BY <1>1, <1>2, <3>1
  <2> QED
      BY <2>1
<1>4. p = 0
  <2>1. CASE p # 0
    <3>1. b * bs >= b * bl
        BY <1>3
    <3>2. s - 1 \in Nat /\ s # l /\ s - 1 = b * bs + (p - 1) /\ p - 1 \in 0 .. b - 1
        BY <1>1, <1>2, <2>1, <3>1
    <3>3. PICK y \in Nat : y = s - 1
        BY <3>2
    <3>4. y \div b = bs
        BY <3>2, <3>3
    <3> QED
        BY <1>2, <3>2, <3>3, <3>4 DEF Block
  <2> QED
      BY <2>1
<1>5. s < x
  <2>1. PICK z \in Nat : z = b * bs
      OBVIOUS
  <2>2. s = z /\ x = z + q
      BY <1>2, <1>4, <2>1
  <2> QED
      BY <2>2
<1>6. bs + 1 <= bl + bc
  <2>1. CASE bs >= bl + bc
    <3>1. b * bs >= b * (bl + bc)
        BY <2>1
    <3>2. b * (bl + bc) = b * bl + b * bc
        OBVIOUS
    <3> QED
        BY <1>1, <1>2, <3>1, <3>2
  <2> QED
      BY <2>1
<1>7. x < l + c
  <2>1. b * (bs + 1) <= b * (bl + bc)
      BY <1>6
  <2>2. b * (bs + 1) = b * bs + b /\ b * (bl + bc) = b * bl + b * bc
      OBVIOUS
  <2>3. PICK z \in Nat, w \in Nat : z = b * bs /\ w = b * bl + b * bc
      OBVIOUS
  <2>4. z + b <= w /\ x = z + q /\ l + c = w
      BY <1>1, <1>2, <2>1, <2>2, <2>3
  <2> QED
      BY <2>4
<1> QED
    BY <1>5, <1>7

\* What is known of the sectors when no request writes, and nothing is stored.
LEMMA CleanWithoutWrites ==
    ASSUME ShapeInv, CleanInv, UNCHANGED <<manifoldVars, latest>>, whole' => whole,
           ~ Writing, whole' /\ Writing' => ~ Partial(request)' /\ request'.next = 0
    PROVE  /\ latest' \in [Lbas -> Values \cup {None}]
           /\ whole' => \A lba \in Lbas : Held(Block(lba))' => Reads(lba)' = latest'[lba]
<1>1. \A vb : /\ Held(vb)' = Held(vb)
              /\ \A a : HolographicFetch(vb, a)' = HolographicFetch(vb, a)
    BY CacheAlone
<1>2. \A lba : Held(Block(lba))' = Held(Block(lba)) /\ Reads(lba)' = Reads(lba)
    BY <1>1 DEF Reads
<1>3. \A lba : ~ Outstanding(lba)
    BY DEF Outstanding
<1> QED
    BY <1>2, <1>3 DEF CleanInv

LEMMA CleanNotify ==
    ASSUME ShapeInv, CleanInv, NEW r \in Requests, Notify(r)
    PROVE  CleanInv'
<1>1. /\ request = None /\ request' = r /\ Sensible(r)
      /\ whole' = (whole /\ ~ Partial(r)) /\ UNCHANGED <<manifoldVars, latest>>
    BY DEF Notify
<1>2. r.next = 0
    BY <1>1, RequestsHaveShape
<1>3. whole' => ~ Partial(request)'
    BY <1>1 DEF Partial
<1>4. /\ latest' \in [Lbas -> Values \cup {None}]
      /\ whole' => \A lba \in Lbas : Held(Block(lba))' => Reads(lba)' = latest'[lba]
    BY <1>1, <1>2, <1>3, CleanWithoutWrites DEF Writing
<1>5. \A i \in 0 .. request'.next - 1 : FALSE
    BY <1>1, <1>2
<1> QED
    BY <1>3, <1>4, <1>5 DEF CleanInv

LEMMA CleanRead ==
    ASSUME UseInv, ShapeInv, BlockInv, CleanInv, ReadSector
    PROVE  CleanInv'
<1>1. /\ request # None /\ request.op = "read" /\ request' \in Served
      /\ request'.op = "read" /\ request'.lba = request.lba
      /\ request'.next \in 0 .. request.count
      /\ \/ ~ request'.ok
         \/ /\ request'.next = request.next + 1 /\ request'.ok = request.ok
            /\ request.next \in DOMAIN request.data
            /\ \A i \in DOMAIN request.data : request'.data[i] =
                  IF i = request.next THEN Reads(Sector) ELSE request.data[i]
      /\ UNCHANGED <<manifoldVars, auditVars, historyVars>>
    BY ReadTurn
<1>2. ~ Writing /\ ~ Writing' /\ UNCHANGED <<latest, whole>>
    BY <1>1 DEF Writing, historyVars
<1>3. /\ latest' \in [Lbas -> Values \cup {None}]
      /\ whole' => \A lba \in Lbas : Held(Block(lba))' => Reads(lba)' = latest'[lba]
    BY <1>1, <1>2, CleanWithoutWrites
<1>4. ASSUME whole', request'.ok, NEW i \in 0 .. request'.next - 1
      PROVE  request'.data[i] \in {Zero, latest'[request'.lba + i]}
  <2>1. /\ request'.next = request.next + 1 /\ request.ok
        /\ request.next \in DOMAIN request.data
        /\ DOMAIN request.data = 0 .. request.count - 1
        /\ request.next \in Nat /\ request.count \in Nat
        /\ \A k \in DOMAIN request.data : request.lba + k \in Lbas
        /\ \A k \in DOMAIN request.data : request'.data[k] =
              IF k = request.next THEN Reads(Sector) ELSE request.data[k]
    <3>1. request.count \in Nat /\ request.next \in 0 .. request.count
        BY <1>1 DEF ShapeInv
    <3>2. request.next \in Nat
        BY <3>1
    <3>3. /\ DOMAIN request.data = 0 .. request.count - 1
          /\ \A k \in DOMAIN request.data : request.lba + k \in Lbas
        BY <1>1 DEF ShapeInv
    <3>4. /\ request'.next = request.next + 1 /\ request'.ok = request.ok
          /\ request.next \in DOMAIN request.data
          /\ \A k \in DOMAIN request.data : request'.data[k] =
                IF k = request.next THEN Reads(Sector) ELSE request.data[k]
        BY <1>1, <1>4
    <3> QED
        BY <1>4, <3>1, <3>2, <3>3, <3>4
  <2>2. i \in DOMAIN request.data
      BY <2>1
  <2>3. CASE i = request.next
    <3>1. request'.data[i] = Reads(Sector) /\ Sector = request.lba + i /\ Sector \in Lbas
        BY <2>1, <2>2, <2>3 DEF Sector
    <3>2. ~ Outstanding(Sector)
        BY <1>2 DEF Outstanding
    <3>3. Reads(Sector) \in {Zero, latest[Sector]}
      <4>1. CASE Held(Block(Sector))
          BY <1>2, <1>4, <3>1, <3>2, <4>1 DEF CleanInv
      <4>2. CASE ~ Held(Block(Sector))
          BY <4>2 DEF Reads, HolographicFetch
      <4> QED
          BY <4>1, <4>2
    <3> QED
        BY <1>1, <1>2, <3>1, <3>3
  <2>4. CASE i # request.next
    <3>1. i \in 0 .. request.next - 1
        BY <2>1, <2>4
    <3>2. request.data[i] \in {Zero, latest[request.lba + i]}
        BY <1>1, <1>2, <1>4, <2>1, <3>1 DEF CleanInv
    <3> QED
        BY <1>1, <1>2, <2>1, <2>2, <2>4, <3>2
  <2> QED
      BY <2>3, <2>4
<1> QED
    BY <1>2, <1>3, <1>4 DEF CleanInv

LEMMA CleanComplete ==
    ASSUME ShapeInv, CleanInv, Complete
    PROVE  CleanInv'
<1>1. /\ request # None /\ request.next = request.count /\ request' = None
      /\ UNCHANGED <<manifoldVars, latest, whole>>
    BY DEF Complete, historyVars
<1>2. \A vb : /\ Held(vb)' = Held(vb)
              /\ \A a : HolographicFetch(vb, a)' = HolographicFetch(vb, a)
    BY <1>1, CacheAlone
<1>3. \A lba : Held(Block(lba))' = Held(Block(lba)) /\ Reads(lba)' = Reads(lba)
    BY <1>2 DEF Reads
<1>4. ASSUME NEW lba \in Lbas, Outstanding(lba) PROVE FALSE
  <2>1. request.lba \in Lbas /\ request.count \in Nat
      BY <1>1 DEF ShapeInv
  <2>2. PICK n \in Nat : n = request.lba + request.count
    <3>1. PICK l \in Nat, c \in Nat : l = request.lba /\ c = request.count
        BY <2>1, StackAssumption
    <3>2. l + c \in Nat
        OBVIOUS
    <3> QED
        BY <3>1, <3>2
  <2>3. n <= lba /\ lba < n /\ lba \in Nat
      BY <1>1, <1>4, <2>2, StackAssumption DEF Outstanding
  <2> QED
      BY <2>3
<1> QED
    BY <1>1, <1>3, <1>4 DEF CleanInv, Writing

\* A turn that writes: the sector written is its latest contents; a sector of
\* another block that is still held reads as before; one of the block itself is as it
\* was if the block was held, and is still to be written if it was not.
LEMMA CleanWrite ==
    ASSUME UseInv, ShapeInv, LastInv, BlockInv, BlockInv', CleanInv, WriteSector
    PROVE  CleanInv'
<1> PICK n, s : n = request.next /\ s = request.lba + n
    OBVIOUS
<1>1. /\ Writing /\ n \in 0 .. request.count - 1 /\ n \in DOMAIN request.data
      /\ s \in Lbas /\ request.data[n] \in Values
      /\ request' = [op |-> "write", lba |-> request.lba, count |-> request.count,
                     next |-> n + 1, data |-> request.data, ok |-> request.ok]
      /\ request' \in Served
      /\ latest' = [latest EXCEPT ![s] = request.data[n]]
      /\ UNCHANGED <<auditVars, whole>>
      /\ Held(Block(s))' /\ Reads(s)' = request.data[n]
      /\ Held(Block(s)) => \A a \in Atoms \ {Place(s)} :
            HolographicFetch(Block(s), a)' = HolographicFetch(Block(s), a)
      /\ \A other : other # Block(s) /\ Held(other)' =>
            /\ Held(other)
            /\ \A a \in Atoms :
                  HolographicFetch(other, a)' = HolographicFetch(other, a)
    BY WriteTurnDoes
<1> PICK l \in Nat, c \in Nat : l = request.lba /\ c = request.count
    BY <1>1, StackAssumption DEF ShapeInv, Writing
<1>2. n \in 0 .. c - 1 /\ s = l + n /\ s \in Nat /\ l <= s /\ s < l + c
    BY <1>1, StackAssumption
<1>3. request' # None /\ Writing'
    BY <1>1, RequestAssumption DEF Writing
<1>4. latest' \in [Lbas -> Values \cup {None}]
    BY <1>1 DEF CleanInv
<1>5. whole' => ~ Partial(request)'
  <2>1. /\ request'.op = request.op /\ request'.lba = request.lba
        /\ request'.count = request.count
      BY <1>1 DEF Writing
  <2>2. Partial(request)' <=> Partial(request)
      BY <2>1 DEF Partial
  <2> QED
      BY <1>1, <2>2 DEF CleanInv
<1>6. ASSUME whole', NEW x \in Lbas, Held(Block(x))', x # s
      PROVE  Reads(x)' = latest'[x] \/ Outstanding(x)'
  <2>1. x \in Nat /\ latest'[x] = latest[x]
      BY <1>1, <1>6, StackAssumption DEF CleanInv
  <2>2. \A y \in Nat : Outstanding(y) <=> s <= y /\ y < l + c
      BY <1>1 DEF Outstanding
  <2>3. \A y \in Nat : Outstanding(y)' <=> s + 1 <= y /\ y < l + c
    <3>1. request'.lba = l /\ request'.next = n + 1 /\ request'.count = c
        BY <1>1
    <3>2. l + (n + 1) = s + 1
        BY <1>2
    <3> QED
        BY <1>3, <3>1, <3>2 DEF Outstanding
  <2>4. CASE Held(Block(x)) /\ Reads(x)' = Reads(x)
    <3>1. Reads(x) = latest[x] \/ Outstanding(x)
        BY <1>1, <1>6, <2>4 DEF CleanInv
    <3>2. Outstanding(x) => Outstanding(x)'
        BY <1>2, <1>6, <2>1, <2>2, <2>3
    <3> QED
        BY <2>1, <2>4, <3>1, <3>2
  <2>5. CASE Block(x) # Block(s)
    <3>1. Place(x) \in Atoms
        BY <2>1, SectorsApart
    <3>2. /\ Held(Block(x))
          /\ HolographicFetch(Block(x), Place(x))' = HolographicFetch(Block(x), Place(x))
        BY <1>1, <1>6, <2>5, <3>1
    <3> QED
        BY <2>4, <3>2 DEF Reads
  <2>6. CASE Block(x) = Block(s) /\ Held(Block(s))
    <3>1. Place(x) \in Atoms \ {Place(s)}
        BY <1>2, <1>6, <2>1, <2>6, SectorsApart
    <3>2. HolographicFetch(Block(x), Place(x))' = HolographicFetch(Block(x), Place(x))
        BY <1>1, <2>6, <3>1
    <3> QED
        BY <2>4, <2>6, <3>2 DEF Reads
  <2>7. CASE Block(x) = Block(s) /\ ~ Held(Block(s))
    <3>1. Place(l) = 0 /\ c % BlockAtoms = 0
        BY <1>1, <1>6 DEF CleanInv, Partial, Writing
    <3>2. s # l => Block(s - 1) # Block(s)
      <4> SUFFICES ASSUME s # l, Block(s - 1) = Block(s) PROVE FALSE
          OBVIOUS
      <4>1. n > 0 /\ l + n - 1 = s - 1
          BY <1>2
      <4>2. Held(Block(request.lba + request.next - 1))
          BY <1>1, <4>1 DEF LastInv
      <4>3. request.lba + request.next - 1 = s - 1
          BY <4>1
      <4> QED
          BY <2>7, <4>2, <4>3
    <3>3. s < x /\ x < l + c
        BY <1>2, <1>6, <2>1, <2>7, <3>1, <3>2, WholeBlockAhead
    <3>4. s + 1 <= x
        BY <1>2, <2>1, <3>3
    <3> QED
        BY <2>1, <2>3, <3>3, <3>4
  <2> QED
      BY <2>5, <2>6, <2>7
<1>7. Reads(s)' = latest'[s]
    BY <1>1 DEF CleanInv
<1>8. request'.op = "write"
    BY <1>1
<1>9. ASSUME whole', NEW x \in Lbas, Held(Block(x))'
      PROVE  Reads(x)' = latest'[x] \/ Outstanding(x)'
    BY <1>6, <1>7, <1>9
<1> QED
    BY <1>4, <1>5, <1>8, <1>9 DEF CleanInv

LEMMA CleanLog ==
    ASSUME UseInv, BlockInv, BlockInv', CleanInv, NEW e \in Values \ {Zero}, Log(e)
    PROVE  CleanInv'
<1>1. /\ request = None /\ request' = request /\ UNCHANGED <<latest, whole>>
      /\ Materialize(LogBlock, <<log_head, 1>>, e)
    BY DEF Log, Logged, serviceVars, historyVars
<1>2. log_head \in Atoms /\ LogBlock \in VBlocks
    BY StackAssumption DEF UseInv, Atoms
<1>3. \A other : other # LogBlock /\ Held(other)' =>
          /\ Held(other)
          /\ \A a \in Atoms : HolographicFetch(other, a)' = HolographicFetch(other, a)
    BY <1>1, <1>2, StoreReadsBack
<1>4. ASSUME NEW x \in Lbas, Held(Block(x))'
      PROVE  Held(Block(x)) /\ Reads(x)' = Reads(x)
  <2>1. Block(x) # LogBlock /\ x \in Nat
      BY StackAssumption DEF Block
  <2>2. Place(x) \in Atoms
      BY <2>1, SectorsApart
  <2> QED
      BY <1>3, <1>4, <2>1, <2>2 DEF Reads
<1>5. ~ Writing /\ \A x : ~ Outstanding(x)
    BY <1>1 DEF Writing, Outstanding
<1> QED
    BY <1>1, <1>4, <1>5 DEF CleanInv, Writing

LEMMA CleanStep ==
    ASSUME UseInv, ShapeInv, LastInv, CleanInv, BlockInv, BlockInv',
           [StackNext]_stackVars
    PROVE  CleanInv'
<1>1. CASE UNCHANGED stackVars \/ \E hint \in 1 .. MaxHint : UtilizeIdleCycles(hint)
  <2>1. UNCHANGED <<manifoldVars, request, latest, whole>>
      BY <1>1 DEF UtilizeIdleCycles, stackVars, serviceVars, historyVars
  <2>2. \A vb : /\ Held(vb)' = Held(vb)
                /\ \A a : HolographicFetch(vb, a)' = HolographicFetch(vb, a)
      BY <2>1, CacheAlone
  <2>3. \A lba : /\ Held(Block(lba))' = Held(Block(lba)) /\ Reads(lba)' = Reads(lba)
                 /\ Outstanding(lba)' = Outstanding(lba)
      BY <2>1, <2>2 DEF Reads, Outstanding, Writing
  <2>4. Writing' = Writing /\ Partial(request)' = Partial(request)
      BY <2>1 DEF Writing, Partial
  <2> QED
      BY <2>1, <2>3, <2>4 DEF CleanInv
<1>2. ASSUME NEW r \in Requests, Notify(r) PROVE CleanInv'
    BY <1>2, CleanNotify
<1>3. ASSUME NEW e \in Values \ {Zero}, Log(e) PROVE CleanInv'
    BY <1>3, CleanLog
<1> QED
    BY <1>1, <1>2, <1>3, CleanRead, CleanWrite, CleanComplete DEF StackNext

-----------------------------------------------------------------------------
StackTypes ==
    /\ highest \in Lbas \cup {0} /\ horizon \in Nat
    /\ whole \in BOOLEAN

LEMMA TypesStep ==
    ASSUME StackTypes, [StackNext]_stackVars
    PROVE  StackTypes'
<1>1. ASSUME NEW r \in Requests, Notify(r) PROVE StackTypes'
  <2>1. PICK op \in {"read", "write"}, lba \in Lbas, n \in 0 .. MaxSectors,
             data \in UNION {Buffers(m) : m \in 0 .. MaxSectors} :
            r = [op |-> op, lba |-> lba, count |-> n, next |-> 0, data |-> data, ok |-> TRUE]
      BY DEF Requests
  <2>2. r.lba \in Lbas /\ r.lba + r.count \in Nat
    <3>1. r.lba = lba /\ r.count = n
        BY <2>1
    <3>2. lba + n \in Nat
        BY StackAssumption
    <3> QED
        BY <3>1, <3>2
  <2>3. whole' \in BOOLEAN
      BY <1>1 DEF Notify
  <2> QED
      BY <1>1, <2>2, <2>3 DEF Notify, MoveFrontier, StackTypes
<1>2. ASSUME NEW hint \in 1 .. MaxHint, UtilizeIdleCycles(hint) PROVE StackTypes'
  <2>1. Min({horizon + hint, Capacity}) \in Nat
    <3>1. horizon + hint \in Nat /\ Capacity \in Nat
        BY StackAssumption DEF StackTypes
    <3> QED
        BY <3>1, LeastOfTwo
  <2> QED
      BY <1>2, <2>1 DEF UtilizeIdleCycles, historyVars, StackTypes
<1>3. CASE ReadSector \/ WriteSector \/ Complete
    BY <1>3 DEF ReadSector, WriteSector, WriteTurn, Complete, historyVars, StackTypes
<1>4. CASE UNCHANGED stackVars \/ \E e \in Values \ {Zero} : Log(e)
    BY <1>4 DEF Log, Logged, stackVars, serviceVars, historyVars, StackTypes
<1> QED
    BY <1>1, <1>2, <1>3, <1>4 DEF StackNext

StackInv ==
    /\ UseInv /\ ShapeInv /\ LastInv /\ TrailInv /\ CleanInv /\ StackTypes

LEMMA StackInvInit == StackInit => StackInv
<1> SUFFICES ASSUME StackInit PROVE StackInv
    OBVIOUS
<1>1. UseInv
    BY PoolAssumption DEF StackInit, UseInv, RequestInv
<1>2. ShapeInv /\ LastInv
    BY DEF StackInit, ShapeInv, LastInv, Writing
<1>3. TrailInv
  <2>1. events = <<>> /\ kept = 0 /\ BlockAtoms \in Nat
      BY PoolAssumption DEF StackInit
  <2>2. AuditTrailIntact
      BY <2>1 DEF AuditTrailIntact
  <2> QED
      BY <2>1, <2>2 DEF TrailInv
<1>4. CleanInv
  <2>1. \A vb : ~ Held(vb)
      BY DEF StackInit, Init, Held, Holder
  <2>2. latest \in [Lbas -> Values \cup {None}] /\ request = None
      BY DEF StackInit
  <2> QED
      BY <2>1, <2>2 DEF CleanInv, Writing
<1>5. StackTypes
    BY DEF StackInit, StackTypes
<1> QED
    BY <1>1, <1>2, <1>3, <1>4, <1>5 DEF StackInv

LEMMA StackInvStep ==
    ASSUME StackInv, BlockInv, BlockInv', [StackNext]_stackVars
    PROVE  StackInv'
    BY UseStep, ShapeStep, LastStep, TrailStep, CleanStep, TypesStep DEF StackInv

LEMMA StackInvariant == StackSpec => [](StackInv /\ BlockInv)
<1>1. StackSpec => []BlockInv
    BY StackUsesBlocks, BlockInvariant
<1>2. StackInit => StackInv
    BY StackInvInit
<1>3. StackInv /\ BlockInv /\ BlockInv' /\ [StackNext]_stackVars => StackInv'
    BY StackInvStep
<1> QED
    BY <1>1, <1>2, <1>3, PTL DEF StackSpec

\* The service, the log and the cache keep their types in every interleaving.
THEOREM StackTypeCorrect == StackSpec => []StackTypeOK
<1>1. StackInv /\ BlockInv => StackTypeOK
    BY DEF StackInv, BlockInv, ShapeInv, TrailInv, UseInv, StackTypes, StackTypeOK
<1> QED
    BY <1>1, StackInvariant, PTL

\* When a write is done, its sectors in the block it ended in read back as they were
\* written, whatever its earlier blocks pushed out (serve_write).
THEOREM WritesReadBack == StackSpec => []LastBlockReadsBack
<1>1. StackInv => LastBlockReadsBack
  <2> SUFFICES ASSUME StackInv, Answered("write"), NEW i \in DOMAIN request.data,
                      Block(request.lba + i) = Block(request.lba + request.count - 1)
               PROVE  Reads(request.lba + i) = request.data[i]
      BY DEF LastBlockReadsBack
  <2>1. /\ Writing /\ request.next = request.count /\ request.count \in Nat
        /\ DOMAIN request.data = 0 .. request.count - 1
      BY DEF Answered, Writing, StackInv, ShapeInv
  <2>2. i \in 0 .. request.next - 1 /\ request.next > 0
      BY <2>1
  <2> QED
      BY <2>1, <2>2 DEF StackInv, LastInv
<1> QED
    BY <1>1, StackInvariant, PTL

\* While the log's block is held, the events logged since it was brought in are in
\* it, newest just below the head (AuditLogger::log).
THEOREM TrailAlwaysIntact == StackSpec => []AuditTrailIntact
<1>1. StackInv => AuditTrailIntact
    BY DEF StackInv, TrailInv
<1> QED
    BY <1>1, StackInvariant, PTL

\* As long as guests write whole blocks only, a read gives the latest contents of
\* each sector or zeros (serve_read over slots that are reused uncleared).
THEOREM WholeBlocksReadClean == StackSpec => []ReadsAreClean
<1>1. StackInv => ReadsAreClean
  <2> SUFFICES ASSUME StackInv, whole, Answered("read"), request.ok,
                      NEW i \in DOMAIN request.data
               PROVE  request.data[i] \in {Zero, latest[request.lba + i]}
      BY DEF ReadsAreClean
  <2>1. /\ request # None /\ request.op = "read" /\ request.next = request.count
        /\ DOMAIN request.data = 0 .. request.count - 1
      BY DEF Answered, StackInv, ShapeInv
  <2>2. i \in 0 .. request.next - 1
      BY <2>1
  <2> QED
      BY <2>1, <2>2 DEF StackInv, CleanInv
<1> QED
    BY <1>1, StackInvariant, PTL
=============================================================================
