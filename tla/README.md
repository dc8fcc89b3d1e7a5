# A verification development for EmergenceOS

This directory holds TLA+ models of EmergenceOS ("Consensus Hypervisor"), a
freestanding C++ kernel for x86-64: TLC checks them on small instances, and TLAPS
proves their safety properties for every value of their constants. `PROJECT.json` maps
every definition to the lines it models, and lists the runs, the mutations that show each
property to have teeth, the hazards and the theorems. Paths below are relative to
`src/src/` of the repository.

Contents: [1 Inventory](#1-inventory) · [2 Modules](#2-modules) ·
[3 Runs](#3-runs-what-they-check-and-show) · [4 Bounds](#4-bounds) ·
[5 Fairness](#5-fairness) · [6 Proofs](#6-proofs) ·
[7 Disagreements](#7-where-code-and-comments-disagree) ·
[8 Not modelled](#8-what-is-not-modelled) · [9 Left](#9-what-is-left)

## 1 Inventory

The Makefile builds `boot/`, `hal/*.cpp`, `mm/memory.cpp` and what `boot/kmain.cpp`
includes. Several headers are in no build: `vdev/residue_persistence.hpp` (it would
not compile: an `#if` in the middle of line 88, and `SPECULATIVE_ROUTE` and
`inject_restored_atom` exist nowhere), `core/predictive_topology.hpp`, `core/tvm.hpp`,
`hal/iommu_hybrid.hpp` and `vdev/bmt_topology.hpp`. They are modelled as what they
say, because they hold the system's only crash recovery, its only
two-core protocol and its only file format.

| Part | State | Operations | Talks to | What is hard | What makes it correct |
|---|---|---|---|---|---|
| Substrate Manifold, `vdev/topology.hpp` | 1024 slots of 1024 atoms (16 bytes), their states and block numbers, a 32-bit counter | `holographic_fetch`, `materialize_range`, `read_slot`, `write_slot`, `clear_slot` | everything that stores: storage service, audit log, transducer, VM | eviction by a wrapping counter, slots reused uncleared, slots cleared and revived | it holds the last 1024 blocks brought in, each once, and a fetch reads what was last stored |
| Physical memory, `mm/memory.cpp` | one address | `allocate`, `operator new` | the manifold, AHCI, VMX | exhaustion, rounding, wrap of a sum | blocks are disjoint, aligned, in the arena; a refusal is harmless |
| Residue journal, `vdev/residue_persistence.hpp` | tail, the journal's sectors, an array on the stack | `commit_residue`, `recover_state` | a `SubstrateIO`, the manifold | crash between sectors, partly filled sectors, sectors with 17 records of which 16 are read | what is restored was committed; what was committed is restored |
| AHCI driver, `hal/ahci.hpp`, `vdev/substrate_io.hpp` | one command slot, one table, the port's registers | `initialize`, `read`, `write` | the adapter, by registers and DMA | the adapter runs beside it; busy, failing or missing drives | a call does its transfer before it reports success, and leaves nothing running |
| Storage service and VirtIO device, `vdev/substrate_service.hpp`, `vdev/virtio_blk.hpp` | frontier and horizon of reads, byte counters | `handle_guest_notify`, `serve_read`, `serve_write`, `utilize_idle_cycles` | guests, the manifold, a `SubstrateIO` | requests that span blocks, a cache shared with others, refusals half way | reads return what was written, or nothing |
| Audit log, `vdev/audit_log.hpp` | a head | `log` | the manifold | wraps round in a block that can leave | the last events are there in order |
| Console, `hal/keyboard.hpp`, `boot/kmain.cpp`, `hal/idt.cpp` | modifiers, the access key, the command line, the pulse | `read_password`, the menu, `sovereign_shell`, the timer interrupt | the keyboard controller, the resource allocator | a byte is taken by whoever polls first; pulses and bytes at any time | no key is invented, no line runs over, none is left behind |
| Predictive engine, `core/predictive_topology.hpp` | a ring of 256 guesses, head and tail | `speculative_fetch`, `verify_consensus` | the manifold, another core | two cores write `head_`; no test for a full ring | guesses are verified whole, in order, and none is lost |
| Logic transducer, `core/logic_transducer.hpp` | 64 symbols | `register_hook`, `burn_atom`, `resolve_chain`, `resolve_spatial` | the manifold | a miss, or another block's atom, read as a link; names cut down to 31 characters | a chain follows burnt atoms or faults; a name keeps its coordinate |
| Fault handlers, `boot/boot.S`, `hal/idt.cpp` | the interrupted registers on the stack | `exception_handler_ud`, `resolve_hic`, `dump_registers` | the manifold | addresses of stack slots | 0F FF leaves its result in RAX |
| State engine, `core/state_engine.hpp` | state, counter | `step`, `reset` | the manifold | atomic counter beside a plain state | never too many guesses away from the table; a lookup obeys it |
| Topological VM, `core/tvm.hpp` | guest context | `load_guest`, `run` | the manifold, the storage service | handlers dispatched through a cache | the guest stops exactly when told |
| Phase fold, `vdev/context_driven_engine.hpp` | three static layers, the service's byte counters | `phase_fold`, `get_match_rate_scaled` | the storage service | layers that overflow; offsets counted from the last correction | findings and residue give the sector back |
| BMT image, `vdev/bmt_topology.hpp` | a root, 1024 blocks, a seed | `write_chain`, `read_chain`, `clear_blocks`, `save_image`, `load_image` | a file system | reserved routes that are entry numbers, a crash or a failed write in a save, loads under another seed | what was written reads back, also from the image; a load is all or nothing |
| SHA-256, `crypto/sha256.hpp` | 64-byte buffer, count | `update`, `finalize` | - | boundaries at 56 and 64 bytes | every byte is hashed once, in order |
| Resource allocator, `mm/dynamic_allocator.hpp` | modes of two cores, a node counter | `isolate_core`, `fold_manifold` | the shell, the panel | - | - |
| Boot, `boot/kmain.cpp` with `hal/pci.hpp`, `hal/vga.hpp`, `core/vmx_impl.hpp` | the pointers to seven buffers, VMX's state | `kmain` up to the menu, `find_ahci_base`, `Graphics::initialize`, `VMXController::enable` | the allocator, the adapter, the processor, the user | refused requests nobody looks at, waits without a bound, MSRs that may not exist | buffers are blocks of their own; a machine that can boot does |
| IOMMU, key derivation, drawing, serial, PIT | registers | - | hardware | - | - |

How they meet: `kmain` creates the allocator, finds and starts the disk, takes the
access key, creates the manifold from the allocator and loops between menu and
shell. The manifold is the shared state: whoever stores a block may push out anybody's
block. Calls are synchronous on one core; what runs beside it is the timer
interrupt, the keyboard controller, the disk adapter and, for the predictive engine,
a second core.

## 2 Modules

The modules build on each other in two lines, one from the allocator and one from the
block cache:

    PhysicalMemory <- Boot
    BlockWindow <~ SubstrateManifold <- StorageStack
                   SubstrateManifold <- AddressedManifold <- LogicTransducer, StateEngine,
                                        TopologicalVM, FaultPath <- ManifoldClients
    ClientMachines <~ ManifoldClients
    SectorDisk <~ AHCIDriver

(`<-` is extended by, `<~` is implemented by.) `ResidueJournal`, `Console`,
`PredictiveRing`, `PhaseFold`, `Sha256` and `TopologyImage` stand alone.

| Module | Models | Correspondence |
|---|---|---|
| `BlockWindow` | abstract | what the manifold promises: a window of the last `WindowSize` blocks |
| `SubstrateManifold` | `vdev/topology.hpp` | one variable per field; `Materialize`, `WriteSlot`, `ClearSlot` are the methods; `HolographicFetch`, `Held`, `FirstHolder`, `Victim` are the scan and its results; copies run over the end of a slot as `kmemcpy` does |
| `AddressedManifold` | `vdev/topology.hpp` | the same methods at byte addresses: `Store`, `Fetch`, `TouchSlot`; `Owed` is what a client that stored at an address may count on while the blocks `touched` fit the pool |
| `LogicTransducer` | `core/logic_transducer.hpp` | `RegisterHook`, `HookCoordinate`, `BurnAtom`, `ResolveChain` (`Links`, a link to a word of the script), `ResolveSpatial`, `AesRound` |
| `StateEngine` | `core/state_engine.hpp` | `Step` is `Speculate` or `LookUp`, as the counter says; `Reset` |
| `TopologicalVM` | `core/tvm.hpp` | `LoadGuest`; `GuestExit` is one round of the loop of `run` |
| `FaultPath` | `boot/boot.S`, `hal/idt.cpp` | `Returned` is the stub with the pointers it computes, `Resolved` the handler under it |
| `ManifoldClients` | - | the four clients on one manifold and in one address space |
| `ClientMachines` | abstract, `core/logic_transducer.hpp`, `core/state_engine.hpp`, `core/tvm.hpp` | what the clients do on a memory of blocks: no slots, states of slots, maps or counters; names are a directory, and the guesses since the last lookup a number |
| `PhysicalMemory` | `mm/memory.cpp` | `Grant` and `Refuse` are the two ends of `allocate`; sums are taken modulo the word |
| `Boot` | `boot/kmain.cpp`, `hal/pci.hpp`, `hal/ahci.hpp`, `hal/vga.hpp`, `hal/serial.hpp`, `core/vmx_impl.hpp` | `pc` says what `kmain` does next; `Ask` is an `allocate` whose result nobody looks at; the machine is chosen at the start |
| `PhaseFold` | `vdev/context_driven_engine.hpp`, `vdev/substrate_service.hpp` | a byte a step: `Found` or `Keep`; `Packed` is the corrections as the next layer's bytes; `NextLayer`, `EndWrite`; `KeepTooMany` and `EndTooLong` are the writes past a buffer |
| `Sha256` | `crypto/sha256.hpp` | `Update` fills the block begun before (`Fill`), takes whole blocks where they lie and keeps the rest (`Take`); `Finalize` pads a byte at a time; the hash stands as the blocks it transformed |
| `TopologyImage` | `vdev/bmt_topology.hpp` | an operation a step; `HopsOf` reads a block hop by hop, `Puts` and `Gets` go along a chain of blocks; the file is the sequence of pieces written, and `CrashInSave` keeps a beginning of them, `PowerFailure` comes between operations |
| `ResidueJournal` | `vdev/residue_persistence.hpp` | the disk, the stack array and the sector buffer are sequences of units, so that records straddle sectors as they do at 30 bytes in 512; `BeginCommit`, `WriteSector`, `EndCommit` are a commit; `ReadSector`, `Inject`, `FindTerminator`, `FindCorruption`, `ReadAll` a recovery; `Crash` keeps the disk only |
| `SectorDisk` | abstract, `vdev/substrate_io.hpp` | a call is served once between its start and its return |
| `AHCIDriver` | `hal/ahci.hpp` | the driver's program counter against an external adapter (`EnginesStop`, `DriveReady`, `FetchTable`, `Transfer`, `Complete`, `Fail`) that shares the port's registers |
| `StorageStack` | `vdev/substrate_service.hpp`, `vdev/virtio_blk.hpp`, `vdev/audit_log.hpp` | extends `SubstrateManifold`: every store is its `Materialize`; a request is served a sector a step |
| `Console` | `hal/keyboard.hpp`, `boot/kmain.cpp`, `hal/idt.cpp` | the kernel's thread against a user, a controller and a timer; `UpdateState` and `ReadChar` are the two polls of `read_char` |
| `PredictiveRing` | `core/predictive_topology.hpp` | every access of shared memory by either core is a step |
| `SlotArithmetic`, `*Proofs` | - | lemmas and proofs (section 6) |
| `MC*` | - | instances for TLC |

Data is abstract throughout: an atom, a sector or a character is a model value or a
small record; the prediction of an atom is a bit; whether a guess is right, whether a
byte is found in a layer, what a block looks like under the wrong seed are free
choices. History variables (commented "history") record what happened and are read by
no guard. A definition commented "Error:" (or "kept for mutation") is a plausible bug,
and is used by no specification.

## 3 Runs: what they check and show

| Run | Properties | Shows |
|---|---|---|
| `manifold_clients` | `TypeOK`, `UniqueUnlessRevived`, `ResolutionsAreExact`, `GuessesFoldInputs`, `TableIsObeyed`, `ExitsReachTheirHandlers`, `ImplementsMachines` | the whole interface of the cache under its four clients. Always: indices in range, a block in two slots only after `write_slot` revived a cleared one, guesses that depend on the inputs and not on their order. While the blocks in use fit the pool and nothing went around `materialize_range`: chains, transitions and exits follow what was last stored, whoever stored next to it. And for every step: the clients on the cache are `ClientMachines` on a memory, where a name keeps its first coordinate and no step of one client shows in another except through what it stored |
| `hic_result` (violation) | `HicReturnsResult` | see section 7 |
| `boot` | `TypeOK`, `GrantsDisjoint`, `GrantsInArena`, `RefusalIsCheap`, `BuffersAreGranted`, `ReadyMeansOn`, `BootReachesMenu` | the boot on every kind of machine: blocks are disjoint, aligned and inside; a refusal costs less than a unit, once; where the frame buffer leaves room no pointer is null; "[ENABLED]" is shown only with VMX on; a bootable machine reaches the menu |
| `storage_stack` | `StackTypeOK`, `LastBlockReadsBack`, `AuditTrailIntact`, `ReadsAreClean`, `FetchesFromWindow`, `KeepsPromise` | under the device, the service and the log the cache is a `BlockWindow`, across the wrap of the counter; what of storage survives in it: the last block of a write, the log's events while its block is held, and, as long as blocks are written whole, reads that are never stale or another's |
| `byte_streams` | `ResidueUnfolds`, `RateIsARate`, `DigestsAreExact` | whatever the layers find, findings and residue give the sector back, also after one damaged value is healed; the rate never underflows; a digest is that of the message, however it was cut |
| `topology_image` | `ImageTypeOK`, `ReachableBytesReadBack`, `LoadIsAllOrNothing` | what fits a block's reachable entries reads back until it is written again, through saves and loads that fail half way; a load that returns true with the save's seed has all blocks of that save |
| `chain_readback` (violation) | `ChainReadsBack` | see section 7 |
| `ahci_driver` | `DriverTypeOK`, `QuietWhenIdle`, `PollHasAnAnswer`, `ImplementsSectorDisk`, `CallsReturn` | a success means that the transfer of that call happened in it; no command survives its call; whenever the driver polls, an answer is there or on its way; every call returns |
| `residue_journal` | `TypeOK`, `RestoredWasRecorded` | whatever was torn, lost or left on the stack, what recovery injects was recorded for that address by some commit |
| `journal_complete` (violation) | `ResurrectionIsComplete` | see section 7 |
| `console` | `TypeOK`, `LineIsClean`, `PasswordWasTyped`, `BytesAreTaken` | keys may be lost between two polls but never invented or reordered; the line is bounded and clean; the keyboard is always read in the end |
| `predictive_ring` | `RecordsAreWhole`, `AcceptedInOrder`, `NoGuessLost` | until the ring is overrun, both cores' writes to `head_` lose nothing but guesses behind a wrong one |

What these runs do not say:

- A guest's data survives in the cache only while its block is one of the last 1024,
  and nothing is written back when it leaves (`topology.hpp:69`); the service reads
  only the cache. `ReadsAreClean` therefore allows zeros, and fails without its
  hypothesis: a partly written block shows, in the rest, the block its slot held
  before. The same is behind `Owed` in `AddressedManifold`: at a place nobody stored
  to, in a block that is in use, nothing is promised.
- A load under another seed with the same tag returns true with blocks of noise:
  `LoadIsAllOrNothing` speaks of the save's own seed.
- In the predictive ring a guess published between the interrupt
  (`predictive_topology.hpp:68`) and the reset of `head_` (`:69`) is dropped although
  its core was interrupted before it was made: `NoGuessLost` allows that, because an
  older guess was wrong.
- A machine without MSR 0x3A, or with the MSR unlocked and without VMX, takes a #GP in
  `enable` and stays there (`vmx_impl.hpp:57`, `:61` come before the test of CPUID,
  `:70`), and `write_char` waits for a bit of memory (`serial.hpp:14`) whenever a drive
  was found: `Bootable` names these conditions instead of hiding them.

Deadlock checking is off where the system may stop: the bound on calls, commits or
operations is reached, the boot has ended or hangs, or recovery has halted the
machine. `Console` never stops.

## 4 Bounds

- `ManifoldClients`: addresses of four bits: four blocks of two atoms of two bytes, a
  pool of two, `CounterMod` 4, so that eviction and the wrap are within reach of
  `MaxOps` 5. Burnt results, transitions, the image and the handlers lie in one
  another's blocks, and copies of up to three atoms run out of theirs. Four lenses make
  routes 1 to 3 the reserved ones; `ENTROPY_THRESHOLD` is 1 for 64, the table holds 2
  names for 64 and one character for 31. `hic_result` needs two operations.
- `Boot`: an arena of twelve alignment units of four bytes with its start off the
  alignment; frames of 0 to 44 bytes that leave room exactly, crowd out the pool, or
  are refused themselves; all combinations of adapter, drive, tags and VMX.
- `StorageStack`: 2 slots of 2 sectors, 2 guest blocks inside the capacity, one
  beyond, and the log's; requests of up to 2 sectors; 4 requests or events (`MaxWork`),
  enough to evict a block, reuse its slot and read. Contents are symmetric.
- `PhaseFold`: sectors of 4 bytes of 2 bits, packed corrections of 4 bytes, arrays for
  4, 2 and 2 corrections, a residue of one correction, 2 writes: every layer can find
  all, some or none of its bytes, and every buffer can be overrun.
- `Sha256`: blocks of 4 bytes with a length of 2, messages of up to 9 bytes in pieces
  of every length, the empty one included: every boundary of a block and of the padding;
  two seeds of a quarter of a block, as the code's are.
- `TopologyImage`: 2 blocks of 5 entries of 2 bytes, of which 2, 3 and 4 have reserved
  numbers; messages that end inside a hop, with the last reachable hop and in a second
  block; 3 seeds, two with the same tag; 6 operations: initialize, write, save, write,
  a crash in a save or another seed, load. `chain_readback` needs one.
- `ResidueJournal`: records of 2 units and sectors of 7, so that three and a half
  fit one sector and two are read from it, as 17 and 16 in the code; 4 atoms to a
  block, 2 blocks, 3 sectors, 2 commits, 1 crash, 1 failed write. Two commits
  share a sector and a crash falls between any two sectors of either.
- `AHCIDriver`: 2 sectors, 2 values, 3 calls (one can fail, one follow it, one
  follow that), `SpinLimit` 2 for 1000000. `StaleStatus = {FALSE}`: the port comes
  without an old error (section 7).
- `Console`: an access key of 2, a line of 2, a controller of 2 bytes, 6 bytes: the
  key, the menu, a command, the menu again and a byte into the second visit.
- `PredictiveRing`: 4 places and 9 guesses: the ring goes round twice and can be
  overrun.

## 5 Fairness

Three properties need it. `CallsReturn` assumes weak fairness of the driver's
code, and of the adapter's answers: engines that are told to stop do, a command that
is issued is fetched and then completes or fails. The driver's two unbounded waits
(`ahci.hpp:126`, `:188`) rest on exactly that; the adapter is not assumed to become
ready, the bound on polls sees to that. `BytesAreTaken` assumes weak fairness of
the kernel's thread, which nothing pre-empts for good, and of the timer, which the
PIT fires at 100 Hz with interrupts enabled in `kmain`; nothing is assumed of the
user. `BootReachesMenu` assumes that the kernel runs, that the adapter stops its
engines, and that the user enters an access key, which `kmain` waits for
(`kmain.cpp:180`).

## 6 Proofs

Eight modules hold proofs, with no assumption but the constants' (the `ASSUME`s, which
TLC evaluates in the runs) and the hypotheses named in the theorems. `SlotArithmetic`
holds the lemmas several of them share: remainders, places counted round a ring, and
walks. What a loop of the code computes is a function on `0 .. n` given by its first
value and its step; `WalkExists` says that there is such a function (`AllTheWay` is the
induction, on the least place where it would fail), so that what holds at the start and
is kept by a round of the loop can be carried along it. That is how the chains of the
transducer, the hops and blocks of an image and the layers of a fold are proved about.

`SubstrateManifoldProofs`:

- `TypeCorrect`: `Spec => []TypeOK`. Inductive as it stands, from `CounterFacts`
  (the victim is a slot because the counter is a natural below `CounterMod`).
- `OneSlotPerBlock`: `Spec => []UniqueUnlessRevived`. Inductive with `TypeOK`: a
  slot is given out only when no slot holds the block, and `revived` records the one
  other way to become resident.
- `ImplementsBlockWindow`: under `ExtentsFit` (copies stay in their block),
  `BlockSpec => KeepsPromise`. The mapping reads the slots from the victim on:
  `Window[k] = Line((vblock_counter + k) % PoolSize)`. The invariant is `BlockInv`
  (types, one slot per block, nothing revived). A store to a held block changes one
  line; a store to a new one shifts the window, which is where
  `CounterAssumption` (`PoolSize` divides `CounterMod`) is needed: the places go on
  in the same order when the counter wraps.
- `FetchesAgree`: `BlockSpec => []FetchesFromWindow`.

`StorageStackProofs`:

- `StackUsesBlocks`, `StackSpec => BlockSpec`: every step of the device, the service
  or the log stores one sector inside its block or leaves the cache alone. With it the
  results about the cache become results about storage: `StackKeepsPromise` and
  `StackFetchesAgree`. The invariant (`UseInv`) is that a pending write has a value for
  each of its sectors, all of them in `Lbas`, and that the log's head is a place of its
  block.
- `StackTypeCorrect`, `WritesReadBack` (`LastBlockReadsBack`), `TrailAlwaysIntact`
  (`AuditTrailIntact`) and `WholeBlocksReadClean` (`ReadsAreClean`). All four rest on
  `StoreReadsBack`: a store makes its atom read back, leaves the rest of a held block
  as it was, and leaves every other block that is still held as it was. `StackInv`
  says of a request under way what its result will say when it is done: `LastInv`, the
  sectors written so far in the block the last of them is in read back (writing the next
  one may push out any other block, but not that one's own when it is in the same
  block); `TrailInv`, the log's events; `CleanInv`, that with whole-block writes every
  sector of a held block is the latest one, or is still to be written by the request
  under way (`Outstanding`). A reused slot shows another block's sectors only in that
  last case: `WholeBlockAhead` is the arithmetic by which a write that comes to a block
  nobody holds is at its first sector and will reach its last.

`BootProofs`, first about the allocator alone, all under `SizesFit` (no request is so
large that the sum in `allocate` wraps): `BlocksNeverOverlap`, `BlocksStayInArena`,
`RefusalsAreCheap`. The invariant `MemoryInv` adds to the types that the address is
below the end of the arena plus one unit, that every block is aligned, in the arena and
below the address, and that blocks are in order: a new block starts at the rounded
address, so above them all. Without `SizesFit` the theorem is false: a size near 2^64
wraps past the test (`memory.cpp:16`). Then about the boot:

- `BootAllocates`, `BootSpec => Spec`: whatever machine `kmain` runs on, what it does
  to the allocator is a sequence of requests of `Sizes` (the frame's size is in `Sizes`
  by `FrameAssumption`), so the three results hold of the boot (`BootNeverOverlaps`,
  `BootStaysInArena`, `BootRefusalsAreCheap`), and `BootTypes` with them.
- `BootBuffersAreGranted`: where the frame buffer leaves room, every pointer is a block
  of its own. `RoomInv` bounds the address at every place of `kmain` by what may have
  been asked for before it (`Limit`), so that no request is refused.
- `ReadyIsTrue`: `[]ReadyMeansOn`.

`ManifoldClientsProofs`: `ClientsTypeCorrect` and `ClientsOneSlotPerBlock` (the
manifold's two invariants hold at byte addresses, under the clients' stores, revived
slots and copies that run out of their block); `GuessesFold`
(`GuessesFoldInputs`); `HooksStay` (`HooksKeep`); and what three clients of one cache
may count on: `ChainsResolveExactly` (`ResolutionsAreExact`), `TablesAreObeyed`
(`TableIsObeyed`), `ExitsReach` (`ExitsReachTheirHandlers`). The last three come from
one invariant about the cache: while it is `Undisturbed`, the pool has been filled from
slot 0 on, one slot for each block touched (`FilledInOrder`), and a slot in use holds
what was last stored in its block (`HoldsStored`). A block that is touched for the first
time therefore takes an empty slot, as long as there is one, and pushes nothing out. A
chain is then followed link by link, next to the walk through what was last stored
(`Paces`): they agree until that walk ends.

`ClientsAreMachines`, `ClientsSpec => ImplementsMachines`, is the same for whole
behaviours. The memory is what was last stored in the blocks touched (`InUse`), it is
kept while the cache is `Undisturbed`, the directory gives each name of the table the
coordinate a search finds (`Directory`), and the counter of guesses is
`chaos_accumulator`. What the cache gives back is then what the memory allows
(`FetchIsReadable`, from the invariant above); a store, whoever makes it, puts just what
it says (`StorePuts`); a registration enters a name that is not there and moves no other
(`RegisterEnters`, over `FirstPlaceStays` about the first entry of a name); the engine
guesses below the threshold and looks up at it, never twice (`EngineMoves`, from
`GuessesFoldInputs`); and an exit calls the handler it reads or stops (`GuestExits`).
`called` records the last exit with its reason, so that a stop is owed to the
handler of the reason it was given and to no other. Nothing is assumed beyond the
constants' assumptions: outside `Undisturbed` the memory may read as anything and the
machines still move as they must.

`HandoverProofs` holds the two protocols in which the kernel hands work to somebody who
runs beside it.

The disk driver, all under `CleanStatus` (firmware left no error in PxIS):
`DriverTypes`; `NoCommandOutlivesItsCall`, `DriverSpec => []QuietWhenIdle`;
`DriverIsADisk`, `DriverSpec => ImplementsSectorDisk`. The invariant `DriverInv` ties
the driver's place to the port: a command is on the port only while the driver polls,
what the adapter has fetched is the request of the call in progress, it is marked served
once its transfer happened, and PxCI clear while polling means just that. Every driver
step is then a call, a return or a stutter of `SectorDisk`, and every adapter step its
`Serve` or a stutter. Without `CleanStatus` a stale error ends the call while the
adapter still works on it, and `QuietWhenIdle` is false. `PollsAreAnswerable`,
`DriverSpec => []PollHasAnAnswer`, is what `CallsReturn` rests on besides fairness: from
the moment the port was found ready it is busy with the call's own command and with
nothing else (`ReadyInv`), so the loop without a bound (`ahci.hpp:188`) cannot wait for
an answer that nobody owes. It needs the wait for BSY before PxCI is set.

The predictive ring: `TypeCorrect`, and until the ring is overrun
`RecordsAlwaysWhole`, `AcceptedAlwaysInOrder`, `GuessesNeverLost`. Places are compared
by `Steps`, the distance round the ring from the tail. What the ring holds (`Pending`)
is counted up to the head the fetch under way has read, not to `head_`, because that
fetch will store its own `head + 1` over whatever the verifier stores meanwhile; pending
guesses then ascend from the tail (`OrderInv`), and a guess whose fetch returned is
pending, accepted, or behind a wrong one that was dropped (`KeptInv`).

`PersistenceProofs` holds what has to come back: the journal and the image.

The journal: `TypeCorrect`, and `NothingIsInvented`,
`Spec => []RestoredWasRecorded`. The invariant `JournalInv` says of every unit on the
disk, on the stack and in the sector buffer that it is zeros, noise, or part of a record
some commit recorded (`Sound`). A commit lays recorded parts over what the stack held;
a sector is written from, and read into, places that arithmetic shows to be inside
(`LaidIsSound`, `WriteSectorStep`, `ReadSectorStep`: this is where the sizes of record,
sector and batch matter); a record is injected only if its first unit is its own, so it
is a recorded one (`WholeIsRecorded`). Nothing is needed of the order in which records
were written, of terminators or of how a commit was cut short, which is why the result
survives the overwriting of section 7. The tail's bound is `LastTail`: a batch starts
at its sector's first place, so the tail may point into the sector behind the journal.

The image: `ImageTypeCorrect`, `BytesReadBack` (`ReachableBytesReadBack`) and
`LoadsAllOrNothing`. The invariant `ImageInv` has three parts. A block that is said to
hold data `Stores` it: the first entries, as many as the data has hops, carry its bytes
and each routes to the next, the last to HALT. A write establishes that for its block
and changes no other; reading walks the entries in order because none of the first
`FREE_ROUTE` numbers is reserved, and this is why the property stops at `Reachable`
bytes. The file `IsImage` of the save that opened it: a block in it is a block of that
save, and if there are as many pieces as a save writes, every block lies at its place. A
crash keeps a beginning, a failed write leaves a gap, and either is too short. A load
that reads a piece for each block has therefore found them all, and what it puts in
memory is what memory held at the save, so `Stores` holds again.

`StreamProofs` holds what is taken in byte by byte: the console, the fold, the hash.

The console: `TypeCorrect`, `LineStaysClean`, `NothingIsMadeUp`
(`PasswordWasTyped`). The first two add `PassRoom`: at every place where the access key
may still grow, it has room. The third says where everything came from (`Placed`): the
characters of the key are at increasing places of what was typed, and the keys that went
down in the controller at increasing places behind all of those. Every poll takes the
first byte of the controller, so a byte that is lost leaves the rest in order.

The fold: `ResidueIsEnough` (`ResidueUnfolds`) and `MatchRateIsARate`. While a layer
runs (`Tracks`), its corrections stand at increasing places of its input, the offset of
each being the distance from the one before, and every place it has passed was found
or is one of them; `since_last` is the distance from the last to here. At the end of a
layer the corrections put into the hits are its input (`CorrectedIs`), the packed bytes
read back as the corrections (`ParsedPacked`, where an offset must fit the two bytes
that are kept of it), and so, down through the layers, the residue gives the sector.
Healing gives back the correction because the check byte is the exclusive or of the
others. `RateIsARate` holds because no layer can keep more bytes than the residue
buffer has without an overrun, and that buffer is no longer than a sector.

The hash: `EveryDigestIsExact` (`DigestsAreExact`). The invariant `ShaInv` says that the
object was `Given` what was fed of the message: its count is that length, the blocks it
transformed are the whole blocks of it, and the bytes behind them stand at the front of
the buffer. `update` keeps that for every piece (`UpdateGiven`): filling the block begun
before brings the length to a multiple of the block or uses the piece up (`FillGiven`),
and what follows a multiple has the blocks that follow (`TakeGiven`, `BlocksFollow`).
`finalize` only calls `update`, so it ends with the blocks of the message, the byte 0x80,
zeros and the length; `ZerosFit` says that there is one number of zeros below a block
that makes room for the length, the one the loop stops at. A padded message is whole
blocks (`PaddedIsWhole`), so two seeds of one length that have the same blocks are the
same seed (`PaddedTellApart`).

What the prover made the models say, and TLC now evaluates: an absent request is not
one of those served (`RequestAssumption`), the null pointer is no address
(`BootAssumption`), the character NUL is on no key (`ConsoleAssumption`), zeros and
noise are no parts of records (`UnitAssumption`), absence is no block
(`BlockAssumption`), bytes are numbers below the radix (`HashAssumption`), an exclusive
or is one (`XorAssumption`, `ByteXorAssumption`: that it is associative, undone by
itself, and that low bits come from low bits), clients
store at addresses that lie in the modelled blocks (`TransducerAssumption`,
`TransitionAssumption`, `PlacesAssumption`), and an offset fits the two bytes that are
kept of it (`FoldAssumption`). It also found a gap in the clients' invariant: a
`load_guest` of no bytes stores nothing but brings its block in and may push out
another, so what counts is the blocks at whose addresses somebody stored, however
little (`touched`), not those in which something was stored.

Only model-checked: the three liveness properties (liveness under fairness is beyond
the prover). No module declares a RECURSIVE operator.

## 7 Where code and comments disagree

- `journal_complete`: "[EM-1] Resurrection Complete." is reported after commits have
  overwritten each other: a batch starts at the sector `tail / 16`, not at the
  record `tail` (`residue_persistence.hpp:60`).
- `hic_result`: "Pointer to saved RAX" (`boot.S:140`) is the address of the return
  address, and "Pointer to saved RBX" (`:142`) that of RAX: after two pushes RBX is at
  `%rsp` and RAX at `%rsp + 8`. The result of 0F FF, plus two, becomes the address the
  handler returns to (`idt.cpp:69-70`), and RAX keeps its value.
- `chain_readback`: a "Multi-block write" (`bmt_topology.hpp:292`) is not undone by the
  "Multi-block read" (`:303`). HALT, ERROR and FREE are the numbers of the last three
  entries of a block; entry 1020 routes to 1021, which is FREE_ROUTE, and the reader
  stops there (`:286`). A block gives back 13273 of its 13312 bytes and never counts as
  full (`:310`).

Read in the code and not the subject of a run:

- `phase_fold` overflows its buffers. Compiled and run by itself on a sector of zeros
  it finds 499, 2891 and 16830 corrections in its three layers, for buffers of 4096,
  1024 and 256, and would copy 100980 bytes into the caller's 512
  (`context_driven_engine.hpp:139-157`, `substrate_service.hpp:75-79`). `PhaseFold`
  reaches such overruns and says nothing of what follows.
- Bit 30 of PxIS, "Task file error" (`ahci.hpp:190`), may be an old error: nothing
  clears PxIS, and "Reset and Enable AHCI" (`:104`) does not reset.
- "signal completion" (`virtio_blk.hpp:60`) is done whatever `serve_read` returned
  (`:55`).
- "Ctrl+Alt+Shift + E" (`keyboard.hpp:67`) fires without the modifiers, whose releases
  `read_char` drops (`:84`); nothing reads the flag.
- The residue of sector n goes to the disk's sector 16384 + 2n
  (`substrate_service.hpp:85`), inside what the journal reads (from 8192 on); no build
  has both.

## 8 What is not modelled

Register programming (PIC, PIT, the IDT's gates, the fixed bits of CR0 and CR4,
`setup_guest`), drawing, the key derivation and the hash rounds: straight-line code or
arithmetic without state that another part reads. `hal/iommu_hybrid.hpp`: its
operations are empty. The resource allocator's modes of the two cores: written and only
drawn. `read_line`, `read_char_nonblock` and `consume_hotkey`: no caller. The FIS and
PRDT layouts, and the physical addresses truncated to 32 bits. Bytes past the last slot
of the manifold, which an overrunning copy there reaches. The check bits of a topology
entry, which are computed and never looked at, and its root block.

## 9 What is left

Composition: a storage service with a `SectorDisk` behind it, once the sizes of
`phase_fold`'s buffers are settled in the code. Every invariant and refinement the
passing runs check is proved; the three liveness properties are model-checked only
(`CallsReturn`, `BootReachesMenu`, `BytesAreTaken`).
