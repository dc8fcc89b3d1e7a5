---------------------------- MODULE StorageStack ----------------------------
(***************************************************************************)
(* The block device a guest sees and what shares its cache:                *)
(*   src/vdev/virtio_blk.hpp         takes a request off queue 0,          *)
(*   src/vdev/substrate_service.hpp  serves it a sector at a time,         *)
(*   src/vdev/audit_log.hpp          logs events into a block of its own,  *)
(* all of them on the SubstrateManifold this module extends.               *)
(*                                                                         *)
(* An atom of the cache stands for a sector in a guest's block and for an  *)
(* entry in the log's: sectors never straddle blocks and the log is one    *)
(* block long.  Sector numbers stand for byte addresses.  The service has  *)
(* no disk behind it (physical_disk_ is null): the residue serve_write     *)
(* would send to one is never read back, and the two byte counters that go *)
(* with it are left out.                                                   *)
(***************************************************************************)
EXTENDS SubstrateManifold, Sequences, FiniteSetsExt

CONSTANTS
    Lbas,          \* sectors guests address, inside and beyond the capacity
    Capacity,      \* virtual_capacity_bytes_, in sectors
    MaxSectors,    \* sectors a request may have
    LogBlock,      \* the block of LOG_BASE_VADDR
    MaxHint,       \* sectors utilize_idle_cycles may be asked to look ahead
    MaxWork,       \* bound on the number of requests and events
    None           \* no request, and a sector never written

ASSUME StackAssumption ==
    /\ Lbas \subseteq Nat /\ Capacity \in Nat /\ MaxSectors \in Nat \ {0}
    /\ \A lba \in Lbas : lba \div BlockAtoms \in VBlocks \ {LogBlock}
    /\ LogBlock \in VBlocks
    /\ \A a \in 0 .. BlockAtoms - 1 : <<a, 1>> \in Extents

VARIABLES
    request,   \* the request being served: how far its loop is, what its buffer holds
    highest,   \* highest_accessed_vaddr_
    horizon,   \* preemption_horizon_
    log_head,  \* log_head_
    latest,    \* history: what every sector was last given by the guest
    events,    \* history: the last events logged, newest first
    kept,      \* history: how many of them since the log's block was brought in
    whole,     \* history: guests have only written whole blocks
    work       \* requests and events so far

serviceVars == <<request, highest, horizon>>
auditVars == <<log_head, events, kept>>
historyVars == <<latest, whole>>
stackVars == <<manifoldVars, serviceVars, auditVars, historyVars, work>>

Block(lba) == lba \div BlockAtoms
Place(lba) == lba % BlockAtoms

\* What the guest's buffer holds for the sectors of a request.
Buffers(n) == [0 .. n - 1 -> Values \ {Zero}]

\* The requests a guest makes: it addresses sectors of Lbas.
Requests ==
    {[op |-> op, lba |-> lba, count |-> n, next |-> 0, data |-> data, ok |-> TRUE] :
        op \in {"read", "write"}, lba \in Lbas, n \in 0 .. MaxSectors,
        data \in UNION {Buffers(m) : m \in 0 .. MaxSectors}}

\* A request on its way: how many of its sectors are done, what its buffer holds.
Served ==
    [op : {"read", "write"}, lba : Lbas, count : 0 .. MaxSectors, next : 0 .. MaxSectors,
     data : UNION {[0 .. m - 1 -> Values \cup {Garbage}] : m \in 0 .. MaxSectors},
     ok : BOOLEAN]

ASSUME RequestAssumption == None \notin Served

Sensible(r) ==
    /\ DOMAIN r.data = 0 .. r.count - 1
    /\ \A i \in DOMAIN r.data : r.lba + i \in Lbas
    /\ r.op = "read" => \A i, j \in DOMAIN r.data : r.data[i] = r.data[j]

\* A write that covers only part of a block.
Partial(r) ==
    r.op = "write" /\ (Place(r.lba) # 0 \/ r.count % BlockAtoms # 0)

StackTypeOK ==
    /\ TypeOK
    /\ request = None \/ (request \in Served /\ request.next \in 0 .. request.count)
    /\ highest \in Lbas \cup {0}
    /\ horizon \in Nat
    /\ log_head \in 0 .. BlockAtoms - 1
    /\ kept \in 0 .. Len(events) /\ Len(events) <= BlockAtoms
    /\ whole \in BOOLEAN

StackInit ==
    /\ Init
    /\ request = None
    /\ highest = 0
    /\ horizon = 0
    /\ log_head = 0
    /\ latest = [lba \in Lbas |-> None]
    /\ events = <<>>
    /\ kept = 0
    /\ whole = TRUE
    /\ work = 0

-----------------------------------------------------------------------------
(* handle_guest_notify, serve_read and serve_write *)

\* A read moves the frontier before it looks at the capacity.
MoveFrontier(r) ==
    IF r.op = "read" /\ r.lba >= highest
    THEN highest' = r.lba /\ horizon' = r.lba + r.count
    ELSE UNCHANGED <<highest, horizon>>

Notify(r) ==
    /\ request = None
    /\ work < MaxWork
    /\ Sensible(r)
    /\ request' = r
    /\ MoveFrontier(r)
    /\ whole' = (whole /\ ~ Partial(r))
    /\ work' = work + 1
    /\ UNCHANGED <<manifoldVars, auditVars, latest>>

Sector == request.lba + request.next

\* One turn of the loop of serve_read; the sector goes to the guest's buffer.
ReadSector ==
    /\ request # None /\ request.op = "read"
    /\ request.next < request.count
    /\ IF Sector >= Capacity
       THEN request' = [request EXCEPT !.ok = FALSE, !.next = request.count]
       ELSE request' = [request EXCEPT
                !.data[request.next] = HolographicFetch(Block(Sector), Place(Sector)),
                !.next = @ + 1]
    /\ UNCHANGED <<manifoldVars, highest, horizon, auditVars, historyVars, work>>

\* The sector, taken from place n of the buffer, goes into the cache.
Store(n) == Materialize(Block(Sector), <<Place(Sector), 1>>, request.data[n])

WriteTurn(store) ==
    /\ request # None /\ request.op = "write"
    /\ request.next < request.count
    /\ store
    /\ latest' = [latest EXCEPT ![Sector] = request.data[request.next]]
    /\ request' = [request EXCEPT !.next = @ + 1]
    /\ UNCHANGED <<highest, horizon, auditVars, whole, work>>

\* The buffer not advanced with the sector, and the address not advanced with it
\* (kept for mutation).
WriteFirstBuffer == WriteTurn(Store(0))
WriteFirstPlace ==
    WriteTurn(Materialize(Block(Sector), <<Place(request.lba), 1>>,
                          request.data[request.next]))

\* One turn of the loop of serve_write; the capacity is not looked at.
WriteSector == WriteTurn(Store(request.next))

\* The guest is interrupted whatever the service returned.
Complete ==
    /\ request # None
    /\ request.next = request.count
    /\ request' = None
    /\ UNCHANGED <<manifoldVars, highest, horizon, auditVars, historyVars, work>>

-----------------------------------------------------------------------------
(* utilize_idle_cycles and AuditLogger::log, both between requests *)

\* The fetches leave the cache as it is.
UtilizeIdleCycles(hint) ==
    /\ request = None
    /\ horizon < Capacity
    /\ horizon' = Min({horizon + hint, Capacity})
    /\ UNCHANGED <<manifoldVars, request, highest, auditVars, historyVars, work>>

\* An event is stored at a place of the log's block and log_head_ moves.
Logged(e, place, head) ==
    /\ request = None
    /\ work < MaxWork
    /\ Materialize(LogBlock, <<place, 1>>, e)
    /\ log_head' = head
    /\ events' = SubSeq(<<e>> \o events, 1, Min({Len(events) + 1, BlockAtoms}))
    /\ kept' = IF Held(LogBlock) THEN Min({kept + 1, BlockAtoms}) ELSE 1
    /\ work' = work + 1
    /\ UNCHANGED <<serviceVars, historyVars>>

NextHead == (log_head + 1) % BlockAtoms

\* An event stored past the head, and a head that does not go round (kept for
\* mutation).
LogPastHead(e) == Logged(e, NextHead, NextHead)
LogUnwrapped(e) == Logged(e, log_head, log_head + 1)

Log(e) == Logged(e, log_head, NextHead)

StackNext ==
    \/ \E r \in Requests : Notify(r)
    \/ ReadSector \/ WriteSector \/ Complete
    \/ \E hint \in 1 .. MaxHint : UtilizeIdleCycles(hint)
    \/ \E e \in Values \ {Zero} : Log(e)

StackSpec == StackInit /\ [][StackNext]_stackVars

-----------------------------------------------------------------------------
(* Properties *)

Answered(op) == request # None /\ request.op = op /\ request.next = request.count

Reads(lba) == HolographicFetch(Block(lba), Place(lba))

\* When a write is done, its sectors in the block it ended in read back as they
\* were written (serve_write): a later sector of the request takes the slot of
\* another block, never of the one it is in itself.
LastBlockReadsBack ==
    Answered("write") =>
        \A i \in DOMAIN request.data :
            Block(request.lba + i) = Block(request.lba + request.count - 1) =>
                Reads(request.lba + i) = request.data[i]

\* As long as guests have written whole blocks only, a read gives the sector's
\* latest contents or zeros: never an older version, never another sector
\* (holographic_fetch over slots that are reused without being cleared).
ReadsAreClean ==
    whole /\ Answered("read") /\ request.ok =>
        \A i \in DOMAIN request.data : request.data[i] \in {Zero, latest[request.lba + i]}

\* While the log's block is held, the events logged since it was brought in are
\* in it, newest just below log_head_, however often it has gone round
\* (AuditLogger::log).
AuditTrailIntact ==
    Held(LogBlock) =>
        \A k \in 0 .. kept - 1 :
            HolographicFetch(LogBlock, (log_head - 1 - k) % BlockAtoms) = events[k + 1]

=============================================================================
