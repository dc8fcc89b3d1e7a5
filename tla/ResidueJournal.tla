--------------------------- MODULE ResidueJournal ---------------------------
(***************************************************************************)
(* The residue journal of src/vdev/residue_persistence.hpp (class          *)
(* PersistenceController), with the disk under it, crashes and restarts.   *)
(*                                                                         *)
(* commit_residue turns the atoms of a block that differ from their        *)
(* predicted noise into 30-byte records, laid end to end in an array on    *)
(* the stack, and writes whole 512-byte sectors of that array.             *)
(* recover_state reads the journal back 16 records to a sector, each       *)
(* sector from its first byte.  Here a record is RecUnits units long and a *)
(* sector SectorUnits, more than the RecsPerSector records read from it.   *)
(*                                                                         *)
(* A record that is read back in pieces of two is taken to fail its        *)
(* checksum.  The prediction's lo word depends on the address only; of its *)
(* hi word only the route bits are ever set, so the rest is whatever the   *)
(* stack held: one bit stands for it, chosen afresh by every call.         *)
(***************************************************************************)
EXTENDS Integers, FiniteSets

CONSTANTS
    VBlocks,         \* block numbers, 0 among them
    Entries,         \* ENTRIES_PER_BLOCK
    RecUnits,        \* size of a record (30 bytes)
    SectorUnits,     \* size of a sector (512 bytes)
    RecsPerSector,   \* 16
    JournalSectors,  \* MAX_RESIDUES / 16
    MaxCommits,      \* bound on the number of commits
    MaxCrashes,      \* bound on the number of crashes
    MaxFaults,       \* bound on the number of failed disk transfers
    HiNoise,         \* what the hi word of a prediction may hold, as a bit
    Leftovers,       \* units an array on the stack may hold before it is used
    Zeros,           \* a unit of zero bytes
    Noise,           \* a unit of other bytes that are no part of a record
    None             \* an absent atom, transfer or history

ASSUME LayoutAssumption ==
    /\ 0 \in VBlocks
    /\ RecUnits \in Nat \ {0, 1} /\ Entries \in Nat \ {0} /\ JournalSectors \in Nat \ {0}
    /\ RecsPerSector \in Nat \ {0} /\ SectorUnits \in Nat
    /\ RecsPerSector * RecUnits <= SectorUnits
    /\ HiNoise \subseteq 0 .. 1
    /\ Zeros # Noise /\ Leftovers \subseteq {Zeros, Noise}

VARIABLES
    disk,            \* the journal region, unit by unit
    stack,           \* what the stack holds where journal_batch lies
    journal_tail,    \* current_journal_tail_
    phase,           \* "recovering", "running", "writing" or "halted"
    transfer,        \* sectors of a commit still to be written, its start and size
    cursor,          \* lba_offset and i of recover_state
    sector_buffer,   \* the sector last read
    manifold,        \* the atoms injected into the new manifold
    journalled,      \* history: what every address was when last committed
    recorded,        \* history: every <<vblock, index, lo>> put into a record
    damaged,         \* history: a transfer failed or was cut short by a crash
    spent            \* commits, crashes and faults so far

commitVars == <<disk, stack, transfer>>
recoveryVars == <<cursor, sector_buffer, manifold>>
commitHistory == <<journalled, recorded>>
vars == <<phase, journal_tail, commitVars, recoveryVars, commitHistory, damaged, spent>>

Indices == 0 .. Entries - 1
Bit == 0 .. 1
Xor(a, b) == (a + b) % 2
Addresses == VBlocks \X Indices

\* ResidueRecord without its checksum: hi and lo are the delta.
Record == [vblock : VBlocks, idx : Indices, hi : Bit, lo : Bit]
ZeroRecord == [vblock |-> 0, idx |-> 0, hi |-> 0, lo |-> 0]

\* A unit holds one part of a record, zeros, or bytes that are neither.
Part(r, p) == IF r = ZeroRecord THEN Zeros ELSE <<r, p>>

JournalUnits == JournalSectors * SectorUnits
BatchUnits == (Entries \div RecsPerSector + 1) * SectorUnits
Parts == Record \X (0 .. RecUnits - 1)
Unit == {Zeros, Noise} \cup Parts

ASSUME UnitAssumption == Zeros \notin Parts /\ Noise \notin Parts

\* A batch starts at the sector of the tail, so the tail can end in the sector
\* after the last.
LastTail == (JournalSectors + 1) * RecsPerSector - 2

TypeOK ==
    /\ \A i \in 0 .. JournalUnits - 1 : disk[i] \in Unit
    /\ \A i \in 0 .. BatchUnits - 1 : stack[i] \in Unit
    /\ \A i \in 0 .. SectorUnits - 1 : sector_buffer[i] \in Unit
    /\ journal_tail \in 0 .. LastTail
    /\ phase \in {"recovering", "running", "writing", "halted"}
    /\ cursor \in [lba : 0 .. JournalSectors, i : 0 .. RecsPerSector]
    /\ \A a \in Addresses : manifold[a] \in {None} \cup [hi : Bit, lo : Bit]

Blank(n) == [i \in 0 .. n - 1 |-> Zeros]
Filler(n) == {[i \in 0 .. n - 1 |-> unit] : unit \in Leftovers}

NoAtoms == [a \in Addresses |-> None]

AtJournalStart == [lba |-> 0, i |-> RecsPerSector]

\* A machine started with a blank journal.
Init ==
    /\ disk = Blank(JournalUnits)
    /\ stack = Blank(BatchUnits)
    /\ journal_tail = 0
    /\ phase = "recovering"
    /\ transfer = None
    /\ cursor = AtJournalStart
    /\ sector_buffer = Blank(SectorUnits)
    /\ manifold = NoAtoms
    /\ journalled = NoAtoms
    /\ recorded = {}
    /\ damaged = FALSE
    /\ spent = [commits |-> 0, crashes |-> 0, faults |-> 0]

Spend(what) == spent' = [spent EXCEPT ![what] = @ + 1]

-----------------------------------------------------------------------------
(* commit_residue *)

\* The record of an atom whose words differ from the prediction by hi and lo.
RecordFor(vb, j, hi, lo) == [vblock |-> vb, idx |-> j, hi |-> hi, lo |-> lo]

\* Whether the atom differs from the prediction at all.
Differs(hi, lo) == hi # 0 \/ lo # 0

\* The records of a block, in the order of its atoms: content gives the residue
\* of every atom's lo word, noise the bit the uninitialised hi word adds.
BatchOf(vb, content, noise) ==
    LET kept == {j \in Indices : Differs(noise, content[j])}
        nth(n) == CHOOSE j \in kept : Cardinality({k \in kept : k < j}) = n
    IN  [n \in 0 .. Cardinality(kept) - 1 |->
            RecordFor(vb, nth(n), noise, content[nth(n)])]

\* The array after the records are put into it: behind them it stays as it was.
Laid(batch, count, old) ==
    [i \in 0 .. BatchUnits - 1 |->
        IF i < count * RecUnits THEN Part(batch[i \div RecUnits], i % RecUnits)
        ELSE old[i]]

SectorsNeeded(count) == count \div RecsPerSector + 1

StartSector(tail) == tail \div RecsPerSector

\* Up to the write.  A block that matches its prediction writes nothing.  The
\* stack below the records is what an earlier call or anything else left there.
BeginCommit(vb, content, noise, old) ==
    LET batch == BatchOf(vb, content, noise)
        count == Cardinality(DOMAIN batch)
        first == StartSector(journal_tail)
        sectors == SectorsNeeded(count)
    IN  /\ phase = "running"
        /\ spent.commits < MaxCommits
        /\ first + sectors <= JournalSectors   \* bound: the code has no such check
        /\ IF count = 0
           THEN /\ UNCHANGED <<phase, stack, transfer>>
                /\ journalled' = [a \in Addresses |->
                     IF a[1] = vb THEN content[a[2]] ELSE journalled[a]]
           ELSE /\ phase' = "writing"
                /\ stack' = Laid(batch, count, old)
                /\ transfer' = [first |-> first, next |-> 0, sectors |-> sectors,
                                count |-> count, vblock |-> vb, content |-> content]
                /\ UNCHANGED journalled
        /\ recorded' = recorded \cup
             {<<batch[n].vblock, batch[n].idx, batch[n].lo>> : n \in DOMAIN batch}
        /\ Spend("commits")
        /\ UNCHANGED <<disk, journal_tail, recoveryVars, damaged>>

\* The disk takes the sectors of the array one after the other.
WriteSector ==
    LET t == transfer
        base == (t.first + t.next) * SectorUnits
    IN  /\ phase = "writing"
        /\ t.next < t.sectors
        /\ disk' = [i \in 0 .. JournalUnits - 1 |->
                      IF i \div SectorUnits = t.first + t.next
                      THEN stack[t.next * SectorUnits + (i - base)]
                      ELSE disk[i]]
        /\ transfer' = [t EXCEPT !.next = @ + 1]
        /\ UNCHANGED <<phase, stack, journal_tail, recoveryVars, commitHistory,
                       damaged, spent>>

\* SubstrateIO::write has no result: a transfer that fails is over.
WriteFails ==
    /\ phase = "writing"
    /\ transfer.next < transfer.sectors
    /\ spent.faults < MaxFaults
    /\ transfer' = [transfer EXCEPT !.next = transfer.sectors]
    /\ damaged' = TRUE
    /\ Spend("faults")
    /\ UNCHANGED <<disk, phase, stack, journal_tail, recoveryVars, commitHistory>>

EndCommit ==
    /\ phase = "writing"
    /\ transfer.next = transfer.sectors
    /\ phase' = "running"
    /\ journal_tail' = journal_tail + transfer.count
    /\ journalled' = [a \in Addresses |->
         IF a[1] = transfer.vblock THEN transfer.content[a[2]] ELSE journalled[a]]
    /\ transfer' = None
    /\ UNCHANGED <<disk, stack, recoveryVars, recorded, damaged, spent>>

-----------------------------------------------------------------------------
(* recover_state *)

Sector(s) == [i \in 0 .. SectorUnits - 1 |-> disk[s * SectorUnits + i]]

\* The outer loop: the next sector is read, or the transfer fails and the buffer
\* keeps what it had.
ReadSector ==
    /\ phase = "recovering"
    /\ cursor.i = RecsPerSector
    /\ cursor.lba < JournalSectors
    /\ cursor' = [cursor EXCEPT !.i = 0]
    /\ \/ /\ sector_buffer' = Sector(cursor.lba)
          /\ UNCHANGED <<damaged, spent>>
       \/ /\ spent.faults < MaxFaults
          /\ damaged' = TRUE
          /\ Spend("faults")
          /\ UNCHANGED sector_buffer
    /\ UNCHANGED <<phase, journal_tail, commitVars, manifold, commitHistory>>

\* The units of record i of the buffer.
RecordAt(i) == [p \in 0 .. RecUnits - 1 |-> sector_buffer[i * RecUnits + p]]

\* All its units are the parts of one record.
Whole(units) == \E r \in Record \ {ZeroRecord} : \A p \in DOMAIN units : units[p] = <<r, p>>

TheRecord(units) ==
    CHOOSE r \in Record \ {ZeroRecord} : \A p \in DOMAIN units : units[p] = <<r, p>>

\* The terminator is recognised by its address and delta.lo, before its checksum
\* and without delta.hi.
IsTerminator(units) ==
    \/ \A p \in 0 .. RecUnits - 2 : units[p] = Zeros
    \/ /\ Whole(units)
       /\ LET r == TheRecord(units) IN r.vblock = 0 /\ r.idx = 0 /\ r.lo = 0

NextRecord == [lba |-> IF cursor.i + 1 = RecsPerSector THEN cursor.lba + 1 ELSE cursor.lba,
               i |-> cursor.i + 1]

Terminated(tail) ==
    /\ phase = "recovering"
    /\ cursor.i < RecsPerSector
    /\ IsTerminator(RecordAt(cursor.i))
    /\ journal_tail' = tail
    /\ phase' = "running"
    /\ UNCHANGED <<commitVars, recoveryVars, commitHistory, damaged, spent>>

\* The tail counted in units of the sector (kept for mutation).
FindTerminatorUnits == Terminated(cursor.lba * SectorUnits + cursor.i)

\* The tail is left where the records end within the sector.
FindTerminator == Terminated(cursor.lba * RecsPerSector + cursor.i)

\* A failed checksum stops the machine.
FindCorruption ==
    /\ phase = "recovering"
    /\ cursor.i < RecsPerSector
    /\ ~ IsTerminator(RecordAt(cursor.i))
    /\ ~ Whole(RecordAt(cursor.i))
    /\ phase' = "halted"
    /\ UNCHANGED <<journal_tail, commitVars, recoveryVars, commitHistory, damaged, spent>>

\* A delta is applied to a prediction whose hi word is, again, not the one of the
\* commit.
Restore(r, noise) ==
    /\ phase = "recovering"
    /\ cursor.i < RecsPerSector
    /\ ~ IsTerminator(RecordAt(cursor.i))
    /\ manifold' = [manifold EXCEPT ![<<r.vblock, r.idx>>] =
                      [hi |-> Xor(noise, r.hi), lo |-> r.lo]]
    /\ cursor' = NextRecord
    /\ UNCHANGED <<phase, journal_tail, commitVars, sector_buffer, commitHistory,
                   damaged, spent>>

\* The checksum not compared: a cut record is applied at its first part's address,
\* with whatever delta follows (kept for mutation).
InjectUnchecked(noise) ==
    LET u == sector_buffer[cursor.i * RecUnits]
        r == IF u \in {Zeros, Noise} THEN [ZeroRecord EXCEPT !.lo = 1]
             ELSE [u[1] EXCEPT !.lo = Xor(1, @)]
    IN  Restore(r, noise)

\* inject_restored_atom.
Inject(noise) ==
    /\ Whole(RecordAt(cursor.i))
    /\ Restore(TheRecord(RecordAt(cursor.i)), noise)

\* A journal without a terminator is read to its end and leaves the tail alone.
ReadAll ==
    /\ phase = "recovering"
    /\ cursor = [lba |-> JournalSectors, i |-> RecsPerSector]
    /\ phase' = "running"
    /\ UNCHANGED <<journal_tail, commitVars, recoveryVars, commitHistory, damaged, spent>>

-----------------------------------------------------------------------------
(* The machine around them *)

\* Power is lost and comes back: only the disk is kept.
Crash ==
    /\ spent.crashes < MaxCrashes
    /\ Spend("crashes")
    /\ phase' = "recovering"
    /\ stack' = Blank(BatchUnits)
    /\ journal_tail' = 0
    /\ transfer' = None
    /\ cursor' = AtJournalStart
    /\ sector_buffer' \in Filler(SectorUnits)
    /\ manifold' = NoAtoms
    /\ damaged' = (damaged \/ phase = "writing")
    /\ UNCHANGED <<disk, commitHistory>>

Commit ==
    \E vb \in VBlocks, content \in [Indices -> Bit], noise \in HiNoise,
       old \in Filler(BatchUnits) \cup {stack} :
        BeginCommit(vb, content, noise, old)

Write == WriteSector \/ WriteFails \/ EndCommit

Recover ==
    \/ ReadSector \/ FindTerminator \/ FindCorruption \/ ReadAll
    \/ \E noise \in HiNoise : Inject(noise)

Next == Commit \/ Write \/ Recover \/ Crash

Spec == Init /\ [][Next]_vars

-----------------------------------------------------------------------------
(* Properties *)

\* Whatever was overwritten, cut short, lost or left on the stack, an atom that
\* recovery injects has a lo word some commit once recorded for its address.
RestoredWasRecorded ==
    \A a \in Addresses :
        manifold[a] # None => <<a[1], a[2], manifold[a].lo>> \in recorded

\* "Resurrection Complete." (recover_state): with no transfer failed or cut
\* short, every atom that was journalled is in the manifold as it was.
ResurrectionIsComplete ==
    [][phase = "recovering" /\ phase' = "running" /\ ~ damaged =>
         \A a \in Addresses :
             \/ journalled[a] \in {None, 0}
             \/ manifold[a] # None /\ manifold[a].lo = journalled[a]]_vars
=============================================================================
