-------------------------- MODULE PersistenceProofs --------------------------
(***************************************************************************)
(* What is put away and has to come back: the residue journal that is      *)
(* replayed after a crash, and the topology image that is loaded after     *)
(* one.  For every size of the records and blocks, and any number of       *)
(* writes and crashes: recovery injects what a commit recorded; a load     *)
(* takes an image whole or not at all, and reads back what was written.    *)
(*                                                                         *)
(* The two share no state; they share the arithmetic of rows of equal size *)
(* and the reading of walks of SlotArithmetic.                             *)
(***************************************************************************)
EXTENDS ResidueJournal, TopologyImage, SlotArithmetic,
        FiniteSetTheorems, SequenceTheorems

-----------------------------------------------------------------------------
(* The journal: what recovery injects was recorded by a commit.  Every     *)
(* part of a record that is anywhere, on the disk, on the stack or in the  *)
(* buffer, is a part of a recorded one.                                    *)

\* A unit that no commit has to answer for, or that is part of a recorded record.
Recorded(r) == r \in Record /\ <<r.vblock, r.idx, r.lo>> \in recorded

Sound(u) ==
    u \in {Zeros, Noise} \/ \E r \in Record, p \in 0 .. RecUnits - 1 : u = <<r, p>> /\ Recorded(r)

UnitsInv ==
    /\ \A i \in 0 .. JournalUnits - 1 : Sound(disk[i])
    /\ \A i \in 0 .. BatchUnits - 1 : Sound(stack[i])
    /\ \A i \in 0 .. SectorUnits - 1 : Sound(sector_buffer[i])

\* A transfer lies inside the journal and inside the array on the stack.
TransferInv ==
    phase = "writing" =>
        /\ transfer = [first |-> transfer.first, next |-> transfer.next,
                       sectors |-> transfer.sectors, count |-> transfer.count,
                       vblock |-> transfer.vblock, content |-> transfer.content]
        /\ transfer.first = StartSector(journal_tail)
        /\ transfer.count \in 0 .. Entries
        /\ transfer.sectors = SectorsNeeded(transfer.count)
        /\ transfer.next \in 0 .. transfer.sectors
        /\ transfer.first + transfer.sectors <= JournalSectors

CursorInv ==
    /\ journal_tail \in 0 .. LastTail
    /\ phase \in {"recovering", "running", "writing", "halted"}
    /\ cursor \in [lba : 0 .. JournalSectors, i : 0 .. RecsPerSector]
    /\ cursor.i < RecsPerSector => cursor.lba < JournalSectors

ManifoldInv ==
    /\ manifold \in [Addresses -> {None} \cup [hi : Bit, lo : Bit]]
    /\ \A a \in Addresses :
          manifold[a] # None => <<a[1], a[2], manifold[a].lo>> \in recorded

JournalInv == UnitsInv /\ TransferInv /\ CursorInv /\ ManifoldInv

-----------------------------------------------------------------------------
(* Places in sectors *)

\* Place i of row s, where rows are n long and there are m of them.
LEMMA InRow ==
    ASSUME NEW n \in Nat, NEW m \in Nat, NEW s \in 0 .. m - 1, NEW i \in 0 .. n - 1
    PROVE  s * n + i \in 0 .. m * n - 1
<1>1. s * n \in Nat /\ m * n \in Nat /\ (s + 1) * n <= m * n
    OBVIOUS
<1>2. (s + 1) * n = s * n + n
    OBVIOUS
<1>3. PICK x \in Nat, y \in Nat : x = s * n /\ y = m * n
    BY <1>1
<1>4. x + n <= y
    BY <1>1, <1>2, <1>3
<1> QED
    BY <1>3, <1>4

\* The row a place is in, and how far it is in that row.
LEMMA RowOf ==
    ASSUME NEW n \in Nat \ {0}, NEW x \in Nat
    PROVE  /\ x \div n \in Nat
           /\ x - (x \div n) * n \in 0 .. n - 1
<1>1. PICK q \in Nat, r \in 0 .. n - 1 : q = x \div n /\ x = n * q + r
    BY DivMod
<1>2. PICK z \in Nat : z = n * q /\ z = q * n
    OBVIOUS
<1> QED
    BY <1>1, <1>2

LEMMA DivBelow ==
    ASSUME NEW n \in Nat \ {0}, NEW m \in Nat, NEW x \in 0 .. m * n - 1
    PROVE  x \div n \in 0 .. m - 1
<1>1. PICK q \in Nat, r \in 0 .. n - 1 : q = x \div n /\ x = n * q + r
    BY DivMod
<1>2. CASE q >= m
  <2>1. n * q >= n * m
      BY <1>2
  <2>2. PICK y \in Nat, z \in Nat : y = n * q /\ z = n * m /\ z = m * n
      OBVIOUS
  <2> QED
      BY <1>1, <2>1, <2>2
<1>3. CASE q < m
    BY <1>1, <1>3
<1> QED
    BY <1>2, <1>3

LEMMA DivOrder ==
    ASSUME NEW n \in Nat \ {0}, NEW x \in Nat, NEW y \in Nat, x <= y
    PROVE  x \div n <= y \div n
<1>1. PICK q \in Nat, r \in 0 .. n - 1 : q = x \div n /\ x = n * q + r
    BY DivMod
<1>2. PICK t \in Nat, u \in 0 .. n - 1 : t = y \div n /\ y = n * t + u
    BY DivMod
<1>3. CASE q >= t + 1
  <2>1. n * q >= n * (t + 1)
      BY <1>3
  <2>2. n * (t + 1) = n * t + n
      OBVIOUS
  <2>3. PICK v \in Nat, w \in Nat : v = n * q /\ w = n * t
      OBVIOUS
  <2> QED
      BY <1>1, <1>2, <2>1, <2>2, <2>3
<1>4. CASE q <= t
    BY <1>1, <1>2, <1>4
<1> QED
    BY <1>3, <1>4

\* A number is less than one row beyond the last it fills.
LEMMA DivNext ==
    ASSUME NEW n \in Nat \ {0}, NEW x \in Nat
    PROVE  x \div n \in Nat /\ x < (x \div n + 1) * n
<1>1. PICK q \in Nat, r \in 0 .. n - 1 : q = x \div n /\ x = n * q + r
    BY DivMod
<1>2. (q + 1) * n = n * q + n
    OBVIOUS
<1>3. PICK z \in Nat : z = n * q
    OBVIOUS
<1> QED
    BY <1>1, <1>2, <1>3

-----------------------------------------------------------------------------
(* The records of a batch *)

Fewer(K, j) == {k \in K : k < j}

LEMMA FewerIs ==
    ASSUME NEW m \in Nat, NEW K, K \subseteq 0 .. m - 1
    PROVE  /\ IsFiniteSet(K) /\ K \subseteq Nat
           /\ Fewer(K, 0) = {} /\ Fewer(K, m) = K
           /\ \A j \in Nat : Fewer(K, j + 1) = IF j \in K THEN Fewer(K, j) \cup {j}
                                               ELSE Fewer(K, j)
           /\ \A j : IsFiniteSet(Fewer(K, j)) /\ Cardinality(Fewer(K, j)) \in Nat
           /\ \A j \in Nat : j \notin Fewer(K, j)
<1>1. \A k \in K : k \in Nat /\ k < m /\ ~ (k < 0)
    OBVIOUS
<1>2. IsFiniteSet(K)
  <2>1. IsFiniteSet(0 .. m - 1)
      BY FS_Interval
  <2> QED
      BY <2>1, FS_Subset
<1>3. \A j : IsFiniteSet(Fewer(K, j)) /\ Cardinality(Fewer(K, j)) \in Nat
  <2>1. \A j : Fewer(K, j) \in SUBSET K
      BY DEF Fewer
  <2> QED
      BY <1>2, <2>1, FS_Subset, FS_CardinalityType
<1>4. ASSUME NEW j \in Nat
      PROVE  Fewer(K, j + 1) = IF j \in K THEN Fewer(K, j) \cup {j} ELSE Fewer(K, j)
  <2>1. \A k \in K : k < j + 1 <=> k < j \/ k = j
      BY <1>1
  <2> QED
      BY <2>1 DEF Fewer
<1>5. Fewer(K, 0) = {} /\ Fewer(K, m) = K
    BY <1>1 DEF Fewer
<1>6. \A j \in Nat : j \notin Fewer(K, j)
    BY DEF Fewer
<1> QED
    BY <1>1, <1>2, <1>3, <1>4, <1>5, <1>6

\* Among the numbers below m that are in a set, one has n of the others before it.
LEMMA NthExists ==
    ASSUME NEW m \in Nat, NEW K, K \subseteq 0 .. m - 1,
           NEW n \in Nat, n < Cardinality(K)
    PROVE  \E j \in K : Cardinality(Fewer(K, j)) = n
<1>0. /\ Fewer(K, 0) = {} /\ Fewer(K, m) = K
      /\ \A j \in Nat : Fewer(K, j + 1) = IF j \in K THEN Fewer(K, j) \cup {j}
                                          ELSE Fewer(K, j)
      /\ \A j : IsFiniteSet(Fewer(K, j)) /\ Cardinality(Fewer(K, j)) \in Nat
      /\ \A j \in Nat : j \notin Fewer(K, j)
    BY FewerIs
<1> DEFINE Many == {j \in 0 .. m : Cardinality(Fewer(K, j)) > n}
<1>1. m \in Many /\ Many \subseteq Nat
  <2>1. Fewer(K, m) = K /\ m \in 0 .. m
      BY <1>0
  <2> QED
      BY <2>1
<1>2. PICK x \in Many : \A y \in Many : x <= y
  <2> HIDE DEF Many
  <2> QED
      BY <1>1, LeastNatural
<1>3. x \in 0 .. m /\ Cardinality(Fewer(K, x)) > n
    OBVIOUS
<1>4. x # 0
  <2>1. Cardinality(Fewer(K, 0)) = 0
      BY <1>0, FS_EmptySet
  <2> QED
      BY <1>3, <2>1
<1>5. PICK z \in 0 .. m : x = z + 1
  <2>1. x - 1 \in 0 .. m /\ x = x - 1 + 1
      BY <1>3, <1>4
  <2> QED
      BY <2>1
<1>6. PICK c \in Nat : c = Cardinality(Fewer(K, z)) /\ c <= n
  <2>1. z \notin Many
      BY <1>2, <1>5
  <2>2. Cardinality(Fewer(K, z)) \in Nat
      BY <1>0
  <2> QED
      BY <2>1, <2>2
<1>7. Fewer(K, x) = IF z \in K THEN Fewer(K, z) \cup {z} ELSE Fewer(K, z)
  <2>1. z \in Nat
      OBVIOUS
  <2>2. Fewer(K, z + 1) = IF z \in K THEN Fewer(K, z) \cup {z} ELSE Fewer(K, z)
      BY <1>0, <2>1
  <2> QED
      BY <1>5, <2>2
<1>8. z \in K
  <2>1. z \notin K => Fewer(K, x) = Fewer(K, z)
      BY <1>7
  <2> QED
      BY <1>3, <1>6, <2>1
<1>9. Cardinality(Fewer(K, x)) = c + 1
  <2>1. /\ Fewer(K, x) = Fewer(K, z) \cup {z} /\ z \notin Fewer(K, z)
        /\ IsFiniteSet(Fewer(K, z))
      BY <1>7, <1>8, <1>0
  <2> QED
      BY <1>6, <2>1, FS_AddElement
<1> QED
    BY <1>3, <1>6, <1>8, <1>9

\* Every record of a batch is one, and there are at most as many as atoms.
LEMMA BatchIs ==
    ASSUME NEW vb \in VBlocks, NEW content \in [Indices -> Bit], NEW noise \in HiNoise
    PROVE  /\ \A n \in DOMAIN BatchOf(vb, content, noise) :
                 BatchOf(vb, content, noise)[n] \in Record
           /\ Cardinality(DOMAIN BatchOf(vb, content, noise)) \in 0 .. Entries
           /\ DOMAIN BatchOf(vb, content, noise)
                 = 0 .. Cardinality(DOMAIN BatchOf(vb, content, noise)) - 1
<1> DEFINE K == {j \in Indices : Differs(noise, content[j])}
           Nth(n) == CHOOSE j \in K : Cardinality({k \in K : k < j}) = n
<1>1. Entries \in Nat /\ Indices = 0 .. Entries - 1 /\ noise \in Bit
    BY LayoutAssumption DEF Indices, Bit
<1>2. BatchOf(vb, content, noise) =
          [n \in 0 .. Cardinality(K) - 1 |-> RecordFor(vb, Nth(n), noise, content[Nth(n)])]
    BY DEF BatchOf
<1>3. IsFiniteSet(K) /\ Cardinality(K) \in 0 .. Entries
  <2>1. IsFiniteSet(Indices) /\ Cardinality(Indices) = Entries
      BY <1>1, FS_Interval
  <2>2. K \in SUBSET Indices
      OBVIOUS
  <2> QED
      BY <2>1, <2>2, <1>1, FS_Subset, FS_CardinalityType
<1>4. ASSUME NEW n \in 0 .. Cardinality(K) - 1
      PROVE  RecordFor(vb, Nth(n), noise, content[Nth(n)]) \in Record
  <2>1. n \in Nat /\ n < Cardinality(K) /\ K \subseteq 0 .. Entries - 1
      BY <1>1, <1>3
  <2>2. \E j \in K : Cardinality({k \in K : k < j}) = n
    <3>1. \E j \in K : Cardinality(Fewer(K, j)) = n
      <4> HIDE DEF K
      <4> QED
          BY <1>1, <2>1, NthExists
    <3> QED
        BY <3>1 DEF Fewer
  <2>3. Nth(n) \in K
      BY <2>2
  <2>4. Nth(n) \in Indices /\ content[Nth(n)] \in Bit
      BY <2>3
  <2> QED
      BY <1>1, <2>4 DEF RecordFor, Record
<1>5. Cardinality(0 .. Cardinality(K) - 1) = Cardinality(K)
    BY <1>3, FS_Interval
<1> QED
    BY <1>2, <1>3, <1>4, <1>5

-----------------------------------------------------------------------------
(* One step *)

LEMMA Sizes ==
    /\ RecUnits \in Nat \ {0, 1} /\ Entries \in Nat \ {0} /\ JournalSectors \in Nat \ {0}
    /\ RecsPerSector \in Nat \ {0} /\ SectorUnits \in Nat \ {0}
    /\ JournalUnits = JournalSectors * SectorUnits /\ JournalUnits \in Nat
    /\ BatchUnits = (Entries \div RecsPerSector + 1) * SectorUnits /\ BatchUnits \in Nat
    /\ LastTail = (JournalSectors + 1) * RecsPerSector - 2
    /\ HiNoise \subseteq Bit
<1>1. RecsPerSector * RecUnits >= 1
  <2>1. RecsPerSector * RecUnits >= 1 * RecUnits
      BY LayoutAssumption
  <2> QED
      BY <2>1, LayoutAssumption
<1>2. SectorUnits \in Nat \ {0}
    BY <1>1, LayoutAssumption
<1>3. Entries \div RecsPerSector \in Nat
    BY RowOf, LayoutAssumption
<1>4. JournalUnits \in Nat /\ BatchUnits \in Nat
    BY <1>2, <1>3, LayoutAssumption DEF JournalUnits, BatchUnits
<1> QED
    BY <1>2, <1>4, LayoutAssumption DEF JournalUnits, BatchUnits, LastTail, Bit

\* What was sound stays so while commits record more.
LEMMA SoundGrows ==
    ASSUME recorded \subseteq recorded', NEW u, Sound(u)
    PROVE  Sound(u)'
    BY DEF Sound, Recorded

LEMMA ZerosAreSound == Sound(Zeros) /\ Sound(Zeros)' /\ Sound(Noise) /\ Sound(Noise)'
    BY DEF Sound

LEMMA FillersAreSound ==
    ASSUME NEW n \in Nat, NEW f \in Filler(n)
    PROVE  \A i \in 0 .. n - 1 : Sound(f[i]) /\ Sound(f[i])'
<1>1. PICK unit \in Leftovers : f = [i \in 0 .. n - 1 |-> unit]
    BY DEF Filler
<1>2. unit \in {Zeros, Noise}
    BY LayoutAssumption
<1> QED
    BY <1>1, <1>2, ZerosAreSound

LEMMA JournalInit == Init => JournalInv
<1> SUFFICES ASSUME Init PROVE JournalInv
    OBVIOUS
<1>1. UnitsInv
    BY Sizes, ZerosAreSound DEF Init, Blank, UnitsInv
<1>2. TransferInv
    BY DEF Init, TransferInv
<1>3. LastTail \in Nat
  <2>1. (JournalSectors + 1) * RecsPerSector >= 2 * RecsPerSector
      BY Sizes
  <2>2. PICK y \in Nat : y = (JournalSectors + 1) * RecsPerSector
      BY Sizes
  <2> QED
      BY <2>1, <2>2, Sizes
<1>4. CursorInv
    BY <1>3, Sizes DEF Init, CursorInv, AtJournalStart
<1>5. ManifoldInv
    BY DEF Init, ManifoldInv, NoAtoms
<1> QED
    BY <1>1, <1>2, <1>4, <1>5 DEF JournalInv

\* Every commit leaves recorded parts only, whatever lay behind them.
LEMMA LaidIsSound ==
    ASSUME JournalInv, NEW vb \in VBlocks, NEW content \in [Indices -> Bit],
           NEW noise \in HiNoise, NEW old \in Filler(BatchUnits) \cup {stack},
           BeginCommit(vb, content, noise, old)
    PROVE  LET batch == BatchOf(vb, content, noise)
           IN  \A i \in 0 .. BatchUnits - 1 :
                  Sound(Laid(batch, Cardinality(DOMAIN batch), old)[i])'
<1>1. PICK batch, count : batch = BatchOf(vb, content, noise) /\ count = Cardinality(DOMAIN batch)
    OBVIOUS
<1>2. /\ \A n \in DOMAIN batch : batch[n] \in Record
      /\ count \in 0 .. Entries /\ DOMAIN batch = 0 .. count - 1
    BY <1>1, BatchIs
<1>3. recorded' = recorded \cup
             {<<batch[n].vblock, batch[n].idx, batch[n].lo>> : n \in DOMAIN batch}
    BY <1>1 DEF BeginCommit
<1>4. \A i \in 0 .. BatchUnits - 1 : Sound(old[i])'
  <2>1. recorded \subseteq recorded'
      BY <1>3
  <2>2. CASE old \in Filler(BatchUnits)
      BY <2>2, FillersAreSound, Sizes
  <2>3. CASE old = stack
    <3>1. \A i \in 0 .. BatchUnits - 1 : Sound(stack[i])
        BY DEF JournalInv, UnitsInv
    <3>2. ASSUME NEW i \in 0 .. BatchUnits - 1 PROVE Sound(old[i])'
      <4>1. PICK u : u = stack[i]
          OBVIOUS
      <4>2. Sound(u)'
          BY <3>1, <4>1, <2>1, SoundGrows
      <4> QED
          BY <2>3, <4>1, <4>2 DEF Sound, Recorded
    <3> QED
        BY <3>2
  <2> QED
      BY <2>2, <2>3
<1>5. ASSUME NEW n \in DOMAIN batch, NEW p \in 0 .. RecUnits - 1
      PROVE  Sound(Part(batch[n], p))'
  <2>1. batch[n] \in Record /\ <<batch[n].vblock, batch[n].idx, batch[n].lo>> \in recorded'
      BY <1>2, <1>3
  <2> QED
      BY <2>1 DEF Part, Sound, Recorded
<1>6. ASSUME NEW i \in 0 .. BatchUnits - 1
      PROVE  Sound(Laid(batch, count, old)[i])'
  <2>1. Laid(batch, count, old)[i] = IF i < count * RecUnits THEN Part(batch[i \div RecUnits], i % RecUnits)
                                     ELSE old[i]
      BY DEF Laid
  <2>2. CASE i < count * RecUnits
    <3>1. i \in Nat /\ count \in Nat /\ count * RecUnits \in Nat
        BY <1>2, Sizes
    <3>2. i \in 0 .. count * RecUnits - 1
        BY <2>2, <3>1
    <3>3. i \div RecUnits \in DOMAIN batch
        BY <1>2, <3>1, <3>2, DivBelow, Sizes
    <3>4. i % RecUnits \in 0 .. RecUnits - 1
        BY <3>1, Sizes
    <3> QED
        BY <2>1, <2>2, <3>3, <3>4, <1>5
  <2>3. CASE ~ (i < count * RecUnits)
      BY <2>1, <2>3, <1>4
  <2> QED
      BY <2>2, <2>3
<1> QED
    BY <1>1, <1>6

\* Arrays that stay as they are stay sound.
LEMMA ArraysKeep ==
    ASSUME recorded \subseteq recorded', UnitsInv
    PROVE  /\ disk' = disk => \A i \in 0 .. JournalUnits - 1 : Sound(disk[i])'
           /\ stack' = stack => \A i \in 0 .. BatchUnits - 1 : Sound(stack[i])'
           /\ sector_buffer' = sector_buffer =>
                 \A i \in 0 .. SectorUnits - 1 : Sound(sector_buffer[i])'
<1>1. ASSUME NEW u, Sound(u) PROVE Sound(u)'
    BY <1>1, SoundGrows
<1>2. ASSUME disk' = disk, NEW i \in 0 .. JournalUnits - 1 PROVE Sound(disk[i])'
  <2>1. PICK u : u = disk[i]
      OBVIOUS
  <2>2. Sound(u)'
      BY <2>1, <1>1 DEF UnitsInv
  <2> QED
      BY <1>2, <2>1, <2>2 DEF Sound, Recorded
<1>3. ASSUME stack' = stack, NEW i \in 0 .. BatchUnits - 1 PROVE Sound(stack[i])'
  <2>1. PICK u : u = stack[i]
      OBVIOUS
  <2>2. Sound(u)'
      BY <2>1, <1>1 DEF UnitsInv
  <2> QED
      BY <1>3, <2>1, <2>2 DEF Sound, Recorded
<1>4. ASSUME sector_buffer' = sector_buffer, NEW i \in 0 .. SectorUnits - 1
      PROVE  Sound(sector_buffer[i])'
  <2>1. PICK u : u = sector_buffer[i]
      OBVIOUS
  <2>2. Sound(u)'
      BY <2>1, <1>1 DEF UnitsInv
  <2> QED
      BY <1>4, <2>1, <2>2 DEF Sound, Recorded
<1> QED
    BY <1>2, <1>3, <1>4

LEMMA ManifoldKeeps ==
    ASSUME ManifoldInv, recorded \subseteq recorded', manifold' = manifold
    PROVE  ManifoldInv'
    BY DEF ManifoldInv, Addresses, Indices, Bit

LEMMA TailFacts ==
    ASSUME CursorInv
    PROVE  /\ StartSector(journal_tail) \in Nat
           /\ journal_tail < (StartSector(journal_tail) + 1) * RecsPerSector
<1>1. journal_tail \in Nat
    BY DEF CursorInv
<1> QED
    BY <1>1, DivNext, Sizes DEF StartSector

LEMMA BeginCommitStep ==
    ASSUME JournalInv, NEW vb \in VBlocks, NEW content \in [Indices -> Bit],
           NEW noise \in HiNoise, NEW old \in Filler(BatchUnits) \cup {stack},
           BeginCommit(vb, content, noise, old)
    PROVE  JournalInv'
<1>1. PICK batch, count : batch = BatchOf(vb, content, noise) /\ count = Cardinality(DOMAIN batch)
    OBVIOUS
<1>2. count \in 0 .. Entries
    BY <1>1, BatchIs
<1>3. \A i \in 0 .. BatchUnits - 1 : Sound(Laid(batch, count, old)[i])'
    BY <1>1, LaidIsSound
<1>4. /\ phase = "running" /\ phase' \in {"running", "writing"}
      /\ phase' = "running" => UNCHANGED stack
      /\ phase' = "writing" =>
            /\ stack' = Laid(batch, count, old)
            /\ StartSector(journal_tail) + SectorsNeeded(count) <= JournalSectors
            /\ transfer' = [first |-> StartSector(journal_tail), next |-> 0,
                            sectors |-> SectorsNeeded(count),
                            count |-> count, vblock |-> vb, content |-> content]
      /\ recorded \subseteq recorded'
      /\ UNCHANGED <<disk, journal_tail, cursor, sector_buffer, manifold>>
    BY <1>1 DEF BeginCommit, recoveryVars
<1>5. UnitsInv'
  <2>1. CASE phase' = "running"
      BY <2>1, <1>4, ArraysKeep, Sizes DEF JournalInv, UnitsInv
  <2>2. CASE phase' = "writing"
    <3>1. \A i \in 0 .. BatchUnits - 1 : Sound(stack[i])'
        BY <2>2, <1>3, <1>4 DEF Sound, Recorded
    <3> QED
        BY <3>1, <1>4, ArraysKeep DEF JournalInv, UnitsInv
  <2> QED
      BY <2>1, <2>2, <1>4
<1>6. TransferInv'
  <2>1. count \in Nat /\ SectorsNeeded(count) \in Nat
      BY <1>2, RowOf, Sizes DEF SectorsNeeded
  <2>2. StartSector(journal_tail)' = StartSector(journal_tail)
      BY <1>4 DEF StartSector
  <2> QED
      BY <1>2, <1>4, <2>1, <2>2 DEF TransferInv, SectorsNeeded
<1>7. CursorInv'
    BY <1>4 DEF JournalInv, CursorInv
<1>8. ManifoldInv'
    BY <1>4, ManifoldKeeps DEF JournalInv
<1> QED
    BY <1>5, <1>6, <1>7, <1>8 DEF JournalInv

\* A sector of the array lies inside the array, and goes to its own sector.
LEMMA WriteSectorStep ==
    ASSUME JournalInv, WriteSector
    PROVE  JournalInv'
<1> DEFINE t == transfer
<1>1. /\ phase = "writing" /\ t.next < t.sectors
      /\ transfer' = [t EXCEPT !.next = @ + 1]
      /\ disk' = [i \in 0 .. JournalUnits - 1 |->
                    IF i \div SectorUnits = t.first + t.next
                    THEN stack[t.next * SectorUnits + (i - (t.first + t.next) * SectorUnits)]
                    ELSE disk[i]]
      /\ recorded' = recorded
      /\ UNCHANGED <<phase, stack, journal_tail, cursor, sector_buffer, manifold>>
    BY DEF WriteSector, recoveryVars, commitHistory
<1>2. PICK first \in Nat, next \in Nat, sectors \in Nat, count \in 0 .. Entries :
          /\ t.first = first /\ t.next = next /\ t.sectors = sectors /\ t.count = count
          /\ first = StartSector(journal_tail) /\ sectors = SectorsNeeded(count)
          /\ next < sectors /\ first + sectors <= JournalSectors
  <2>1. t.count \in 0 .. Entries /\ t.sectors = SectorsNeeded(t.count) /\ t.next \in 0 .. t.sectors
        /\ t.first = StartSector(journal_tail) /\ t.first + t.sectors <= JournalSectors
      BY <1>1 DEF JournalInv, TransferInv
  <2>2. t.first \in Nat
      BY <2>1, TailFacts DEF JournalInv
  <2>3. PICK count \in 0 .. Entries : t.count = count
      BY <2>1
  <2>4. count \div RecsPerSector \in Nat
      BY RowOf, Sizes
  <2>5. t.sectors = SectorsNeeded(count) /\ SectorsNeeded(count) \in Nat
      BY <2>1, <2>3, <2>4 DEF SectorsNeeded
  <2> QED
      BY <1>1, <2>1, <2>2, <2>3, <2>5
<1>3. next \in 0 .. Entries \div RecsPerSector
  <2>1. count \div RecsPerSector <= Entries \div RecsPerSector
      BY DivOrder, Sizes
  <2>2. count \div RecsPerSector \in Nat /\ Entries \div RecsPerSector \in Nat
      BY RowOf, Sizes
  <2> QED
      BY <1>2, <2>1, <2>2 DEF SectorsNeeded
<1>4. ASSUME NEW i \in 0 .. JournalUnits - 1, i \div SectorUnits = first + next
      PROVE  next * SectorUnits + (i - (first + next) * SectorUnits) \in 0 .. BatchUnits - 1
  <2>1. i - (i \div SectorUnits) * SectorUnits \in 0 .. SectorUnits - 1
      BY RowOf, Sizes
  <2>2. PICK j \in 0 .. SectorUnits - 1 : j = i - (first + next) * SectorUnits
      BY <2>1, <1>4
  <2>3. Entries \div RecsPerSector + 1 \in Nat
        /\ next \in 0 .. (Entries \div RecsPerSector + 1) - 1
      BY <1>3, RowOf, Sizes
  <2>4. next * SectorUnits + j \in 0 .. (Entries \div RecsPerSector + 1) * SectorUnits - 1
      BY <2>3, InRow, Sizes
  <2> QED
      BY <2>2, <2>4, Sizes
<1>5. UnitsInv'
  <2>1. ASSUME NEW i \in 0 .. JournalUnits - 1 PROVE Sound(disk[i])'
    <3>1. CASE i \div SectorUnits = first + next
      <4>1. PICK k \in 0 .. BatchUnits - 1 :
                k = next * SectorUnits + (i - (first + next) * SectorUnits)
          BY <3>1, <1>4
      <4>2. disk'[i] = stack[k] /\ Sound(stack[k])
          BY <1>1, <1>2, <3>1, <4>1 DEF JournalInv, UnitsInv
      <4> QED
          BY <4>2, <1>1 DEF Sound, Recorded
    <3>2. CASE i \div SectorUnits # first + next
      <4>1. disk'[i] = disk[i] /\ Sound(disk[i])
          BY <1>1, <1>2, <3>2 DEF JournalInv, UnitsInv
      <4> QED
          BY <4>1, <1>1 DEF Sound, Recorded
    <3> QED
        BY <3>1, <3>2
  <2> QED
      BY <2>1, <1>1, ArraysKeep DEF JournalInv, UnitsInv
<1>6. TransferInv'
  <2>1. t = [first |-> t.first, next |-> t.next, sectors |-> t.sectors, count |-> t.count,
             vblock |-> t.vblock, content |-> t.content]
      BY <1>1 DEF JournalInv, TransferInv
  <2>2. transfer' = [first |-> first, next |-> next + 1, sectors |-> sectors,
                     count |-> count, vblock |-> t.vblock, content |-> t.content]
      BY <1>1, <1>2, <2>1
  <2>3. StartSector(journal_tail)' = first
      BY <1>1, <1>2 DEF StartSector
  <2> QED
      BY <1>2, <2>2, <2>3 DEF TransferInv, SectorsNeeded
<1>7. CursorInv'
    BY <1>1 DEF JournalInv, CursorInv
<1>8. ManifoldInv'
    BY <1>1, ManifoldKeeps DEF JournalInv
<1> QED
    BY <1>5, <1>6, <1>7, <1>8 DEF JournalInv

LEMMA WriteFailsStep ==
    ASSUME JournalInv, WriteFails
    PROVE  JournalInv'
<1> DEFINE t == transfer
<1>1. /\ phase = "writing"
      /\ transfer' = [t EXCEPT !.next = t.sectors]
      /\ recorded' = recorded
      /\ UNCHANGED <<disk, phase, stack, journal_tail, cursor, sector_buffer, manifold>>
    BY DEF WriteFails, recoveryVars, commitHistory
<1>2. UnitsInv'
    BY <1>1, ArraysKeep DEF JournalInv, UnitsInv
<1>3. TransferInv'
  <2>1. /\ t = [first |-> t.first, next |-> t.next, sectors |-> t.sectors,
                count |-> t.count, vblock |-> t.vblock, content |-> t.content]
        /\ t.first = StartSector(journal_tail) /\ t.count \in 0 .. Entries
        /\ t.sectors = SectorsNeeded(t.count) /\ t.next \in 0 .. t.sectors
        /\ t.first + t.sectors <= JournalSectors
      BY <1>1 DEF JournalInv, TransferInv
  <2>2. transfer' = [first |-> t.first, next |-> t.sectors, sectors |-> t.sectors,
                     count |-> t.count, vblock |-> t.vblock, content |-> t.content]
      BY <1>1, <2>1
  <2>3. StartSector(journal_tail)' = t.first
      BY <1>1, <2>1 DEF StartSector
  <2>4. PICK count \in 0 .. Entries : t.count = count
      BY <2>1
  <2>5. count \div RecsPerSector \in Nat
      BY RowOf, Sizes
  <2>6. PICK sectors \in Nat : t.sectors = sectors /\ sectors = SectorsNeeded(count)
      BY <2>1, <2>4, <2>5 DEF SectorsNeeded
  <2> QED
      BY <2>1, <2>2, <2>3, <2>4, <2>6 DEF TransferInv, SectorsNeeded
<1>4. CursorInv'
    BY <1>1 DEF JournalInv, CursorInv
<1>5. ManifoldInv'
    BY <1>1, ManifoldKeeps DEF JournalInv
<1> QED
    BY <1>2, <1>3, <1>4, <1>5 DEF JournalInv

\* The tail moves by as many records as were laid, and those are fewer than a
\* sector more than the sectors written.
LEMMA EndCommitStep ==
    ASSUME JournalInv, EndCommit
    PROVE  JournalInv'
<1> DEFINE t == transfer
<1>1. /\ phase = "writing" /\ phase' = "running"
      /\ journal_tail' = journal_tail + t.count
      /\ recorded' = recorded
      /\ UNCHANGED <<disk, stack, cursor, sector_buffer, manifold>>
    BY DEF EndCommit, recoveryVars
<1>2. UnitsInv'
    BY <1>1, ArraysKeep DEF JournalInv, UnitsInv
<1>3. TransferInv'
    BY <1>1 DEF TransferInv
<1>4. journal_tail' \in 0 .. LastTail
  <2>1. PICK tail \in Nat, first \in Nat :
            /\ tail = journal_tail /\ first = StartSector(journal_tail)
            /\ tail < (first + 1) * RecsPerSector
    <3>1. journal_tail \in Nat
        BY DEF JournalInv, CursorInv
    <3> QED
        BY <3>1, TailFacts DEF JournalInv
  <2>2. PICK count \in 0 .. Entries :
            t.count = count /\ first + (count \div RecsPerSector + 1) <= JournalSectors
      BY <1>1, <2>1 DEF JournalInv, TransferInv, SectorsNeeded
  <2>3. PICK q \in Nat : q = count \div RecsPerSector /\ count < (q + 1) * RecsPerSector
      BY DivNext, Sizes
  <2>4. (first + 1) * RecsPerSector + (q + 1) * RecsPerSector
           = (first + 1 + (q + 1)) * RecsPerSector
      BY Sizes
  <2>5. (first + 1 + (q + 1)) * RecsPerSector <= (JournalSectors + 1) * RecsPerSector
    <3>1. first + 1 + (q + 1) <= JournalSectors + 1
        BY <2>2, <2>3, Sizes
    <3> QED
        BY <3>1, Sizes
  <2>6. PICK a \in Nat, b \in Nat, c \in Nat, d \in Nat :
            /\ a = (first + 1) * RecsPerSector /\ b = (q + 1) * RecsPerSector
            /\ c = (first + 1 + (q + 1)) * RecsPerSector
            /\ d = (JournalSectors + 1) * RecsPerSector
      BY Sizes
  <2>7. tail + count <= d - 2
      BY <2>1, <2>3, <2>4, <2>5, <2>6
  <2>8. LastTail = d - 2 /\ journal_tail' = tail + count
      BY <1>1, <2>1, <2>2, <2>6, Sizes
  <2> QED
      BY <2>7, <2>8
<1>5. CursorInv'
    BY <1>1, <1>4 DEF JournalInv, CursorInv, LastTail
<1>6. ManifoldInv'
    BY <1>1, ManifoldKeeps DEF JournalInv
<1> QED
    BY <1>2, <1>3, <1>5, <1>6 DEF JournalInv

LEMMA ReadSectorStep ==
    ASSUME JournalInv, ReadSector
    PROVE  JournalInv'
<1>1. /\ phase = "recovering" /\ cursor.lba < JournalSectors
      /\ cursor' = [cursor EXCEPT !.i = 0]
      /\ sector_buffer' = Sector(cursor.lba) \/ sector_buffer' = sector_buffer
      /\ recorded' = recorded
      /\ UNCHANGED <<phase, journal_tail, disk, stack, transfer, manifold>>
    BY DEF ReadSector, commitVars, commitHistory
<1>2. PICK lba \in 0 .. JournalSectors - 1 : cursor.lba = lba
  <2>1. cursor.lba \in 0 .. JournalSectors
      BY DEF JournalInv, CursorInv
  <2> QED
      BY <1>1, <2>1, Sizes
<1>3. UnitsInv'
  <2>1. CASE sector_buffer' = Sector(cursor.lba)
    <3>1. ASSUME NEW i \in 0 .. SectorUnits - 1 PROVE Sound(sector_buffer[i])'
      <4>1. lba * SectorUnits + i \in 0 .. JournalUnits - 1
          BY InRow, Sizes
      <4>2. sector_buffer'[i] = disk[lba * SectorUnits + i]
          BY <1>2, <2>1 DEF Sector
      <4>3. Sound(disk[lba * SectorUnits + i])
          BY <4>1 DEF JournalInv, UnitsInv
      <4> QED
          BY <4>2, <4>3, <1>1 DEF Sound, Recorded
    <3> QED
        BY <3>1, <1>1, ArraysKeep DEF JournalInv, UnitsInv
  <2>2. CASE sector_buffer' = sector_buffer
      BY <2>2, <1>1, ArraysKeep DEF JournalInv, UnitsInv
  <2> QED
      BY <1>1, <2>1, <2>2
<1>4. TransferInv'
    BY <1>1 DEF TransferInv
<1>5. CursorInv'
  <2>1. cursor' = [lba |-> lba, i |-> 0]
    <3>1. cursor \in [lba : 0 .. JournalSectors, i : 0 .. RecsPerSector]
        BY DEF JournalInv, CursorInv
    <3> QED
        BY <3>1, <1>1, <1>2
  <2> QED
      BY <1>1, <1>2, <2>1, Sizes DEF JournalInv, CursorInv, LastTail
<1>6. ManifoldInv'
    BY <1>1, ManifoldKeeps DEF JournalInv
<1> QED
    BY <1>3, <1>4, <1>5, <1>6 DEF JournalInv

LEMMA FindTerminatorStep ==
    ASSUME JournalInv, FindTerminator
    PROVE  JournalInv'
<1>1. /\ phase = "recovering" /\ phase' = "running" /\ cursor.i < RecsPerSector
      /\ journal_tail' = cursor.lba * RecsPerSector + cursor.i
      /\ recorded' = recorded
      /\ UNCHANGED <<disk, stack, cursor, sector_buffer, manifold>>
    BY DEF FindTerminator, Terminated, commitVars, recoveryVars, commitHistory
<1>2. UnitsInv'
    BY <1>1, ArraysKeep DEF JournalInv, UnitsInv
<1>3. TransferInv'
    BY <1>1 DEF TransferInv
<1>4. journal_tail' \in 0 .. LastTail
  <2>1. PICK lba \in 0 .. JournalSectors - 1, i \in 0 .. RecsPerSector - 1 :
            cursor.lba = lba /\ cursor.i = i
    <3>1. cursor.lba \in 0 .. JournalSectors /\ cursor.i \in 0 .. RecsPerSector
          /\ cursor.lba < JournalSectors
        BY <1>1 DEF JournalInv, CursorInv
    <3> QED
        BY <1>1, <3>1, Sizes
  <2>2. lba * RecsPerSector + i \in 0 .. JournalSectors * RecsPerSector - 1
      BY InRow, Sizes
  <2>3. (JournalSectors + 1) * RecsPerSector = JournalSectors * RecsPerSector + RecsPerSector
      BY Sizes
  <2>4. PICK a \in Nat, b \in Nat, c \in Int :
            /\ a = JournalSectors * RecsPerSector /\ b = (JournalSectors + 1) * RecsPerSector
            /\ c = lba * RecsPerSector + i
      BY Sizes
  <2>5. c \in 0 .. b - 2
      BY <2>2, <2>3, <2>4, Sizes
  <2> QED
      BY <1>1, <2>1, <2>4, <2>5, Sizes
<1>5. CursorInv'
    BY <1>1, <1>4 DEF JournalInv, CursorInv, LastTail
<1>6. ManifoldInv'
    BY <1>1, ManifoldKeeps DEF JournalInv
<1> QED
    BY <1>2, <1>3, <1>5, <1>6 DEF JournalInv

LEMMA FindCorruptionStep ==
    ASSUME JournalInv, FindCorruption \/ ReadAll
    PROVE  JournalInv'
<1>1. /\ phase = "recovering" /\ phase' \in {"halted", "running"} /\ recorded' = recorded
      /\ UNCHANGED <<journal_tail, disk, stack, cursor, sector_buffer, manifold>>
    BY DEF FindCorruption, ReadAll, commitVars, recoveryVars, commitHistory
<1>2. UnitsInv'
    BY <1>1, ArraysKeep DEF JournalInv, UnitsInv
<1>3. TransferInv'
    BY <1>1 DEF TransferInv
<1>4. CursorInv'
    BY <1>1 DEF JournalInv, CursorInv, LastTail
<1>5. ManifoldInv'
    BY <1>1, ManifoldKeeps DEF JournalInv
<1> QED
    BY <1>2, <1>3, <1>4, <1>5 DEF JournalInv

\* A whole record in the buffer is a recorded one.
LEMMA WholeIsRecorded ==
    ASSUME JournalInv, cursor.i < RecsPerSector, Whole(RecordAt(cursor.i))
    PROVE  Recorded(TheRecord(RecordAt(cursor.i)))
<1>1. PICK i \in 0 .. RecsPerSector - 1 : i = cursor.i
  <2>1. cursor.i \in 0 .. RecsPerSector
      BY DEF JournalInv, CursorInv
  <2> QED
      BY <2>1, Sizes
<1>2. PICK r \in Record : /\ r = TheRecord(RecordAt(cursor.i))
                          /\ \A p \in DOMAIN RecordAt(cursor.i) : RecordAt(cursor.i)[p] = <<r, p>>
    BY DEF Whole, TheRecord
<1>3. RecordAt(cursor.i)[0] = sector_buffer[i * RecUnits + 0] /\ 0 \in DOMAIN RecordAt(cursor.i)
    BY <1>1, Sizes DEF RecordAt
<1>4. i * RecUnits + 0 \in 0 .. SectorUnits - 1
  <2>1. i * RecUnits + 0 \in 0 .. RecsPerSector * RecUnits - 1
      BY InRow, Sizes
  <2>2. RecsPerSector * RecUnits <= SectorUnits
      BY LayoutAssumption
  <2>3. PICK a \in Int, b \in Nat : a = i * RecUnits + 0 /\ b = RecsPerSector * RecUnits
      BY Sizes
  <2> QED
      BY <2>1, <2>2, <2>3, Sizes
<1>5. Sound(<<r, 0>>)
    BY <1>2, <1>3, <1>4 DEF JournalInv, UnitsInv
<1>6. <<r, 0>> # Zeros /\ <<r, 0>> # Noise
  <2>1. <<r, 0>> \in Parts
      BY Sizes DEF Parts
  <2> QED
      BY <2>1, UnitAssumption
<1>7. PICK s \in Record, p \in 0 .. RecUnits - 1 : <<r, 0>> = <<s, p>> /\ Recorded(s)
    BY <1>5, <1>6 DEF Sound
<1> QED
    BY <1>2, <1>7

LEMMA InjectStep ==
    ASSUME JournalInv, NEW noise \in HiNoise, Inject(noise)
    PROVE  JournalInv'
<1>1. PICK r : r = TheRecord(RecordAt(cursor.i))
    OBVIOUS
<1>2. /\ phase = "recovering" /\ cursor.i < RecsPerSector /\ Whole(RecordAt(cursor.i))
      /\ manifold' = [manifold EXCEPT ![<<r.vblock, r.idx>>] =
                        [hi |-> Xor(noise, r.hi), lo |-> r.lo]]
      /\ cursor' = NextRecord
      /\ recorded' = recorded
      /\ UNCHANGED <<phase, journal_tail, disk, stack, transfer, sector_buffer>>
    BY <1>1 DEF Inject, Restore, commitVars, commitHistory
<1>3. r \in Record /\ <<r.vblock, r.idx, r.lo>> \in recorded
    BY <1>1, <1>2, WholeIsRecorded DEF Recorded
<1>4. UnitsInv'
    BY <1>2, ArraysKeep DEF JournalInv, UnitsInv
<1>5. TransferInv'
    BY <1>2 DEF TransferInv
<1>6. CursorInv'
  <2>1. PICK lba \in 0 .. JournalSectors - 1, i \in 0 .. RecsPerSector - 1 :
            cursor.lba = lba /\ cursor.i = i
    <3>1. cursor.lba \in 0 .. JournalSectors /\ cursor.i \in 0 .. RecsPerSector
          /\ cursor.lba < JournalSectors
        BY <1>2 DEF JournalInv, CursorInv
    <3> QED
        BY <1>2, <3>1, Sizes
  <2>2. cursor' = [lba |-> IF i + 1 = RecsPerSector THEN lba + 1 ELSE lba, i |-> i + 1]
      BY <1>2, <2>1 DEF NextRecord
  <2> QED
      BY <1>2, <2>1, <2>2, Sizes DEF JournalInv, CursorInv, LastTail
<1>7. ManifoldInv'
  <2>1. r.vblock \in VBlocks /\ r.idx \in Indices /\ r.hi \in Bit /\ r.lo \in Bit
      BY <1>3 DEF Record
  <2>2. <<r.vblock, r.idx>> \in Addresses
      BY <2>1 DEF Addresses
  <2>3. [hi |-> Xor(noise, r.hi), lo |-> r.lo] \in [hi : Bit, lo : Bit]
    <3>1. Xor(noise, r.hi) \in Bit
        BY <2>1, Sizes DEF Xor, Bit
    <3> QED
        BY <2>1, <3>1
  <2>4. manifold' \in [Addresses -> {None} \cup [hi : Bit, lo : Bit]]
      BY <1>2, <2>2, <2>3 DEF JournalInv, ManifoldInv
  <2>5. ASSUME NEW a \in Addresses, manifold'[a] # None
        PROVE  <<a[1], a[2], manifold'[a].lo>> \in recorded'
    <3>1. CASE a = <<r.vblock, r.idx>>
        BY <3>1, <1>2, <1>3, <2>2 DEF JournalInv, ManifoldInv
    <3>2. CASE a # <<r.vblock, r.idx>>
      <4>1. manifold'[a] = manifold[a]
          BY <3>2, <1>2 DEF JournalInv, ManifoldInv
      <4> QED
          BY <4>1, <2>5, <1>2 DEF JournalInv, ManifoldInv
    <3> QED
        BY <3>1, <3>2
  <2> QED
      BY <2>4, <2>5 DEF ManifoldInv, Addresses, Indices, Bit
<1> QED
    BY <1>4, <1>5, <1>6, <1>7 DEF JournalInv

\* What a crash leaves in memory is no part of a record.
LEMMA CrashStep ==
    ASSUME JournalInv, Crash
    PROVE  JournalInv'
<1>1. /\ phase' = "recovering" /\ stack' = Blank(BatchUnits) /\ journal_tail' = 0
      /\ cursor' = AtJournalStart /\ sector_buffer' \in Filler(SectorUnits)
      /\ manifold' = NoAtoms /\ disk' = disk /\ recorded' = recorded
    BY DEF Crash, commitHistory
<1>2. UnitsInv'
  <2>1. \A i \in 0 .. BatchUnits - 1 : Sound(stack[i])'
      BY <1>1, ZerosAreSound DEF Blank, Sound, Recorded
  <2>2. \A i \in 0 .. SectorUnits - 1 : Sound(sector_buffer[i])'
    <3>1. PICK unit \in Leftovers : sector_buffer' = [i \in 0 .. SectorUnits - 1 |-> unit]
        BY <1>1 DEF Filler
    <3>2. unit \in {Zeros, Noise}
        BY LayoutAssumption
    <3> QED
        BY <3>1, <3>2 DEF Sound, Recorded
  <2> QED
      BY <2>1, <2>2, <1>1, ArraysKeep DEF JournalInv, UnitsInv
<1>3. TransferInv'
    BY <1>1 DEF TransferInv
<1>4. LastTail \in Nat
  <2>1. (JournalSectors + 1) * RecsPerSector >= 2 * RecsPerSector
      BY Sizes
  <2>2. PICK y \in Nat : y = (JournalSectors + 1) * RecsPerSector
      BY Sizes
  <2> QED
      BY <2>1, <2>2, Sizes
<1>5. CursorInv'
    BY <1>1, <1>4, Sizes DEF CursorInv, AtJournalStart, LastTail
<1>6. ManifoldInv'
    BY <1>1 DEF ManifoldInv, NoAtoms, Addresses, Indices, Bit
<1> QED
    BY <1>2, <1>3, <1>5, <1>6 DEF JournalInv

LEMMA JournalStep == JournalInv /\ [Next]_vars => JournalInv'
<1> SUFFICES ASSUME JournalInv, [Next]_vars PROVE JournalInv'
    OBVIOUS
<1>1. CASE Commit
    BY <1>1, BeginCommitStep DEF Commit
<1>2. CASE Write
    BY <1>2, WriteSectorStep, WriteFailsStep, EndCommitStep DEF Write
<1>3. CASE Recover
    BY <1>3, ReadSectorStep, FindTerminatorStep, FindCorruptionStep, InjectStep DEF Recover
<1>4. CASE Crash
    BY <1>4, CrashStep
<1>5. CASE UNCHANGED vars
  <2>1. /\ recorded' = recorded
        /\ UNCHANGED <<disk, stack, sector_buffer, phase, journal_tail, transfer, cursor, manifold>>
      BY <1>5 DEF vars, commitVars, recoveryVars, commitHistory
  <2>2. UnitsInv'
      BY <2>1, ArraysKeep DEF JournalInv, UnitsInv
  <2>3. TransferInv'
      BY <2>1 DEF JournalInv, TransferInv, StartSector, SectorsNeeded
  <2>4. CursorInv'
      BY <2>1 DEF JournalInv, CursorInv, LastTail
  <2>5. ManifoldInv'
      BY <2>1, ManifoldKeeps DEF JournalInv
  <2> QED
      BY <2>2, <2>3, <2>4, <2>5 DEF JournalInv
<1> QED
    BY <1>1, <1>2, <1>3, <1>4, <1>5 DEF Next

LEMMA JournalAlways == Spec => []JournalInv
<1> QED
    BY JournalInit, JournalStep, PTL DEF Spec

\* Sectors, cursor and tail stay in range, in every mix of commits, crashes and
\* failed transfers; the tail may point into the sector after the last
\* (current_journal_tail_ = tail + count).
THEOREM TypeCorrect == Spec => []TypeOK
<1>1. JournalInv => TypeOK
  <2> SUFFICES ASSUME JournalInv PROVE TypeOK
      OBVIOUS
  <2>1. ASSUME NEW u, Sound(u) PROVE u \in Unit
    <3>1. CASE u \in {Zeros, Noise}
        BY <3>1 DEF Unit
    <3>2. ASSUME NEW r \in Record, NEW p \in 0 .. RecUnits - 1, u = <<r, p>> PROVE u \in Parts
        BY <3>2, Zenon DEF Parts
    <3> QED
        BY <2>1, <3>1, <3>2, Zenon DEF Sound, Unit
  <2> QED
      BY <2>1 DEF JournalInv, UnitsInv, CursorInv, ManifoldInv, TypeOK
<1> QED
    BY <1>1, JournalAlways, PTL

\* Recovery injects nothing a commit did not record for that address, whatever was
\* torn, overwritten or left on the stack (recover_state).
THEOREM NothingIsInvented == Spec => []RestoredWasRecorded
<1>1. JournalInv => RestoredWasRecorded
    BY DEF JournalInv, ManifoldInv, RestoredWasRecorded
<1> QED
    BY <1>1, JournalAlways, PTL

-----------------------------------------------------------------------------
(* The image's invariant *)

Block == [EntryNumbers -> Entry]
BlockTable == [Lenses -> Block \cup {Nothing}]
HoldTable == [Lenses -> Seq(Bytes) \cup {Nothing}]

\* The entries that data occupies hold it, chained in order.
Stores(block, data) ==
    /\ Len(data) <= Reachable
    /\ \A e \in EntryNumbers :
          e < Hops(Len(data)) => block[e] = [route |-> NextRoute(data, e), payload |-> Chunk(data, e)]

\* What a block is said to hold is in it.
Kept(block, data) == data # Nothing => block # Nothing /\ Stores(block, data)

AllKept(bs, hs) == \A b \in Lenses : Kept(bs[b], hs[b])

MemoryInv ==
    /\ blocks \in BlockTable /\ holds \in HoldTable
    /\ AllKept(blocks, holds)
    /\ seed \in Seeds /\ dirty \in BOOLEAN /\ loaded \in BOOLEAN

\* A piece of an image: the first three do not matter to the blocks.
Piece ==
    [kind : {"tag"}, tag : 0 .. 1] \cup [kind : {"version"}] \cup [kind : {"root"}]
        \cup [kind : {"block"}, seed : Seeds, number : Lenses, content : Block,
              holds : Seq(Bytes) \cup {Nothing}]

\* A piece that is a block is a block of the last save.
OfSave(piece, save) ==
    piece.kind = "block" =>
        /\ piece.seed = save.seed
        /\ piece.content = save.blocks[piece.number]
        /\ Kept(piece.content, piece.holds)

\* The block numbered b lies at its place.
AtPlace(pieces, b) == pieces[PieceOf(b)].kind = "block" /\ pieces[PieceOf(b)].number = b

IsImage(pieces, save) ==
    /\ save \in [seed : Seeds, blocks : [Lenses -> Block]]
    /\ pieces \in Seq(Piece) /\ Len(pieces) <= LensCount + 3
    /\ \A i \in 1 .. Len(pieces) : OfSave(pieces[i], save)
    /\ Len(pieces) = LensCount + 3 => \A b \in Lenses : AtPlace(pieces, b)

FileInv ==
    /\ image # Nothing => IsImage(image, saved)
    /\ saved # Nothing => saved \in [seed : Seeds, blocks : [Lenses -> Block]]

ImageInv == MemoryInv /\ FileInv /\ LoadIsAllOrNothing /\ ops \in 0 .. MaxOps

-----------------------------------------------------------------------------
(* Entries *)

LEMMA TopologySizes ==
    /\ EntriesPerBlock \in Nat /\ EntriesPerBlock > 3 /\ HopBytes \in Nat /\ HopBytes > 0
    /\ LensCount \in Nat /\ LensCount > 0 /\ MaxOps \in Nat
    /\ 0 \in Bytes /\ NoiseByte \in Bytes
    /\ HALT_ROUTE \in EntryNumbers /\ FREE_ROUTE \in EntryNumbers /\ 0 \in EntryNumbers
    /\ FREE_ROUTE = EntriesPerBlock - 3 /\ HALT_ROUTE = EntriesPerBlock - 1
    BY TopologyAssumption DEF HALT_ROUTE, FREE_ROUTE, EntryNumbers

\* The hops for m bytes are those that begin before byte m.
LEMMA HopBegins ==
    ASSUME NEW m \in Nat, NEW e \in Nat
    PROVE  /\ Hops(m) \in Nat
           /\ e < Hops(m) <=> e * HopBytes < m
<1>1. PICK h \in Nat \ {0} : h = HopBytes
    BY TopologySizes
<1>2. PICK x \in Nat : x = m + h - 1
    BY <1>1
<1>3. PICK q \in Nat, r \in 0 .. h - 1 : q = x \div h /\ x = h * q + r
    BY <1>1, <1>2, DivMod
<1>4. Hops(m) = q
    BY <1>1, <1>2, <1>3 DEF Hops
<1>5. CASE e < q
  <2>1. PICK z \in Nat : q = e + 1 + z
      <3>1. q - e - 1 \in Nat /\ q = e + 1 + (q - e - 1)
          BY <1>5
      <3> QED
          BY <3>1
  <2>2. h * q = e * h + h + z * h
      BY <2>1
  <2>3. PICK u \in Nat, v \in Nat : u = e * h /\ v = z * h
      OBVIOUS
  <2>4. x = u + h + v + r
      BY <1>3, <2>2, <2>3
  <2>5. u < m
      BY <1>2, <2>4, <1>1
  <2> QED
      BY <1>1, <1>4, <1>5, <2>3, <2>5
<1>6. CASE ~(e < q)
  <2>1. PICK z \in Nat : e = q + z
      <3>1. e - q \in Nat /\ e = q + (e - q)
          BY <1>6
      <3> QED
          BY <3>1
  <2>2. e * h = h * q + z * h
      BY <2>1
  <2>3. PICK u \in Nat, v \in Nat, w \in Nat : u = e * h /\ v = z * h /\ w = h * q
      OBVIOUS
  <2>4. x = w + r /\ u = w + v
      BY <1>3, <2>2, <2>3
  <2>5. ~(u < m)
      BY <1>2, <2>4, <1>1, <1>3
  <2> QED
      BY <1>1, <1>4, <1>6, <2>3, <2>5
<1> QED
    BY <1>5, <1>6

LEMMA RouteType ==
    ASSUME NEW data \in Seq(Bytes), NEW e \in EntryNumbers
    PROVE  NextRoute(data, e) \in EntryNumbers
<1>1. e + 1 < EntriesPerBlock => e + 1 \in EntryNumbers
    BY TopologySizes DEF EntryNumbers
<1> QED
    BY <1>1, TopologySizes DEF NextRoute

LEMMA ChunkType ==
    ASSUME NEW data \in Seq(Bytes), NEW e \in EntryNumbers
    PROVE  Chunk(data, e) \in [1 .. HopBytes -> Bytes]
<1>1. PICK x \in Nat : x = e * HopBytes
    BY TopologySizes DEF EntryNumbers
<1>2. \A k \in 1 .. HopBytes : x + k <= Len(data) => data[x + k] \in Bytes
  <2> SUFFICES ASSUME NEW k \in 1 .. HopBytes, x + k <= Len(data) PROVE data[x + k] \in Bytes
      OBVIOUS
  <2>1. x + k \in 1 .. Len(data)
      BY TopologySizes
  <2> QED
      BY <2>1, ElementOfSeq
<1> QED
    BY <1>1, <1>2, TopologySizes DEF Chunk

LEMMA RerouteType ==
    ASSUME NEW entry \in Entry, NEW r \in EntryNumbers
    PROVE  [entry EXCEPT !.route = r] \in Entry
    BY DEF Entry

LEMMA FilledType ==
    ASSUME NEW r \in EntryNumbers, NEW byte \in Bytes
    PROVE  Filled(r, byte) \in Block
    BY DEF Filled, Block, Entry

LEMMA FreshBlocks == ExpandedBlock \in Block /\ ZeroBlock \in Block /\ Nothing \notin Block
    BY FilledType, TopologySizes, BlockAssumption DEF ExpandedBlock, ZeroBlock, Block

\* A block that data is written into holds it.
LEMMA WrittenKept ==
    ASSUME NEW old \in Block, NEW data \in Seq(Bytes)
    PROVE  /\ WrittenBlock(old, data) \in Block
           /\ Held(data) \in Seq(Bytes) \cup {Nothing}
           /\ Kept(WrittenBlock(old, data), Held(data))
<1> DEFINE new == WrittenBlock(old, data)
<1>1. ASSUME NEW e \in EntryNumbers
      PROVE  /\ [route |-> NextRoute(data, e), payload |-> Chunk(data, e)] \in Entry
             /\ [old[e] EXCEPT !.route = FREE_ROUTE] \in Entry
    BY RouteType, ChunkType, RerouteType, TopologySizes DEF Block, Entry
<1>2. new \in Block
    BY <1>1 DEF WrittenBlock, Block
<1>3. \A e \in EntryNumbers :
         e < Hops(Len(data)) => new[e] = [route |-> NextRoute(data, e), payload |-> Chunk(data, e)]
    BY DEF WrittenBlock
<1>4. new # Nothing
    BY <1>2, FreshBlocks
<1>5. Held(data) # Nothing => Held(data) = data /\ Len(data) <= Reachable
    BY DEF Held
<1> HIDE DEF new
<1>6. Kept(new, Held(data))
    BY <1>3, <1>4, <1>5 DEF Kept, Stores
<1>7. Held(data) \in Seq(Bytes) \cup {Nothing}
    BY DEF Held
<1> QED
    BY <1>2, <1>6, <1>7 DEF new

-----------------------------------------------------------------------------
(* write_chain *)

WriteStates ==
    {st \in [blocks : BlockTable, holds : HoldTable, written : Nat] : AllKept(st.blocks, st.holds)}

LEMMA PutType ==
    ASSUME NEW st \in WriteStates, NEW b \in Nat, NEW data \in Seq(Bytes)
    PROVE  Put(st, b, data) \in WriteStates
<1> DEFINE last == Least(Len(data), st.written + BytesPerBlock)
           part == SubSeq(data, st.written + 1, last)
<1>1. st.blocks \in BlockTable /\ st.holds \in HoldTable /\ st.written \in Nat
      /\ AllKept(st.blocks, st.holds)
    BY DEF WriteStates
<1>2. CASE ~(st.written < Len(data) /\ Allocated(st.blocks, b))
    BY <1>2 DEF Put
<1>3. CASE st.written < Len(data) /\ Allocated(st.blocks, b)
  <2>1. BytesPerBlock \in Nat
      BY TopologySizes DEF BytesPerBlock
  <2>2. last \in Nat /\ last <= Len(data)
      BY <1>1, <2>1 DEF Least
  <2>3. part \in Seq(Bytes)
    <3>1. PICK x \in Int, y \in Int : x = st.written + 1 /\ y = last /\ x >= 1 /\ y <= Len(data)
        BY <1>1, <2>2
    <3>2. \A i \in x .. y : data[i] \in Bytes
      <4>1. x .. y \subseteq 1 .. Len(data)
          BY <3>1
      <4> QED
          BY <4>1, ElementOfSeq
    <3>3. SubSeq(data, x, y) \in Seq(Bytes)
        BY <3>2, SubSeqProperties
    <3> QED
        BY <3>1, <3>3
  <2> HIDE DEF part, last
  <2>4. b \in Lenses /\ st.blocks[b] \in Block
      BY <1>1, <1>3 DEF Allocated, BlockTable
  <2>5. PICK new \in Block, held \in Seq(Bytes) \cup {Nothing} :
          new = WrittenBlock(st.blocks[b], part) /\ held = Held(part) /\ Kept(new, held)
      BY <2>3, <2>4, WrittenKept
  <2>6. PICK bs, hs : /\ bs = [st.blocks EXCEPT ![b] = new]
                      /\ hs = [st.holds EXCEPT ![b] = held]
      OBVIOUS
  <2>7. bs \in BlockTable /\ hs \in HoldTable
      BY <1>1, <2>4, <2>5, <2>6 DEF BlockTable, HoldTable
  <2>8. AllKept(bs, hs)
    <3> SUFFICES ASSUME NEW c \in Lenses PROVE Kept(bs[c], hs[c])
        BY DEF AllKept
    <3>1. Kept(st.blocks[c], st.holds[c])
        BY <1>1 DEF AllKept
    <3>2. CASE c = b
        BY <1>1, <2>4, <2>5, <2>6, <3>2 DEF BlockTable, HoldTable
    <3>3. CASE c # b
        BY <1>1, <2>4, <2>6, <3>1, <3>3 DEF BlockTable, HoldTable
    <3> QED
        BY <3>2, <3>3
  <2>9. PICK w \in Nat : w = st.written + Len(part)
      BY <1>1, <2>3, LenProperties
  <2>10. Put(st, b, data) = [blocks |-> bs, holds |-> hs, written |-> w]
      BY <1>3, <2>5, <2>6, <2>9 DEF Put, part, last
  <2> QED
      BY <2>7, <2>8, <2>10 DEF WriteStates
<1> QED
    BY <1>2, <1>3

LEMMA WriteChainType ==
    ASSUME NEW bs \in BlockTable, NEW hs \in HoldTable, AllKept(bs, hs),
           NEW chain \in Seq(Nat), NEW data \in Seq(Bytes)
    PROVE  WriteChain(bs, hs, chain, data) \in WriteStates
<1> DEFINE start == [blocks |-> bs, holds |-> hs, written |-> 0]
           Round(f) == [n \in 0 .. Len(chain) |->
                           IF n = 0 THEN start ELSE Put(f[n - 1], chain[n], data)]
<1>1. Puts(bs, hs, chain, data) = CHOOSE f : f = Round(f)
    BY DEF Puts
<1>2. PICK N \in Nat : N = Len(chain)
    BY LenProperties
<1>3. PICK s \in WriteStates : s = start
    BY DEF WriteStates
<1>4. PICK step : step = [p \in WriteStates \X (1 .. N) |-> Put(p[1], chain[p[2]], data)]
    OBVIOUS
<1>5. IsStep(step, WriteStates, N)
  <2>1. \A n \in 1 .. N : chain[n] \in Nat
      BY <1>2, ElementOfSeq
  <2>2. \A p \in WriteStates \X (1 .. N) : Put(p[1], chain[p[2]], data) \in WriteStates
      BY <2>1, PutType
  <2> QED
      BY <1>4, <2>2 DEF IsStep
<1>6. PICK f : IsWalk(f, s, N, step, WriteStates)
    BY <1>5, WalkExists
<1>7. ASSUME NEW n \in 1 .. N PROVE f[n] = Put(f[n - 1], chain[n], data)
  <2>1. f[n - 1] \in WriteStates /\ f[n] = step[<<f[n - 1], n>>]
      BY <1>6 DEF IsWalk
  <2> QED
      BY <1>4, <2>1
<1>8. f = Round(f)
    BY <1>2, <1>3, <1>6, <1>7 DEF IsWalk
<1>9. Puts(bs, hs, chain, data) = Round(Puts(bs, hs, chain, data))
  <2> HIDE DEF Round
  <2> QED
      BY <1>1, <1>8
<1>10. PICK g : g = Puts(bs, hs, chain, data)
    OBVIOUS
<1>11. g = [n \in 0 .. N |-> IF n = 0 THEN start ELSE Put(g[n - 1], chain[n], data)]
    BY <1>2, <1>9, <1>10
<1> DEFINE P == {n \in 0 .. N : g[n] \in WriteStates}
<1>12. 0 \in P
    BY <1>3, <1>11
<1>13. ASSUME NEW n \in 1 .. N, n - 1 \in P PROVE n \in P
  <2>1. g[n] = Put(g[n - 1], chain[n], data)
    <3>1. n \in 0 .. N /\ n # 0
        OBVIOUS
    <3> QED
        BY <1>11, <3>1
  <2>2. chain[n] \in Nat
      BY <1>2, ElementOfSeq
  <2> QED
      BY <1>13, <2>1, <2>2, PutType
<1>14. N \in P
  <2> HIDE DEF P
  <2>1. \A n \in 0 .. N : n \in P
      BY <1>12, <1>13, AllTheWay
  <2> QED
      BY <2>1
<1> QED
    BY <1>2, <1>10, <1>14 DEF WriteChain

-----------------------------------------------------------------------------
(* read_chain of one block *)

ReadStates == [out : Seq(Bytes), at : EntryNumbers, going : BOOLEAN]

\* The first bytes of a sequence.
First(data, n) == SubSeq(data, 1, n)

LEMMA FirstBytes ==
    ASSUME NEW data \in Seq(Bytes), NEW n \in 0 .. Len(data)
    PROVE  /\ First(data, n) \in Seq(Bytes) /\ Len(First(data, n)) = n
           /\ \A i \in 1 .. n : First(data, n)[i] = data[i]
<1>1. \A i \in 1 .. n : data[i] \in Bytes
    BY ElementOfSeq, LenProperties
<1>2. PICK x \in Int : x = n
    OBVIOUS
<1>3. /\ SubSeq(data, 1, x) \in Seq(Bytes)
      /\ Len(SubSeq(data, 1, x)) = IF 1 <= x THEN x - 1 + 1 ELSE 0
      /\ \A i \in 1 .. x - 1 + 1 : SubSeq(data, 1, x)[i] = data[1 + i - 1]
    BY <1>1, <1>2, SubSeqProperties
<1>4. 0 <= n /\ n \in Int
    OBVIOUS
<1>5. Len(SubSeq(data, 1, x)) = x
    BY <1>2, <1>3, <1>4
<1>6. ASSUME NEW i \in 1 .. n PROVE SubSeq(data, 1, x)[i] = data[i]
  <2>1. i \in 1 .. x - 1 + 1 /\ 1 + i - 1 = i
      BY <1>2
  <2> QED
      BY <1>3, <2>1
<1> QED
    BY <1>2, <1>3, <1>5, <1>6 DEF First

LEMMA HopType ==
    ASSUME NEW block \in Block, NEW max \in Nat, NEW st \in ReadStates
    PROVE  Hop(st, block, max) \in ReadStates
<1>1. CASE ~ st.going
    BY <1>1 DEF Hop
<1>2. CASE st.going
  <2>1. PICK entry \in Entry : entry = block[st.at]
      BY DEF Block, ReadStates
  <2>2. entry.payload \in [1 .. HopBytes -> Bytes] /\ entry.route \in EntryNumbers
      BY <2>1 DEF Entry
  <2>3. PICK k \in Int : k = Least(HopBytes, max - Len(st.out)) /\ k <= HopBytes
      BY TopologySizes, LenProperties DEF Least, ReadStates
  <2>4. PICK p : p = entry.payload /\ \A i \in 1 .. k : p[i] \in Bytes
      BY <2>2, <2>3, TopologySizes
  <2>5. PICK s \in Seq(Bytes) : s = SubSeq(entry.payload, 1, k)
    <3>1. SubSeq(p, 1, k) \in Seq(Bytes)
        BY <2>4, SubSeqProperties
    <3> QED
        BY <2>4, <3>1
  <2>6. PICK t \in Seq(Bytes) : t = st.out \o s
      BY <2>5, ConcatProperties DEF ReadStates
  <2>7. PICK g \in BOOLEAN : g = (entry.route \notin {HALT_ROUTE, FREE_ROUTE})
      OBVIOUS
  <2>8. Hop(st, block, max) = [out |-> t, at |-> entry.route, going |-> g]
      BY <1>2, <2>1, <2>3, <2>5, <2>6, <2>7, Zenon DEF Hop
  <2> QED
      BY <2>2, <2>8 DEF ReadStates
<1> QED
    BY <1>1, <1>2

LEMMA HopsAre ==
    ASSUME NEW block \in Block, NEW max \in Nat
    PROVE  /\ HopsOf(block, max)[0] = [out |-> <<>>, at |-> 0, going |-> TRUE]
           /\ \A n \in 1 .. Hops(max) :
                 HopsOf(block, max)[n] = Hop(HopsOf(block, max)[n - 1], block, max)
<1> DEFINE start == [out |-> <<>>, at |-> 0, going |-> TRUE]
           Round(f) == [n \in 0 .. Hops(max) |->
                           IF n = 0 THEN start ELSE Hop(f[n - 1], block, max)]
<1>1. HopsOf(block, max) = CHOOSE f : f = Round(f)
    BY DEF HopsOf
<1>2. PICK N \in Nat : N = Hops(max)
    BY HopBegins
<1>3. PICK s \in ReadStates : s = start
    BY TopologySizes, EmptySeq DEF ReadStates
<1>4. PICK step : step = [p \in ReadStates \X (1 .. N) |-> Hop(p[1], block, max)]
    OBVIOUS
<1>5. IsStep(step, ReadStates, N)
    BY <1>4, HopType DEF IsStep
<1>6. PICK f : IsWalk(f, s, N, step, ReadStates)
    BY <1>5, WalkExists
<1>7. ASSUME NEW n \in 1 .. N PROVE f[n] = Hop(f[n - 1], block, max)
  <2>1. f[n - 1] \in ReadStates /\ f[n] = step[<<f[n - 1], n>>]
      BY <1>6 DEF IsWalk
  <2> QED
      BY <1>4, <2>1
<1>8. f = Round(f)
  <2>1. f \in [0 .. N -> ReadStates] /\ f[0] = start
      BY <1>3, <1>6 DEF IsWalk
  <2>2. \A n \in 0 .. N : f[n] = IF n = 0 THEN start ELSE Hop(f[n - 1], block, max)
    <3>1. \A n \in 0 .. N : n = 0 \/ n \in 1 .. N
        OBVIOUS
    <3> QED
        BY <1>7, <2>1, <3>1
  <2>3. f = [n \in 0 .. N |-> IF n = 0 THEN start ELSE Hop(f[n - 1], block, max)]
      BY <2>1, <2>2
  <2> QED
      BY <1>2, <2>3
<1>9. HopsOf(block, max) = Round(HopsOf(block, max))
  <2> HIDE DEF Round
  <2> QED
      BY <1>1, <1>8
<1>10. PICK g : g = HopsOf(block, max)
    OBVIOUS
<1>11. g = [n \in 0 .. N |-> IF n = 0 THEN start ELSE Hop(g[n - 1], block, max)]
    BY <1>2, <1>9, <1>10
<1>12. ASSUME NEW n \in 1 .. N PROVE g[n] = Hop(g[n - 1], block, max)
  <2>1. n \in 0 .. N /\ n # 0
      OBVIOUS
  <2> QED
      BY <1>11, <2>1
<1>13. g[0] = start
    BY <1>11
<1> QED
    BY <1>2, <1>10, <1>12, <1>13

\* One hop over stored data reads the bytes up to the next hop's, and goes there.
LEMMA HopReads ==
    ASSUME NEW block \in Block, NEW data \in Seq(Bytes), Stores(block, data),
           NEW n \in Nat, n < Hops(Len(data)),
           NEW st \in ReadStates, st.out = First(data, n * HopBytes), st.at = n, st.going = TRUE
    PROVE  /\ Hop(st, block, Len(data)).out = First(data, Least((n + 1) * HopBytes, Len(data)))
           /\ n + 1 < Hops(Len(data)) =>
                 /\ Hop(st, block, Len(data)).at = n + 1
                 /\ Hop(st, block, Len(data)).going = TRUE
<1>1. PICK m \in Nat, h \in Nat : m = Len(data) /\ h = HopBytes /\ h > 0
    BY LenProperties, TopologySizes
<1>2. PICK x \in Nat : x = n * HopBytes
    BY <1>1
<1>3. (n + 1) * HopBytes = x + h
    BY <1>1, <1>2
<1>4. x < m
    BY <1>1, <1>2, HopBegins
<1>5. m <= Reachable /\ Reachable = FREE_ROUTE * HopBytes
    BY <1>1 DEF Stores, Reachable
<1>6. ASSUME NEW e \in Nat, e < Hops(m) PROVE e < FREE_ROUTE
  <2>1. e * HopBytes < m
      BY <1>6, HopBegins
  <2>2. SUFFICES ASSUME FREE_ROUTE <= e PROVE FALSE
      BY TopologySizes
  <2>3. PICK f \in Nat, z \in Nat : f = FREE_ROUTE /\ e = f + z
    <3>1. FREE_ROUTE \in Nat /\ e - FREE_ROUTE \in Nat /\ e = FREE_ROUTE + (e - FREE_ROUTE)
        BY <2>2, TopologySizes
    <3> QED
        BY <3>1
  <2>4. e * h = f * h + z * h
      BY <2>3
  <2>5. PICK u \in Nat, v \in Nat : u = f * h /\ v = z * h
      OBVIOUS
  <2> QED
      BY <1>1, <1>5, <2>1, <2>3, <2>4, <2>5
<1>7. n < FREE_ROUTE /\ n \in EntryNumbers
    BY <1>1, <1>6, TopologySizes DEF EntryNumbers
<1>8. block[st.at] = [route |-> NextRoute(data, n), payload |-> Chunk(data, n)]
    BY <1>7 DEF Stores
<1>9. PICK k \in Nat : k = Least(h, m - x)
  <2>1. Least(h, m - x) \in Nat
      BY <1>1, <1>4 DEF Least
  <2> QED
      BY <2>1
<1>10. k <= h /\ x + k <= m /\ x + k = Least(x + h, m)
    BY <1>1, <1>4, <1>9 DEF Least
<1>11. PICK old, chunk, new, all :
         old = First(data, x) /\ chunk = Chunk(data, n) /\ new = First(chunk, k) /\ all = old \o new
    OBVIOUS
<1>12. old = st.out /\ old \in Seq(Bytes) /\ Len(old) = x /\ \A i \in 1 .. x : old[i] = data[i]
  <2>1. x \in 0 .. Len(data)
      BY <1>1, <1>4
  <2> QED
      BY <1>2, <1>11, <2>1, FirstBytes
<1>13. new \in Seq(Bytes) /\ Len(new) = k /\ \A i \in 1 .. k : new[i] = data[x + i]
  <2>1. chunk \in [1 .. h -> Bytes]
      BY <1>1, <1>7, <1>11, ChunkType
  <2>2. chunk \in Seq(Bytes) /\ Len(chunk) = h
      BY <1>1, <2>1
  <2>3. \A i \in 1 .. k : chunk[i] = data[x + i]
      BY <1>1, <1>2, <1>10, <1>11 DEF Chunk
  <2>4. k \in 0 .. Len(chunk)
      BY <1>10, <2>2
  <2>5. /\ First(chunk, k) \in Seq(Bytes) /\ Len(First(chunk, k)) = k
        /\ \A i \in 1 .. k : First(chunk, k)[i] = chunk[i]
      BY <2>2, <2>4, FirstBytes
  <2> QED
      BY <1>11, <2>3, <2>5
<1>14. all = First(data, x + k)
  <2>1. PICK f : f = First(data, x + k)
      OBVIOUS
  <2>2. f \in Seq(Bytes) /\ Len(f) = x + k /\ \A i \in 1 .. x + k : f[i] = data[i]
    <3>1. x + k \in 0 .. Len(data)
        BY <1>1, <1>10
    <3> QED
        BY <2>1, <3>1, FirstBytes
  <2>3. /\ old \o new \in Seq(Bytes)
        /\ Len(old \o new) = Len(old) + Len(new)
        /\ \A i \in 1 .. Len(old) + Len(new) :
              (old \o new)[i] = IF i <= Len(old) THEN old[i] ELSE new[i - Len(old)]
    <3>1. old \in Seq(Bytes) /\ new \in Seq(Bytes)
        BY <1>12, <1>13
    <3> QED
        BY <3>1, ConcatProperties, Zenon
  <2>4. all \in Seq(Bytes) /\ Len(all) = x + k
        /\ \A i \in 1 .. x + k : all[i] = IF i <= x THEN old[i] ELSE new[i - x]
      BY <1>11, <1>12, <1>13, <2>3
  <2>5. ASSUME NEW i \in 1 .. x + k PROVE all[i] = f[i]
    <3>1. f[i] = data[i]
        BY <2>2
    <3>2. CASE i <= x
      <4>1. i \in 1 .. x /\ all[i] = old[i]
          BY <2>4, <3>2
      <4> QED
          BY <1>12, <3>1, <4>1
    <3>3. CASE i > x
      <4>1. PICK j \in 1 .. k : j = i - x /\ x + j = i
          BY <3>3
      <4>2. all[i] = new[j]
          BY <2>4, <3>3, <4>1
      <4>3. new[j] = data[x + j]
          BY <1>13
      <4> QED
          BY <3>1, <4>1, <4>2, <4>3
    <3> QED
        BY <3>2, <3>3
  <2> QED
      BY <2>1, <2>2, <2>4, <2>5, SeqEqual
<1>15. Hop(st, block, m) = [out |-> all, at |-> NextRoute(data, n),
                            going |-> NextRoute(data, n) \notin {HALT_ROUTE, FREE_ROUTE}]
  <2>1. PICK entry : entry = block[st.at]
      OBVIOUS
  <2>2. entry.route = NextRoute(data, n) /\ entry.payload = chunk
      BY <1>8, <1>11, <2>1
  <2>3. SubSeq(entry.payload, 1, Least(HopBytes, m - Len(st.out))) = new
      BY <1>1, <1>9, <1>11, <1>12, <2>2 DEF First
  <2> QED
      BY <1>11, <1>12, <2>1, <2>2, <2>3, Zenon DEF Hop
<1>16. ASSUME n + 1 < Hops(m) PROVE NextRoute(data, n) = n + 1 /\ n + 1 \notin {HALT_ROUTE, FREE_ROUTE}
  <2>1. n + 1 < FREE_ROUTE
      BY <1>6, <1>16
  <2>2. (n + 1) * HopBytes < m
      BY <1>16, HopBegins
  <2> QED
      BY <1>1, <2>1, <2>2, TopologySizes DEF NextRoute
<1>17. n + 1 < Hops(m) => (NextRoute(data, n) \notin {HALT_ROUTE, FREE_ROUTE}) = TRUE
    BY <1>16
<1>18. PICK r, g, after : /\ r = NextRoute(data, n) /\ g = (r \notin {HALT_ROUTE, FREE_ROUTE})
                         /\ after = Hop(st, block, m)
    OBVIOUS
<1>19. after.out = all /\ after.at = r /\ after.going = g
  <2>1. after = [out |-> all, at |-> r, going |-> g]
      BY <1>15, <1>18, Zenon
  <2> QED
      BY <2>1
<1>20. n + 1 < Hops(m) => after.at = n + 1 /\ after.going = TRUE
    BY <1>16, <1>17, <1>18, <1>19, Zenon
<1>21. after.out = First(data, Least((n + 1) * HopBytes, m))
    BY <1>1, <1>3, <1>10, <1>14, <1>19
<1> QED
    BY <1>1, <1>18, <1>20, <1>21

\* What reading is in after n hops over stored data.
HasRead(st, data, n) ==
    /\ st \in ReadStates
    /\ st.out = First(data, Least(n * HopBytes, Len(data)))
    /\ n < Hops(Len(data)) => st.at = n /\ st.going = TRUE

LEMMA BlockReadsBack ==
    ASSUME NEW block \in Block, NEW data \in Seq(Bytes), Stores(block, data)
    PROVE  ReadBlock(block, Len(data)) = data
<1>1. PICK m \in Nat, H \in Nat : m = Len(data) /\ H = Hops(m)
    BY LenProperties, HopBegins
<1>2. PICK g : /\ g = HopsOf(block, m)
               /\ g[0] = [out |-> <<>>, at |-> 0, going |-> TRUE]
               /\ \A n \in 1 .. H : g[n] = Hop(g[n - 1], block, m)
    BY <1>1, HopsAre
<1> DEFINE P == {n \in 0 .. H : HasRead(g[n], data, n)}
<1>3. 0 \in P
  <2>1. Least(0 * HopBytes, m) = 0
      BY TopologySizes DEF Least
  <2>2. First(data, 0) = <<>>
      BY SubSeqEmpty DEF First
  <2>3. g[0] \in ReadStates
      BY <1>2, TopologySizes, EmptySeq DEF ReadStates
  <2> QED
      BY <1>1, <1>2, <2>1, <2>2, <2>3 DEF HasRead
<1>4. ASSUME NEW n \in 1 .. H, n - 1 \in P PROVE n \in P
  <2>1. PICK j \in Nat : j = n - 1 /\ n = j + 1 /\ j < H
      OBVIOUS
  <2>2. PICK st : st = g[j]
      OBVIOUS
  <2>3. HasRead(st, data, j) /\ g[n] = Hop(st, block, m)
      BY <1>2, <1>4, <2>1, <2>2
  <2>4. st \in ReadStates /\ st.at = j /\ st.going = TRUE
      BY <1>1, <2>1, <2>3 DEF HasRead
  <2>5. j * HopBytes < m
      BY <1>1, <2>1, HopBegins
  <2>6. st.out = First(data, j * HopBytes)
      BY <1>1, <2>3, <2>5 DEF HasRead, Least
  <2>7. g[n] \in ReadStates
      BY <2>3, <2>4, HopType
  <2>8. j < Hops(Len(data))
      BY <1>1, <2>1
  <2>9. /\ Hop(st, block, Len(data)).out = First(data, Least((j + 1) * HopBytes, Len(data)))
        /\ j + 1 < Hops(Len(data)) =>
              /\ Hop(st, block, Len(data)).at = j + 1
              /\ Hop(st, block, Len(data)).going = TRUE
      BY <2>4, <2>6, <2>8, HopReads
  <2>10. HasRead(g[n], data, j + 1)
      BY <1>1, <2>3, <2>7, <2>9 DEF HasRead
  <2> QED
      BY <2>1, <2>10
<1>5. H \in P
  <2> HIDE DEF P
  <2>1. \A n \in 0 .. H : n \in P
      BY <1>3, <1>4, AllTheWay
  <2> QED
      BY <2>1
<1>6. Least(H * HopBytes, m) = m
  <2>1. ~(H * HopBytes < m)
      BY <1>1, HopBegins
  <2>2. PICK x \in Nat : x = H * HopBytes
      BY <1>1, TopologySizes
  <2> QED
      BY <1>1, <2>1, <2>2 DEF Least
<1>7. First(data, m) = data
    BY <1>1, SubSeqFull DEF First
<1>8. g[H].out = data
    BY <1>1, <1>5, <1>6, <1>7 DEF HasRead
<1> QED
    BY <1>1, <1>2, <1>8 DEF ReadBlock

LEMMA ChainReadsBlock ==
    ASSUME NEW bs \in BlockTable, NEW b \in Lenses, bs[b] # Nothing,
           NEW data \in Seq(Bytes), Stores(bs[b], data)
    PROVE  ReadChain(bs, <<b>>, Len(data)) = data
<1> DEFINE start == [out |-> <<>>, going |-> TRUE]
           Round(f) == [n \in 0 .. Len(<<b>>) |->
                           IF n = 0 THEN start ELSE Get(f[n - 1], bs, <<b>>[n], Len(data))]
<1>1. PICK m \in Nat : m = Len(data)
    BY LenProperties
<1>2. Gets(bs, <<b>>, m) = CHOOSE f : f = Round(f)
    BY <1>1 DEF Gets
<1>3. Len(<<b>>) = 1 /\ <<b>>[1] = b
    OBVIOUS
<1>4. PICK f : f = [n \in 0 .. 1 |-> IF n = 0 THEN start ELSE Get(start, bs, b, m)]
    OBVIOUS
<1>5. f[0] = start /\ f[1] = Get(start, bs, b, m)
    BY <1>4
<1>6. f = Round(f)
  <2>1. \A n \in 0 .. 1 : n # 0 => n = 1 /\ f[n - 1] = start
      BY <1>5
  <2> QED
      BY <1>1, <1>3, <1>4, <2>1
<1>7. Gets(bs, <<b>>, m) = Round(Gets(bs, <<b>>, m))
  <2> HIDE DEF Round
  <2> QED
      BY <1>2, <1>6
<1>8. PICK g : g = Gets(bs, <<b>>, m)
    OBVIOUS
<1>9. g = [n \in 0 .. 1 |-> IF n = 0 THEN start ELSE Get(g[n - 1], bs, <<b>>[n], m)]
    BY <1>1, <1>3, <1>7, <1>8
<1>10. g[0] = start /\ g[1] = Get(start, bs, b, m)
  <2>1. g[0] = start
      BY <1>9
  <2>2. ASSUME NEW n \in 1 .. 1 PROVE g[n] = Get(g[n - 1], bs, <<b>>[n], m)
    <3>1. n \in 0 .. 1 /\ n # 0
        OBVIOUS
    <3> QED
        BY <1>9, <3>1
  <2>3. 1 - 1 = 0
      OBVIOUS
  <2> QED
      BY <1>3, <2>1, <2>2, <2>3
<1>11. Len(start.out) = 0 /\ m - Len(start.out) = m
    BY EmptySeq
<1>12. CASE m = 0
  <2>1. g[1] = start
      BY <1>10, <1>11, <1>12 DEF Get
  <2>2. data = <<>>
      BY <1>1, <1>12, EmptySeq
  <2> QED
      BY <1>1, <1>3, <1>8, <2>1, <2>2 DEF ReadChain
<1>13. CASE m # 0
  <2>1. bs[b] \in Block
      BY DEF BlockTable
  <2>2. ReadBlock(bs[b], m) = data
      BY <1>1, <2>1, BlockReadsBack
  <2>3. g[1].out = <<>> \o data
      BY <1>10, <1>11, <1>13, <2>2 DEF Get, Allocated
  <2>4. <<>> \o data = data
      BY ConcatEmptySeq
  <2> QED
      BY <1>1, <1>3, <1>8, <2>3, <2>4 DEF ReadChain
<1> QED
    BY <1>12, <1>13

-----------------------------------------------------------------------------
(* Images *)

NowSaved == [seed |-> seed, blocks |-> Saved(blocks)]

LEMMA SavedType ==
    ASSUME MemoryInv
    PROVE  NowSaved \in [seed : Seeds, blocks : [Lenses -> Block]]
    BY FreshBlocks DEF MemoryInv, NowSaved, Saved, BlockTable

LEMMA BlockPieceType ==
    ASSUME MemoryInv, NEW b \in Lenses
    PROVE  /\ BlockPiece(b) \in Piece /\ OfSave(BlockPiece(b), NowSaved)
           /\ BlockPiece(b).kind = "block" /\ BlockPiece(b).number = b
<1>1. PICK c \in Block, h \in Seq(Bytes) \cup {Nothing}, s \in Seeds :
         c = Saved(blocks)[b] /\ h = holds[b] /\ s = seed
    BY FreshBlocks DEF MemoryInv, Saved, BlockTable, HoldTable
<1>2. Kept(c, h)
  <2>1. Kept(blocks[b], holds[b])
      BY DEF MemoryInv, AllKept
  <2>2. h # Nothing => c = blocks[b]
      BY <1>1, <2>1 DEF Kept, Saved
  <2> QED
      BY <1>1, <2>1, <2>2 DEF Kept
<1>3. BlockPiece(b) = [kind |-> "block", seed |-> s, number |-> b, content |-> c, holds |-> h]
    BY <1>1 DEF BlockPiece
<1>4. BlockPiece(b) \in Piece
    BY <1>3 DEF Piece
<1>5. NowSaved.seed = s /\ NowSaved.blocks[b] = c
    BY <1>1 DEF NowSaved
<1>6. OfSave(BlockPiece(b), NowSaved)
    BY <1>2, <1>3, <1>5 DEF OfSave
<1> QED
    BY <1>3, <1>4, <1>6

LEMMA PiecesAre ==
    ASSUME MemoryInv
    PROVE  IsImage(Pieces, NowSaved) /\ Len(Pieces) = LensCount + 3
<1> DEFINE head == <<TagPiece(seed), [kind |-> "version"], [kind |-> "root"]>>
           tail == [i \in 1 .. LensCount |-> BlockPiece(i - 1)]
<1>1. PICK x \in Piece, y \in Piece, z \in Piece :
         x = TagPiece(seed) /\ y = [kind |-> "version"] /\ z = [kind |-> "root"]
  <2>1. TagOf(seed) \in 0 .. 1
    <3>1. seed[1] + seed[2] \in Nat
        BY TopologyAssumption DEF MemoryInv
    <3> QED
        BY <3>1 DEF TagOf
  <2>2. TagPiece(seed) \in Piece
      BY <2>1 DEF TagPiece, Piece
  <2> QED
      BY <2>2 DEF Piece
<1>2. x.kind = "tag" /\ y.kind = "version" /\ z.kind = "root"
    BY <1>1 DEF TagPiece
<1>3. PICK h : h = head
    OBVIOUS
<1>4. h \in Seq(Piece) /\ Len(h) = 3 /\ \A i \in 1 .. 3 : h[i].kind # "block"
    BY <1>1, <1>2, <1>3
<1>5. PICK n \in Nat : n = LensCount
    BY TopologySizes
<1>6. PICK t : t = tail
    OBVIOUS
<1>7. \A i \in 1 .. n : i - 1 \in Lenses
    BY <1>5 DEF Lenses
<1>8. t \in Seq(Piece) /\ Len(t) = n /\ \A i \in 1 .. n : t[i] = BlockPiece(i - 1)
  <2>1. \A i \in 1 .. n : BlockPiece(i - 1) \in Piece
      BY <1>7, BlockPieceType
  <2> QED
      BY <1>5, <1>6, <2>1
<1>9. PICK p : p = Pieces
    OBVIOUS
<1>10. /\ p \in Seq(Piece)
       /\ Len(p) = Len(h) + Len(t)
       /\ \A i \in 1 .. Len(h) + Len(t) : p[i] = IF i <= Len(h) THEN h[i] ELSE t[i - Len(h)]
  <2>1. p = h \o t
      BY <1>3, <1>6, <1>9 DEF Pieces
  <2>2. h \in Seq(Piece) /\ t \in Seq(Piece)
      BY <1>4, <1>8
  <2> QED
      BY <2>1, <2>2, ConcatProperties, Zenon
<1>11. Len(p) = n + 3 /\ \A i \in 1 .. n + 3 : p[i] = IF i <= 3 THEN h[i] ELSE t[i - 3]
  <2>1. PICK m \in Nat : m = 3
      OBVIOUS
  <2>2. Len(h) = m /\ Len(t) = n
      BY <1>4, <1>8, <2>1
  <2>3. Len(p) = m + n /\ \A i \in 1 .. m + n : p[i] = IF i <= m THEN h[i] ELSE t[i - m]
      BY <1>10, <2>2
  <2>4. m + n = n + 3
      BY <2>1
  <2> QED
      BY <2>1, <2>3, <2>4
<1>12. ASSUME NEW i \in 1 .. n + 3 PROVE OfSave(p[i], NowSaved)
  <2>1. CASE i <= 3
    <3>1. i \in 1 .. 3 /\ p[i] = h[i]
        BY <1>11, <2>1
    <3> QED
        BY <1>4, <3>1 DEF OfSave
  <2>2. CASE i > 3
    <3>1. PICK b \in Lenses : b = i - 4
        BY <1>5, <2>2 DEF Lenses
    <3>2. i - 3 \in 1 .. n /\ (i - 3) - 1 = b /\ p[i] = t[i - 3]
        BY <1>11, <2>2, <3>1
    <3>3. p[i] = BlockPiece(b)
        BY <1>8, <3>2
    <3> QED
        BY <3>3, BlockPieceType
  <2> QED
      BY <2>1, <2>2
<1>13. ASSUME NEW b \in Lenses PROVE AtPlace(p, b)
  <2>1. b + 4 \in 1 .. n + 3 /\ ~(b + 4 <= 3) /\ (b + 4) - 3 \in 1 .. n /\ ((b + 4) - 3) - 1 = b
      BY <1>5 DEF Lenses
  <2>2. p[b + 4] = BlockPiece(b)
      BY <1>8, <1>11, <2>1
  <2> QED
      BY <2>2, BlockPieceType DEF AtPlace, PieceOf
<1> QED
    BY <1>5, <1>9, <1>10, <1>11, <1>12, <1>13, SavedType DEF IsImage

\* What is made of an image's pieces is an image, unless it is as long and not the same.
LEMMA PartIsImage ==
    ASSUME NEW save, NEW whole, IsImage(whole, save), NEW part \in Seq(Piece),
           Len(part) <= LensCount + 3,
           \A i \in 1 .. Len(part) : \E j \in 1 .. Len(whole) : part[i] = whole[j],
           Len(part) = LensCount + 3 => part = whole
    PROVE  IsImage(part, save)
<1>1. \A i \in 1 .. Len(part) : OfSave(part[i], save)
    BY DEF IsImage
<1> QED
    BY <1>1 DEF IsImage

LEMMA BeginningIsImage ==
    ASSUME NEW save, NEW whole, IsImage(whole, save), Len(whole) = LensCount + 3,
           NEW length \in 0 .. Len(whole)
    PROVE  IsImage(SubSeq(whole, 1, length), save)
<1>0. PICK n \in Nat : n = LensCount + 3
    BY TopologySizes
<1>1. PICK w : w = whole /\ n = LensCount + 3 /\ w \in Seq(Piece) /\ Len(w) = n
    BY <1>0 DEF IsImage
<1>2. length \in Int /\ length <= n /\ 0 <= length
    BY <1>1
<1>3. \A i \in 1 .. length : w[i] \in Piece
  <2>1. 1 .. length \subseteq 1 .. Len(w)
      BY <1>1, <1>2
  <2> QED
      BY <1>1, <2>1, ElementOfSeq
<1>4. PICK p : p = SubSeq(w, 1, length)
    OBVIOUS
<1>5. /\ p \in Seq(Piece)
      /\ Len(p) = IF 1 <= length THEN length - 1 + 1 ELSE 0
      /\ \A i \in 1 .. length - 1 + 1 : p[i] = w[1 + i - 1]
    BY <1>2, <1>3, <1>4, SubSeqProperties
<1>6. Len(p) = length
    BY <1>2, <1>5
<1>7. ASSUME NEW i \in 1 .. Len(p) PROVE \E j \in 1 .. Len(whole) : p[i] = whole[j]
  <2>1. i \in 1 .. length - 1 + 1 /\ 1 + i - 1 = i /\ i \in 1 .. Len(w)
      BY <1>1, <1>2, <1>6
  <2> QED
      BY <1>1, <1>5, <2>1
<1>8. Len(p) = n => p = w
    BY <1>1, <1>4, <1>6, SubSeqFull
<1> QED
    BY <1>1, <1>2, <1>4, <1>5, <1>6, <1>7, <1>8, PartIsImage

LEMMA GapIsImage ==
    ASSUME NEW save, NEW whole, IsImage(whole, save), Len(whole) = LensCount + 3,
           NEW k \in 1 .. Len(whole)
    PROVE  IsImage(RemoveAt(whole, k), save)
<1>0. PICK n \in Nat : n = LensCount + 3
    BY TopologySizes
<1>1. PICK w : w = whole /\ n = LensCount + 3 /\ w \in Seq(Piece) /\ Len(w) = n
    BY <1>0 DEF IsImage
<1>2. PICK x \in Int, y \in Int : x = k - 1 /\ y = k + 1 /\ 0 <= x /\ x < n /\ 1 < y /\ y <= n + 1 /\ y = x + 2
    BY <1>1
<1>3. \A i \in 1 .. n : w[i] \in Piece
    BY <1>1, ElementOfSeq
<1>4. PICK s, t : s = SubSeq(w, 1, x) /\ t = SubSeq(w, y, n)
    OBVIOUS
<1>5. /\ s \in Seq(Piece)
      /\ Len(s) = IF 1 <= x THEN x - 1 + 1 ELSE 0
      /\ \A i \in 1 .. x - 1 + 1 : s[i] = w[1 + i - 1]
  <2>1. \A i \in 1 .. x : w[i] \in Piece
      BY <1>2, <1>3
  <2> QED
      BY <1>4, <2>1, SubSeqProperties
<1>6. /\ t \in Seq(Piece)
      /\ Len(t) = IF y <= n THEN n - y + 1 ELSE 0
      /\ \A i \in 1 .. n - y + 1 : t[i] = w[y + i - 1]
  <2>1. n \in Int /\ \A i \in y .. n : w[i] \in Piece
      BY <1>2, <1>3
  <2> QED
      BY <1>4, <2>1, SubSeqProperties
<1>7. Len(s) = x /\ Len(t) = n - x - 1
    BY <1>2, <1>5, <1>6
<1>8. PICK p : p = s \o t
    OBVIOUS
<1>9. /\ p \in Seq(Piece)
      /\ Len(p) = Len(s) + Len(t)
      /\ \A i \in 1 .. Len(s) + Len(t) : p[i] = IF i <= Len(s) THEN s[i] ELSE t[i - Len(s)]
  <2>1. s \in Seq(Piece) /\ t \in Seq(Piece)
      BY <1>5, <1>6
  <2> QED
      BY <1>8, <2>1, ConcatProperties, Zenon
<1>10. Len(p) = n - 1
    BY <1>7, <1>9
<1>11. ASSUME NEW i \in 1 .. Len(p) PROVE \E j \in 1 .. Len(whole) : p[i] = whole[j]
  <2>1. i \in 1 .. n - 1
      BY <1>10
  <2>2. CASE i <= x
    <3>1. i \in 1 .. x - 1 + 1 /\ 1 + i - 1 = i /\ i \in 1 .. n
        BY <2>1, <2>2
    <3>2. p[i] = s[i]
        BY <1>7, <1>9, <1>10, <2>2
    <3> QED
        BY <1>1, <1>5, <3>1, <3>2
  <2>3. CASE i > x
    <3>1. i - x \in 1 .. n - y + 1 /\ y + (i - x) - 1 = i + 1 /\ i + 1 \in 1 .. n
        BY <1>2, <2>1, <2>3
    <3>2. p[i] = t[i - x]
        BY <1>7, <1>9, <1>10, <2>3
    <3> QED
        BY <1>1, <1>6, <3>1, <3>2
  <2> QED
      BY <2>2, <2>3
<1>12. RemoveAt(whole, k) = p
    BY <1>1, <1>2, <1>4, <1>8 DEF RemoveAt
<1>13. Len(p) <= LensCount + 3 /\ Len(p) # LensCount + 3
    BY <1>1, <1>10
<1>15. p \in Seq(Piece)
    BY <1>9
<1>14. IsImage(p, save)
    BY <1>11, <1>13, <1>15, PartIsImage
<1> QED
    BY <1>12, <1>14

-----------------------------------------------------------------------------
(* The steps *)

LEMMA ImageInitKeeps == ASSUME ImageInit PROVE ImageInv
<1>1. blocks = NoBlocks /\ holds = NoBlocks /\ seed \in Seeds /\ dirty = FALSE
      /\ image = Nothing /\ saved = Nothing /\ loaded = FALSE /\ ops = 0
    BY DEF ImageInit
<1>2. \A b \in Lenses : blocks[b] = Nothing /\ holds[b] = Nothing
    BY <1>1 DEF NoBlocks
<1>3. blocks \in BlockTable /\ holds \in HoldTable
    BY <1>1 DEF NoBlocks, BlockTable, HoldTable
<1>4. AllKept(blocks, holds)
    BY <1>2 DEF AllKept, Kept
<1>5. MemoryInv
  <2>1. dirty \in BOOLEAN /\ loaded \in BOOLEAN
      BY <1>1
  <2> QED
      BY <1>1, <1>3, <1>4, <2>1 DEF MemoryInv
<1>6. LoadIsAllOrNothing
    BY <1>1, Zenon DEF LoadIsAllOrNothing
<1> QED
    BY <1>1, <1>5, <1>6, TopologySizes DEF ImageInv, FileInv

LEMMA RestartKeeps == ASSUME Restart PROVE MemoryInv' /\ loaded' = FALSE
<1>1. blocks' = NoBlocks /\ holds' = NoBlocks /\ seed' \in Seeds /\ dirty' = FALSE /\ loaded' = FALSE
    BY DEF Restart
<1>2. \A b \in Lenses : blocks'[b] = Nothing /\ holds'[b] = Nothing
    BY <1>1 DEF NoBlocks
<1>3. blocks' \in BlockTable /\ holds' \in HoldTable
    BY <1>1 DEF NoBlocks, BlockTable, HoldTable
<1>4. AllKept(blocks', holds')
    BY <1>2 DEF AllKept, Kept
<1> QED
    BY <1>1, <1>3, <1>4 DEF MemoryInv

LEMMA OperationKeeps == ASSUME ImageInv, Operation PROVE ops' \in 0 .. MaxOps
    BY TopologySizes DEF ImageInv, Operation

\* A change in memory alone, that is not a load.
LEMMA MemoryChanges ==
    ASSUME ImageInv, Operation, UNCHANGED <<image, saved>>, loaded' = FALSE, MemoryInv'
    PROVE  ImageInv'
    BY OperationKeeps DEF ImageInv, FileInv, LoadIsAllOrNothing

LEMMA InitializeKeeps ==
    ASSUME ImageInv, NEW s \in Seeds, Initialize(s)
    PROVE  ImageInv'
<1>1. \A b \in Lenses : blocks'[b] = ExpandedBlock /\ holds'[b] = Nothing
    BY DEF Initialize
<1>2. blocks' \in BlockTable /\ holds' \in HoldTable
    BY FreshBlocks DEF Initialize, BlockTable, HoldTable
<1>3. AllKept(blocks', holds')
    BY <1>1 DEF AllKept, Kept
<1> QED
    BY <1>2, <1>3, MemoryChanges DEF Initialize, MemoryInv

LEMMA ExpandKeeps ==
    ASSUME ImageInv, NEW b \in Lenses, ExpandBlock(b)
    PROVE  ImageInv'
<1>1. /\ blocks' = [blocks EXCEPT ![b] = ExpandedBlock] /\ holds' = [holds EXCEPT ![b] = Nothing]
      /\ blocks \in BlockTable /\ holds \in HoldTable /\ AllKept(blocks, holds)
    BY DEF ExpandBlock, ImageInv, MemoryInv
<1>2. blocks' \in BlockTable /\ holds' \in HoldTable
    BY <1>1, FreshBlocks DEF BlockTable, HoldTable
<1>3. ASSUME NEW c \in Lenses PROVE Kept(blocks'[c], holds'[c])
  <2>1. Kept(blocks[c], holds[c])
      BY <1>1 DEF AllKept
  <2>2. CASE c = b
    <3>1. holds'[c] = Nothing
        BY <1>1, <2>2 DEF HoldTable
    <3> QED
        BY <3>1 DEF Kept
  <2>3. CASE c # b
      BY <1>1, <2>1, <2>3 DEF BlockTable, HoldTable
  <2> QED
      BY <2>2, <2>3
<1>4. AllKept(blocks', holds')
    BY <1>3 DEF AllKept
<1> QED
    BY <1>2, <1>4, MemoryChanges DEF ExpandBlock, ImageInv, MemoryInv

LEMMA WriteDataKeeps ==
    ASSUME ImageInv, NEW chain \in Chains, NEW data \in Contents, WriteData(chain, data)
    PROVE  ImageInv'
<1>1. PICK done : done = WriteChain(blocks, holds, chain, data)
    OBVIOUS
<1>2. done \in WriteStates
  <2>1. chain \in Seq(Nat) /\ data \in Seq(Bytes)
      BY TopologyAssumption
  <2> QED
      BY <1>1, <2>1, WriteChainType DEF ImageInv, MemoryInv
<1>3. done.blocks \in BlockTable /\ done.holds \in HoldTable /\ AllKept(done.blocks, done.holds)
    BY <1>2 DEF WriteStates
<1>4. /\ Operation /\ blocks' = done.blocks /\ holds' = done.holds
      /\ dirty' = (dirty \/ done.written > 0) /\ loaded' = FALSE
      /\ UNCHANGED <<seed, image, saved>>
    BY <1>1 DEF WriteData
<1>5. dirty' \in BOOLEAN
    BY <1>4
<1> QED
    BY <1>3, <1>4, <1>5, MemoryChanges DEF ImageInv, MemoryInv

LEMMA ClearKeeps ==
    ASSUME ImageInv, NEW chain \in Chains, ClearBlocks(chain)
    PROVE  ImageInv'
<1>1. PICK cleared : cleared = {b \in Range(chain) : Allocated(blocks, b)}
    OBVIOUS
<1>2. /\ Operation /\ loaded' = FALSE /\ dirty' = TRUE /\ UNCHANGED <<seed, image, saved>>
      /\ blocks' = [b \in Lenses |->
            IF b \in cleared THEN [e \in EntryNumbers |-> [blocks[b][e] EXCEPT !.route = FREE_ROUTE]]
                             ELSE blocks[b]]
      /\ holds' = [b \in Lenses |-> IF b \in cleared THEN Nothing ELSE holds[b]]
    BY <1>1 DEF ClearBlocks
<1>3. blocks \in BlockTable /\ holds \in HoldTable /\ AllKept(blocks, holds)
    BY DEF ImageInv, MemoryInv
<1>4. ASSUME NEW b \in Lenses
      PROVE  /\ blocks'[b] \in Block \cup {Nothing} /\ holds'[b] \in Seq(Bytes) \cup {Nothing}
             /\ Kept(blocks'[b], holds'[b])
  <2>1. CASE b \in cleared
    <3>1. blocks[b] \in Block
        BY <1>1, <1>3, <2>1 DEF Allocated, BlockTable
    <3>2. ASSUME NEW e \in EntryNumbers PROVE [blocks[b][e] EXCEPT !.route = FREE_ROUTE] \in Entry
        BY <3>1, RerouteType, TopologySizes DEF Block
    <3>3. blocks'[b] \in Block
        BY <1>2, <2>1, <3>2 DEF Block
    <3>4. holds'[b] = Nothing
        BY <1>2, <2>1
    <3> QED
        BY <3>3, <3>4 DEF Kept
  <2>2. CASE b \notin cleared
    <3>1. blocks'[b] = blocks[b] /\ holds'[b] = holds[b]
        BY <1>2, <2>2
    <3> QED
        BY <1>3, <3>1 DEF AllKept, BlockTable, HoldTable
  <2> QED
      BY <2>1, <2>2
<1>5. blocks' \in BlockTable /\ holds' \in HoldTable
    BY <1>2, <1>4 DEF BlockTable, HoldTable
<1>6. AllKept(blocks', holds')
    BY <1>4 DEF AllKept
<1> QED
    BY <1>2, <1>5, <1>6, MemoryChanges DEF ImageInv, MemoryInv

\* An image of the memory as it is, whole or not, is an image of that save.
LEMMA SaveMakesImage ==
    ASSUME ImageInv, Operation, IsImage(image', NowSaved), saved' = NowSaved,
           loaded' = FALSE, MemoryInv'
    PROVE  ImageInv'
<1>1. saved' \in [seed : Seeds, blocks : [Lenses -> Block]]
    BY SavedType DEF ImageInv
<1> QED
    BY <1>1, OperationKeeps DEF ImageInv, FileInv, LoadIsAllOrNothing

LEMMA SaveKeeps == ASSUME ImageInv, SaveImage PROVE ImageInv'
<1>1. IsImage(Pieces, NowSaved) /\ Len(Pieces) = LensCount + 3
    BY PiecesAre DEF ImageInv
<1>2. IsImage(image', NowSaved)
  <2>1. CASE image' = Pieces
      BY <1>1, <2>1
  <2>2. CASE \E i \in 1 .. Len(Pieces) : image' = RemoveAt(Pieces, i)
      BY <1>1, <2>2, GapIsImage
  <2> QED
      BY <2>1, <2>2 DEF SaveImage
<1>3. MemoryInv' /\ loaded' = FALSE
    BY DEF SaveImage, ImageInv, MemoryInv, memory
<1> QED
    BY <1>2, <1>3, SaveMakesImage DEF SaveImage, NowSaved

LEMMA CrashInSaveKeeps ==
    ASSUME ImageInv, NEW length \in 0 .. Len(Pieces), CrashInSave(length)
    PROVE  ImageInv'
<1>1. IsImage(Pieces, NowSaved) /\ Len(Pieces) = LensCount + 3
    BY PiecesAre DEF ImageInv
<1>2. IsImage(image', NowSaved)
    BY <1>1, BeginningIsImage DEF CrashInSave
<1> QED
    BY <1>2, RestartKeeps, SaveMakesImage DEF CrashInSave, NowSaved

LEMMA PowerFailureKeeps == ASSUME ImageInv, PowerFailure PROVE ImageInv'
    BY RestartKeeps, MemoryChanges DEF PowerFailure

LEMMA LoadKeeps ==
    ASSUME ImageInv, NEW s \in Seeds, LoadImage(s)
    PROVE  ImageInv'
<1> DEFINE opens == Len(image) >= 3 /\ image[1] = TagPiece(s)
           whole == opens /\ Len(image) = LensCount + 3
           Taken(b) == opens /\ PieceOf(b) <= Len(image)
<1>1. /\ Operation /\ image # Nothing /\ seed' = s /\ UNCHANGED <<image, saved>>
      /\ dirty' = (dirty /\ ~whole) /\ loaded' = whole
    BY DEF LoadImage
<1>2. PICK noise \in Block :
         blocks' = [b \in Lenses |->
                    IF ~Taken(b) THEN blocks[b]
                    ELSE IF Readable(image[PieceOf(b)], s, b) THEN image[PieceOf(b)].content
                    ELSE noise]
    BY BlockAssumption DEF LoadImage, Block
<1>3. holds' = [b \in Lenses |->
                    IF ~Taken(b) THEN holds[b]
                    ELSE IF Readable(image[PieceOf(b)], s, b) THEN image[PieceOf(b)].holds
                    ELSE Nothing]
    BY DEF LoadImage
<1>4. IsImage(image, saved)
    BY <1>1 DEF ImageInv, FileInv
<1>5. blocks \in BlockTable /\ holds \in HoldTable /\ AllKept(blocks, holds) /\ dirty \in BOOLEAN
    BY DEF ImageInv, MemoryInv
<1>6. ASSUME NEW b \in Lenses, PieceOf(b) <= Len(image)
      PROVE  /\ PieceOf(b) \in 1 .. Len(image) /\ image[PieceOf(b)] \in Piece
             /\ OfSave(image[PieceOf(b)], saved)
  <2>1. image \in Seq(Piece) /\ Len(image) \in Nat
      BY <1>4 DEF IsImage
  <2>2. PieceOf(b) \in 1 .. Len(image)
      BY <1>6, <2>1 DEF PieceOf, Lenses
  <2> QED
      BY <1>4, <2>1, <2>2, ElementOfSeq DEF IsImage
<1> HIDE DEF opens, whole
<1>7. ASSUME NEW b \in Lenses
      PROVE  /\ blocks'[b] \in Block \cup {Nothing} /\ holds'[b] \in Seq(Bytes) \cup {Nothing}
             /\ Kept(blocks'[b], holds'[b])
  <2>1. CASE ~Taken(b)
    <3>1. blocks'[b] = blocks[b] /\ holds'[b] = holds[b]
        BY <1>2, <1>3, <2>1
    <3> QED
        BY <1>5, <3>1 DEF AllKept, BlockTable, HoldTable
  <2>2. CASE Taken(b) /\ Readable(image[PieceOf(b)], s, b)
    <3>1. PICK piece \in Piece : piece = image[PieceOf(b)] /\ OfSave(piece, saved)
        BY <1>6, <2>2
    <3>2. blocks'[b] = piece.content /\ holds'[b] = piece.holds
        BY <1>2, <1>3, <2>2, <3>1
    <3>3. piece.kind = "block"
        BY <2>2, <3>1 DEF Readable
    <3>4. piece.content \in Block /\ piece.holds \in Seq(Bytes) \cup {Nothing}
        BY <3>1, <3>3 DEF Piece
    <3> QED
        BY <3>1, <3>2, <3>3, <3>4 DEF OfSave
  <2>3. CASE Taken(b) /\ ~Readable(image[PieceOf(b)], s, b)
    <3>1. blocks'[b] = noise /\ holds'[b] = Nothing
        BY <1>2, <1>3, <2>3
    <3> QED
        BY <3>1 DEF Kept
  <2> QED
      BY <2>1, <2>2, <2>3
<1>8. MemoryInv'
  <2>1. blocks' \in BlockTable /\ holds' \in HoldTable
    <3>1. blocks' \in [Lenses -> Block \cup {Nothing}]
        BY <1>2, <1>7
    <3>2. holds' \in [Lenses -> Seq(Bytes) \cup {Nothing}]
        BY <1>3, <1>7
    <3> QED
        BY <3>1, <3>2 DEF BlockTable, HoldTable
  <2>2. AllKept(blocks', holds')
      BY <1>7 DEF AllKept
  <2>3. whole \in BOOLEAN
      BY DEF whole, opens
  <2> QED
      BY <1>1, <1>5, <2>1, <2>2, <2>3 DEF MemoryInv
<1>9. ASSUME whole, s = saved.seed PROVE blocks' = saved.blocks
  <2>1. opens /\ Len(image) = LensCount + 3
      BY <1>9 DEF whole
  <2>2. ASSUME NEW b \in Lenses PROVE blocks'[b] = saved.blocks[b]
    <3>1. PieceOf(b) <= Len(image)
        BY <2>1, TopologySizes DEF PieceOf, Lenses
    <3>2. PICK piece : piece = image[PieceOf(b)] /\ OfSave(piece, saved)
        BY <1>6, <3>1
    <3>3. piece.kind = "block" /\ piece.number = b
        BY <1>4, <2>1, <3>2 DEF IsImage, AtPlace
    <3>4. piece.seed = s /\ piece.content = saved.blocks[b]
        BY <1>9, <3>2, <3>3 DEF OfSave
    <3>5. Taken(b) /\ Readable(piece, s, b)
        BY <2>1, <3>1, <3>3, <3>4 DEF Readable
    <3> QED
        BY <1>2, <3>2, <3>4, <3>5
  <2>3. saved.blocks \in [Lenses -> Block]
      BY <1>4 DEF IsImage
  <2> QED
      BY <1>2, <2>2, <2>3
<1>10. LoadIsAllOrNothing'
    BY <1>1, <1>9 DEF LoadIsAllOrNothing
<1> QED
    BY <1>1, <1>8, <1>10, OperationKeeps DEF ImageInv, FileInv

LEMMA ImageInductive == ImageSpec => []ImageInv
<1>1. ImageInit => ImageInv
    BY ImageInitKeeps
<1>2. ImageInv /\ [ImageNext]_imageVars => ImageInv'
  <2> SUFFICES ASSUME ImageInv, [ImageNext]_imageVars PROVE ImageInv'
      OBVIOUS
  <2>1. CASE \E s \in Seeds : Initialize(s) \/ LoadImage(s)
      BY <2>1, InitializeKeeps, LoadKeeps
  <2>2. CASE \E b \in Lenses : ExpandBlock(b)
      BY <2>2, ExpandKeeps
  <2>3. CASE \E chain \in Chains : ClearBlocks(chain) \/ \E data \in Contents : WriteData(chain, data)
      BY <2>3, ClearKeeps, WriteDataKeeps
  <2>4. CASE SaveImage
      BY <2>4, SaveKeeps
  <2>5. CASE \E length \in 0 .. Len(Pieces) : CrashInSave(length)
      BY <2>5, CrashInSaveKeeps
  <2>6. CASE PowerFailure
      BY <2>6, PowerFailureKeeps
  <2>7. CASE UNCHANGED imageVars
      BY <2>7 DEF imageVars, memory, ImageInv, MemoryInv, FileInv, LoadIsAllOrNothing
  <2> QED
      BY <2>1, <2>2, <2>3, <2>4, <2>5, <2>6, <2>7 DEF ImageNext
<1> QED
    BY <1>1, <1>2, PTL DEF ImageSpec

\* Blocks are whole, and an image never has more than one piece for each.
THEOREM ImageTypeCorrect == ImageSpec => []ImageTypeOK
<1>1. ImageInv => ImageTypeOK
  <2> SUFFICES ASSUME ImageInv PROVE ImageTypeOK
      OBVIOUS
  <2>1. ASSUME NEW b \in Lenses, holds[b] # Nothing PROVE Len(holds[b]) <= Reachable
      BY <2>1 DEF ImageInv, MemoryInv, AllKept, Kept, Stores
  <2>2. blocks \in [Lenses -> [EntryNumbers -> Entry] \cup {Nothing}]
      BY DEF ImageInv, MemoryInv, BlockTable, Block
  <2>3. image = Nothing \/ Len(image) <= LensCount + 3
      BY DEF ImageInv, FileInv, IsImage
  <2>4. saved = Nothing \/ saved.blocks \in [Lenses -> [EntryNumbers -> Entry]]
      BY DEF ImageInv, FileInv, Block
  <2> QED
      BY <2>1, <2>2, <2>3, <2>4 DEF ImageInv, MemoryInv, ImageTypeOK
<1> QED
    BY <1>1, ImageInductive, PTL

\* What was written into a block, as long as the entries that are not reserved
\* hold it, reads back: for every size of entry, block and image, after any
\* operations, crashes, failed writes and loads.
THEOREM BytesReadBack == ImageSpec => []ReachableBytesReadBack
<1>1. ImageInv => ReachableBytesReadBack
  <2> SUFFICES ASSUME ImageInv, NEW b \in Lenses, holds[b] # Nothing
               PROVE  ReadChain(blocks, <<b>>, Len(holds[b])) = holds[b]
      BY DEF ReachableBytesReadBack
  <2>1. holds[b] \in Seq(Bytes) /\ blocks[b] # Nothing /\ Stores(blocks[b], holds[b])
        /\ blocks \in BlockTable
      BY DEF ImageInv, MemoryInv, AllKept, Kept, HoldTable
  <2> QED
      BY <2>1, ChainReadsBlock
<1> QED
    BY <1>1, ImageInductive, PTL

\* A load that returns true under the seed of the save brings that one save's
\* blocks, all of them, whatever crashes and failed writes left in the file.
THEOREM LoadsAllOrNothing == ImageSpec => []LoadIsAllOrNothing
<1>1. ImageInv => LoadIsAllOrNothing
    BY DEF ImageInv
<1> QED
    BY <1>1, ImageInductive, PTL
=============================================================================
