------------------------------ MODULE PhaseFold ------------------------------
(***************************************************************************)
(* What the storage service does with a sector for the disk behind it: the *)
(* three layers of phase_fold of src/vdev/context_driven_engine.hpp, and   *)
(* the byte counters of serve_write in src/vdev/substrate_service.hpp.     *)
(*                                                                         *)
(* A layer looks for every byte among pseudo-random candidates.  It keeps  *)
(* a correction for each byte it does not find, and the corrections' own   *)
(* bytes are the next layer's input.  Which bytes are found is arithmetic  *)
(* on hashes: here any may be.  The three static arrays and the caller's   *)
(* buffer have no guard: writing past one is "overrun", and nothing is     *)
(* said of what follows.  The write of the residue is a call of            *)
(* SectorDisk.                                                             *)
(***************************************************************************)
EXTENDS Integers, Sequences

CONSTANTS
    SectorBytes,    \* 512
    ResidueBytes,   \* bytes of final_residue: 512
    LayerSizes,     \* corrections the arrays hold: <<4096, 1024, 256>>
    DeltaBytes,     \* sizeof(delta): 4
    ByteMod,        \* 256
    ByteXor(_, _),  \* the exclusive or of two bytes
    Sectors,        \* the sectors that are written
    Scale,          \* 10000
    WordMod,        \* 2^64
    MaxWrites,      \* bound on the number of sectors written
    Missed          \* a byte that was not found

ByteValues == 0 .. ByteMod - 1
CorrectionBytes == DeltaBytes + 2

\* Two bytes hold a place in every layer's input.
ASSUME FoldAssumption ==
    /\ {SectorBytes, ByteMod, Scale} \subseteq Nat \ {0}
    /\ {ResidueBytes, DeltaBytes, WordMod, MaxWrites} \subseteq Nat
    /\ DeltaBytes >= 2 /\ LayerSizes \in [1 .. 3 -> Nat]
    /\ Sectors \subseteq [1 .. SectorBytes -> ByteValues]
    /\ SectorBytes <= LayerSizes[1] /\ ResidueBytes <= SectorBytes
    /\ \A l \in 1 .. 3 : LayerSizes[l] * CorrectionBytes <= ByteMod * ByteMod
    /\ (1 + MaxWrites * SectorBytes) * Scale < WordMod

ASSUME ByteXorAssumption ==
    \A a, b \in ByteValues : ByteXor(a, b) \in ByteValues /\ ByteXor(ByteXor(a, b), b) = a

VARIABLES
    sector,     \* the sector being written, empty between writes
    input,      \* the current layer's input
    out,        \* the corrections it has kept
    since_last,
    hits,       \* history: what each layer found, byte by byte, Missed where it did not
    residue,    \* history: the residue of the last sector
    overrun,
    total_bytes_written, correction_bytes_stored,
    writes

foldVars == <<sector, input, out, since_last, hits, residue, overrun,
              total_bytes_written, correction_bytes_stored, writes>>
counters == <<total_bytes_written, correction_bytes_stored, writes>>

FoldInit ==
    /\ sector = <<>> /\ input = <<>> /\ out = <<>> /\ since_last = 0
    /\ hits = <<>> /\ residue = <<>> /\ overrun = FALSE /\ writes = 0
    /\ total_bytes_written = 1 /\ correction_bytes_stored = 1

-----------------------------------------------------------------------------
(* Corrections *)

Low(delta) == delta % ByteMod
High(delta) == (delta \div ByteMod) % ByteMod
Mixed(byte, delta) == ByteXor(byte, ByteXor(Low(delta), High(delta)))

\* generate_ecc
Correction(delta, value) == [delta |-> delta, value |-> value, ecc |-> Mixed(value, delta)]

\* The packed struct as the next layer sees it, byte by byte.
PackedByte(c, n) ==
    CASE n = 0 -> Low(c.delta)
      [] n = 1 -> High(c.delta)
      [] n \in 2 .. DeltaBytes - 1 -> 0
      [] n = DeltaBytes -> c.value
      [] n = DeltaBytes + 1 -> c.ecc

Packed(stream) ==
    [i \in 1 .. Len(stream) * CorrectionBytes |->
        PackedByte(stream[(i - 1) \div CorrectionBytes + 1], (i - 1) % CorrectionBytes)]

\* verify_and_heal
Healed(c) == IF Mixed(c.value, c.delta) # c.ecc THEN [c EXCEPT !.value = Mixed(c.ecc, c.delta)]
                                                 ELSE c

-----------------------------------------------------------------------------
(* serve_write, phase_fold and evaporate_layer *)

Layer == Len(hits)
Position == Len(hits[Layer]) + 1
Running == sector # <<>> /\ ~overrun

BeginWrite ==
    /\ ~Running /\ ~overrun /\ writes < MaxWrites
    /\ sector' \in Sectors /\ input' = sector'
    /\ out' = <<>> /\ since_last' = 0 /\ hits' = << <<>> >> /\ residue' = <<>>
    /\ writes' = writes + 1
    /\ UNCHANGED <<overrun, total_bytes_written, correction_bytes_stored>>

\* Something beyond an array was written.
Overrun ==
    /\ overrun' = TRUE
    /\ sector' = <<>> /\ input' = <<>> /\ out' = <<>> /\ since_last' = 0 /\ hits' = <<>>
    /\ UNCHANGED <<residue, counters>>

Note(byte) == hits' = [hits EXCEPT ![Layer] = Append(@, byte)]

Found ==
    /\ Running /\ Position <= Len(input)
    /\ Note(input[Position]) /\ since_last' = since_last + 1
    /\ UNCHANGED <<sector, input, out, residue, overrun, counters>>

\* Error: since_last goes on counting over a correction.
KeepUnreset ==
    /\ Running /\ Position <= Len(input) /\ Len(out) < LayerSizes[Layer]
    /\ Note(Missed) /\ out' = Append(out, Correction(since_last, input[Position]))
    /\ UNCHANGED <<since_last, sector, input, residue, overrun, counters>>

Keep ==
    /\ Running /\ Position <= Len(input) /\ Len(out) < LayerSizes[Layer]
    /\ Note(Missed) /\ out' = Append(out, Correction(since_last, input[Position]))
    /\ since_last' = 0
    /\ UNCHANGED <<sector, input, residue, overrun, counters>>

KeepTooMany ==
    /\ Running /\ Position <= Len(input) /\ Len(out) = LayerSizes[Layer]
    /\ Overrun

NextLayer ==
    /\ Running /\ Position > Len(input) /\ Layer < 3 /\ out # <<>>
    /\ input' = Packed(out) /\ out' = <<>> /\ since_last' = 0
    /\ hits' = Append(hits, <<>>)
    /\ UNCHANGED <<sector, residue, overrun, counters>>

\* Error: the sector is not counted.
EndWriteUncounted ==
    /\ Running /\ Position > Len(input) /\ (Layer = 3 \/ out = <<>>)
    /\ Len(out) * CorrectionBytes <= ResidueBytes
    /\ residue' = out /\ sector' = <<>> /\ input' = sector
    /\ correction_bytes_stored' = correction_bytes_stored + Len(out) * CorrectionBytes
    /\ UNCHANGED <<out, since_last, hits, overrun, writes, total_bytes_written>>

\* The residue is the third layer's stream, or empty if a layer found every byte.
\* Between writes, input is the sector that was written last.
EndWrite ==
    /\ Running /\ Position > Len(input) /\ (Layer = 3 \/ out = <<>>)
    /\ Len(out) * CorrectionBytes <= ResidueBytes
    /\ residue' = out /\ sector' = <<>> /\ input' = sector
    /\ total_bytes_written' = total_bytes_written + SectorBytes
    /\ correction_bytes_stored' = correction_bytes_stored + Len(out) * CorrectionBytes
    /\ UNCHANGED <<out, since_last, hits, overrun, writes>>

EndTooLong ==
    /\ Running /\ Position > Len(input) /\ Layer = 3
    /\ Len(out) * CorrectionBytes > ResidueBytes
    /\ Overrun

get_match_rate_scaled ==
    (Scale - (correction_bytes_stored * Scale) \div total_bytes_written) % WordMod

FoldNext == BeginWrite \/ Found \/ Keep \/ KeepTooMany \/ NextLayer \/ EndWrite \/ EndTooLong

FoldSpec == FoldInit /\ [][FoldNext]_foldVars

-----------------------------------------------------------------------------
(* Properties *)

Parsed(bytes) ==
    [k \in 1 .. Len(bytes) \div CorrectionBytes |->
        LET at == (k - 1) * CorrectionBytes
        IN  [delta |-> bytes[at + 1] + ByteMod * bytes[at + 2],
             value |-> bytes[at + DeltaBytes + 1], ecc |-> bytes[at + DeltaBytes + 2]]]

\* One correction put in, behind the last one.
Correct(st, c) ==
    LET at == st.at + c.delta + 1
    IN  [at |-> at, bytes |-> [st.bytes EXCEPT ![at] = c.value]]

\* A layer undone: what it found, with its corrections put in.
Corrections(found, stream) ==
    LET st[n \in 0 .. Len(stream)] ==
          IF n = 0 THEN [at |-> 0, bytes |-> found] ELSE Correct(st[n - 1], stream[n])
    IN  st

Corrected(found, stream) == Corrections(found, stream)[Len(stream)].bytes

\* What the layers were given, the last one first, from what the last one kept.
Unfoldings(stream) ==
    LET bytes[n \in 0 .. Len(hits)] ==
          IF n = 0 THEN Packed(stream)
                   ELSE Corrected(hits[Len(hits) + 1 - n], Parsed(bytes[n - 1]))
    IN  bytes

Unfolded(stream) == Unfoldings(stream)[Len(hits)]

\* The residues that differ from this one in the value of one correction.
Damaged == {[residue EXCEPT ![k].value = v] : k \in DOMAIN residue, v \in ByteValues}

(***************************************************************************)
(* What the three layers found and the residue together give the sector    *)
(* back, also after a value in the residue was damaged and healed: each    *)
(* correction names the very byte the layer missed, at every layer.        *)
(***************************************************************************)
ResidueUnfolds ==
    sector = <<>> /\ hits # <<>> =>
        /\ Unfolded(residue) = input
        /\ \A stream \in Damaged :
              Unfolded([k \in DOMAIN stream |-> Healed(stream[k])]) = input

(***************************************************************************)
(* As long as no buffer is overrun, the match rate is a rate: the          *)
(* subtraction never goes below zero, in an unsigned word, however badly   *)
(* the sectors fold.                                                       *)
(***************************************************************************)
RateIsARate == get_match_rate_scaled \in 0 .. Scale
=============================================================================
