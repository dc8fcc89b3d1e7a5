-------------------------- MODULE MCResidueJournal --------------------------
(* Records of two units: three of them and a rest fit a sector, two are read from it,
   as 17 records of 30 bytes fit 512 and 16 are read. *)
EXTENDS ResidueJournal
=============================================================================
