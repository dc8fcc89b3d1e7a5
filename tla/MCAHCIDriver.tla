---------------------------- MODULE MCAHCIDriver ----------------------------
(* Two sectors, two values, three calls. *)
EXTENDS AHCIDriver
=============================================================================
