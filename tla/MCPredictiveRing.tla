------------------------- MODULE MCPredictiveRing -------------------------
(* Nine guesses in a ring of four places: it can be overrun, and go round. *)
EXTENDS PredictiveRing
=============================================================================
