--------------------------- MODULE MCInteraction ---------------------------
(* Model checking of Interaction: constants are given in the configurations. *)
EXTENDS Interaction
=============================================================================
