------------------------- MODULE MCPairingLifecycle -------------------------
(* PairingLifecycle on small instances; no symmetry, as liveness is checked in *)
(* the same run.                                                               *)
EXTENDS PairingLifecycle
=============================================================================
