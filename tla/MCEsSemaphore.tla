--------------------------- MODULE MCEsSemaphore ---------------------------
(* Instances of EsSemaphore for TLC: the constants are given in the        *)
(* configurations.                                                         *)
EXTENDS EsSemaphore
=============================================================================
