-------------------------- MODULE MCEsSocketServer --------------------------
(* Instances of EsSocketServer for TLC: the constants are given in the     *)
(* configurations.                                                         *)
EXTENDS EsSocketServer
=============================================================================
