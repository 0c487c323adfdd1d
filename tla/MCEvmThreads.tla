---------------------------- MODULE MCEvmThreads ----------------------------
(* EvmThreads on a short chain; its constants are numbers, given in the     *)
(* configurations.                                                          *)
EXTENDS EvmThreads
=============================================================================
