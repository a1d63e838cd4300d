------------------------------ MODULE MCDaemon ------------------------------
(* The daemon for TLC: enough events to fill the bus and to be in two        *)
(* batches of the chain.                                                     *)
EXTENDS Daemon
=============================================================================
