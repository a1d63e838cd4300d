---------------------------- MODULE MCColdStore ----------------------------
(* The cold store for TLC: events of today and late events of a day that is  *)
(* past retention.                                                           *)
EXTENDS ColdStore

OldAndNew == {1, 3}
=============================================================================
