---------------------------- MODULE MCHeapRace ----------------------------
(* A small instance of HeapRace for TLC: every request is for a stack. *)
EXTENDS HeapRace
=============================================================================
