----------------------------- MODULE MCThreads -----------------------------
(* Instances of Threads for TLC. *)
EXTENDS Threads
CONSTANTS main, a, b
=============================================================================
