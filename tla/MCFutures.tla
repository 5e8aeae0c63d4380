------------------------------ MODULE MCFutures ------------------------------
(* Instances of Futures for TLC. *)
EXTENDS Futures, TLC

CONSTANTS c1, c2, c3, v1, v2

\* Each integer names a future, none (0), or an id never handed out.
ArgsAll == {0, 1, 2, 3}
ArgsTwo == {1, 2}
\* A pointer's low word, larger than any id the bounds reach.
RootLowValue == 4096
=============================================================================
