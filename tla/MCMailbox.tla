------------------------------ MODULE MCMailbox ------------------------------
(* Instances of Mailbox for TLC. *)
EXTENDS Mailbox, TLC

CONSTANTS s1, s2, s3, r

SenderSymmetry == Permutations(Senders)
=============================================================================
