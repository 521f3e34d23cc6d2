------------------------------ MODULE MCOutbox ------------------------------
(* Small instances of Outbox for TLC. *)
EXTENDS Outbox, TLC

CONSTANTS w1, w2

\* Two overlapping workers are interchangeable.
MCSymmetry == Permutations({w1, w2})
=============================================================================
