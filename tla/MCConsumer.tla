----------------------------- MODULE MCConsumer -----------------------------
(* Small instances of Consumer for TLC. *)
EXTENDS Consumer, TLC

CONSTANTS m1, m2

\* The members of the group are interchangeable.
MCSymmetry == Permutations({m1, m2})
=============================================================================
