---------------------------- MODULE MCReservation ----------------------------
(* Small instances of Reservation for TLC. *)
EXTENDS Reservation, TLC

CONSTANTS a1, a2, a3, n1, n2, p1, p2, r1, r2

\* Three attempts; two share a node, the third runs on another one.
MCNodeOf == a1 :> n1 @@ a2 :> n1 @@ a3 :> n2

MCNodeOf2 == a1 :> n1 @@ a3 :> n2

MCAttempts == {a1, a2, a3}

\* One product in the table, with too few units for every attempt; p2 is not in the table.
MCTotal == p1 :> 5

\* Too small to be accepted, half the stock, the whole stock, and more than an INT holds.
MCQuantities == {0, 2, 3, 6}

\* a1 and a2 are interchangeable: they run on the same node.
MCSymmetry == Permutations({a1, a2}) \cup Permutations({r1, r2})
=============================================================================
