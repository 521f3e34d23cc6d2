-------------------------------- MODULE MCFeed --------------------------------
(* A small instance of Feed for TLC. *)
EXTENDS Feed, TLC

CONSTANTS n1, g1, g2

\* One node, with two pages.
MCNodeOf == 1 :> n1 @@ 2 :> n1

MCServerOf == g1 :> n1 @@ g2 :> n1
=============================================================================
