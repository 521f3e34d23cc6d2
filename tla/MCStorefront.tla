---------------------------- MODULE MCStorefront ----------------------------
(* A small instance of Storefront for TLC. *)
EXTENDS Storefront

CONSTANTS ip, o1, o2

\* Two pages behind one address.
MCClientOf == [o \in {o1, o2} |-> ip]
=============================================================================
