------------------------------ MODULE MCRxRing ------------------------------
(***************************************************************************)
(* RxRing for TLC: a ring of a few cells, segments and reads longer and    *)
(* shorter than it, and enough bytes to go round it more than twice.       *)
(***************************************************************************)
EXTENDS RxRing

\* A counter of two bits, which wraps, started anywhere.
MCDroppedModulus == 4
MCDroppedAtBoot == 0..(MCDroppedModulus - 1)
=============================================================================
