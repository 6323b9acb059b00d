------------------------------- MODULE MCSpool -------------------------------
(* Instances of Spool for TLC. *)
EXTENDS Spool, TLC

Symmetry == Permutations(Event)
=============================================================================
