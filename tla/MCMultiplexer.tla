---------------------------- MODULE MCMultiplexer ----------------------------
(* Small instances of Multiplexer for TLC. *)
EXTENDS Multiplexer, TLC

Symmetry == Permutations(Callers)
=============================================================================
