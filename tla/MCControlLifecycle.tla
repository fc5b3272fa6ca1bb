------------------------- MODULE MCControlLifecycle -------------------------
(* Model-checking instance of ControlLifecycle. *)
EXTENDS ControlLifecycle, TLC

MCIncarnation == 1 .. LastIncarnation

Symmetry == Permutations(Connection)

=============================================================================
