------------------------------ MODULE MCTopology ------------------------------
(* Model checking of Topology: identities of one kind are interchangeable. *)
EXTENDS Topology, TLC

Symmetry == Permutations(Lair) \cup Permutations(Dojo) \cup Permutations(Splint)
              \cup Permutations(Name)
=============================================================================
