--------------------------- MODULE MCSplintLaunch ---------------------------
(* Instances of SplintLaunch for TLC. *)
EXTENDS SplintLaunch, TLC

\* Fresh identities are interchangeable: the code draws them at random and
\* orders them only to break ties.
Symmetry == Permutations(Splint) \cup Permutations(Connection)
              \cup Permutations(Lair) \cup Permutations(Process)
=============================================================================
