---------------------------- MODULE MCBeadFilter ----------------------------
(* One edit and one bootstrap of a work with two candidate labels. *)
EXTENDS BeadFilter, TLC

CONSTANTS b1, b2, plain, prefixed, default, templated

\* Neither beads nor candidates are told apart.
Symmetry == Permutations({b1, b2}) \cup Permutations({plain, prefixed})
=============================================================================
