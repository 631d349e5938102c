------------------------- MODULE MCGeneratorStaking -------------------------
(* An instance of GeneratorStaking for TLC. *)
EXTENDS GeneratorStaking, TLC

Symmetry == Permutations(Stakers)
=============================================================================
