-------------------------- MODULE MCGeneratorBond --------------------------
(* Instances of GeneratorBond for TLC. *)
EXTENDS GeneratorBond, TLC

\* A claim names one LP token.
MCOneEach == {<<lp>> : lp \in LpTokens}

\* A claim may name two LP tokens.
MCTwo == MCOneEach \cup {<<p[1], p[2]>> : p \in {q \in LpTokens \X LpTokens : q[1] # q[2]}}

Symmetry == Permutations(Users)
=============================================================================
