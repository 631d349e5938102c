-------------------------- MODULE MCAstroportFarm --------------------------
(* Instances of AstroportFarm for TLC. *)
EXTENDS AstroportFarm, TLC

\* A pair whose LP is worth 3/2 or 2 tokens.
MCPrices == {[amount |-> 3, total_share |-> 2], [amount |-> 2, total_share |-> 1]}

Symmetry == Permutations(Users)
=============================================================================
