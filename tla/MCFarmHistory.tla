--------------------------- MODULE MCFarmHistory ---------------------------
(* Instances of FarmHistory for TLC. *)
EXTENDS FarmHistory, TLC

MCPoolInfos == {[amount |-> 1, total_share |-> 1]}

Symmetry == Permutations(Users)
=============================================================================
