---------------------------- MODULE MCSpecProxy ----------------------------
(* Instances of SpecProxy for TLC. *)
EXTENDS SpecProxy, TLC

MCSchedules == {[start |-> 0, end |-> 2, amount |-> 3],
                [start |-> 1, end |-> 3, amount |-> 2]}

Symmetry == Permutations(Users \ {proxy})
=============================================================================
