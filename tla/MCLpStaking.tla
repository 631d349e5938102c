---------------------------- MODULE MCLpStaking ----------------------------
(* An instance of LpStaking for TLC. *)
EXTENDS LpStaking

MCSchedules == {[start |-> 0, end |-> 2, amount |-> 3],
                [start |-> 1, end |-> 3, amount |-> 2]}

\* A third entry that can take the place of one that is dropped.
MCMoreSchedules == MCSchedules \cup {[start |-> 2, end |-> 3, amount |-> 1]}
=============================================================================
