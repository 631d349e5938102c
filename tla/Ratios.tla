------------------------------- MODULE Ratios -------------------------------
(***************************************************************************)
(* The integer arithmetic every contract of the repository shares:         *)
(* Uint128::multiply_ratio of cosmwasm-std, which truncates, the           *)
(* repository's own multiply_ratio_and_ceil, and the weighted average that *)
(* dates a deposit.  Amounts are naturals; a zero divisor panics in the    *)
(* code, so callers state the divisor's sign in their guards.              *)
(***************************************************************************)
EXTENDS Naturals, FiniteSets

\* Uint128::multiply_ratio: truncating.
MulRatio(x, num, den) == (x * num) \div den

\* ScalingUint128::multiply_ratio_and_ceil: (x * num + den - 1) / den.
MulRatioCeil(x, num, den) == (x * num + den - 1) \div den

\* compute_deposit_time: the average of two times, weighted by the amounts.
DepositTime(lastAmount, newAmount, lastTime, newTime) ==
    (lastAmount * lastTime + newAmount * newTime) \div (lastAmount + newAmount)

AtMost(a, b) == IF a < b THEN a ELSE b

-----------------------------------------------------------------------------
(***************************************************************************)
(* The total of a ledger f, a function from accounts to naturals.  Each    *)
(* account x holds f[x] numbered units, and the total is the number of     *)
(* units.                                                                  *)
(***************************************************************************)
Units(f) == UNION {{x} \X (1 .. f[x]) : x \in DOMAIN f}

Total(f) == Cardinality(Units(f))
=============================================================================
