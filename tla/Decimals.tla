------------------------------ MODULE Decimals ------------------------------
(***************************************************************************)
(* cosmwasm_std::Decimal: a fixed-point number, here the natural that is   *)
(* SCALE times its value, with operations that truncate.                   *)
(***************************************************************************)
EXTENDS Ratios

CONSTANT SCALE      \* 1 as a Decimal (10^18 in the code)

ASSUME DecimalAssumption == SCALE \in Nat \ {0}

FromRatio(num, den) == (num * SCALE) \div den

TimesDecimal(amount, decimal) == (amount * decimal) \div SCALE
=============================================================================
