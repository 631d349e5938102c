----------------------------- MODULE SharePool -----------------------------
(***************************************************************************)
(* What the three contracts that hand out shares promise, whatever         *)
(* messages they exchange to do it: a pot of tokens belongs to the holders *)
(* of shares.  AstroportFarm (LP staked for the vault), GeneratorBond (LP  *)
(* of one pool) and GeneratorStaking (the xASTRO of the lock that nobody   *)
(* has asked for) implement it; a transaction of several messages is one   *)
(* step here, and one that reverts is none.                                *)
(***************************************************************************)
EXTENDS Ratios

CONSTANT Holders

VARIABLES
    shares,     \* of each holder
    pot,        \* the tokens behind the shares
    idle        \* tokens that the contract holds for no one

pool_vars == <<shares, pot, idle>>

TotalShares == Total(shares)

Init ==
    /\ shares = [h \in Holders |-> 0]
    /\ pot = 0
    /\ idle = 0

\* Only h's shares may change.
Only(h) == \A g \in Holders \ {h} : shares'[g] = shares[g]

\* h brings tokens and gets shares at their present price, truncated, or one
\* for each token while there is no price.  No tokens come out of `idle'.
Enter(h) ==
    LET paid   == pot' - pot
        minted == shares'[h] - shares[h]
    IN  /\ Only(h)
        /\ paid > 0
        /\ IF TotalShares = 0 \/ pot = 0 THEN minted = paid
           ELSE minted = MulRatio(paid, TotalShares, pot)
        /\ UNCHANGED idle

\* h gives up shares for at most what they are worth.
Leave(h) ==
    LET taken  == pot - pot'
        burned == shares[h] - shares'[h]
    IN  /\ Only(h)
        /\ taken >= 0 /\ pot' >= 0 /\ shares'[h] >= 0
        /\ taken * TotalShares <= burned * pot
        /\ UNCHANGED idle

\* g passes shares on to h.
Move(g, h) ==
    LET moved == shares[g] - shares'[g]
    IN  /\ moved \in 1 .. shares[g]
        /\ shares' = [shares EXCEPT ![g] = @ - moved, ![h] = @ + moved]
        /\ UNCHANGED <<pot, idle>>

\* The pot earns something, for all holders.
Gain ==
    /\ pot' > pot
    /\ UNCHANGED <<shares, idle>>

\* Somebody sends tokens to the contract.
Donate ==
    /\ idle' > idle
    /\ UNCHANGED <<shares, pot>>

Next ==
    \/ \E h \in Holders : Enter(h) \/ Leave(h)
    \/ \E g, h \in Holders : g # h /\ Move(g, h)
    \/ Gain
    \/ Donate

Spec == Init /\ [][Next]_pool_vars

\* What a share is worth never falls (calc_bond_share and calc_bond_amount,
\* which round in the pool's favour), whoever comes and goes: `pot' / total'
\* >= pot / total', without the division.
PriceKept == TotalShares > 0 => pot' * TotalShares >= pot * TotalShares'

PriceNeverFalls == [][PriceKept]_pool_vars
=============================================================================
