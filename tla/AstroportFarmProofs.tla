------------------------ MODULE AstroportFarmProofs ------------------------
(***************************************************************************)
(* Theorems about AstroportFarm, and about FarmHistory, for every set of   *)
(* users, every bound and every pair, price and fee: what the vault keeps, *)
(* and then what an account pays and takes in a second and a spender moves *)
(* of what he was granted.                                                 *)
(***************************************************************************)
EXTENDS FarmHistory, RatiosTheorems

-----------------------------------------------------------------------------
(* Shares and amounts *)

\* Shares are minted in proportion, rounded down.
LEMMA CalcBondShareBounds ==
    ASSUME NEW amount \in Nat, NEW total \in Nat, NEW lp \in Nat
    PROVE  /\ CalcBondShare(amount, total, lp) \in Nat
           /\ total = 0 \/ lp = 0 => CalcBondShare(amount, total, lp) = amount
           /\ lp * CalcBondShare(amount, total, lp) <= amount * total \/ total = 0 \/ lp = 0
  BY MulRatioBounds DEF CalcBondShare

\* A share is worth its proportion of the LP, rounded down.
LEMMA CalcBondAmountBounds ==
    ASSUME NEW total \in Nat, NEW lp \in Nat, NEW share \in Nat
    PROVE  /\ CalcBondAmount(total, lp, share) \in Nat
           /\ total * CalcBondAmount(total, lp, share) <= lp * share
           /\ total = 0 => CalcBondAmount(total, lp, share) = 0
  <1>1. CASE total = 0
    BY <1>1 DEF CalcBondAmount
  <1>2. CASE total # 0
    BY <1>2, MulRatioBounds DEF CalcBondAmount
  <1>3. QED
    BY <1>1, <1>2

\* The early-exit rule only lowers what an account may unbond.
LEMMA UserBalanceBounds ==
    ASSUME NEW info \in RewardInfo, NEW total \in Nat, NEW lp \in Nat,
           NEW time \in Nat, info.deposit_time <= time
    PROVE  /\ UserBalance(info, total, lp, time) \in Nat
           /\ UserBalance(info, total, lp, time)
                <= CalcBondAmount(total, lp, info.bond_share)
  <1> DEFINE amount == CalcBondAmount(total, lp, info.bond_share)
             elapsed == time - info.deposit_time
             profit == amount - info.deposit_amount
  <1>1. info.bond_share \in Nat /\ info.deposit_amount \in Nat /\ info.deposit_time \in Nat
    BY DEF RewardInfo
  <1>2. amount \in Nat /\ elapsed \in Nat /\ DAY \in Nat \ {0}
    <2>1. DAY \in Nat \ {0}
      BY FarmAssumption
    <2>2. amount \in Nat
      BY <1>1, CalcBondAmountBounds
    <2>3. QED
      BY <1>1, <2>1, <2>2
  <1> HIDE DEF amount, elapsed
  <1>3. CASE elapsed < DAY /\ amount > info.deposit_amount
    <2>1. profit \in Nat
      BY <1>1, <1>2, <1>3
    <2>2. MulRatio(profit, elapsed, DAY) \in Nat /\ MulRatio(profit, elapsed, DAY) <= profit
      BY <1>2, <1>3, <2>1, MulRatioBounds, RatioAtMostOne
    <2>3. UserBalance(info, total, lp, time)
            = info.deposit_amount + MulRatio(profit, elapsed, DAY)
      BY <1>3 DEF UserBalance, amount, elapsed
    <2>4. QED
      BY <1>1, <1>2, <2>1, <2>2, <2>3 DEF amount
  <1>4. CASE ~(elapsed < DAY /\ amount > info.deposit_amount)
    <2>1. UserBalance(info, total, lp, time) = amount
      BY <1>4 DEF UserBalance, amount, elapsed
    <2>2. QED
      BY <1>2, <2>1 DEF amount
  <1>5. QED
    BY <1>3, <1>4

\* A deposit adds its shares and dates the record between the old time and
\* the new one.
LEMMA BondInfoRecord ==
    ASSUME NEW info \in RewardInfo, NEW share \in Nat, NEW deposit \in Nat,
           NEW time \in Nat, NEW pool \in [amount: Nat, total_share: Nat \ {0}],
           info.deposit_amount + deposit > 0
    PROVE  /\ BondInfo(info, share, deposit, time, pool) \in RewardInfo
           /\ BondInfo(info, share, deposit, time, pool).bond_share = info.bond_share + share
           /\ \A n \in Nat : info.deposit_time <= n /\ time <= n
                 => BondInfo(info, share, deposit, time, pool).deposit_time <= n
  <1> DEFINE new == BondInfo(info, share, deposit, time, pool)
             date == DepositTime(info.deposit_amount, deposit, info.deposit_time, time)
             cost == MulRatio(pool.amount, deposit, pool.total_share)
  <1>1. /\ info.bond_share \in Nat /\ info.deposit_amount \in Nat /\ info.deposit_time \in Nat
        /\ info.transfer_share \in Nat /\ info.deposit_cost \in Nat
    BY DEF RewardInfo
  <1>2. cost \in Nat
    BY MulRatioBounds
  <1>3. \A n \in Nat : info.deposit_time <= n /\ time <= n => date \in Nat /\ date <= n
    BY <1>1, DepositTimeBound
  <1>4. \E n \in Nat : info.deposit_time <= n /\ time <= n
    <2>1. info.deposit_time + time \in Nat
      BY <1>1
    <2>2. info.deposit_time <= info.deposit_time + time /\ time <= info.deposit_time + time
      BY <1>1
    <2>3. QED
      BY <2>1, <2>2
  <1>5. date \in Nat
    BY <1>3, <1>4
  <1> HIDE DEF date, cost
  <1>6. /\ new \in RewardInfo
        /\ new.bond_share = info.bond_share + share
        /\ new.deposit_time = date
    BY <1>1, <1>2, <1>5 DEF BondInfo, RewardInfo, date, cost
  <1>7. QED
    BY <1>3, <1>6

\* A withdrawal takes its shares and leaves the date alone.
LEMMA UnbondInfoRecord ==
    ASSUME NEW info \in RewardInfo, NEW share \in Nat, share > 0,
           share <= info.bond_share
    PROVE  /\ UnbondInfo(info, share) \in RewardInfo
           /\ UnbondInfo(info, share).bond_share = info.bond_share - share
           /\ UnbondInfo(info, share).deposit_time = info.deposit_time
  <1> DEFINE old == info.bond_share + info.transfer_share
             new == old - share
  <1>1. /\ info.bond_share \in Nat /\ info.deposit_amount \in Nat /\ info.deposit_time \in Nat
        /\ info.transfer_share \in Nat /\ info.deposit_cost \in Nat
    BY DEF RewardInfo
  <1>2. old \in Nat \ {0} /\ new \in Nat
    BY <1>1
  <1> HIDE DEF old, new
  <1>3. MulRatio(info.deposit_amount, new, old) \in Nat
        /\ MulRatio(info.deposit_cost, new, old) \in Nat
    BY <1>1, <1>2, MulRatioBounds
  <1>4. QED
    BY <1>1, <1>3 DEF UnbondInfo, RewardInfo, old, new

\* Shares sent stay on record as transferred.
LEMMA SendSharesRecord ==
    ASSUME NEW info \in RewardInfo, NEW share \in Nat, share <= info.bond_share
    PROVE  /\ SendShares(info, share) \in RewardInfo
           /\ SendShares(info, share).bond_share = info.bond_share - share
           /\ SendShares(info, share).transfer_share >= share
           /\ SendShares(info, share).deposit_time = info.deposit_time
  BY DEF SendShares, WithShares, RewardInfo

\* However the shares are split between old and new ones, the receiver is
\* left with all of them.
LEMMA ReceiveSharesRecord ==
    ASSUME NEW receiver \in RewardInfo, NEW sender \in RewardInfo,
           NEW share \in Nat \ {0}, share <= sender.transfer_share,
           CanReceive(receiver, sender, share)
    PROVE  /\ ReceiveShares(receiver, sender, share) \in RewardInfo
           /\ ReceiveShares(receiver, sender, share).bond_share = receiver.bond_share + share
           /\ \A n \in Nat : receiver.deposit_time <= n /\ sender.deposit_time <= n
                 => ReceiveShares(receiver, sender, share).deposit_time <= n
  <1>1. CASE receiver.transfer_share < share
    <2> DEFINE new == share - receiver.transfer_share
               old == sender.bond_share + sender.transfer_share
               deposit == MulRatio(sender.deposit_amount, new, old)
               home == WithShares(receiver, receiver.bond_share + receiver.transfer_share, 0)
               pool == [amount |-> sender.deposit_cost, total_share |-> sender.deposit_amount]
    <2>1. new \in Nat /\ old \in Nat \ {0} /\ sender.deposit_amount \in Nat
      BY <1>1 DEF RewardInfo
    <2>2. deposit \in Nat
      BY <2>1, MulRatioBounds
    <2>3. /\ home \in RewardInfo
          /\ home.bond_share = receiver.bond_share + receiver.transfer_share
          /\ home.deposit_amount = receiver.deposit_amount
          /\ home.deposit_time = receiver.deposit_time
      BY DEF WithShares, RewardInfo
    <2>4. sender.deposit_amount > 0 /\ receiver.deposit_amount + deposit \in 1 .. MaxMemo
      BY <1>1 DEF CanReceive
    <2>5. sender.deposit_time \in Nat /\ pool \in [amount: Nat, total_share: Nat \ {0}]
      BY <2>4 DEF RewardInfo
    <2>6. ReceiveShares(receiver, sender, share)
            = BondInfo(home, new, deposit, sender.deposit_time, pool)
      BY <1>1 DEF ReceiveShares
    <2> HIDE DEF new, old, deposit, home, pool
    <2>7. home.deposit_amount + deposit > 0
      BY <2>3, <2>4
    <2> DEFINE time == sender.deposit_time
               result == BondInfo(home, new, deposit, time, pool)
    <2>8. /\ result \in RewardInfo
          /\ result.bond_share = home.bond_share + new
          /\ \A n \in Nat : home.deposit_time <= n /\ time <= n => result.deposit_time <= n
      <3> HIDE DEF time
      <3>1. home \in RewardInfo /\ new \in Nat /\ deposit \in Nat
        BY <2>1, <2>2, <2>3
      <3>2. time \in Nat /\ pool \in [amount: Nat, total_share: Nat \ {0}]
        BY <2>5 DEF time
      <3>3. QED
        BY <2>7, <3>1, <3>2, BondInfoRecord
    <2>9. home.bond_share + new = receiver.bond_share + share
      BY <2>3 DEF new, RewardInfo
    <2>10. QED
      BY <2>3, <2>6, <2>8, <2>9
  <1>2. CASE ~(receiver.transfer_share < share)
    BY <1>2 DEF ReceiveShares, WithShares, RewardInfo
  <1>3. QED
    BY <1>1, <1>2

\* What unbond takes for an amount within the balance: at least one share, no
\* more than the holder has, and no less than the amount's part of the total.
LEMMA UnbondShareBounds ==
    ASSUME NEW info \in RewardInfo, NEW total \in Nat, NEW lp \in Nat, NEW time \in Nat,
           info.deposit_time <= time, info.bond_share <= total,
           NEW amount \in Nat \ {0}, amount <= UserBalance(info, total, lp, time)
    PROVE  LET share == UnbondShare(info, amount, UserBalance(info, total, lp, time))
           IN  /\ share \in 1 .. info.bond_share
               /\ amount * total <= lp * share
               /\ amount <= lp
  <1> DEFINE held_share == info.bond_share
             balance == UserBalance(info, total, lp, time)
             worth == CalcBondAmount(total, lp, held_share)
             share == UnbondShare(info, amount, balance)
  <1>1. held_share \in Nat
    BY DEF RewardInfo
  <1>2. /\ worth \in Nat /\ total * worth <= lp * held_share
        /\ total = 0 => worth = 0
    BY <1>1, CalcBondAmountBounds
  <1>3. balance \in Nat /\ balance <= worth
    BY UserBalanceBounds
  <1>4. balance > 0 /\ worth > 0 /\ total > 0
    BY <1>2, <1>3
  <1>5. share \in Nat /\ held_share * amount <= balance * share /\ share <= held_share
    <2>1. balance \in Nat \ {0} /\ amount <= balance
      BY <1>3, <1>4
    <2>2. share = MulRatioCeil(held_share, amount, balance)
      BY DEF UnbondShare
    <2> HIDE DEF held_share, balance, share
    <2>3. QED
      BY <1>1, <2>1, <2>2, MulRatioCeilBounds, RatioAtMostOne
  <1> HIDE DEF held_share, balance, worth, share
  <1>6. total * balance <= lp * held_share
    <2>1. total * balance <= total * worth
      BY <1>2, <1>3, TimesMonotone
    <2>2. QED
      BY <1>1, <1>2, <1>3, <2>1
  <1>7. held_share > 0
    <2>1. SUFFICES ASSUME held_share = 0 PROVE FALSE
      BY <1>1
    <2>2. total * balance <= 0
      BY <1>6, <2>1
    <2>3. QED
      BY <1>3, <1>4, <2>2
  <1>8. share > 0
    <2>1. SUFFICES ASSUME share = 0 PROVE FALSE
      BY <1>5
    <2>2. held_share * amount <= 0
      BY <1>3, <1>5, <2>1
    <2>3. QED
      BY <1>1, <1>7, <2>2
  <1>9. amount * total <= lp * share
    <2> DEFINE p == total * balance
               q == lp * held_share
               r == held_share * amount
               s == balance * share
    <2>1. p \in Nat /\ q \in Nat /\ r \in Nat /\ s \in Nat
      BY <1>1, <1>3, <1>5
    <2>2. amount * p <= amount * q /\ lp * r <= lp * s
      BY <1>5, <1>6, <2>1, TimesMonotone
    <2>3. amount * q = lp * r
      BY <1>1
    <2>4. amount * p = (amount * total) * balance /\ lp * s = (lp * share) * balance
      BY <1>3, <1>5
    <2> HIDE DEF p, q, r, s
    <2>5. (amount * total) * balance <= (lp * share) * balance
      BY <2>1, <2>2, <2>3, <2>4
    <2>6. amount * total \in Int /\ lp * share \in Int
      BY <1>5
    <2>7. QED
      BY <1>3, <1>4, <2>5, <2>6, TimesCancel
  <1>10. amount <= lp
    <2>1. amount * total <= balance * total
      BY <1>3, TimesMonotone DEF balance
    <2>2. lp * held_share <= lp * total
      BY <1>1, TimesMonotone DEF held_share
    <2>3. amount * total <= lp * total
      BY <1>1, <1>3, <1>6, <2>1, <2>2
    <2>4. QED
      BY <1>4, <2>3, TimesCancel
  <1>11. QED
    BY <1>5, <1>8, <1>9, <1>10 DEF held_share, balance, share

-----------------------------------------------------------------------------
(***************************************************************************)
(* The inductive invariant.  SharesBacked alone is not inductive: that an  *)
(* unbond takes its part of the total needs the holder's shares to be at   *)
(* most the total, which is what ShareConservation gives, and the balance  *)
(* it is checked against is only defined for a deposit in the past.        *)
(***************************************************************************)

\* No deposit is dated in the future.
DepositsPast == \A u \in Users : reward[u].deposit_time <= now

\* The part of the invariant about shares, records and staked LP.
LedgerInv ==
    /\ total_bond_share \in Nat /\ staked \in Nat
    /\ reward \in [Users -> RewardInfo]
    /\ ShareConservation
    /\ SharesBacked
    /\ DepositsPast

IInv == TypeOK /\ ShareConservation /\ SharesBacked /\ DepositsPast

\* The cw20 balances of the records rw.
SharesOf(rw) == [u \in Users |-> rw[u].bond_share]

\* The total of the balances after one record is replaced.
LEMMA RecordUpdate ==
    ASSUME NEW rw \in [Users -> RewardInfo], NEW u \in Users, NEW r \in RewardInfo,
           NEW new, new = [rw EXCEPT ![u] = r]
    PROVE  /\ new \in [Users -> RewardInfo]
           /\ Total(SharesOf(rw)) \in Nat
           /\ Total(SharesOf(new)) = Total(SharesOf(rw)) - rw[u].bond_share + r.bond_share
  <1>1. IsFiniteSet(Users)
    BY FarmAssumption
  <1>2. SharesOf(rw) \in [Users -> Nat] /\ r.bond_share \in Nat
    BY DEF SharesOf, RewardInfo
  <1>3. SharesOf(new) = [SharesOf(rw) EXCEPT ![u] = r.bond_share]
    BY DEF SharesOf
  <1>4. SharesOf(rw)[u] = rw[u].bond_share
    BY DEF SharesOf
  <1>5. Total(SharesOf(rw)) \in Nat
    BY <1>1, <1>2, TotalType
  <1>6. Total([SharesOf(rw) EXCEPT ![u] = r.bond_share])
          = Total(SharesOf(rw)) - SharesOf(rw)[u] + r.bond_share
    BY <1>1, <1>2, TotalUpdate
  <1>7. QED
    BY <1>3, <1>4, <1>5, <1>6

\* No holder has more than the supply.
LEMMA HolderBelowTotal ==
    ASSUME LedgerInv, NEW u \in Users
    PROVE  reward[u].bond_share \in Nat /\ reward[u].bond_share <= total_bond_share
  <1>1. IsFiniteSet(Users)
    BY FarmAssumption
  <1>2. BondShares \in [Users -> Nat] /\ BondShares[u] = reward[u].bond_share
    BY DEF LedgerInv, BondShares, RewardInfo
  <1>3. BondShares[u] <= Total(BondShares)
    BY <1>1, <1>2, TotalBoundsEach
  <1>4. QED
    BY <1>2, <1>3 DEF LedgerInv, ShareConservation

\* bond_internal: the record and the total grow by the same shares, never by
\* more than the LP brought, and never by more than its part.
LEMMA BondInternalStep ==
    ASSUME LedgerInv, now \in Nat, now' = now, NEW staker \in Users, NEW amount \in Nat,
           BondInternal(staker, amount)
    PROVE  /\ LedgerInv'
           /\ total_bond_share > 0 =>
                 staked' * total_bond_share >= staked * total_bond_share'
  <1> DEFINE share == CalcBondShare(amount, total_bond_share, staked)
             deposit == CalcBondAmount(total_bond_share + share, staked + amount, share)
             old == reward[staker]
  <1> USE DEF LedgerInv
  <1>1. share \in Nat /\ deposit \in Nat
    <2>1. share \in Nat
      BY CalcBondShareBounds
    <2>2. total_bond_share + share \in Nat /\ staked + amount \in Nat
      BY <2>1
    <2> HIDE DEF share
    <2>3. QED
      BY <2>1, <2>2, CalcBondAmountBounds
  <1>2. PICK pool \in PoolInfos :
           reward' = [reward EXCEPT ![staker] = BondInfo(@, share, deposit, now, pool)]
    BY DEF BondInternal
  <1>3. /\ total_bond_share' = total_bond_share + share
        /\ staked' = staked + amount
        /\ amount > 0 /\ old.deposit_amount + deposit \in 1 .. MaxMemo
    BY DEF BondInternal
  <1> DEFINE new == BondInfo(old, share, deposit, now, pool)
  <1>4. old \in RewardInfo /\ old.bond_share \in Nat /\ old.deposit_time <= now
    BY DEF RewardInfo, DepositsPast
  <1>5. pool \in [amount: Nat, total_share: Nat \ {0}]
    BY FarmAssumption
  <1>6. share = amount \/ (total_bond_share > 0 /\ staked > 0)
    BY CalcBondShareBounds
  <1>7. staked * share <= amount * total_bond_share \/ total_bond_share = 0 \/ staked = 0
    BY CalcBondShareBounds
  <1> HIDE DEF share, deposit
  <1>8. new \in RewardInfo /\ new.bond_share = old.bond_share + share
        /\ new.deposit_time <= now
    <2>1. old.deposit_amount + deposit > 0
      BY <1>3
    <2> DEFINE time == now
    <2>2. old \in RewardInfo /\ time \in Nat
      BY <1>4
    <2> HIDE DEF LedgerInv, old, time
    <2>3. BondInfo(old, share, deposit, time, pool) \in RewardInfo
      BY <1>1, <1>5, <2>1, <2>2, BondInfoRecord
    <2>4. BondInfo(old, share, deposit, time, pool).bond_share = old.bond_share + share
      BY <1>1, <1>5, <2>1, <2>2, BondInfoRecord
    <2>5. \A n \in Nat : old.deposit_time <= n /\ time <= n
             => BondInfo(old, share, deposit, time, pool).deposit_time <= n
      BY <1>1, <1>5, <2>1, <2>2, BondInfoRecord
    <2>6. QED
      BY <1>4, <2>3, <2>4, <2>5 DEF time
  <1>9. reward' = [reward EXCEPT ![staker] = new]
    BY <1>2
  <1> HIDE DEF new
  <1>10. reward' \in [Users -> RewardInfo]
    BY <1>8, <1>9
  <1>11. ShareConservation'
    <2>1. Total(SharesOf(reward')) = Total(SharesOf(reward)) - old.bond_share + new.bond_share
          /\ Total(SharesOf(reward)) \in Nat
      BY <1>8, <1>9, RecordUpdate
    <2>2. Total(SharesOf(reward)) = total_bond_share
      BY DEF ShareConservation, BondShares, SharesOf
    <2>3. Total(SharesOf(reward')) = total_bond_share + share
      BY <1>1, <1>4, <1>8, <2>1, <2>2
    <2>4. QED
      BY <1>3, <2>3 DEF ShareConservation, BondShares, SharesOf
  <1>12. share <= amount
    <2>1. CASE total_bond_share > 0 /\ staked > 0
      <3>1. amount * total_bond_share <= amount * staked
        BY TimesMonotone DEF SharesBacked
      <3>2. share * staked <= amount * staked
        BY <1>1, <1>7, <2>1, <3>1
      <3>3. QED
        BY <1>1, <2>1, <3>2, TimesCancel
    <2>2. QED
      BY <1>1, <1>6, <2>1
  <1>13. SharesBacked'
    BY <1>1, <1>3, <1>12 DEF SharesBacked
  <1>14. DepositsPast'
    BY <1>8, <1>9 DEF DepositsPast
  <1>15. total_bond_share > 0 => staked' * total_bond_share >= staked * total_bond_share'
    <2>1. staked * share <= amount * total_bond_share \/ total_bond_share = 0
      BY <1>1, <1>7
    <2>2. QED
      BY <1>1, <1>3, <2>1
  <1>16. QED
    BY <1>1, <1>3, <1>10, <1>11, <1>13, <1>14, <1>15

\* A record that loses shares together with the total keeps the ledger in
\* balance: what unbond and burn_internal have in common.
LEMMA SharesLeave ==
    ASSUME LedgerInv, now' = now, NEW owner \in Users,
           NEW share \in Nat, share > 0, share <= reward[owner].bond_share,
           total_bond_share' = total_bond_share - share,
           reward' = [reward EXCEPT ![owner] = UnbondInfo(@, share)]
    PROVE  /\ total_bond_share' \in Nat
           /\ reward' \in [Users -> RewardInfo]
           /\ ShareConservation'
           /\ DepositsPast'
  <1> DEFINE old == reward[owner]
             new == UnbondInfo(old, share)
  <1>1. old \in RewardInfo /\ old.bond_share \in Nat
    BY DEF LedgerInv, RewardInfo
  <1>2. total_bond_share \in Nat /\ old.bond_share <= total_bond_share
    BY HolderBelowTotal DEF LedgerInv
  <1>3. new \in RewardInfo /\ new.bond_share = old.bond_share - share
        /\ new.deposit_time = old.deposit_time
    <2> HIDE DEF old
    <2>1. share <= old.bond_share
      BY DEF old
    <2>2. QED
      BY <1>1, <2>1, UnbondInfoRecord
  <1>4. reward' = [reward EXCEPT ![owner] = new]
    OBVIOUS
  <1> HIDE DEF new
  <1>5. reward \in [Users -> RewardInfo] /\ reward' \in [Users -> RewardInfo]
    BY <1>3, <1>4 DEF LedgerInv
  <1>6. DepositsPast'
    BY <1>3, <1>4, <1>5 DEF LedgerInv, DepositsPast
  <1>7. ShareConservation'
    <2>1. Total(SharesOf(reward')) = Total(SharesOf(reward)) - old.bond_share + new.bond_share
          /\ Total(SharesOf(reward)) \in Nat
      <3> DEFINE rw == reward
                 after == reward'
      <3>1. rw \in [Users -> RewardInfo] /\ after = [rw EXCEPT ![owner] = new]
        BY <1>4, <1>5
      <3>2. rw[owner] = old
        OBVIOUS
      <3> HIDE DEF rw, after, old
      <3>3. Total(SharesOf(after)) = Total(SharesOf(rw)) - rw[owner].bond_share + new.bond_share
        BY <1>3, <3>1, RecordUpdate
      <3>4. Total(SharesOf(rw)) \in Nat
        BY <1>3, <3>1, RecordUpdate
      <3>5. QED
        BY <3>2, <3>3, <3>4 DEF rw, after
    <2>2. Total(SharesOf(reward)) = total_bond_share
      BY DEF LedgerInv, ShareConservation, BondShares, SharesOf
    <2>3. Total(SharesOf(reward')) = total_bond_share - share
      BY <1>1, <1>3, <2>1, <2>2
    <2>4. QED
      BY <2>3 DEF ShareConservation, BondShares, SharesOf
  <1>8. total_bond_share' \in Nat
    BY <1>1, <1>2
  <1>9. QED
    BY <1>5, <1>6, <1>7, <1>8

\* unbond: the shares taken are at least the amount's part of the total, so
\* that those who stay have no less LP behind each of their shares.
LEMMA UnbondStep ==
    ASSUME LedgerInv, now \in Nat, NEW user \in Users, NEW amount \in Nat,
           Unbond(user, amount)
    PROVE  /\ LedgerInv'
           /\ staked' * total_bond_share >= staked * total_bond_share'
  <1> DEFINE info == reward[user]
             balance == UserBalance(info, total_bond_share, staked, now)
             share == UnbondShare(info, amount, balance)
  <1>1. /\ amount > 0 /\ info.deposit_time <= now
        /\ amount <= balance
        /\ total_bond_share' = total_bond_share - share
        /\ reward' = [reward EXCEPT ![user] = UnbondInfo(@, share)]
        /\ staked' = staked - amount
        /\ now' = now
    BY DEF Unbond, LedgerInv, DepositsPast
  <1>2. info \in RewardInfo /\ info.bond_share \in Nat /\ info.bond_share <= total_bond_share
        /\ total_bond_share \in Nat /\ staked \in Nat /\ total_bond_share <= staked
    BY HolderBelowTotal DEF LedgerInv, SharesBacked
  <1>3. share \in 1 .. info.bond_share
        /\ amount * total_bond_share <= staked * share
        /\ amount <= staked
    <2> DEFINE time == now
               total == total_bond_share
               lp == staked
    <2>1. time \in Nat /\ total \in Nat /\ lp \in Nat /\ amount \in Nat \ {0}
      BY <1>1, <1>2
    <2>2. info.deposit_time <= time /\ info.bond_share <= total
          /\ amount <= UserBalance(info, total, lp, time)
      BY <1>1, <1>2
    <2> HIDE DEF info, time, total, lp
    <2>3. LET taken == UnbondShare(info, amount, UserBalance(info, total, lp, time))
          IN  /\ taken \in 1 .. info.bond_share
              /\ amount * total <= lp * taken
              /\ amount <= lp
      BY <1>2, <2>1, <2>2, UnbondShareBounds
    <2>4. QED
      BY <2>3 DEF time, total, lp
  <1> HIDE DEF share, balance
  <1>4. share \in Nat /\ share > 0 /\ share <= reward[user].bond_share
        /\ share <= total_bond_share
    BY <1>2, <1>3
  <1>5. /\ total_bond_share' \in Nat
        /\ reward' \in [Users -> RewardInfo]
        /\ ShareConservation'
        /\ DepositsPast'
    BY <1>1, <1>4, SharesLeave
  <1>6. staked' \in Nat
    BY <1>1, <1>2, <1>3
  <1>7. staked' * total_bond_share >= staked * total_bond_share'
    <2>1. staked' * total_bond_share = staked * total_bond_share - amount * total_bond_share
      BY <1>1, <1>2
    <2>2. staked * total_bond_share' = staked * total_bond_share - staked * share
      BY <1>1, <1>2, <1>4
    <2>3. /\ staked * total_bond_share \in Nat /\ amount * total_bond_share \in Nat
          /\ staked * share \in Nat
      BY <1>2, <1>4
    <2>4. QED
      BY <1>3, <2>1, <2>2, <2>3
  <1>8. total_bond_share' <= staked'
    <2> DEFINE t == total_bond_share'
               l == staked'
    <2>1. t \in Nat /\ l \in Nat /\ staked \in Nat \ {0}
      BY <1>1, <1>2, <1>3, <1>5, <1>6
    <2>2. l * total_bond_share <= l * staked
      BY <1>2, <1>6, TimesMonotone
    <2>3. staked * t <= l * total_bond_share
      BY <1>7
    <2> HIDE DEF t, l
    <2>4. t * staked <= l * staked
      BY <1>2, <2>1, <2>2, <2>3
    <2>5. t <= l
      BY <2>1, <2>4, TimesCancel
    <2>6. QED
      BY <2>5 DEF t, l
  <1>9. LedgerInv'
    BY <1>5, <1>6, <1>8 DEF LedgerInv, SharesBacked
  <1>10. QED
    BY <1>7, <1>9

\* burn_internal: the LP behind the burnt shares is left to the others.
LEMMA BurnInternalStep ==
    ASSUME LedgerInv, now' = now, staked' = staked, NEW owner \in Users, NEW share \in Nat,
           BurnInternal(owner, share)
    PROVE  /\ LedgerInv'
           /\ staked' * total_bond_share >= staked * total_bond_share'
  <1>1. /\ share > 0 /\ share <= reward[owner].bond_share
        /\ total_bond_share' = total_bond_share - share
        /\ reward' = [reward EXCEPT ![owner] = UnbondInfo(@, share)]
    BY DEF BurnInternal
  <1>2. /\ total_bond_share' \in Nat
        /\ reward' \in [Users -> RewardInfo]
        /\ ShareConservation'
        /\ DepositsPast'
    BY <1>1, SharesLeave
  <1>3. total_bond_share \in Nat /\ staked \in Nat /\ total_bond_share <= staked
    BY DEF LedgerInv, SharesBacked
  <1>4. total_bond_share' <= total_bond_share
    BY <1>1, <1>3
  <1>5. staked' * total_bond_share >= staked * total_bond_share'
    BY <1>2, <1>3, <1>4, TimesMonotone
  <1>6. LedgerInv'
    BY <1>2, <1>3, <1>4 DEF LedgerInv, SharesBacked
  <1>7. QED
    BY <1>5, <1>6

\* transfer_internal: what the sender loses the receiver gains, also when he
\* is the sender.
LEMMA TransferInternalStep ==
    ASSUME LedgerInv, now \in Nat, now' = now, staked' = staked,
           total_bond_share' = total_bond_share,
           NEW from \in Users, NEW to \in Users, NEW share \in Nat,
           TransferInternal(from, to, share)
    PROVE  LedgerInv'
  <1> DEFINE sender == SendShares(reward[from], share)
             sent == [reward EXCEPT ![from] = sender]
             receiver == ReceiveShares(sent[to], sent[from], share)
  <1>1. share > 0 /\ share <= reward[from].bond_share
        /\ CanReceive(sent[to], sent[from], share)
        /\ reward' = [sent EXCEPT ![to] = receiver]
    BY DEF TransferInternal, TransferShares
  <1>2. reward \in [Users -> RewardInfo] /\ total_bond_share \in Nat /\ staked \in Nat
    BY DEF LedgerInv
  <1>3. reward[from] \in RewardInfo /\ reward[from].bond_share \in Nat
    BY <1>2 DEF RewardInfo
  <1>4. /\ sender \in RewardInfo
        /\ sender.bond_share = reward[from].bond_share - share
        /\ sender.transfer_share >= share
        /\ sender.deposit_time = reward[from].deposit_time
    BY <1>1, <1>3, SendSharesRecord
  <1> HIDE DEF sender
  <1>5. /\ sent \in [Users -> RewardInfo] /\ sent[from] = sender
        /\ Total(SharesOf(reward)) \in Nat
        /\ Total(SharesOf(sent)) = Total(SharesOf(reward)) - share
    <2>1. sent \in [Users -> RewardInfo] /\ sent[from] = sender
      BY <1>2, <1>4
    <2>2. /\ Total(SharesOf(reward)) \in Nat
          /\ Total(SharesOf(sent)) = Total(SharesOf(reward)) - reward[from].bond_share
                                       + sender.bond_share
      <3> DEFINE new == sent
      <3>1. new = [reward EXCEPT ![from] = sender]
        OBVIOUS
      <3> HIDE DEF new
      <3>2. Total(SharesOf(new)) = Total(SharesOf(reward)) - reward[from].bond_share
                                   + sender.bond_share
        BY <1>2, <1>4, <3>1, RecordUpdate
      <3>3. Total(SharesOf(reward)) \in Nat
        BY <1>2, <1>4, <3>1, RecordUpdate
      <3>4. QED
        BY <3>2, <3>3 DEF new
    <2> HIDE DEF sent
    <2>3. QED
      BY <1>3, <1>4, <2>1, <2>2
  <1>6. \A u \in Users : sent[u].deposit_time <= now
    BY <1>2, <1>4 DEF LedgerInv, DepositsPast
  <1> HIDE DEF sent
  <1>7. sent[to] \in RewardInfo /\ sent[to].bond_share \in Nat
    BY <1>5 DEF RewardInfo
  <1>8. /\ receiver \in RewardInfo
        /\ receiver.bond_share = sent[to].bond_share + share
        /\ receiver.deposit_time <= now
    BY <1>1, <1>4, <1>5, <1>6, <1>7, ReceiveSharesRecord
  <1> HIDE DEF receiver
  <1>9. /\ reward' \in [Users -> RewardInfo]
        /\ Total(SharesOf(reward')) = Total(SharesOf(sent)) + share
    <2>1. /\ reward' \in [Users -> RewardInfo]
          /\ Total(SharesOf(sent)) \in Nat
          /\ Total(SharesOf(reward')) = Total(SharesOf(sent)) - sent[to].bond_share
                                         + receiver.bond_share
      BY <1>1, <1>5, <1>8, RecordUpdate
    <2>2. QED
      BY <1>7, <1>8, <2>1
  <1>10. ShareConservation'
    BY <1>5, <1>9 DEF LedgerInv, ShareConservation, BondShares, SharesOf
  <1>11. DepositsPast'
    BY <1>1, <1>5, <1>6, <1>8 DEF DepositsPast
  <1>12. QED
    BY <1>9, <1>10, <1>11 DEF LedgerInv, SharesBacked

-----------------------------------------------------------------------------
(* Every step *)

\* The rest of the type invariant.
RestOK ==
    /\ allowances \in [Users \X Users -> Allowance]
    /\ fee \in Nat /\ fee <= FeeUnit
    /\ held \in Nat /\ reward_held \in Nat
    /\ tx \in Tx /\ (tx.call = "BondTo" => tx.to \in Users)
    /\ now \in Nat

\* The LP behind a share does not shrink in a step.
PriceStep ==
    total_bond_share > 0 /\ total_bond_share' > 0 =>
        staked' * total_bond_share >= staked * total_bond_share'

\* The vault starts empty.
LEMMA InitInvariant == Init => IInv
  <1> SUFFICES ASSUME Init PROVE IInv
    OBVIOUS
  <1> USE DEF Init
  <1>1. LedgerInv
    <2>1. reward \in [Users -> RewardInfo]
      BY DEF EmptyInfo, RewardInfo
    <2>2. BondShares = [u \in Users |-> 0]
      BY DEF BondShares, EmptyInfo
    <2>3. ShareConservation
      BY <2>2, TotalOfZeros DEF ShareConservation
    <2>4. DepositsPast
      BY DEF DepositsPast, EmptyInfo
    <2>5. QED
      BY <2>1, <2>3, <2>4 DEF LedgerInv, SharesBacked
  <1>2. RestOK
    <2>1. MaxTime \in Nat /\ FeeUnit \in Nat /\ Fees \subseteq Nat
      BY FarmAssumption
    <2>2. allowances \in [Users \X Users -> Allowance]
      BY <2>1 DEF NoAllowance, Allowance, Never
    <2>3. tx \in Tx /\ tx.call # "BondTo"
      BY DEF NoTx, Tx
    <2>4. QED
      BY <2>1, <2>2, <2>3 DEF RestOK
  <1>3. QED
    BY <1>1, <1>2 DEF IInv, TypeOK, LedgerInv, RestOK

\* A step that touches neither records nor totals, or only adds staked LP.
LEMMA LedgerUntouched ==
    ASSUME LedgerInv, now \in Nat, now' \in Nat, now <= now',
           reward' = reward, total_bond_share' = total_bond_share,
           staked' \in Nat, staked <= staked'
    PROVE  LedgerInv' /\ PriceStep
  <1>1. \A u \in Users : reward[u].deposit_time \in Nat
    BY DEF LedgerInv, RewardInfo
  <1>2. DepositsPast'
    BY <1>1 DEF LedgerInv, DepositsPast
  <1>3. total_bond_share \in Nat /\ staked \in Nat
    BY DEF LedgerInv
  <1>4. PriceStep
    BY <1>3, TimesMonotone DEF PriceStep
  <1>5. ShareConservation' /\ SharesBacked'
    BY <1>3 DEF LedgerInv, ShareConservation, SharesBacked, BondShares
  <1>6. LedgerInv'
    BY <1>2, <1>3, <1>5 DEF LedgerInv
  <1>7. QED
    BY <1>4, <1>6

\* Every step keeps the ledger in balance and the price of a share up.
LEMMA NextLedger ==
    ASSUME LedgerInv, RestOK, [Next]_vars
    PROVE  LedgerInv' /\ PriceStep
  <1>1. /\ Amounts \subseteq Nat /\ Receipts \subseteq Nat
    BY FarmAssumption
  <1>2. now \in Nat /\ held \in Nat /\ staked \in Nat /\ total_bond_share \in Nat
        /\ tx \in Tx
    BY DEF LedgerInv, RestOK
  <1>3. ASSUME NEW u \in Users, NEW a \in Amounts, Bond(u, a) PROVE LedgerInv' /\ PriceStep
    <2>1. a \in Nat /\ now' = now /\ BondInternal(u, a)
      BY <1>1, <1>3 DEF Bond
    <2>2. QED
      BY <1>2, <2>1, BondInternalStep DEF PriceStep
  <1>4. ASSUME NEW u \in Users, NEW a \in Amounts, Unbond(u, a) PROVE LedgerInv' /\ PriceStep
    BY <1>1, <1>2, <1>4, UnbondStep DEF PriceStep
  <1>5. ASSUME NEW u \in Users, NEW a \in Amounts, Burn(u, a) PROVE LedgerInv' /\ PriceStep
    <2>1. a \in Nat /\ now' = now /\ staked' = staked /\ BurnInternal(u, a)
      BY <1>1, <1>5 DEF Burn
    <2>2. QED
      BY <2>1, BurnInternalStep DEF PriceStep
  <1>6. ASSUME NEW u \in Users, NEW v \in Users, NEW a \in Amounts, Transfer(u, v, a)
        PROVE  LedgerInv' /\ PriceStep
    <2>1. a \in Nat /\ now' = now /\ staked' = staked /\ total_bond_share' = total_bond_share
          /\ TransferInternal(u, v, a)
      BY <1>1, <1>6 DEF Transfer
    <2>2. LedgerInv'
      BY <1>2, <2>1, TransferInternalStep
    <2>3. QED
      BY <1>2, <2>1, <2>2 DEF PriceStep
  <1>7. ASSUME NEW u \in Spenders, NEW v \in Users, NEW a \in Amounts, BurnFrom(u, v, a)
        PROVE  LedgerInv' /\ PriceStep
    <2>1. a \in Nat /\ now' = now /\ staked' = staked /\ BurnInternal(v, a)
      BY <1>1, <1>7 DEF BurnFrom
    <2>2. QED
      BY <2>1, BurnInternalStep DEF PriceStep
  <1>8. ASSUME NEW u \in Spenders, NEW v \in Users, NEW w \in Users, NEW a \in Amounts,
               TransferFrom(u, v, w, a)
        PROVE  LedgerInv' /\ PriceStep
    <2>1. a \in Nat /\ now' = now /\ staked' = staked /\ total_bond_share' = total_bond_share
          /\ TransferInternal(v, w, a)
      BY <1>1, <1>8 DEF TransferFrom
    <2>2. LedgerInv'
      BY <1>2, <2>1, TransferInternalStep
    <2>3. QED
      BY <1>2, <2>1, <2>2 DEF PriceStep
  <1>9. CASE BondTo
    <2>1. tx.to \in Users /\ tx.prev_balance \in Nat
      BY <1>2, <1>9 DEF RestOK, BondTo, Tx
    <2>2. now' = now /\ BondInternal(tx.to, Received)
      BY <1>9 DEF BondTo
    <2>3. Received \in Nat
      BY <1>2, <2>1, <2>2 DEF Received, BondInternal
    <2> DEFINE staker == tx.to
               amount == Received
    <2>4. staker \in Users /\ amount \in Nat /\ BondInternal(staker, amount)
      BY <2>1, <2>2, <2>3
    <2> HIDE DEF staker, amount
    <2>5. QED
      BY <1>2, <2>2, <2>4, BondInternalStep DEF PriceStep
  <1>10. CASE Stake
    <2>1. tx.prev_balance \in Nat
      BY <1>2 DEF Tx
    <2>2. Received > 0 /\ staked' = staked + Received /\ reward' = reward
          /\ total_bond_share' = total_bond_share /\ now' = now
      BY <1>10 DEF Stake
    <2>3. Received \in Nat
      BY <1>2, <2>1, <2>2 DEF Received
    <2>4. staked' \in Nat /\ staked <= staked'
      BY <1>2, <2>2, <2>3
    <2>5. QED
      BY <1>2, <2>2, <2>4, LedgerUntouched
  <1>11. ASSUME reward' = reward, total_bond_share' = total_bond_share, staked' = staked,
                now' = now \/ now' = now + 1
         PROVE  LedgerInv' /\ PriceStep
    BY <1>2, <1>11, LedgerUntouched
  <1>12. ASSUME NEW u \in Users, NEW m \in Minimums, BondAssets(u, m)
         PROVE  LedgerInv' /\ PriceStep
    BY <1>11, <1>12 DEF BondAssets
  <1>13. ASSUME NEW u \in Users, NEW v \in Spenders, NEW a \in Grants, NEW e \in 0 .. Never,
                IncreaseAllowance(u, v, a, e) \/ DecreaseAllowance(u, v, a, e)
         PROVE  LedgerInv' /\ PriceStep
    BY <1>11, <1>13 DEF IncreaseAllowance, DecreaseAllowance
  <1>14. ASSUME NEW p \in Rewards, NEW m \in Minimums, Compound(p, m)
         PROVE  LedgerInv' /\ PriceStep
    BY <1>11, <1>14 DEF Compound
  <1>15. ASSUME NEW got \in Receipts, NEW lp \in Receipts, RunMessages(got, lp)
         PROVE  LedgerInv' /\ PriceStep
    BY <1>11, <1>15 DEF RunMessages
  <1>16. CASE Revert
    BY <1>11, <1>16 DEF Revert
  <1>17. ASSUME NEW f \in Fees, UpdateConfig(f) PROVE LedgerInv' /\ PriceStep
    BY <1>11, <1>17 DEF UpdateConfig
  <1>18. ASSUME NEW a \in Amounts, DonateLp(a) PROVE LedgerInv' /\ PriceStep
    BY <1>11, <1>18 DEF DonateLp
  <1>19. CASE Tick
    BY <1>11, <1>19 DEF Tick
  <1>20. CASE UNCHANGED vars
    BY <1>11, <1>20 DEF vars
  <1>21. QED
    BY <1>3, <1>4, <1>5, <1>6, <1>7, <1>8, <1>9, <1>10, <1>12, <1>13, <1>14, <1>15, <1>16,
       <1>17, <1>18, <1>19, <1>20 DEF Next

\* Every step keeps the types of everything else.
LEMMA NextRest ==
    ASSUME LedgerInv, RestOK, [Next]_vars
    PROVE  RestOK'
  <1>1. /\ Amounts \subseteq Nat /\ Grants \subseteq Nat /\ Rewards \subseteq Nat
        /\ Receipts \subseteq Nat /\ Fees \subseteq Nat /\ Minimums \subseteq Nat
        /\ MaxTime \in Nat /\ FeeUnit \in Nat /\ Spenders \subseteq Users
    BY FarmAssumption
  <1>2. /\ allowances \in [Users \X Users -> Allowance]
        /\ fee \in Nat /\ fee <= FeeUnit
        /\ held \in Nat /\ reward_held \in Nat
        /\ tx \in Tx /\ (tx.call = "BondTo" => tx.to \in Users)
        /\ now \in Nat
    BY DEF RestOK
  <1>3. NoTx \in Tx /\ NoTx.call # "BondTo"
    BY DEF NoTx, Tx
  <1>4. ASSUME allowances' = allowances, fee' = fee, held' = held,
               reward_held' = reward_held, tx' = tx, now' = now
        PROVE  RestOK'
    BY <1>2, <1>4 DEF RestOK
  <1>5. ASSUME NEW owner \in Users, NEW spender \in Users, NEW a \in Amounts,
               DeductAllowance(owner, spender, a)
        PROVE  allowances' \in [Users \X Users -> Allowance]
    <2> DEFINE old == allowances[<<owner, spender>>]
               new == [old EXCEPT !.allowance = @ - a]
    <2>1. old \in Allowance /\ a <= old.allowance /\ a \in Nat
      BY <1>1, <1>2, <1>5 DEF DeductAllowance
    <2>2. allowances' = [allowances EXCEPT ![<<owner, spender>>] = new]
      BY <1>5 DEF DeductAllowance
    <2> HIDE DEF old
    <2>3. new \in Allowance
      BY <2>1 DEF Allowance
    <2> HIDE DEF new
    <2>4. QED
      BY <1>2, <2>2, <2>3
  <1>6. ASSUME NEW u \in Users, NEW a \in Amounts, Bond(u, a) \/ Unbond(u, a) \/ Burn(u, a)
        PROVE  RestOK'
    BY <1>4, <1>6 DEF Bond, Unbond, Burn
  <1>7. ASSUME NEW u \in Users, NEW m \in Minimums, BondAssets(u, m) PROVE RestOK'
    <2>1. tx' \in Tx /\ tx'.to \in Users
      BY <1>1, <1>2, <1>7 DEF BondAssets, NoTx, Tx
    <2>2. QED
      BY <1>2, <1>7, <2>1 DEF BondAssets, RestOK
  <1>8. ASSUME NEW u \in Users, NEW v \in Users, NEW a \in Amounts, Transfer(u, v, a)
        PROVE  RestOK'
    BY <1>4, <1>8 DEF Transfer
  <1>9. ASSUME NEW u \in Spenders, NEW v \in Users, NEW a \in Amounts, BurnFrom(u, v, a)
        PROVE  RestOK'
    <2>1. allowances' \in [Users \X Users -> Allowance]
      BY <1>1, <1>5, <1>9 DEF BurnFrom
    <2>2. QED
      BY <1>2, <1>9, <2>1 DEF BurnFrom, RestOK
  <1>10. ASSUME NEW u \in Users, NEW v \in Spenders, NEW a \in Grants, NEW e \in 0 .. Never,
                IncreaseAllowance(u, v, a, e)
         PROVE  RestOK'
    <2> DEFINE old == allowances[<<u, v>>]
               new == [exists |-> TRUE, allowance |-> old.allowance + a, expires |-> e]
    <2>1. old \in Allowance
      BY <1>1, <1>2
    <2>2. new \in Allowance
      BY <1>1, <2>1 DEF Allowance
    <2>3. allowances' = [allowances EXCEPT ![<<u, v>>] = new]
      BY <1>10 DEF IncreaseAllowance
    <2> HIDE DEF old, new
    <2>4. allowances' \in [Users \X Users -> Allowance]
      BY <1>2, <2>2, <2>3
    <2>5. QED
      BY <1>2, <1>10, <2>4 DEF IncreaseAllowance, RestOK
  <1>11. ASSUME NEW u \in Users, NEW v \in Spenders, NEW a \in Grants, NEW e \in 0 .. Never,
                DecreaseAllowance(u, v, a, e)
         PROVE  RestOK'
    <2> DEFINE old == allowances[<<u, v>>]
               new == IF a < old.allowance
                      THEN [exists |-> TRUE, allowance |-> old.allowance - a, expires |-> e]
                      ELSE NoAllowance
    <2>1. old \in Allowance
      BY <1>1, <1>2
    <2>2. NoAllowance \in Allowance
      BY <1>1 DEF NoAllowance, Allowance, Never
    <2>3. allowances' = [allowances EXCEPT ![<<u, v>>] = new]
      BY <1>11 DEF DecreaseAllowance
    <2> HIDE DEF old
    <2>4. new \in Allowance
      <3>1. CASE a < old.allowance
        BY <1>1, <2>1, <3>1 DEF Allowance
      <3>2. CASE ~(a < old.allowance)
        BY <2>2, <3>2
      <3>3. QED
        BY <3>1, <3>2
    <2> HIDE DEF new
    <2>5. allowances' \in [Users \X Users -> Allowance]
      BY <1>2, <2>3, <2>4
    <2>6. QED
      BY <1>2, <1>11, <2>5 DEF DecreaseAllowance, RestOK
  <1>12. ASSUME NEW u \in Spenders, NEW v \in Users, NEW w \in Users, NEW a \in Amounts,
                TransferFrom(u, v, w, a)
         PROVE  RestOK'
    <2>1. allowances' \in [Users \X Users -> Allowance]
      BY <1>1, <1>5, <1>12 DEF TransferFrom
    <2>2. QED
      BY <1>2, <1>12, <2>1 DEF TransferFrom, RestOK
  <1>13. ASSUME NEW p \in Rewards, NEW m \in Minimums, Compound(p, m) PROVE RestOK'
    <2>1. tx' \in Tx /\ tx'.call # "BondTo"
      BY <1>1, <1>2, <1>13 DEF Compound, NoTx, Tx
    <2>2. QED
      BY <1>2, <1>13, <2>1 DEF Compound, RestOK
  <1>14. ASSUME NEW got \in Receipts, NEW lp \in Receipts, RunMessages(got, lp) PROVE RestOK'
    <2>1. tx.spend \in Nat
      BY <1>2 DEF Tx
    <2>2. reward_held' \in Nat /\ held' \in Nat
      BY <1>1, <1>2, <1>14, <2>1 DEF RunMessages
    <2>3. tx' \in Tx /\ (tx'.call = "BondTo" => tx'.to \in Users)
      BY <1>2, <1>3, <1>14 DEF RunMessages, Tx
    <2>4. QED
      BY <1>2, <1>14, <2>2, <2>3 DEF RunMessages, RestOK
  <1>15. CASE BondTo
    <2>1. tx.prev_balance \in Nat
      BY <1>2 DEF Tx
    <2>2. held' \in Nat
      BY <1>2, <1>15, <2>1 DEF BondTo, Received
    <2>3. QED
      BY <1>2, <1>3, <1>15, <2>2 DEF BondTo, RestOK
  <1>16. CASE Stake
    <2>1. tx.prev_balance \in Nat
      BY <1>2 DEF Tx
    <2>2. held' \in Nat
      BY <1>2, <1>16, <2>1 DEF Stake, Received
    <2>3. QED
      BY <1>2, <1>3, <1>16, <2>2 DEF Stake, RestOK
  <1>17. CASE Revert
    <2>1. tx.prev_balance \in Nat /\ tx.undo \in Nat
      BY <1>2 DEF Tx
    <2>2. QED
      BY <1>2, <1>3, <1>17, <2>1 DEF Revert, RestOK
  <1>18. ASSUME NEW f \in Fees, UpdateConfig(f) PROVE RestOK'
    BY <1>1, <1>2, <1>18 DEF UpdateConfig, RestOK
  <1>19. ASSUME NEW a \in Amounts, DonateLp(a) PROVE RestOK'
    <2>1. held' \in Nat
      BY <1>1, <1>2, <1>19 DEF DonateLp
    <2>2. QED
      BY <1>2, <1>19, <2>1 DEF DonateLp, RestOK
  <1>20. CASE Tick
    BY <1>2, <1>20 DEF Tick, RestOK
  <1>21. CASE UNCHANGED vars
    BY <1>4, <1>21 DEF vars
  <1>22. QED
    BY <1>6, <1>7, <1>8, <1>9, <1>10, <1>11, <1>12, <1>13, <1>14, <1>15, <1>16, <1>17,
       <1>18, <1>19, <1>20, <1>21 DEF Next

-----------------------------------------------------------------------------
(* The theorems *)

\* The inductive invariant holds in every state.
THEOREM Invariance == Spec => []IInv
  <1>1. IInv <=> LedgerInv /\ RestOK
    BY DEF IInv, TypeOK, LedgerInv, RestOK
  <1>2. IInv /\ [Next]_vars => IInv'
    <2>1. SUFFICES ASSUME LedgerInv, RestOK, [Next]_vars PROVE LedgerInv' /\ RestOK'
      BY DEF IInv, TypeOK, LedgerInv, RestOK
    <2>2. QED
      BY <2>1, NextLedger, NextRest
  <1>3. QED
    BY <1>2, InitInvariant, PTL DEF Spec

\* Every variable of the vault keeps its type: no subtraction of the code
\* leaves the naturals, no division is by zero.
THEOREM TypeCorrect == Spec => []TypeOK
  <1>1. IInv => TypeOK
    BY DEF IInv
  <1>2. QED
    BY <1>1, Invariance, PTL

\* The share supply is the sum of the holders' shares (state.rs, bond.rs and
\* cw20.rs write them apart).
THEOREM SharesConserved == Spec => []ShareConservation
  <1>1. IInv => ShareConservation
    BY DEF IInv
  <1>2. QED
    BY <1>1, Invariance, PTL

\* There are never more shares than staked LP, whatever the rounding of
\* calc_bond_share and unbond.
THEOREM SharesAreBacked == Spec => []SharesBacked
  <1>1. IInv => SharesBacked
    BY DEF IInv
  <1>2. QED
    BY <1>1, Invariance, PTL

\* No subtraction of unbond fails behind its balance check.
THEOREM HoldersCanLeave == Spec => []UnbondNeverReverts
  <1>1. IInv => UnbondNeverReverts
    <2> SUFFICES ASSUME IInv, NEW u \in Users
                 PROVE  /\ reward[u].deposit_time <= now
                        /\ \A amount \in 1 .. Balance(u) :
                              LET share == UnbondShare(reward[u], amount, Balance(u))
                              IN  /\ share \in 1 .. reward[u].bond_share
                                  /\ share <= total_bond_share
                                  /\ amount <= staked
      BY DEF UnbondNeverReverts
    <2>1. LedgerInv /\ now \in Nat
      BY DEF IInv, TypeOK, LedgerInv
    <2>2. reward[u] \in RewardInfo /\ reward[u].deposit_time <= now
          /\ total_bond_share \in Nat /\ staked \in Nat
      BY <2>1 DEF LedgerInv, DepositsPast
    <2>3. reward[u].bond_share \in Nat /\ reward[u].bond_share <= total_bond_share
      BY <2>1, HolderBelowTotal
    <2>4. ASSUME NEW amount \in 1 .. Balance(u)
          PROVE  LET share == UnbondShare(reward[u], amount, Balance(u))
                 IN  /\ share \in 1 .. reward[u].bond_share
                     /\ share <= total_bond_share
                     /\ amount <= staked
      <3> DEFINE info == reward[u]
                 time == now
                 total == total_bond_share
                 lp == staked
                 share == UnbondShare(info, amount, UserBalance(info, total, lp, time))
      <3>1. /\ info \in RewardInfo /\ total \in Nat /\ lp \in Nat /\ time \in Nat
            /\ info.deposit_time <= time /\ info.bond_share <= total
        BY <2>1, <2>2, <2>3
      <3>2. UserBalance(info, total, lp, time) \in Nat
        BY <3>1, UserBalanceBounds
      <3>3. amount \in Nat \ {0} /\ amount <= UserBalance(info, total, lp, time)
        BY <3>2 DEF Balance
      <3> HIDE DEF info, time, total, lp
      <3>4. share \in 1 .. info.bond_share /\ amount <= lp
        BY <3>1, <3>3, UnbondShareBounds
      <3>5. QED
        BY <2>2, <2>3, <3>4 DEF info, time, total, lp, Balance
    <2>5. QED
      BY <2>2, <2>4
  <1>2. QED
    BY <1>1, Invariance, PTL

\* The LP behind a share never shrinks: rounding and early exits of some
\* holders are never paid by the others.
THEOREM PriceNeverFalls == Spec => SharePriceNeverFalls
  <1>1. IInv /\ [Next]_vars => [PriceStep]_vars
    BY NextLedger DEF IInv, TypeOK, LedgerInv, RestOK
  <1>2. PriceStep <=> (total_bond_share > 0 /\ total_bond_share' > 0 =>
                          staked' * total_bond_share >= staked * total_bond_share')
    BY DEF PriceStep
  <1>3. QED
    BY <1>1, <1>2, Invariance, PTL DEF Spec, SharePriceNeverFalls

-----------------------------------------------------------------------------
(***************************************************************************)
(* The vault implements SharePool: every step of AstroportFarm is, for the *)
(* balances of shares, the staked LP and the LP that lies idle, a step of  *)
(* the pool or none.                                                       *)
(***************************************************************************)

-----------------------------------------------------------------------------
(* The balances of shares *)

\* The supply is what the pool calls TotalShares.
LEMMA PoolTotal ==
    ASSUME LedgerInv
    PROVE  Pool!TotalShares = total_bond_share
  BY DEF LedgerInv, ShareConservation, Pool!TotalShares, Pool!Total, Pool!Units, Total, Units,
         Pool!Cardinality, Cardinality

\* A step that replaces one record changes one balance.
LEMMA BalanceUpdate ==
    ASSUME reward \in [Users -> RewardInfo], NEW u \in Users, NEW r,
           reward' = [reward EXCEPT ![u] = r]
    PROVE  /\ BondShares' = [BondShares EXCEPT ![u] = r.bond_share]
           /\ BondShares'[u] = r.bond_share /\ BondShares[u] = reward[u].bond_share
           /\ \A v \in Users \ {u} : BondShares'[v] = BondShares[v]
  BY DEF BondShares

\* Nothing happens to the pool.
LEMMA PoolRests ==
    ASSUME reward' = reward, staked' = staked, IdleLp' = IdleLp
    PROVE  UNCHANGED Pool!pool_vars
  BY DEF Pool!pool_vars, BondShares

-----------------------------------------------------------------------------
(* The steps of the pool *)

\* bond_internal mints at the present price.
LEMMA BondEnters ==
    ASSUME LedgerInv, NEW staker \in Users, NEW amount \in Nat,
           BondInternal(staker, amount), IdleLp' = IdleLp
    PROVE  Pool!Enter(staker)
  <1> DEFINE share == CalcBondShare(amount, total_bond_share, staked)
             deposit == CalcBondAmount(total_bond_share + share, staked + amount, share)
             old == reward[staker]
  <1>1. PICK pool \in PoolInfos :
           reward' = [reward EXCEPT ![staker] = BondInfo(@, share, deposit, now, pool)]
    BY DEF BondInternal
  <1>2. staked' = staked + amount /\ amount > 0
    BY DEF BondInternal
  <1>3. reward \in [Users -> RewardInfo] /\ staked \in Nat /\ total_bond_share \in Nat
        /\ old.bond_share \in Nat /\ share \in Nat
    BY CalcBondShareBounds DEF LedgerInv, RewardInfo
  <1> DEFINE new == BondInfo(old, share, deposit, now, pool)
  <1>4. new.bond_share = old.bond_share + share /\ reward' = [reward EXCEPT ![staker] = new]
    BY <1>1 DEF BondInfo
  <1>5. share = IF total_bond_share = 0 \/ staked = 0 THEN amount
                ELSE Pool!MulRatio(amount, total_bond_share, staked)
    BY DEF CalcBondShare, MulRatio, Pool!MulRatio
  <1> HIDE DEF new, share, deposit
  <1>6. /\ BondShares'[staker] = old.bond_share + share /\ BondShares[staker] = old.bond_share
        /\ \A v \in Users \ {staker} : BondShares'[v] = BondShares[v]
    BY <1>3, <1>4, BalanceUpdate
  <1>7. staked' - staked = amount /\ BondShares'[staker] - BondShares[staker] = share
    BY <1>2, <1>3, <1>6
  <1>8. QED
    BY <1>2, <1>5, <1>6, <1>7, PoolTotal DEF Pool!Enter, Pool!Only

\* Whoever gives up shares and takes at most his part of the LP leaves the
\* pool: unbond, and with nothing taken burn_internal.
LEMMA SharesLeavePool ==
    ASSUME LedgerInv, NEW owner \in Users, NEW share \in Nat, NEW amount \in Nat,
           share <= reward[owner].bond_share, amount <= staked,
           amount * total_bond_share <= staked * share,
           reward' = [reward EXCEPT ![owner] = UnbondInfo(@, share)],
           staked' = staked - amount, IdleLp' = IdleLp
    PROVE  Pool!Leave(owner)
  <1> DEFINE old == reward[owner]
             new == UnbondInfo(old, share)
  <1>1. /\ reward \in [Users -> RewardInfo] /\ staked \in Nat /\ total_bond_share \in Nat
        /\ old.bond_share \in Nat
    BY DEF LedgerInv, RewardInfo
  <1>2. new.bond_share = old.bond_share - share /\ reward' = [reward EXCEPT ![owner] = new]
    BY DEF UnbondInfo
  <1> HIDE DEF new
  <1>3. /\ BondShares'[owner] = old.bond_share - share /\ BondShares[owner] = old.bond_share
        /\ \A v \in Users \ {owner} : BondShares'[v] = BondShares[v]
    BY <1>1, <1>2, BalanceUpdate
  <1>4. /\ staked - staked' = amount /\ staked' >= 0
        /\ BondShares[owner] - BondShares'[owner] = share /\ BondShares'[owner] >= 0
    BY <1>1, <1>3
  <1>5. (staked - staked') * Pool!TotalShares <= (BondShares[owner] - BondShares'[owner]) * staked
    BY <1>1, <1>4, PoolTotal
  <1>6. QED
    BY <1>3, <1>4, <1>5 DEF Pool!Leave, Pool!Only

\* unbond: the early-exit rule and both roundings keep to the holder's part.
LEMMA UnbondLeaves ==
    ASSUME LedgerInv, now \in Nat, NEW user \in Users, NEW amount \in Nat,
           Unbond(user, amount)
    PROVE  Pool!Leave(user)
  <1> DEFINE info == reward[user]
             balance == UserBalance(info, total_bond_share, staked, now)
             share == UnbondShare(info, amount, balance)
  <1>1. /\ amount > 0 /\ info.deposit_time <= now
        /\ amount <= balance
        /\ reward' = [reward EXCEPT ![user] = UnbondInfo(@, share)]
        /\ staked' = staked - amount
        /\ held' = held /\ tx' = tx
    BY DEF Unbond, LedgerInv, DepositsPast
  <1>2. info \in RewardInfo /\ info.bond_share \in Nat /\ info.bond_share <= total_bond_share
        /\ total_bond_share \in Nat /\ staked \in Nat
    BY HolderBelowTotal DEF LedgerInv
  <1>3. share \in 1 .. info.bond_share
        /\ amount * total_bond_share <= staked * share
        /\ amount <= staked
    <2> DEFINE time == now
               total == total_bond_share
               lp == staked
    <2>1. time \in Nat /\ total \in Nat /\ lp \in Nat /\ amount \in Nat \ {0}
      BY <1>1, <1>2
    <2>2. info.deposit_time <= time /\ info.bond_share <= total
          /\ amount <= UserBalance(info, total, lp, time)
      BY <1>1, <1>2
    <2> HIDE DEF info, time, total, lp
    <2>3. LET taken == UnbondShare(info, amount, UserBalance(info, total, lp, time))
          IN  /\ taken \in 1 .. info.bond_share
              /\ amount * total <= lp * taken
              /\ amount <= lp
      BY <1>2, <2>1, <2>2, UnbondShareBounds
    <2>4. QED
      BY <2>3 DEF time, total, lp
  <1>4. IdleLp' = IdleLp
    BY <1>1 DEF IdleLp
  <1> HIDE DEF share, balance
  <1>5. share \in Nat /\ share <= reward[user].bond_share
    BY <1>2, <1>3
  <1>6. QED
    BY <1>1, <1>3, <1>4, <1>5, SharesLeavePool

\* burn_internal: the LP stays.
LEMMA BurnLeaves ==
    ASSUME LedgerInv, NEW owner \in Users, NEW share \in Nat,
           BurnInternal(owner, share), staked' = staked, IdleLp' = IdleLp
    PROVE  Pool!Leave(owner)
  <1> DEFINE amount == 0
  <1>1. share <= reward[owner].bond_share
        /\ reward' = [reward EXCEPT ![owner] = UnbondInfo(@, share)]
    BY DEF BurnInternal
  <1>2. staked \in Nat /\ total_bond_share \in Nat
    BY DEF LedgerInv
  <1>3. amount \in Nat /\ amount <= staked /\ staked' = staked - amount
        /\ amount * total_bond_share <= staked * share
    BY <1>2
  <1> HIDE DEF amount
  <1>4. QED
    BY <1>1, <1>3, SharesLeavePool

\* transfer_internal moves shares, or, to oneself, does nothing.
LEMMA TransferMoves ==
    ASSUME LedgerInv, NEW from \in Users, NEW to \in Users, NEW share \in Nat,
           TransferInternal(from, to, share), staked' = staked, IdleLp' = IdleLp
    PROVE  IF from = to THEN UNCHANGED Pool!pool_vars ELSE Pool!Move(from, to)
  <1> DEFINE sender == SendShares(reward[from], share)
             sent == [reward EXCEPT ![from] = sender]
             receiver == ReceiveShares(sent[to], sent[from], share)
  <1>1. share > 0 /\ share <= reward[from].bond_share
        /\ CanReceive(sent[to], sent[from], share)
        /\ reward' = [sent EXCEPT ![to] = receiver]
    BY DEF TransferInternal, TransferShares
  <1>2. reward \in [Users -> RewardInfo]
    BY DEF LedgerInv
  <1>3. reward[from] \in RewardInfo /\ reward[from].bond_share \in Nat
    BY <1>2 DEF RewardInfo
  <1>4. /\ sender \in RewardInfo
        /\ sender.bond_share = reward[from].bond_share - share
        /\ sender.transfer_share >= share
    BY <1>1, <1>3, SendSharesRecord
  <1> HIDE DEF sender
  <1>5. sent \in [Users -> RewardInfo] /\ sent[from] = sender
        /\ \A u \in Users \ {from} : sent[u] = reward[u]
    BY <1>2, <1>4
  <1> HIDE DEF sent
  <1>6. sent[to] \in RewardInfo /\ sent[to].bond_share \in Nat
    BY <1>5 DEF RewardInfo
  <1>7. receiver.bond_share = sent[to].bond_share + share
    BY <1>1, <1>4, <1>5, <1>6, ReceiveSharesRecord
  <1> HIDE DEF receiver
  <1>8. \A u \in Users : reward'[u] = IF u = to THEN receiver ELSE sent[u]
    BY <1>1, <1>5
  <1>9. \A u \in Users : /\ BondShares[u] = reward[u].bond_share
                         /\ BondShares'[u] = reward'[u].bond_share
    BY DEF BondShares
  <1>10. \A u \in Users : reward[u].bond_share \in Nat
    BY <1>2 DEF RewardInfo
  <1>11. CASE from = to
    <2>1. \A u \in Users : BondShares'[u] = BondShares[u]
      BY <1>3, <1>4, <1>5, <1>7, <1>8, <1>9, <1>11
    <2>2. BondShares' = BondShares
      BY <2>1 DEF BondShares
    <2>3. QED
      BY <1>11, <2>2 DEF Pool!pool_vars
  <1>12. CASE from # to
    <2>1. BondShares[from] - BondShares'[from] = share
      BY <1>3, <1>4, <1>5, <1>8, <1>9, <1>12
    <2>2. BondShares'[from] = BondShares[from] - share
          /\ BondShares'[to] = BondShares[to] + share
          /\ \A u \in Users \ {from, to} : BondShares'[u] = BondShares[u]
      BY <1>3, <1>4, <1>5, <1>7, <1>8, <1>9, <1>12
    <2>3. BondShares' = [BondShares EXCEPT ![from] = @ - share, ![to] = @ + share]
      BY <1>12, <2>2 DEF BondShares
    <2>4. share \in 1 .. BondShares[from]
      BY <1>1, <1>3, <1>9
    <2>5. QED
      BY <1>12, <2>1, <2>3, <2>4 DEF Pool!Move
  <1>13. QED
    BY <1>11, <1>12

-----------------------------------------------------------------------------
(***************************************************************************)
(* LP arrives on the vault only with the messages of a transaction, so the *)
(* handler's reading of the balance is still true when they run.           *)
(***************************************************************************)
BalanceRead == tx.step = "messages" => held = tx.prev_balance

\* Every step keeps the reading true.
LEMMA BalanceReadStep ==
    ASSUME BalanceRead, [Next]_vars
    PROVE  BalanceRead'
  <1> USE DEF BalanceRead
  <1>1. NoTx.step # "messages"
    BY DEF NoTx
  <1>2. ASSUME tx' = NoTx PROVE BalanceRead'
    BY <1>1, <1>2
  <1>3. ASSUME tx = NoTx, tx' = tx PROVE BalanceRead'
    BY <1>1, <1>3
  <1>4. ASSUME NEW u \in Users, NEW a \in Amounts, Bond(u, a) \/ Unbond(u, a) \/ Burn(u, a)
        PROVE  BalanceRead'
    BY <1>3, <1>4 DEF Bond, Unbond, Burn
  <1>5. ASSUME NEW u \in Users, NEW m \in Minimums, BondAssets(u, m) PROVE BalanceRead'
    BY <1>5 DEF BondAssets, NoTx
  <1>6. ASSUME NEW u, NEW v, NEW a, Transfer(u, v, a) \/ BurnFrom(u, v, a)
        PROVE  BalanceRead'
    BY <1>3, <1>6 DEF Transfer, BurnFrom
  <1>7. ASSUME NEW u \in Users, NEW v \in Spenders, NEW a \in Grants, NEW e \in 0 .. Never,
               IncreaseAllowance(u, v, a, e) \/ DecreaseAllowance(u, v, a, e)
        PROVE  BalanceRead'
    BY <1>3, <1>7 DEF IncreaseAllowance, DecreaseAllowance
  <1>8. ASSUME NEW u \in Spenders, NEW v \in Users, NEW w \in Users, NEW a \in Amounts,
               TransferFrom(u, v, w, a)
        PROVE  BalanceRead'
    BY <1>3, <1>8 DEF TransferFrom
  <1>9. ASSUME NEW p \in Rewards, NEW m \in Minimums, Compound(p, m) PROVE BalanceRead'
    BY <1>9 DEF Compound, NoTx
  <1>10. ASSUME NEW got \in Receipts, NEW lp \in Receipts, RunMessages(got, lp)
         PROVE  BalanceRead'
    <2>1. tx.step = "messages" /\ (tx' = NoTx \/ tx' = [tx EXCEPT !.step = "callback"])
      BY <1>10 DEF RunMessages
    <2>2. CASE tx' = [tx EXCEPT !.step = "callback"]
      <3>1. CASE tx'.step = "messages"
        BY <2>1, <2>2, <3>1
      <3>2. QED
        BY <3>1
    <2>3. QED
      BY <1>2, <2>1, <2>2
  <1>11. CASE BondTo \/ Stake \/ Revert
    BY <1>2, <1>11 DEF BondTo, Stake, Revert
  <1>12. ASSUME NEW f \in Fees, UpdateConfig(f) PROVE BalanceRead'
    BY <1>3, <1>12 DEF UpdateConfig
  <1>13. ASSUME NEW a \in Amounts, DonateLp(a) PROVE BalanceRead'
    BY <1>3, <1>13 DEF DonateLp
  <1>14. CASE Tick
    BY <1>3, <1>14 DEF Tick
  <1>15. CASE UNCHANGED vars
    BY <1>15 DEF vars
  <1>16. QED
    BY <1>4, <1>5, <1>6, <1>7, <1>8, <1>9, <1>10, <1>11, <1>12, <1>13, <1>14, <1>15 DEF Next

\* Every step of the vault is a step of the pool, or none.
LEMMA PoolStep ==
    ASSUME LedgerInv, RestOK, BalanceRead, [Next]_vars
    PROVE  [Pool!Next]_Pool!pool_vars
  <1> DEFINE Goal == [Pool!Next]_Pool!pool_vars
  <1>1. Amounts \subseteq Nat
    BY FarmAssumption
  <1>2. now \in Nat /\ held \in Nat /\ staked \in Nat /\ tx \in Tx
    BY DEF LedgerInv, RestOK
  <1>3. tx.prev_balance \in Nat /\ NoTx.step = "none"
    BY <1>2 DEF Tx, NoTx
  <1>4. ASSUME NEW u \in Users, Pool!Enter(u) \/ Pool!Leave(u) PROVE Goal
    BY <1>4 DEF Pool!Next
  <1>5. ASSUME NEW u \in Users, NEW v \in Users,
               IF u = v THEN UNCHANGED Pool!pool_vars ELSE Pool!Move(u, v)
        PROVE  Goal
    <2>1. CASE u = v
      BY <1>5, <2>1
    <2>2. CASE u # v
      BY <1>5, <2>2 DEF Pool!Next
    <2>3. QED
      BY <2>1, <2>2
  <1>6. ASSUME reward' = reward, staked' = staked, IdleLp' = IdleLp PROVE Goal
    BY <1>6, PoolRests
  <1>7. ASSUME held' = held, tx' = tx PROVE IdleLp' = IdleLp
    BY <1>7 DEF IdleLp
  <1> HIDE DEF Goal
  <1>8. ASSUME NEW u \in Users, NEW a \in Amounts, Bond(u, a) PROVE Goal
    <2>1. a \in Nat /\ BondInternal(u, a) /\ IdleLp' = IdleLp
      BY <1>1, <1>7, <1>8 DEF Bond
    <2>2. QED
      BY <1>4, <2>1, BondEnters
  <1>9. ASSUME NEW u \in Users, NEW a \in Amounts, Unbond(u, a) PROVE Goal
    BY <1>1, <1>2, <1>4, <1>9, UnbondLeaves
  <1>10. ASSUME NEW u \in Users, NEW a \in Amounts, Burn(u, a) PROVE Goal
    <2>1. a \in Nat /\ BurnInternal(u, a) /\ staked' = staked /\ IdleLp' = IdleLp
      BY <1>1, <1>7, <1>10 DEF Burn
    <2>2. QED
      BY <1>4, <2>1, BurnLeaves
  <1>11. ASSUME NEW u \in Spenders, NEW v \in Users, NEW a \in Amounts, BurnFrom(u, v, a)
         PROVE  Goal
    <2>1. a \in Nat /\ BurnInternal(v, a) /\ staked' = staked /\ IdleLp' = IdleLp
      BY <1>1, <1>7, <1>11 DEF BurnFrom
    <2>2. QED
      BY <1>4, <2>1, BurnLeaves
  <1>12. ASSUME NEW u \in Users, NEW v \in Users, NEW a \in Amounts, Transfer(u, v, a)
         PROVE  Goal
    <2>1. a \in Nat /\ TransferInternal(u, v, a) /\ staked' = staked /\ IdleLp' = IdleLp
      BY <1>1, <1>7, <1>12 DEF Transfer
    <2>2. QED
      BY <1>5, <2>1, TransferMoves
  <1>13. ASSUME NEW u \in Spenders, NEW v \in Users, NEW w \in Users, NEW a \in Amounts,
                TransferFrom(u, v, w, a)
         PROVE  Goal
    <2>1. a \in Nat /\ TransferInternal(v, w, a) /\ staked' = staked /\ IdleLp' = IdleLp
      BY <1>1, <1>7, <1>13 DEF TransferFrom
    <2>2. QED
      BY <1>5, <2>1, TransferMoves
  <1>14. ASSUME tx.step = "callback", tx' = NoTx, held' = held - Received
         PROVE  IdleLp = tx.prev_balance /\ IdleLp' = tx.prev_balance
    <2>1. tx # NoTx
      BY <1>3, <1>14
    <2>2. held' = tx.prev_balance
      BY <1>2, <1>3, <1>14 DEF Received
    <2>3. QED
      BY <1>14, <2>1, <2>2 DEF IdleLp
  <1>15. ASSUME BondTo PROVE Goal
    <2>1. BondInternal(tx.to, Received) /\ tx.to \in Users /\ IdleLp' = IdleLp
      BY <1>14, <1>15 DEF BondTo, RestOK
    <2>2. Received \in Nat
      BY <1>2, <1>3, <2>1 DEF Received, BondInternal
    <2> DEFINE staker == tx.to
               amount == Received
    <2>3. staker \in Users /\ amount \in Nat /\ BondInternal(staker, amount)
      BY <2>1, <2>2
    <2> HIDE DEF staker, amount
    <2>4. QED
      BY <1>4, <2>1, <2>3, BondEnters
  <1>16. ASSUME Stake PROVE Goal
    <2>1. /\ Received > 0 /\ staked' = staked + Received /\ reward' = reward
          /\ IdleLp' = IdleLp
      BY <1>14, <1>16 DEF Stake
    <2>2. Received \in Int
      BY <1>2, <1>3 DEF Received
    <2>3. staked' > staked /\ BondShares' = BondShares
      BY <1>2, <2>1, <2>2 DEF BondShares
    <2>4. Pool!Gain
      BY <2>1, <2>3 DEF Pool!Gain
    <2>5. QED
      BY <2>4 DEF Goal, Pool!Next
  <1>17. ASSUME tx = NoTx, tx'.step = "messages", tx'.prev_balance = held
         PROVE  IdleLp' = IdleLp
    BY <1>3, <1>17 DEF IdleLp
  <1>18. ASSUME NEW u \in Users, NEW m \in Minimums, BondAssets(u, m) PROVE Goal
    <2>1. tx = NoTx /\ tx'.step = "messages" /\ tx'.prev_balance = held
      BY <1>18 DEF BondAssets, NoTx
    <2>2. QED
      BY <1>6, <1>17, <1>18, <2>1 DEF BondAssets
  <1>19. ASSUME NEW p \in Rewards, NEW m \in Minimums, Compound(p, m) PROVE Goal
    <2>1. tx = NoTx /\ tx'.step = "messages" /\ tx'.prev_balance = held
      BY <1>19 DEF Compound, NoTx
    <2>2. reward' = reward /\ staked' = staked
      BY <1>19 DEF Compound
    <2>3. QED
      BY <1>6, <1>17, <2>1, <2>2
  <1>20. ASSUME NEW got \in Receipts, NEW lp \in Receipts, RunMessages(got, lp) PROVE Goal
    <2>1. /\ tx.step = "messages" /\ reward' = reward /\ staked' = staked
          /\ held' = held + lp /\ (tx.call = "none" => lp = 0)
          /\ tx' = IF tx.call = "none" THEN NoTx ELSE [tx EXCEPT !.step = "callback"]
      BY <1>20 DEF RunMessages
    <2>2. IdleLp = tx.prev_balance /\ held = tx.prev_balance
      BY <1>3, <2>1 DEF IdleLp, BalanceRead
    <2>3. CASE tx.call = "none"
      <3>1. held' = tx.prev_balance /\ tx' = NoTx
        BY <1>2, <2>1, <2>2, <2>3
      <3>2. QED
        BY <1>6, <2>1, <2>2, <3>1 DEF IdleLp
    <2>4. CASE tx.call # "none"
      <3>1. tx'.step = "callback" /\ tx'.prev_balance = tx.prev_balance
        BY <1>2, <2>1, <2>4 DEF Tx
      <3>2. IdleLp' = tx.prev_balance
        BY <1>3, <3>1 DEF IdleLp
      <3>3. QED
        BY <1>6, <2>1, <2>2, <3>2
    <2>5. QED
      BY <2>3, <2>4
  <1>21. ASSUME Revert PROVE Goal
    BY <1>6, <1>21 DEF Revert, IdleLp
  <1>22. ASSUME NEW a \in Amounts, DonateLp(a) PROVE Goal
    <2>1. a \in Nat /\ IdleLp = held /\ IdleLp' = held + a /\ reward' = reward /\ staked' = staked
      BY <1>1, <1>22 DEF DonateLp, IdleLp
    <2>2. CASE a = 0
      BY <1>2, <1>6, <2>1, <2>2
    <2>3. CASE a # 0
      <3>1. IdleLp' > IdleLp /\ BondShares' = BondShares
        BY <1>2, <2>1, <2>3 DEF BondShares
      <3>2. Pool!Donate
        BY <2>1, <3>1 DEF Pool!Donate
      <3>3. QED
        BY <3>2 DEF Goal, Pool!Next
    <2>4. QED
      BY <2>2, <2>3
  <1>23. ASSUME NEW u \in Users, NEW v \in Spenders, NEW a \in Grants, NEW e \in 0 .. Never,
                IncreaseAllowance(u, v, a, e) \/ DecreaseAllowance(u, v, a, e)
         PROVE  Goal
    BY <1>6, <1>7, <1>23 DEF IncreaseAllowance, DecreaseAllowance
  <1>24. ASSUME NEW f \in Fees, UpdateConfig(f) PROVE Goal
    BY <1>6, <1>7, <1>24 DEF UpdateConfig
  <1>25. ASSUME Tick PROVE Goal
    BY <1>6, <1>7, <1>25 DEF Tick
  <1>26. ASSUME UNCHANGED vars PROVE Goal
    BY <1>6, <1>7, <1>26 DEF vars
  <1>27. Goal
    BY <1>8, <1>9, <1>10, <1>11, <1>12, <1>13, <1>15, <1>16, <1>18, <1>19, <1>20, <1>21,
       <1>22, <1>23, <1>24, <1>25, <1>26 DEF Next
  <1>28. QED
    BY <1>27 DEF Goal

-----------------------------------------------------------------------------
\* AstroportFarm implements SharePool: in whatever order holders bond,
\* unbond, transfer, burn and compound, and whether a transaction completes
\* or reverts, they enter and leave at the price of the moment, and LP that
\* lay on the vault is credited to nobody.
THEOREM Refines == Spec => ImplementsSharePool
  <1>1. Init => Pool!Init
    <2>1. SUFFICES ASSUME Init PROVE Pool!Init
      OBVIOUS
    <2>2. BondShares = [u \in Users |-> 0]
      BY <2>1 DEF Init, BondShares, EmptyInfo
    <2>3. staked = 0 /\ IdleLp = 0
      BY <2>1 DEF Init, IdleLp
    <2>4. QED
      BY <2>2, <2>3 DEF Pool!Init
  <1>2. Init => BalanceRead
    BY DEF Init, BalanceRead, NoTx
  <1>3. BalanceRead /\ [Next]_vars => BalanceRead'
    BY BalanceReadStep
  <1>4. IInv /\ BalanceRead /\ [Next]_vars => [Pool!Next]_Pool!pool_vars
    BY PoolStep DEF IInv, TypeOK, LedgerInv, RestOK
  <1>5. QED
    BY <1>1, <1>2, <1>3, <1>4, Invariance, PTL DEF Spec, ImplementsSharePool, Pool!Spec

-----------------------------------------------------------------------------
(* The cost of a deposit *)

\* The cost of the record r covers its deposit at the price p.
Covers(p, r) == p * r.deposit_amount <= r.deposit_cost

\* A deposit is priced at no less than the price it is bought at.
LEMMA BondCovers ==
    ASSUME NEW p \in Nat, NEW info \in RewardInfo, Covers(p, info),
           NEW share, NEW deposit \in Nat, NEW time,
           NEW pool \in [amount: Nat, total_share: Nat \ {0}],
           p * pool.total_share <= pool.amount
    PROVE  Covers(p, BondInfo(info, share, deposit, time, pool))
  <1> DEFINE a == pool.amount
             t == pool.total_share
             d == info.deposit_amount
             c == info.deposit_cost
             cost == MulRatio(a, deposit, t)
  <1>1. a \in Nat /\ t \in Nat \ {0} /\ d \in Nat /\ c \in Nat
    BY DEF RewardInfo
  <1>2. cost \in Nat /\ a * deposit < t * cost + t
    BY <1>1, MulRatioBounds
  <1>3. p * t <= a /\ p * d <= c
    BY DEF Covers
  <1>4. BondInfo(info, share, deposit, time, pool).deposit_amount = d + deposit
        /\ BondInfo(info, share, deposit, time, pool).deposit_cost = c + cost
    BY DEF BondInfo
  <1> HIDE DEF a, t, d, c, cost
  <1>5. p * deposit <= cost
    <2>1. p * t \in Nat /\ p * deposit \in Nat
      BY <1>1
    <2>2. (p * t) * deposit <= a * deposit
      BY <1>1, <1>3, <2>1, TimesMonotone
    <2>3. (p * t) * deposit = (p * deposit) * t
      BY <1>1
    <2>4. (cost + 1) * t = t * cost + t
      BY <1>1, <1>2
    <2> DEFINE q == p * deposit
    <2>5. q \in Nat /\ q * t < (cost + 1) * t
      BY <1>1, <1>2, <2>1, <2>2, <2>3, <2>4
    <2> HIDE DEF q
    <2>6. SUFFICES ASSUME cost + 1 <= q PROVE FALSE
      BY <1>2, <2>5 DEF q
    <2>7. (cost + 1) * t <= q * t
      BY <1>1, <1>2, <2>5, <2>6, TimesMonotone
    <2>8. QED
      BY <1>1, <1>2, <2>5, <2>7
  <1>6. p * (d + deposit) = p * d + p * deposit
    BY <1>1
  <1>7. p * d \in Nat /\ p * deposit \in Nat
    BY <1>1
  <1>8. p * (d + deposit) <= c + cost
    BY <1>1, <1>2, <1>3, <1>5, <1>6, <1>7
  <1>9. QED
    BY <1>4, <1>8 DEF Covers

\* Deposit and cost shrink in the same ratio, and the cost is rounded down
\* from the larger number.
LEMMA RatioCovers ==
    ASSUME NEW p \in Nat, NEW d \in Nat, NEW c \in Nat, p * d <= c,
           NEW new \in Nat, NEW old \in Nat \ {0}
    PROVE  p * MulRatio(d, new, old) <= MulRatio(c, new, old)
  <1> DEFINE e == MulRatio(d, new, old)
             f == MulRatio(c, new, old)
  <1>1. e \in Nat /\ old * e <= d * new
    BY MulRatioBounds
  <1>2. f \in Nat /\ c * new < old * f + old
    BY MulRatioBounds
  <1> HIDE DEF e, f
  <1>3. p * (old * e) <= p * (d * new)
    BY <1>1, TimesMonotone
  <1>4. p * (d * new) = (p * d) * new /\ p * (old * e) = old * (p * e)
    BY <1>1
  <1>5. (p * d) * new <= c * new
    BY TimesMonotone
  <1> DEFINE g == p * e
  <1>6. g \in Nat /\ old * g < old * f + old
    <2>1. g \in Nat
      BY <1>1
    <2>2. old * g <= c * new
      BY <1>3, <1>4, <1>5, <1>1
    <2>3. old * g \in Nat /\ c * new \in Nat /\ old * f \in Nat
      BY <1>2, <2>1
    <2> HIDE DEF g
    <2>4. QED
      BY <1>2, <2>1, <2>2, <2>3
  <1> HIDE DEF g
  <1>7. SUFFICES ASSUME f + 1 <= g PROVE FALSE
    BY <1>2, <1>6 DEF g, e, f
  <1>8. old * (f + 1) <= old * g /\ old * (f + 1) = old * f + old
    BY <1>2, <1>6, <1>7, TimesMonotone
  <1>9. QED
    BY <1>2, <1>6, <1>8

\* unbond and burn_internal keep the cost above the deposit.
LEMMA UnbondCovers ==
    ASSUME NEW p \in Nat, NEW info \in RewardInfo, Covers(p, info),
           NEW share \in Nat \ {0}, share <= info.bond_share
    PROVE  Covers(p, UnbondInfo(info, share))
  <1> DEFINE d == info.deposit_amount
             c == info.deposit_cost
             old == info.bond_share + info.transfer_share
             new == old - share
  <1>1. d \in Nat /\ c \in Nat /\ old \in Nat \ {0} /\ new \in Nat
    BY DEF RewardInfo
  <1>2. p * d <= c
    BY DEF Covers
  <1>3. UnbondInfo(info, share).deposit_amount = MulRatio(d, new, old)
        /\ UnbondInfo(info, share).deposit_cost = MulRatio(c, new, old)
    BY DEF UnbondInfo
  <1> HIDE DEF d, c, new, old
  <1>4. QED
    BY <1>1, <1>2, <1>3, RatioCovers DEF Covers

\* transfer_internal passes shares on at the average cost of the sender.
LEMMA ReceiveCovers ==
    ASSUME NEW p \in Nat, NEW receiver \in RewardInfo, NEW sender \in RewardInfo,
           Covers(p, receiver), Covers(p, sender),
           NEW share \in Nat \ {0}, share <= sender.transfer_share,
           CanReceive(receiver, sender, share)
    PROVE  Covers(p, ReceiveShares(receiver, sender, share))
  <1>1. CASE receiver.transfer_share < share
    <2> DEFINE new == share - receiver.transfer_share
               old == sender.bond_share + sender.transfer_share
               deposit == MulRatio(sender.deposit_amount, new, old)
               home == WithShares(receiver, receiver.bond_share + receiver.transfer_share, 0)
               pool == [amount |-> sender.deposit_cost, total_share |-> sender.deposit_amount]
               time == sender.deposit_time
    <2>1. new \in Nat /\ old \in Nat \ {0} /\ sender.deposit_amount \in Nat
      BY <1>1 DEF RewardInfo
    <2>2. deposit \in Nat
      BY <2>1, MulRatioBounds
    <2>3. home \in RewardInfo /\ Covers(p, home)
      BY DEF WithShares, RewardInfo, Covers
    <2>4. pool \in [amount: Nat, total_share: Nat \ {0}]
      BY <1>1 DEF CanReceive, RewardInfo
    <2>5. p * pool.total_share <= pool.amount
      BY DEF Covers
    <2>6. ReceiveShares(receiver, sender, share) = BondInfo(home, new, deposit, time, pool)
      BY <1>1 DEF ReceiveShares
    <2> HIDE DEF new, old, deposit, home, pool, time
    <2>7. QED
      BY <2>2, <2>3, <2>4, <2>5, <2>6, BondCovers
  <1>2. CASE ~(receiver.transfer_share < share)
    BY <1>2 DEF ReceiveShares, WithShares, Covers
  <1>3. QED
    BY <1>1, <1>2

\* The cost of every record covers its deposit at the price p.
AllCover(p, rw) == \A u \in Users : Covers(p, rw[u])

\* bond_internal.
LEMMA BondInternalCovers ==
    ASSUME LedgerInv, NEW p \in Nat, FloorPrice(p), AllCover(p, reward),
           NEW staker \in Users, NEW amount \in Nat, BondInternal(staker, amount)
    PROVE  AllCover(p, reward')
  <1> DEFINE share == CalcBondShare(amount, total_bond_share, staked)
             deposit == CalcBondAmount(total_bond_share + share, staked + amount, share)
             old == reward[staker]
  <1>1. PICK pool \in PoolInfos :
           reward' = [reward EXCEPT ![staker] = BondInfo(@, share, deposit, now, pool)]
    BY DEF BondInternal
  <1>2. share \in Nat /\ deposit \in Nat
    <2>1. total_bond_share \in Nat /\ staked \in Nat
      BY DEF LedgerInv
    <2>2. share \in Nat
      BY <2>1, CalcBondShareBounds
    <2>3. total_bond_share + share \in Nat /\ staked + amount \in Nat
      BY <2>1, <2>2
    <2> HIDE DEF share
    <2>4. QED
      BY <2>2, <2>3, CalcBondAmountBounds
  <1>3. pool \in [amount: Nat, total_share: Nat \ {0}] /\ p * pool.total_share <= pool.amount
    BY FarmAssumption DEF FloorPrice
  <1>4. old \in RewardInfo /\ Covers(p, old) /\ reward \in [Users -> RewardInfo]
    BY DEF LedgerInv, AllCover
  <1> DEFINE time == now
             new == BondInfo(old, share, deposit, time, pool)
  <1> HIDE DEF share, deposit, old, time
  <1>5. Covers(p, new)
    BY <1>2, <1>3, <1>4, BondCovers
  <1>6. reward' = [reward EXCEPT ![staker] = new]
    BY <1>1 DEF old, time
  <1> HIDE DEF new
  <1>7. QED
    BY <1>4, <1>5, <1>6 DEF AllCover

\* unbond and burn_internal.
LEMMA LeaveCovers ==
    ASSUME LedgerInv, NEW p \in Nat, AllCover(p, reward),
           NEW owner \in Users, NEW share \in Nat \ {0}, share <= reward[owner].bond_share,
           reward' = [reward EXCEPT ![owner] = UnbondInfo(@, share)]
    PROVE  AllCover(p, reward')
  <1> DEFINE old == reward[owner]
             new == UnbondInfo(old, share)
  <1>1. old \in RewardInfo /\ Covers(p, old) /\ reward \in [Users -> RewardInfo]
        /\ share <= old.bond_share
    BY DEF LedgerInv, AllCover
  <1>2. reward' = [reward EXCEPT ![owner] = new]
    OBVIOUS
  <1> HIDE DEF old
  <1>3. Covers(p, new)
    BY <1>1, UnbondCovers
  <1> HIDE DEF new
  <1>4. QED
    BY <1>1, <1>2, <1>3 DEF AllCover

\* transfer_internal: the sender's deposit and cost stay, the receiver is
\* read after the sender is written.
LEMMA TransferCovers ==
    ASSUME LedgerInv, NEW p \in Nat, AllCover(p, reward),
           NEW from \in Users, NEW to \in Users, NEW share \in Nat,
           TransferInternal(from, to, share)
    PROVE  AllCover(p, reward')
  <1> DEFINE sender == SendShares(reward[from], share)
             sent == [reward EXCEPT ![from] = sender]
             receiver == ReceiveShares(sent[to], sent[from], share)
  <1>1. share \in Nat \ {0} /\ share <= reward[from].bond_share
        /\ CanReceive(sent[to], sent[from], share)
        /\ reward' = [sent EXCEPT ![to] = receiver]
    BY DEF TransferInternal, TransferShares
  <1>2. reward \in [Users -> RewardInfo] /\ \A u \in Users : Covers(p, reward[u])
    BY DEF LedgerInv, AllCover
  <1>3. /\ sender \in RewardInfo /\ sender.transfer_share >= share
        /\ Covers(p, sender)
    <2>1. reward[from] \in RewardInfo
      BY <1>2
    <2>2. sender \in RewardInfo /\ sender.transfer_share >= share
      BY <1>1, <2>1, SendSharesRecord
    <2>3. Covers(p, sender)
      BY <1>2 DEF SendShares, WithShares, Covers
    <2>4. QED
      BY <2>2, <2>3
  <1> HIDE DEF sender
  <1>4. /\ sent \in [Users -> RewardInfo] /\ sent[from] = sender
        /\ \A u \in Users : Covers(p, sent[u])
    BY <1>2, <1>3
  <1> HIDE DEF sent
  <1>5. Covers(p, receiver)
    <2>1. sent[to] \in RewardInfo /\ sent[from] \in RewardInfo
          /\ Covers(p, sent[to]) /\ Covers(p, sent[from])
      BY <1>4
    <2>2. share <= sent[from].transfer_share
      BY <1>1, <1>3, <1>4 DEF RewardInfo
    <2>3. QED
      BY <1>1, <2>1, <2>2, ReceiveCovers
  <1> HIDE DEF receiver
  <1>6. QED
    BY <1>1, <1>4, <1>5 DEF AllCover

\* Every step keeps the cost of every record above its deposit.
LEMMA CostStep ==
    ASSUME LedgerInv, RestOK, NEW p \in Nat, FloorPrice(p), AllCover(p, reward), [Next]_vars
    PROVE  AllCover(p, reward')
  <1>1. Amounts \subseteq Nat
    BY FarmAssumption
  <1>2. ASSUME reward' = reward PROVE AllCover(p, reward')
    BY <1>2 DEF AllCover
  <1>3. ASSUME NEW u \in Users, NEW a \in Amounts, Bond(u, a) PROVE AllCover(p, reward')
    <2>1. a \in Nat /\ BondInternal(u, a)
      BY <1>1, <1>3 DEF Bond
    <2>2. QED
      BY <2>1, BondInternalCovers
  <1>4. ASSUME NEW u \in Users, NEW a \in Amounts, Unbond(u, a) PROVE AllCover(p, reward')
    <2> DEFINE info == reward[u]
               balance == UserBalance(info, total_bond_share, staked, now)
               share == UnbondShare(info, a, balance)
    <2>1. /\ a > 0 /\ info.deposit_time <= now /\ a <= balance
          /\ reward' = [reward EXCEPT ![u] = UnbondInfo(@, share)]
      BY <1>4 DEF Unbond, LedgerInv, DepositsPast
    <2>2. info \in RewardInfo /\ info.bond_share \in Nat /\ info.bond_share <= total_bond_share
          /\ total_bond_share \in Nat /\ staked \in Nat /\ now \in Nat
      BY HolderBelowTotal DEF LedgerInv, RestOK
    <2>3. share \in 1 .. info.bond_share
      <3> DEFINE time == now
                 total == total_bond_share
                 lp == staked
      <3>1. time \in Nat /\ total \in Nat /\ lp \in Nat /\ a \in Nat \ {0}
        BY <1>1, <2>1, <2>2
      <3>2. info.deposit_time <= time /\ info.bond_share <= total
            /\ a <= UserBalance(info, total, lp, time)
        BY <2>1, <2>2
      <3> HIDE DEF info, time, total, lp
      <3>3. LET taken == UnbondShare(info, a, UserBalance(info, total, lp, time))
            IN  /\ taken \in 1 .. info.bond_share
                /\ a * total <= lp * taken
                /\ a <= lp
        BY <2>2, <3>1, <3>2, UnbondShareBounds
      <3>4. QED
        BY <3>3 DEF time, total, lp
    <2> HIDE DEF share, balance
    <2>4. share \in Nat \ {0} /\ share <= reward[u].bond_share
      BY <2>2, <2>3
    <2>5. QED
      BY <2>1, <2>4, LeaveCovers
  <1>5. ASSUME NEW u \in Users, NEW a \in Amounts, Burn(u, a) PROVE AllCover(p, reward')
    <2>1. a \in Nat \ {0} /\ a <= reward[u].bond_share
          /\ reward' = [reward EXCEPT ![u] = UnbondInfo(@, a)]
      BY <1>1, <1>5 DEF Burn, BurnInternal
    <2>2. QED
      BY <2>1, LeaveCovers
  <1>6. ASSUME NEW u \in Spenders, NEW v \in Users, NEW a \in Amounts, BurnFrom(u, v, a)
        PROVE  AllCover(p, reward')
    <2>1. a \in Nat \ {0} /\ a <= reward[v].bond_share
          /\ reward' = [reward EXCEPT ![v] = UnbondInfo(@, a)]
      BY <1>1, <1>6 DEF BurnFrom, BurnInternal
    <2>2. QED
      BY <2>1, LeaveCovers
  <1>7. ASSUME NEW u \in Users, NEW v \in Users, NEW a \in Amounts, Transfer(u, v, a)
        PROVE  AllCover(p, reward')
    BY <1>1, <1>7, TransferCovers DEF Transfer
  <1>8. ASSUME NEW u \in Spenders, NEW v \in Users, NEW w \in Users, NEW a \in Amounts,
               TransferFrom(u, v, w, a)
        PROVE  AllCover(p, reward')
    BY <1>1, <1>8, TransferCovers DEF TransferFrom
  <1>9. CASE BondTo
    <2>1. tx.to \in Users /\ tx.prev_balance \in Nat /\ held \in Nat
          /\ BondInternal(tx.to, Received)
      BY <1>9 DEF RestOK, BondTo, Tx
    <2> DEFINE staker == tx.to
               amount == Received
    <2>2. Received \in Nat
      BY <2>1 DEF Received, BondInternal
    <2>3. staker \in Users /\ amount \in Nat /\ BondInternal(staker, amount)
      BY <2>1, <2>2
    <2> HIDE DEF staker, amount
    <2>4. QED
      BY <2>3, BondInternalCovers
  <1>10. ASSUME NEW u \in Users, NEW m \in Minimums, BondAssets(u, m)
         PROVE  AllCover(p, reward')
    BY <1>2, <1>10 DEF BondAssets
  <1>11. ASSUME NEW u \in Users, NEW v \in Spenders, NEW a \in Grants, NEW e \in 0 .. Never,
                IncreaseAllowance(u, v, a, e) \/ DecreaseAllowance(u, v, a, e)
         PROVE  AllCover(p, reward')
    BY <1>2, <1>11 DEF IncreaseAllowance, DecreaseAllowance
  <1>12. ASSUME NEW r \in Rewards, NEW m \in Minimums, Compound(r, m)
         PROVE  AllCover(p, reward')
    BY <1>2, <1>12 DEF Compound
  <1>13. ASSUME NEW got \in Receipts, NEW lp \in Receipts, RunMessages(got, lp)
         PROVE  AllCover(p, reward')
    BY <1>2, <1>13 DEF RunMessages
  <1>14. CASE Stake \/ Revert
    BY <1>2, <1>14 DEF Stake, Revert
  <1>15. ASSUME NEW f \in Fees, UpdateConfig(f) PROVE AllCover(p, reward')
    BY <1>2, <1>15 DEF UpdateConfig
  <1>16. ASSUME NEW a \in Amounts, DonateLp(a) PROVE AllCover(p, reward')
    BY <1>2, <1>16 DEF DonateLp
  <1>17. CASE Tick
    BY <1>2, <1>17 DEF Tick
  <1>18. CASE UNCHANGED vars
    BY <1>2, <1>18 DEF vars
  <1>19. QED
    BY <1>3, <1>4, <1>5, <1>6, <1>7, <1>8, <1>9, <1>10, <1>11, <1>12, <1>13, <1>14, <1>15,
       <1>16, <1>17, <1>18 DEF Next

\* The cost recorded with a position is at least its deposit at the lowest
\* price the pair ever had, however RewardInfo::bond, unbond and
\* transfer_internal rounded it.
THEOREM CostsCover == Spec => []CostCoversDeposit
  <1>1. CostCoversDeposit <=> \A p \in 0 .. MaxLp : FloorPrice(p) => AllCover(p, reward)
    BY DEF CostCoversDeposit, AllCover, Covers
  <1>2. MaxLp \in Nat
    BY FarmAssumption
  <1>3. Init => CostCoversDeposit
    BY <1>2 DEF Init, CostCoversDeposit, EmptyInfo
  <1>4. IInv /\ CostCoversDeposit /\ [Next]_vars => CostCoversDeposit'
    <2>1. SUFFICES ASSUME IInv, CostCoversDeposit, [Next]_vars PROVE CostCoversDeposit'
      OBVIOUS
    <2>2. LedgerInv /\ RestOK
      BY <2>1 DEF IInv, TypeOK, LedgerInv, RestOK
    <2>3. ASSUME NEW p \in 0 .. MaxLp, FloorPrice(p) PROVE AllCover(p, reward')
      <3>1. p \in Nat /\ AllCover(p, reward)
        BY <1>1, <1>2, <2>1, <2>3
      <3>2. QED
        BY <2>1, <2>2, <2>3, <3>1, CostStep
    <2>4. QED
      BY <2>3 DEF CostCoversDeposit, AllCover, Covers, FloorPrice
  <1>5. QED
    BY <1>3, <1>4, Invariance, PTL DEF Spec

-----------------------------------------------------------------------------
(* The vault under its history *)

\* The history follows the steps of the vault and never blocks or adds one.
LEMMA HistoryStep == [HNext]_<<vars, history>> => [Next]_vars
  <1> SUFFICES ASSUME HNext PROVE Next
    BY DEF vars
  <1>1. ASSUME NEW u \in Users, NEW a \in Amounts, Bond(u, a) \/ Unbond(u, a) \/ Burn(u, a)
        PROVE  Next
    BY <1>1 DEF Next
  <1>2. ASSUME NEW u \in Users, NEW v \in Users, NEW a \in Amounts, Transfer(u, v, a)
        PROVE  Next
    BY <1>2 DEF Next
  <1>3. ASSUME NEW u \in Users, NEW v \in Spenders, NEW a \in Amounts, BurnFrom(v, u, a)
        PROVE  Next
    BY <1>3 DEF Next
  <1>4. ASSUME NEW u \in Users, NEW w \in Users, NEW v \in Spenders, NEW a \in Amounts,
               TransferFrom(v, u, w, a)
        PROVE  Next
    BY <1>4 DEF Next
  <1>5. ASSUME NEW u \in Users, NEW v \in Spenders, NEW a \in Grants, NEW e \in 0 .. Never,
               IncreaseAllowance(u, v, a, e) \/ DecreaseAllowance(u, v, a, e)
        PROVE  Next
    BY <1>5 DEF Next
  <1>6. CASE \/ \E u \in Users, m \in Minimums : BondAssets(u, m)
             \/ \E p \in Rewards, m \in Minimums : Compound(p, m)
             \/ \E got, lp \in Receipts : RunMessages(got, lp)
             \/ Stake \/ Revert
             \/ \E f \in Fees : UpdateConfig(f)
             \/ \E a \in Amounts : DonateLp(a)
    BY <1>6 DEF Next
  <1>7. CASE Tick \/ BondTo
    BY <1>7 DEF Next
  <1>8. QED
    BY <1>1, <1>2, <1>3, <1>4, <1>5, <1>6, <1>7 DEF HNext

\* A behaviour with its history is a behaviour of the vault.
LEMMA HistoryIsOfVault == HSpec => Spec
  <1>1. HInit => Init
    BY DEF HInit
  <1>2. QED
    BY <1>1, HistoryStep, PTL DEF HSpec, Spec

-----------------------------------------------------------------------------
(* Allowances *)

\* The counters of allowances and what they bound.
GrantsInv ==
    /\ granted \in [Users \X Users -> Nat]
    /\ moved \in [Users \X Users -> Nat]
    /\ AllowanceBoundsSpending

\* One pair's allowance and counters change, together.
LEMMA PairChanges ==
    ASSUME GrantsInv, RestOK, NEW q \in Users \X Users, NEW n, NEW g \in Nat, NEW m \in Nat,
           allowances' = [allowances EXCEPT ![q] = n],
           granted' = [granted EXCEPT ![q] = g], moved' = [moved EXCEPT ![q] = m],
           m + n.allowance <= g
    PROVE  GrantsInv'
  BY DEF GrantsInv, RestOK, AllowanceBoundsSpending

\* deduct_allowance takes from the allowance what the spender moves.
LEMMA SpendingCounts ==
    ASSUME GrantsInv, RestOK, NEW owner \in Users, NEW spender \in Spenders, NEW a \in Amounts,
           DeductAllowance(owner, spender, a), Spent(owner, spender, a)
    PROVE  GrantsInv'
  <1> DEFINE q == <<owner, spender>>
             old == allowances[q]
             new == [old EXCEPT !.allowance = @ - a]
             m == moved[q] + a
             g == granted[q]
  <1>1. q \in Users \X Users /\ a \in Nat
    BY FarmAssumption
  <1>2. old \in Allowance /\ moved[q] \in Nat /\ g \in Nat /\ moved[q] + old.allowance <= g
    BY <1>1 DEF GrantsInv, RestOK, AllowanceBoundsSpending
  <1>3. /\ a <= old.allowance
        /\ allowances' = [allowances EXCEPT ![q] = new]
        /\ moved' = [moved EXCEPT ![q] = m]
        /\ granted' = granted
    BY DEF DeductAllowance, Spent
  <1>4. granted' = [granted EXCEPT ![q] = g]
    BY <1>3 DEF GrantsInv
  <1>5. new.allowance = old.allowance - a /\ old.allowance \in Nat
    BY <1>2 DEF Allowance
  <1>6. m \in Nat /\ m + new.allowance <= g
    BY <1>1, <1>2, <1>3, <1>5
  <1> HIDE DEF q, new, m, g
  <1>7. QED
    BY <1>1, <1>2, <1>3, <1>4, <1>6, PairChanges

\* Every step keeps spending within the grants.
LEMMA GrantsStep ==
    ASSUME GrantsInv, RestOK, [HNext]_<<vars, history>>
    PROVE  GrantsInv'
  <1>1. ASSUME allowances' = allowances, granted' = granted, moved' = moved PROVE GrantsInv'
    BY <1>1 DEF GrantsInv, AllowanceBoundsSpending
  <1>2. ASSUME NEW u \in Users, NEW a \in Amounts, Bond(u, a) /\ Put(u, a) PROVE GrantsInv'
    BY <1>1, <1>2 DEF Bond, Put
  <1>3. ASSUME NEW u \in Users, NEW a \in Amounts, Unbond(u, a) /\ Took(u, a) PROVE GrantsInv'
    BY <1>1, <1>3 DEF Unbond, Took
  <1>4. ASSUME NEW u \in Users, NEW a \in Amounts, Burn(u, a) /\ UNCHANGED history
        PROVE  GrantsInv'
    BY <1>1, <1>4 DEF Burn, history
  <1>5. CASE BondTo /\ Put(tx.to, Received)
    BY <1>1, <1>5 DEF BondTo, Put
  <1>6. ASSUME NEW u \in Users, NEW v \in Users, NEW a \in Amounts, Transfer(u, v, a),
               UNCHANGED <<paid_in, paid_out, granted, moved>>
        PROVE  GrantsInv'
    BY <1>1, <1>6 DEF Transfer
  <1>7. ASSUME NEW u \in Users, NEW v \in Spenders, NEW a \in Amounts,
               BurnFrom(v, u, a), Spent(u, v, a)
        PROVE  GrantsInv'
    BY <1>7, SpendingCounts DEF BurnFrom
  <1>8. ASSUME NEW u \in Users, NEW w \in Users, NEW v \in Spenders, NEW a \in Amounts,
               TransferFrom(v, u, w, a), Spent(u, v, a)
        PROVE  GrantsInv'
    BY <1>8, SpendingCounts DEF TransferFrom
  <1>9. ASSUME NEW u \in Users, NEW v \in Spenders, NEW a \in Grants, NEW e \in 0 .. Never,
               IncreaseAllowance(u, v, a, e),
               granted' = [granted EXCEPT ![<<u, v>>] = @ + a], moved' = moved
        PROVE  GrantsInv'
    <2> DEFINE q == <<u, v>>
               old == allowances[q]
               new == [exists |-> TRUE, allowance |-> old.allowance + a, expires |-> e]
               g == granted[q] + a
               m == moved[q]
    <2>1. q \in Users \X Users /\ a \in Nat
      BY FarmAssumption
    <2>2. old \in Allowance /\ m \in Nat /\ granted[q] \in Nat /\ m + old.allowance <= granted[q]
      BY <2>1 DEF GrantsInv, RestOK, AllowanceBoundsSpending
    <2>3. allowances' = [allowances EXCEPT ![q] = new] /\ granted' = [granted EXCEPT ![q] = g]
      BY <1>9 DEF IncreaseAllowance
    <2>4. moved' = [moved EXCEPT ![q] = m]
      BY <1>9 DEF GrantsInv
    <2>5. new.allowance = old.allowance + a /\ old.allowance \in Nat
      BY <2>2 DEF Allowance
    <2>6. g \in Nat /\ m + new.allowance <= g
      BY <2>1, <2>2, <2>5
    <2> HIDE DEF q, new, m, g
    <2>7. QED
      BY <2>1, <2>2, <2>3, <2>4, <2>6, PairChanges
  <1>10. ASSUME NEW u \in Users, NEW v \in Spenders, NEW a \in Grants, NEW e \in 0 .. Never,
                DecreaseAllowance(u, v, a, e), UNCHANGED history
         PROVE  GrantsInv'
    <2> DEFINE q == <<u, v>>
               old == allowances[q]
               new == IF a < old.allowance
                      THEN [exists |-> TRUE, allowance |-> old.allowance - a, expires |-> e]
                      ELSE NoAllowance
               g == granted[q]
               m == moved[q]
    <2>1. q \in Users \X Users /\ a \in Nat
      BY FarmAssumption
    <2>2. old \in Allowance /\ m \in Nat /\ g \in Nat /\ m + old.allowance <= g
      BY <2>1 DEF GrantsInv, RestOK, AllowanceBoundsSpending
    <2>3. allowances' = [allowances EXCEPT ![q] = new]
      BY <1>10 DEF DecreaseAllowance
    <2>4. moved' = [moved EXCEPT ![q] = m] /\ granted' = [granted EXCEPT ![q] = g]
      BY <1>10 DEF GrantsInv, history
    <2>5. old.allowance \in Nat
      BY <2>2 DEF Allowance
    <2>6. new.allowance \in Nat /\ new.allowance <= old.allowance
      <3>1. CASE a < old.allowance
        BY <2>1, <2>5, <3>1
      <3>2. CASE ~(a < old.allowance)
        BY <2>5, <3>2 DEF NoAllowance
      <3>3. QED
        BY <3>1, <3>2
    <2> HIDE DEF q, new, m, g, old
    <2>7. m + new.allowance <= g
      BY <2>2, <2>5, <2>6
    <2>8. QED
      BY <2>1, <2>2, <2>3, <2>4, <2>7, PairChanges
  <1>11. CASE Tick /\ NextSecond
    BY <1>1, <1>11 DEF Tick, NextSecond
  <1>12. ASSUME UNCHANGED history, allowances' = allowances PROVE GrantsInv'
    BY <1>1, <1>12 DEF history
  <1>13. ASSUME NEW u \in Users, NEW m \in Minimums, BondAssets(u, m), UNCHANGED history
         PROVE  GrantsInv'
    BY <1>12, <1>13 DEF BondAssets
  <1>14. ASSUME NEW p \in Rewards, NEW m \in Minimums, Compound(p, m), UNCHANGED history
         PROVE  GrantsInv'
    BY <1>12, <1>14 DEF Compound
  <1>15. ASSUME NEW got \in Receipts, NEW lp \in Receipts, RunMessages(got, lp),
                UNCHANGED history
         PROVE  GrantsInv'
    BY <1>12, <1>15 DEF RunMessages
  <1>16. CASE (Stake \/ Revert) /\ UNCHANGED history
    BY <1>12, <1>16 DEF Stake, Revert
  <1>17. ASSUME NEW f \in Fees, UpdateConfig(f), UNCHANGED history PROVE GrantsInv'
    BY <1>12, <1>17 DEF UpdateConfig
  <1>18. ASSUME NEW a \in Amounts, DonateLp(a), UNCHANGED history PROVE GrantsInv'
    BY <1>12, <1>18 DEF DonateLp
  <1>19. CASE UNCHANGED <<vars, history>>
    BY <1>12, <1>19 DEF vars
  <1>20. QED
    BY <1>2, <1>3, <1>4, <1>5, <1>6, <1>7, <1>8, <1>9, <1>10, <1>11, <1>13, <1>14, <1>15,
       <1>16, <1>17, <1>18, <1>19 DEF HNext

\* deduct_allowance and execute_decrease_allowance: what a spender has moved
\* and may still move never exceeds what he was granted.
THEOREM SpendingIsGranted == HSpec => []AllowanceBoundsSpending
  <1>1. HInit => GrantsInv
    BY DEF HInit, Init, GrantsInv, AllowanceBoundsSpending, NoAllowance
  <1>2. GrantsInv /\ IInv /\ [HNext]_<<vars, history>> => GrantsInv'
    BY GrantsStep DEF IInv, TypeOK, RestOK
  <1>3. GrantsInv => AllowanceBoundsSpending
    BY DEF GrantsInv
  <1>4. QED
    BY <1>1, <1>2, <1>3, Invariance, HistoryIsOfVault, PTL DEF HSpec

-----------------------------------------------------------------------------
(***************************************************************************)
(* Entering and leaving within one second.  NoInstantProfit alone is not   *)
(* inductive: what an account may still take is bounded by the deposit of  *)
(* its record, so the invariant adds that deposit to what was taken.  The  *)
(* early-exit rule counts from the record's time, which must be the        *)
(* present second as long as the account has shares, and a record without  *)
(* shares must not keep a deposit from an earlier time.                    *)
(***************************************************************************)

\* A record without shares has no deposit.
Emptied(r) == r.bond_share + r.transfer_share = 0 => r.deposit_amount = 0

\* A record made in the second `time' by an account that brought `in' and
\* took `out' since.
Early(r, time, in, out) ==
    /\ r.transfer_share = 0
    /\ r.bond_share > 0 => r.deposit_time = time
    /\ out + r.deposit_amount <= in

FlowInv ==
    /\ paid_in \in [Users -> Nat]
    /\ paid_out \in [Users -> Nat]
    /\ fresh \in [Users -> BOOLEAN]
    /\ \A u \in Users : Emptied(reward[u])
    /\ \A u \in Users : fresh[u] => Early(reward[u], now, paid_in[u], paid_out[u])

\* A deposit is worth no more than the LP brought for it, together with what
\* belonged to no share before.
LEMMA DepositIsBrought ==
    ASSUME NEW amount \in Nat \ {0}, NEW total \in Nat, NEW lp \in Nat, total <= lp,
           NEW share, share = CalcBondShare(amount, total, lp)
    PROVE  CalcBondAmount(total + share, lp + amount, share)
              <= amount + (IF total = 0 THEN lp ELSE 0)
  <1> DEFINE deposit == CalcBondAmount(total + share, lp + amount, share)
  <1>1. share \in Nat
    BY CalcBondShareBounds
  <1>2. deposit \in Nat /\ (total + share) * deposit <= (lp + amount) * share
    <2>1. total + share \in Nat /\ lp + amount \in Nat
      BY <1>1
    <2>2. QED
      BY <1>1, <2>1, CalcBondAmountBounds
  <1> HIDE DEF deposit
  <1>3. CASE total = 0
    <2>1. share = amount
      BY <1>3, CalcBondShareBounds
    <2>2. deposit * amount <= (lp + amount) * amount
      BY <1>2, <1>3, <2>1
    <2>3. deposit <= lp + amount
      BY <1>2, <2>2, TimesCancel
    <2>4. QED
      BY <1>3, <2>3 DEF deposit
  <1>4. CASE total # 0
    <2>1. lp * share <= amount * total
      BY <1>4, CalcBondShareBounds
    <2>2. /\ (lp + amount) * share = lp * share + amount * share
          /\ amount * (total + share) = amount * total + amount * share
      BY <1>1
    <2>3. lp * share \in Nat /\ amount * share \in Nat /\ amount * total \in Nat
      BY <1>1
    <2>4. (total + share) * deposit <= amount * (total + share)
      BY <1>1, <1>2, <2>1, <2>2, <2>3
    <2> DEFINE t == total + share
    <2>5. t \in Nat \ {0} /\ deposit * t <= amount * t
      BY <1>1, <1>2, <1>4, <2>4
    <2> HIDE DEF t
    <2>6. deposit <= amount
      BY <1>2, <2>5, TimesCancel
    <2>7. QED
      BY <1>4, <2>6 DEF deposit
  <1>5. QED
    BY <1>3, <1>4

\* The average of one time with itself, or with the time of no deposit.
LEMMA SameTime ==
    ASSUME NEW d \in Nat, NEW n \in Nat, d + n > 0, NEW s \in Nat, NEW time \in Nat,
           s = time \/ d = 0
    PROVE  DepositTime(d, n, s, time) = time
  <1> DEFINE k == d + n
             q == (k * time) \div k
  <1>1. d * s = d * time
    OBVIOUS
  <1>2. d * s + n * time = k * time
    BY <1>1
  <1>3. DepositTime(d, n, s, time) = q
    BY <1>2 DEF DepositTime
  <1>4. k \in Nat \ {0} /\ k * time \in Nat
    OBVIOUS
  <1> HIDE DEF k
  <1>5. q \in Nat /\ k * q <= k * time /\ k * time < k * q + k
    BY <1>4, DivBounds
  <1> HIDE DEF q
  <1>6. q <= time
    BY <1>4, <1>5, TimesCancel
  <1>7. ~(q + 1 <= time)
    <2>1. SUFFICES ASSUME q + 1 <= time PROVE FALSE
      OBVIOUS
    <2>2. k * (q + 1) <= k * time /\ k * (q + 1) = k * q + k
      BY <1>4, <1>5, <2>1, TimesMonotone
    <2>3. QED
      BY <1>4, <1>5, <2>2
  <1>8. q = time
    BY <1>5, <1>6, <1>7
  <1>9. QED
    BY <1>3, <1>8

\* RewardInfo::bond keeps the record dated and covered by what was brought.
LEMMA BondKeepsEarly ==
    ASSUME NEW info \in RewardInfo, Emptied(info), NEW time \in Nat,
           NEW in \in Nat, NEW out \in Nat, NEW share \in Nat, NEW deposit \in Nat,
           info.deposit_amount + deposit > 0, NEW pool, NEW brought \in Nat, deposit <= brought
    PROVE  Early(info, time, in, out)
             => Early(BondInfo(info, share, deposit, time, pool), time, in + brought, out)
  <1> DEFINE d == info.deposit_amount
             s == info.deposit_time
             new == BondInfo(info, share, deposit, time, pool)
  <1> SUFFICES ASSUME Early(info, time, in, out) PROVE Early(new, time, in + brought, out)
    OBVIOUS
  <1>1. d \in Nat /\ s \in Nat /\ info.bond_share \in Nat /\ info.transfer_share \in Nat
    BY DEF RewardInfo
  <1>2. info.transfer_share = 0 /\ (info.bond_share > 0 => s = time) /\ out + d <= in
    BY DEF Early
  <1>3. s = time \/ d = 0
    BY <1>1, <1>2 DEF Emptied
  <1>4. new.transfer_share = 0 /\ new.deposit_amount = d + deposit
        /\ new.deposit_time = DepositTime(d, deposit, s, time)
    BY <1>2 DEF BondInfo
  <1> HIDE DEF d, s, new
  <1>5. d + deposit > 0
    BY DEF d
  <1>6. new.deposit_time = time
    BY <1>1, <1>3, <1>4, <1>5, SameTime
  <1>7. out + (d + deposit) <= in + brought
    BY <1>1, <1>2
  <1>8. QED
    BY <1>4, <1>6, <1>7 DEF Early

\* What is left of a deposit when shares are given up.
LEMMA UnbondDeposit ==
    ASSUME NEW info \in RewardInfo, NEW share \in Nat \ {0}, share <= info.bond_share
    PROVE  /\ info.deposit_amount \in Nat
           /\ UnbondInfo(info, share).deposit_amount \in Nat
           /\ UnbondInfo(info, share).deposit_amount <= info.deposit_amount
           /\ info.transfer_share = 0
                => info.bond_share * UnbondInfo(info, share).deposit_amount
                      <= info.deposit_amount * (info.bond_share - share)
           /\ Emptied(UnbondInfo(info, share))
           /\ UnbondInfo(info, share).bond_share = info.bond_share - share
           /\ UnbondInfo(info, share).transfer_share = info.transfer_share
           /\ UnbondInfo(info, share).deposit_time = info.deposit_time
  <1> DEFINE d == info.deposit_amount
             b == info.bond_share
             t == info.transfer_share
             old == b + t
             new == old - share
             rest == MulRatio(d, new, old)
  <1>1. d \in Nat /\ b \in Nat /\ t \in Nat
    BY DEF RewardInfo
  <1>2. old \in Nat \ {0} /\ new \in Nat /\ new <= old
    BY <1>1
  <1>3. /\ UnbondInfo(info, share).deposit_amount = rest
        /\ UnbondInfo(info, share).bond_share = b - share
        /\ UnbondInfo(info, share).transfer_share = t
        /\ UnbondInfo(info, share).deposit_time = info.deposit_time
    BY DEF UnbondInfo
  <1>4. /\ (b - share) + t = new
        /\ t = 0 => old = b /\ new = b - share
    BY <1>1
  <1> HIDE DEF old, new
  <1>5. rest \in Nat /\ old * rest <= d * new /\ rest <= d
    BY <1>1, <1>2, MulRatioBounds, RatioAtMostOne
  <1> HIDE DEF rest
  <1>6. new = 0 => rest = 0
    <2>1. SUFFICES ASSUME new = 0 PROVE rest = 0
      OBVIOUS
    <2>2. rest * old <= 0 * old
      BY <1>1, <1>2, <1>5, <2>1
    <2>3. rest <= 0
      BY <1>2, <1>5, <2>2, TimesCancel
    <2>4. QED
      BY <1>5, <2>3
  <1>7. Emptied(UnbondInfo(info, share))
    BY <1>3, <1>4, <1>6 DEF Emptied
  <1>8. t = 0 => b * rest <= d * (b - share)
    BY <1>4, <1>5
  <1>9. QED
    BY <1>1, <1>3, <1>5, <1>7, <1>8

\* calc_user_balance: in the second of the deposit the balance is at most
\* the deposit.
LEMMA BalanceIsDeposit ==
    ASSUME NEW info \in RewardInfo, NEW total \in Nat, NEW lp \in Nat,
           NEW time \in Nat, info.deposit_time = time
    PROVE  UserBalance(info, total, lp, time) <= info.deposit_amount
  <1> DEFINE worth == CalcBondAmount(total, lp, info.bond_share)
             d == info.deposit_amount
  <1>1. DAY \in Nat \ {0} /\ d \in Nat /\ info.bond_share \in Nat
    BY FarmAssumption DEF RewardInfo
  <1>2. worth \in Nat
    BY <1>1, CalcBondAmountBounds
  <1>3. time - info.deposit_time = 0
    OBVIOUS
  <1>4. UserBalance(info, total, lp, time)
          = IF 0 < DAY /\ worth > d THEN d + MulRatio(worth - d, 0, DAY) ELSE worth
    BY <1>3 DEF UserBalance
  <1> HIDE DEF worth, d
  <1>5. CASE worth > d
    <2> DEFINE profit == worth - d
               m == MulRatio(profit, 0, DAY)
    <2>1. profit \in Nat
      BY <1>1, <1>2, <1>5
    <2> HIDE DEF profit
    <2>2. m \in Nat /\ DAY * m <= profit * 0
      BY <1>1, <2>1, MulRatioBounds
    <2> HIDE DEF m
    <2>3. m * DAY <= 0 * DAY
      BY <1>1, <2>1, <2>2
    <2>4. m <= 0
      BY <1>1, <2>2, <2>3, TimesCancel
    <2>5. UserBalance(info, total, lp, time) = d + m
      BY <1>1, <1>4, <1>5 DEF m, profit
    <2>6. QED
      BY <1>1, <2>2, <2>4, <2>5 DEF d
  <1>6. CASE ~(worth > d)
    BY <1>1, <1>2, <1>4, <1>6 DEF d
  <1>7. QED
    BY <1>5, <1>6

\* What unbond pays in the second of the deposit is taken off the deposit:
\* the shares are rounded up, the deposit that stays is rounded down.
LEMMA UnbondPaysDeposit ==
    ASSUME NEW info \in RewardInfo, NEW balance \in Nat \ {0}, balance <= info.deposit_amount,
           info.transfer_share = 0, NEW amount \in Nat,
           NEW share \in Nat \ {0}, share = UnbondShare(info, amount, balance),
           share <= info.bond_share
    PROVE  amount + UnbondInfo(info, share).deposit_amount <= info.deposit_amount
  <1> DEFINE d == info.deposit_amount
             b == info.bond_share
             rest == UnbondInfo(info, share).deposit_amount
  <1>1. b \in Nat \ {0}
    BY DEF RewardInfo
  <1>2. d \in Nat /\ rest \in Nat /\ b * rest <= d * (b - share)
    BY UnbondDeposit
  <1>3. b * amount <= balance * share
    BY <1>1, MulRatioCeilBounds DEF UnbondShare
  <1>4. balance <= d /\ share <= b
    OBVIOUS
  <1> HIDE DEF d, b, rest
  <1>5. balance * share <= d * share
    BY <1>2, <1>4, TimesMonotone
  <1>6. d * (b - share) = d * b - d * share
    BY <1>1, <1>2
  <1>7. b * amount \in Nat /\ balance * share \in Nat /\ d * share \in Nat /\ d * b \in Nat
        /\ b * rest \in Nat
    BY <1>1, <1>2
  <1>8. b * amount + b * rest <= d * b
    BY <1>2, <1>3, <1>5, <1>6, <1>7
  <1>9. (amount + rest) * b = b * amount + b * rest
    BY <1>1, <1>2
  <1> DEFINE sum == amount + rest
  <1>10. sum \in Nat /\ sum * b <= d * b
    BY <1>2, <1>8, <1>9
  <1> HIDE DEF sum
  <1>11. sum <= d
    BY <1>1, <1>2, <1>10, TimesCancel
  <1>12. QED
    BY <1>11 DEF sum, rest, d

\* transfer_internal leaves neither sender nor receiver a deposit without
\* shares.
LEMMA TransferEmpties ==
    ASSUME NEW info \in RewardInfo, Emptied(info), NEW sender \in RewardInfo,
           NEW share \in Nat \ {0}
    PROVE  /\ share <= info.bond_share => Emptied(SendShares(info, share))
           /\ Emptied(ReceiveShares(info, sender, share))
  <1> DEFINE b == info.bond_share
             t == info.transfer_share
  <1>1. b \in Nat /\ t \in Nat
    BY DEF RewardInfo
  <1>2. ASSUME share <= b PROVE Emptied(SendShares(info, share))
    <2>1. (b - share) + (t + share) = b + t
      BY <1>1
    <2>2. QED
      BY <2>1 DEF SendShares, WithShares, Emptied
  <1>3. Emptied(ReceiveShares(info, sender, share))
    <2> DEFINE r == ReceiveShares(info, sender, share)
    <2>1. CASE t < share
      <3>1. r.bond_share = b + t + (share - t) /\ r.transfer_share = 0
        BY <2>1 DEF ReceiveShares, BondInfo, WithShares
      <3> HIDE DEF r, b, t
      <3>2. r.bond_share + r.transfer_share # 0
        BY <1>1, <3>1
      <3>3. QED
        BY <3>2 DEF Emptied, r
    <2>2. CASE ~(t < share)
      <3>1. r.bond_share = b + share /\ r.transfer_share = t - share
        BY <2>2 DEF ReceiveShares, WithShares
      <3> HIDE DEF r, b, t
      <3>2. r.bond_share + r.transfer_share # 0
        BY <1>1, <2>2, <3>1
      <3>3. QED
        BY <3>2 DEF Emptied, r
    <2>3. QED
      BY <2>1, <2>2
  <1>4. QED
    BY <1>2, <1>3

-----------------------------------------------------------------------------
(* The steps *)

\* One record changes, and with it what its account brought and took.
LEMMA RecordChanges ==
    ASSUME FlowInv, reward \in [Users -> RewardInfo], now' = now, NEW u \in Users,
           NEW r, NEW in \in Nat, NEW out \in Nat,
           reward' = [reward EXCEPT ![u] = r], Emptied(r),
           paid_in' = [paid_in EXCEPT ![u] = in], paid_out' = [paid_out EXCEPT ![u] = out],
           fresh' = fresh, fresh[u] => Early(r, now, in, out)
    PROVE  FlowInv'
  <1>1. paid_in' \in [Users -> Nat] /\ paid_out' \in [Users -> Nat]
        /\ fresh' \in [Users -> BOOLEAN]
    BY DEF FlowInv
  <1>2. \A v \in Users : Emptied(reward'[v])
    BY DEF FlowInv
  <1>3. ASSUME NEW v \in Users, fresh[v]
        PROVE  Early(reward'[v], now, paid_in'[v], paid_out'[v])
    <2>1. CASE v = u
      BY <1>3, <2>1 DEF FlowInv
    <2>2. CASE v # u
      BY <1>3, <2>2 DEF FlowInv
    <2>3. QED
      BY <2>1, <2>2
  <1>4. QED
    BY <1>1, <1>2, <1>3 DEF FlowInv

\* bond_internal: the LP brought covers the new deposit.
LEMMA BondFlows ==
    ASSUME FlowInv, LedgerInv, now \in Nat, now' = now, NEW staker \in Users,
           NEW amount \in Nat, BondInternal(staker, amount), Put(staker, amount)
    PROVE  FlowInv'
  <1> DEFINE share == CalcBondShare(amount, total_bond_share, staked)
             deposit == CalcBondAmount(total_bond_share + share, staked + amount, share)
             old == reward[staker]
             brought == amount + (IF total_bond_share = 0 THEN staked ELSE 0)
             in == paid_in[staker]
             out == paid_out[staker]
  <1>1. PICK pool \in PoolInfos :
           reward' = [reward EXCEPT ![staker] = BondInfo(@, share, deposit, now, pool)]
    BY DEF BondInternal
  <1>2. amount > 0 /\ old.deposit_amount + deposit \in 1 .. MaxMemo
    BY DEF BondInternal
  <1>3. /\ reward \in [Users -> RewardInfo] /\ total_bond_share \in Nat /\ staked \in Nat
        /\ total_bond_share <= staked
    BY DEF LedgerInv, SharesBacked
  <1>4. share \in Nat
    BY <1>3, CalcBondShareBounds
  <1>5. deposit \in Nat /\ deposit <= brought /\ brought \in Nat
    <2>1. total_bond_share + share \in Nat /\ staked + amount \in Nat
      BY <1>3, <1>4
    <2>2. brought \in Nat /\ amount \in Nat \ {0}
      BY <1>2, <1>3
    <2>3. PICK s : s = share
      OBVIOUS
    <2> HIDE DEF brought
    <2>4. deposit \in Nat
      <3> HIDE DEF share
      <3>1. QED
        BY <1>4, <2>1, CalcBondAmountBounds
    <2>5. CalcBondAmount(total_bond_share + s, staked + amount, s)
            <= amount + (IF total_bond_share = 0 THEN staked ELSE 0)
      <3> DEFINE total == total_bond_share
                 lp == staked
      <3>1. total \in Nat /\ lp \in Nat /\ total <= lp /\ s = CalcBondShare(amount, total, lp)
        BY <1>3, <2>3
      <3> HIDE DEF total, lp
      <3>2. CalcBondAmount(total + s, lp + amount, s)
              <= amount + (IF total = 0 THEN lp ELSE 0)
        BY <2>2, <3>1, DepositIsBrought
      <3>3. QED
        BY <3>2 DEF total, lp
    <2>6. QED
      BY <2>2, <2>3, <2>4, <2>5 DEF brought
  <1>6. old \in RewardInfo /\ Emptied(old) /\ in \in Nat /\ out \in Nat
        /\ (fresh[staker] => Early(old, now, in, out))
    BY <1>3 DEF FlowInv
  <1>7. old.deposit_amount + deposit > 0
    BY <1>2
  <1>8. /\ paid_in' = [paid_in EXCEPT ![staker] = in + brought]
        /\ paid_out' = paid_out /\ fresh' = fresh
    BY DEF Put
  <1>9. paid_out' = [paid_out EXCEPT ![staker] = out]
    BY <1>8 DEF FlowInv
  <1> DEFINE time == now
             new == BondInfo(old, share, deposit, time, pool)
             total_in == in + brought
  <1>10. time \in Nat /\ reward' = [reward EXCEPT ![staker] = new]
         /\ (fresh[staker] => Early(old, time, in, out)) /\ total_in \in Nat
    BY <1>1, <1>5, <1>6
  <1> HIDE DEF share, deposit, old, brought, in, out, time
  <1>11. Early(old, time, in, out) => Early(new, time, total_in, out)
    BY <1>4, <1>5, <1>6, <1>7, <1>10, BondKeepsEarly
  <1>12. new.deposit_amount > 0 /\ new.bond_share = old.bond_share + share
         /\ new.transfer_share = old.transfer_share
    BY <1>7 DEF BondInfo
  <1>13. Emptied(new)
    <2>1. CASE old.bond_share + old.transfer_share + share = 0
      <3>1. share = 0 /\ old.bond_share + old.transfer_share = 0
        BY <1>4, <1>6, <2>1 DEF RewardInfo
      <3>2. old.deposit_amount = 0
        BY <1>6, <3>1 DEF Emptied
      <3>3. deposit = 0
        <4>1. CalcBondAmount(total_bond_share + share, staked + amount, share) \in Nat
          BY <1>5 DEF deposit
        <4>2. CASE total_bond_share + share = 0
          BY <4>2 DEF deposit, CalcBondAmount
        <4>3. CASE total_bond_share + share # 0
          <5> DEFINE t == total_bond_share + share
                     l == staked + amount
          <5>1. t \in Nat \ {0} /\ l \in Nat
            BY <1>3, <1>4, <4>3
          <5>2. t * deposit <= l * share
            <6> HIDE DEF t, l
            <6>1. deposit = CalcBondAmount(t, l, share)
              BY DEF deposit, t, l
            <6>2. QED
              BY <1>4, <5>1, <6>1, CalcBondAmountBounds
          <5> HIDE DEF t
          <5>3. deposit * t <= 0 * t
            BY <1>5, <3>1, <5>1, <5>2
          <5>4. deposit <= 0
            BY <1>5, <5>1, <5>3, TimesCancel
          <5>5. QED
            BY <1>5, <5>4
        <4>4. QED
          BY <4>2, <4>3
      <3>4. QED
        BY <1>7, <3>2, <3>3
    <2>2. CASE old.bond_share + old.transfer_share + share # 0
      <3>1. new.bond_share + new.transfer_share # 0
        BY <1>4, <1>6, <1>12, <2>2 DEF RewardInfo
      <3>2. QED
        BY <3>1 DEF Emptied
    <2>3. QED
      BY <2>1, <2>2
  <1>14. fresh[staker] => Early(new, now, total_in, out)
    BY <1>10, <1>11 DEF time
  <1>15. paid_in' = [paid_in EXCEPT ![staker] = total_in]
    BY <1>8
  <1> HIDE DEF new, total_in
  <1>16. QED
    BY <1>3, <1>6, <1>8, <1>9, <1>10, <1>13, <1>14, <1>15, RecordChanges

\* unbond: what is paid comes off the deposit, as long as the record is of
\* this second.
LEMMA UnbondFlows ==
    ASSUME FlowInv, LedgerInv, now \in Nat, NEW user \in Users, NEW amount \in Nat,
           Unbond(user, amount), Took(user, amount)
    PROVE  FlowInv'
  <1> DEFINE info == reward[user]
             balance == UserBalance(info, total_bond_share, staked, now)
             share == UnbondShare(info, amount, balance)
             in == paid_in[user]
             out == paid_out[user]
  <1>1. /\ amount > 0 /\ info.deposit_time <= now
        /\ amount <= balance
        /\ reward' = [reward EXCEPT ![user] = UnbondInfo(@, share)]
        /\ now' = now
    BY DEF Unbond, LedgerInv, DepositsPast
  <1>2. /\ reward \in [Users -> RewardInfo]
        /\ info \in RewardInfo /\ info.bond_share \in Nat /\ info.bond_share <= total_bond_share
        /\ total_bond_share \in Nat /\ staked \in Nat
    BY HolderBelowTotal DEF LedgerInv
  <1> DEFINE time == now
             total == total_bond_share
             lp == staked
  <1>3. time \in Nat /\ total \in Nat /\ lp \in Nat /\ amount \in Nat \ {0}
    BY <1>1, <1>2
  <1>4. info.deposit_time <= time /\ info.bond_share <= total
        /\ balance = UserBalance(info, total, lp, time)
    BY <1>1, <1>2
  <1>5. /\ paid_out' = [paid_out EXCEPT ![user] = out + amount]
        /\ paid_in' = paid_in /\ fresh' = fresh
    BY DEF Took
  <1>6. in \in Nat /\ out \in Nat /\ (fresh[user] => Early(info, time, in, out))
    BY DEF FlowInv
  <1>7. paid_in' = [paid_in EXCEPT ![user] = in]
    BY <1>5 DEF FlowInv
  <1> DEFINE new == UnbondInfo(info, share)
  <1>8. reward' = [reward EXCEPT ![user] = new]
    BY <1>1
  <1> HIDE DEF info, time, total, lp, balance, in, out
  <1>9. share \in 1 .. info.bond_share
    <2>1. amount <= UserBalance(info, total, lp, time)
      BY <1>1, <1>4
    <2>2. LET taken == UnbondShare(info, amount, UserBalance(info, total, lp, time))
          IN  /\ taken \in 1 .. info.bond_share
              /\ amount * total <= lp * taken
              /\ amount <= lp
      BY <1>2, <1>3, <1>4, <2>1, UnbondShareBounds
    <2>3. QED
      BY <1>4, <2>2
  <1>10. balance \in Nat
    BY <1>2, <1>3, <1>4, UserBalanceBounds
  <1>11. share \in Nat \ {0} /\ share <= info.bond_share /\ info.bond_share > 0
    BY <1>2, <1>9
  <1> DEFINE sh == share
  <1>12. sh \in Nat \ {0} /\ sh = UnbondShare(info, amount, balance) /\ sh <= info.bond_share
         /\ new = UnbondInfo(info, sh)
    BY <1>11
  <1> HIDE DEF share, sh, new
  <1>13. /\ new.deposit_amount \in Nat /\ Emptied(new)
         /\ new.bond_share = info.bond_share - sh
         /\ new.transfer_share = info.transfer_share
         /\ new.deposit_time = info.deposit_time
    BY <1>2, <1>12, UnbondDeposit
  <1>14. ASSUME fresh[user] PROVE Early(new, time, in, out + amount)
    <2>1. info.transfer_share = 0 /\ info.deposit_time = time
          /\ out + info.deposit_amount <= in
      BY <1>6, <1>11, <1>14 DEF Early
    <2>2. balance <= info.deposit_amount
      BY <1>2, <1>3, <1>4, <2>1, BalanceIsDeposit
    <2>3. balance \in Nat \ {0}
      BY <1>1, <1>3, <1>10
    <2>4. amount + UnbondInfo(info, sh).deposit_amount <= info.deposit_amount
      BY <1>2, <1>3, <1>12, <2>1, <2>2, <2>3, UnbondPaysDeposit
    <2>5. out + amount + new.deposit_amount <= in
      <3>1. info.deposit_amount \in Nat
        BY <1>2 DEF RewardInfo
      <3>2. QED
        BY <1>3, <1>6, <1>12, <1>13, <2>1, <2>4, <3>1
    <2>6. QED
      BY <1>13, <2>1, <2>5 DEF Early
  <1> DEFINE total_out == out + amount
  <1>15. total_out \in Nat /\ paid_out' = [paid_out EXCEPT ![user] = total_out]
         /\ (fresh[user] => Early(new, now, in, total_out))
    BY <1>3, <1>5, <1>6, <1>14 DEF time
  <1> HIDE DEF total_out
  <1>16. QED
    BY <1>1, <1>2, <1>5, <1>6, <1>7, <1>8, <1>13, <1>15, RecordChanges

\* burn_internal: a part of the deposit is forgotten.
LEMMA BurnFlows ==
    ASSUME FlowInv, LedgerInv, now' = now, NEW owner \in Users,
           NEW share \in Nat, BurnInternal(owner, share),
           paid_in' = paid_in, paid_out' = paid_out, fresh' = fresh
    PROVE  FlowInv'
  <1> DEFINE info == reward[owner]
             in == paid_in[owner]
             out == paid_out[owner]
             new == UnbondInfo(info, share)
             time == now
  <1>1. /\ share \in Nat \ {0} /\ share <= info.bond_share
        /\ reward' = [reward EXCEPT ![owner] = new]
    BY DEF BurnInternal
  <1>2. reward \in [Users -> RewardInfo] /\ info \in RewardInfo /\ info.bond_share \in Nat
    BY DEF LedgerInv, RewardInfo
  <1>3. /\ in \in Nat /\ out \in Nat /\ (fresh[owner] => Early(info, time, in, out))
        /\ paid_in' = [paid_in EXCEPT ![owner] = in]
        /\ paid_out' = [paid_out EXCEPT ![owner] = out]
    BY DEF FlowInv
  <1> HIDE DEF info, in, out, time
  <1>4. /\ info.deposit_amount \in Nat /\ new.deposit_amount \in Nat
        /\ new.deposit_amount <= info.deposit_amount
        /\ Emptied(new) /\ new.bond_share = info.bond_share - share
        /\ new.transfer_share = info.transfer_share
        /\ new.deposit_time = info.deposit_time
    BY <1>1, <1>2, UnbondDeposit
  <1> HIDE DEF new
  <1>5. ASSUME fresh[owner] PROVE Early(new, time, in, out)
    <2>1. info.transfer_share = 0 /\ info.deposit_time = time
          /\ out + info.deposit_amount <= in
      BY <1>1, <1>2, <1>3, <1>5 DEF Early
    <2>2. QED
      BY <1>3, <1>4, <2>1 DEF Early
  <1>6. fresh[owner] => Early(new, now, in, out)
    BY <1>5 DEF time
  <1>7. QED
    BY <1>1, <1>2, <1>3, <1>4, <1>6, RecordChanges

\* transfer_internal: both accounts are mixed from now on.
LEMMA TransferFlows ==
    ASSUME FlowInv, LedgerInv, now' = now, NEW from \in Users, NEW to \in Users,
           NEW share \in Nat, TransferInternal(from, to, share), Mixed({from, to}),
           paid_in' = paid_in, paid_out' = paid_out
    PROVE  FlowInv'
  <1> DEFINE sender == SendShares(reward[from], share)
             sent == [reward EXCEPT ![from] = sender]
             receiver == ReceiveShares(sent[to], sent[from], share)
  <1>1. share \in Nat \ {0} /\ share <= reward[from].bond_share
        /\ reward' = [sent EXCEPT ![to] = receiver]
    BY DEF TransferInternal, TransferShares
  <1>2. reward \in [Users -> RewardInfo] /\ \A u \in Users : Emptied(reward[u])
    BY DEF LedgerInv, FlowInv
  <1>3. sender \in RewardInfo /\ Emptied(sender)
    <2>1. reward[from] \in RewardInfo /\ Emptied(reward[from])
      BY <1>2
    <2>2. sender \in RewardInfo
      BY <1>1, <2>1, SendSharesRecord
    <2>3. Emptied(sender)
      BY <1>1, <2>1, TransferEmpties
    <2>4. QED
      BY <2>2, <2>3
  <1> HIDE DEF sender
  <1>4. /\ sent \in [Users -> RewardInfo]
        /\ \A u \in Users : Emptied(sent[u])
        /\ \A u \in Users \ {from} : sent[u] = reward[u]
    BY <1>2, <1>3
  <1> HIDE DEF sent
  <1>5. Emptied(receiver)
    <2>1. sent[to] \in RewardInfo /\ sent[from] \in RewardInfo /\ Emptied(sent[to])
      BY <1>4
    <2>2. QED
      BY <1>1, <2>1, TransferEmpties
  <1> HIDE DEF receiver
  <1>6. \A u \in Users : Emptied(reward'[u])
    BY <1>1, <1>4, <1>5
  <1>7. fresh' = [u \in Users |-> fresh[u] /\ u \notin {from, to}]
    BY DEF Mixed
  <1>8. ASSUME NEW u \in Users, fresh'[u]
        PROVE  Early(reward'[u], now', paid_in'[u], paid_out'[u])
    <2>1. fresh[u] /\ u # from /\ u # to
      BY <1>7, <1>8
    <2>2. reward'[u] = reward[u]
      BY <1>1, <1>4, <2>1
    <2>3. QED
      BY <2>1, <2>2 DEF FlowInv
  <1>9. fresh' \in [Users -> BOOLEAN]
    BY <1>7 DEF FlowInv
  <1>10. QED
    BY <1>6, <1>8, <1>9 DEF FlowInv

\* Every step keeps what was taken, and what may be, below what was brought.
LEMMA FlowStep ==
    ASSUME FlowInv, LedgerInv, RestOK, [HNext]_<<vars, history>>
    PROVE  FlowInv'
  <1>1. Amounts \subseteq Nat /\ Spenders \subseteq Users /\ now \in Nat
    BY FarmAssumption DEF RestOK
  <1>2. ASSUME reward' = reward, now' = now,
               paid_in' = paid_in, paid_out' = paid_out, fresh' = fresh
        PROVE  FlowInv'
    BY <1>2 DEF FlowInv
  <1>3. ASSUME NEW u \in Users, NEW a \in Amounts, Bond(u, a), Put(u, a) PROVE FlowInv'
    <2>1. a \in Nat /\ now' = now /\ BondInternal(u, a)
      BY <1>1, <1>3 DEF Bond
    <2>2. QED
      BY <1>1, <1>3, <2>1, BondFlows
  <1>4. ASSUME NEW u \in Users, NEW a \in Amounts, Unbond(u, a), Took(u, a) PROVE FlowInv'
    BY <1>1, <1>4, UnbondFlows
  <1>5. ASSUME NEW u \in Users, NEW a \in Amounts, Burn(u, a), UNCHANGED history
        PROVE  FlowInv'
    <2>1. a \in Nat /\ now' = now /\ BurnInternal(u, a)
          /\ paid_in' = paid_in /\ paid_out' = paid_out /\ fresh' = fresh
      BY <1>1, <1>5 DEF Burn, history
    <2>2. QED
      BY <2>1, BurnFlows
  <1>6. CASE BondTo /\ Put(tx.to, Received)
    <2>1. tx.to \in Users /\ tx.prev_balance \in Nat /\ held \in Nat
          /\ BondInternal(tx.to, Received) /\ now' = now
      BY <1>6 DEF RestOK, BondTo, Tx
    <2> DEFINE staker == tx.to
               amount == Received
    <2>2. Received \in Nat
      BY <2>1 DEF Received, BondInternal
    <2>3. staker \in Users /\ amount \in Nat /\ BondInternal(staker, amount)
          /\ Put(staker, amount)
      BY <1>6, <2>1, <2>2
    <2> HIDE DEF staker, amount
    <2>4. QED
      BY <1>1, <2>1, <2>3, BondFlows
  <1>7. ASSUME NEW u \in Users, NEW v \in Users, NEW a \in Amounts, Transfer(u, v, a),
               Mixed({u, v}), UNCHANGED <<paid_in, paid_out, granted, moved>>
        PROVE  FlowInv'
    <2>1. a \in Nat /\ now' = now /\ TransferInternal(u, v, a)
          /\ paid_in' = paid_in /\ paid_out' = paid_out
      BY <1>1, <1>7 DEF Transfer
    <2>2. QED
      BY <1>7, <2>1, TransferFlows
  <1>8. ASSUME NEW u \in Users, NEW v \in Spenders, NEW a \in Amounts, BurnFrom(v, u, a),
               Spent(u, v, a), UNCHANGED fresh
        PROVE  FlowInv'
    <2>1. a \in Nat /\ now' = now /\ BurnInternal(u, a)
          /\ paid_in' = paid_in /\ paid_out' = paid_out /\ fresh' = fresh
      BY <1>1, <1>8 DEF BurnFrom, Spent
    <2>2. QED
      BY <2>1, BurnFlows
  <1>9. ASSUME NEW u \in Users, NEW w \in Users, NEW v \in Spenders, NEW a \in Amounts,
               TransferFrom(v, u, w, a), Spent(u, v, a), Mixed({u, w})
        PROVE  FlowInv'
    <2>1. a \in Nat /\ now' = now /\ TransferInternal(u, w, a)
          /\ paid_in' = paid_in /\ paid_out' = paid_out
      BY <1>1, <1>9 DEF TransferFrom, Spent
    <2>2. QED
      BY <1>9, <2>1, TransferFlows
  <1>10. ASSUME NEW u \in Users, NEW v \in Spenders, NEW a \in Grants, NEW e \in 0 .. Never,
                IncreaseAllowance(u, v, a, e), UNCHANGED <<paid_in, paid_out, fresh, moved>>
         PROVE  FlowInv'
    BY <1>2, <1>10 DEF IncreaseAllowance
  <1>11. CASE Tick /\ NextSecond
    <2>1. reward' = reward /\ \A u \in Users : Emptied(reward[u])
      BY <1>11 DEF Tick, FlowInv
    <2>2. /\ paid_in' = [u \in Users |-> 0] /\ paid_out' = [u \in Users |-> 0]
          /\ fresh' = [u \in Users |-> reward[u].bond_share + reward[u].transfer_share = 0]
      BY <1>11 DEF NextSecond
    <2>3. ASSUME NEW u \in Users, fresh'[u] PROVE Early(reward'[u], now', 0, 0)
      <3> DEFINE r == reward[u]
      <3>1. r.bond_share \in Nat /\ r.transfer_share \in Nat
        BY DEF LedgerInv, RewardInfo
      <3>2. r.bond_share + r.transfer_share = 0
        BY <2>2, <2>3
      <3> HIDE DEF r
      <3>3. r.bond_share = 0 /\ r.transfer_share = 0
        BY <3>1, <3>2
      <3>4. r.deposit_amount = 0
        BY <2>1, <3>2 DEF Emptied, r
      <3>5. QED
        BY <2>1, <3>3, <3>4 DEF Early, r
    <2>4. QED
      BY <2>1, <2>2, <2>3 DEF FlowInv
  <1>12. ASSUME UNCHANGED history, reward' = reward, now' = now PROVE FlowInv'
    BY <1>2, <1>12 DEF history
  <1>13. ASSUME NEW u \in Users, NEW v \in Spenders, NEW a \in Grants, NEW e \in 0 .. Never,
                DecreaseAllowance(u, v, a, e), UNCHANGED history
         PROVE  FlowInv'
    BY <1>12, <1>13 DEF DecreaseAllowance
  <1>14. ASSUME NEW u \in Users, NEW m \in Minimums, BondAssets(u, m), UNCHANGED history
         PROVE  FlowInv'
    BY <1>12, <1>14 DEF BondAssets
  <1>15. ASSUME NEW p \in Rewards, NEW m \in Minimums, Compound(p, m), UNCHANGED history
         PROVE  FlowInv'
    BY <1>12, <1>15 DEF Compound
  <1>16. ASSUME NEW got \in Receipts, NEW lp \in Receipts, RunMessages(got, lp),
                UNCHANGED history
         PROVE  FlowInv'
    BY <1>12, <1>16 DEF RunMessages
  <1>17. CASE (Stake \/ Revert) /\ UNCHANGED history
    BY <1>12, <1>17 DEF Stake, Revert
  <1>18. ASSUME NEW f \in Fees, UpdateConfig(f), UNCHANGED history PROVE FlowInv'
    BY <1>12, <1>18 DEF UpdateConfig
  <1>19. ASSUME NEW a \in Amounts, DonateLp(a), UNCHANGED history PROVE FlowInv'
    BY <1>12, <1>19 DEF DonateLp
  <1>20. CASE UNCHANGED <<vars, history>>
    BY <1>12, <1>20 DEF vars
  <1>21. QED
    BY <1>3, <1>4, <1>5, <1>6, <1>7, <1>8, <1>9, <1>10, <1>11, <1>13, <1>14, <1>15, <1>16,
       <1>17, <1>18, <1>19, <1>20 DEF HNext

\* The early-exit rule of calc_user_balance: no account takes more out of the
\* vault than it brought within one second, however it bonds, unbonds and
\* burns, and whatever others do meanwhile.
THEOREM NobodyProfitsAtOnce == HSpec => []NoInstantProfit
  <1>1. HInit => FlowInv
    BY DEF HInit, Init, FlowInv, Emptied, Early, EmptyInfo
  <1>2. FlowInv /\ IInv /\ [HNext]_<<vars, history>> => FlowInv'
    BY FlowStep DEF IInv, TypeOK, LedgerInv, RestOK
  <1>3. FlowInv /\ IInv => NoInstantProfit
    <2>1. SUFFICES ASSUME FlowInv, IInv, NEW u \in Users, fresh[u]
                   PROVE  paid_out[u] <= paid_in[u]
      BY DEF NoInstantProfit
    <2>2. reward[u].deposit_amount \in Nat
      BY <2>1 DEF IInv, TypeOK, RewardInfo
    <2>3. paid_out[u] \in Nat /\ paid_in[u] \in Nat
          /\ paid_out[u] + reward[u].deposit_amount <= paid_in[u]
      BY <2>1 DEF FlowInv, Early
    <2>4. QED
      BY <2>2, <2>3
  <1>4. QED
    BY <1>1, <1>2, <1>3, Invariance, HistoryIsOfVault, PTL DEF HSpec
=============================================================================
