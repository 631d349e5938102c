----------------------- MODULE GeneratorStakingProofs -----------------------
(***************************************************************************)
(* Theorems about GeneratorStaking for every set of stakers and all        *)
(* amounts, fees and bounds.                                               *)
(*                                                                         *)
(* Half of a renewal the books are not in order: the requests have been    *)
(* moved to the total that can be withdrawn while their xASTRO is still in *)
(* the lock.  So the invariant says which messages can be left, and for    *)
(* each of these stages what holds then (Phase).  A message that fails     *)
(* brings back the state from before the transaction, about which it says  *)
(* the same as about a state between transactions (Undone).                *)
(***************************************************************************)
EXTENDS GeneratorStaking, RatiosTheorems, SequenceTheorems, TLAPS

-----------------------------------------------------------------------------
(* The messages of a transaction *)

\* A message before others.
From(m, rest) == <<m>> \o rest

\* What a stake does to a lock that runs.
Extensions == {<< >>} \cup {<<Msg("ExtendLockAmount", a)>> : a \in Nat}

\* The xASTRO it waits for.
Asked(e) == IF e = << >> THEN 0 ELSE Head(e).amount

\* The messages from each step of a renewal on.
ToCreate(b, e) == From(Msg("CreateLock", b), e)
ToEscrow(b, e) == From(Msg("EscrowWithdraw", 0), ToCreate(b, e))
ToCallback(h, b, e) == From(Msg("AfterStakingClaimed", h), ToEscrow(b, e))
ToClaim(h, b, e) == From(Msg("FeeClaim", 0), ToCallback(h, b, e))
ToRelock(e) == From(Msg("Relock", 0), e)

LEMMA MsgType ==
    /\ \A n \in Nat : /\ Msg("CreateLock", n) \in Message
                      /\ Msg("ExtendLockAmount", n) \in Message
                      /\ Msg("AfterStakingClaimed", n) \in Message
    /\ Msg("EscrowWithdraw", 0) \in Message
    /\ Msg("FeeClaim", 0) \in Message
    /\ Msg("Relock", 0) \in Message
  BY DEF Msg, Message

LEMMA FromType ==
    ASSUME NEW m \in Message, NEW rest \in Seq(Message)
    PROVE  /\ From(m, rest) \in Seq(Message) /\ From(m, rest) # << >>
           /\ Head(From(m, rest)) = m /\ Tail(From(m, rest)) = rest
  <1> DEFINE q == From(m, rest)
  <1>1. <<m>> \in Seq(Message) /\ Len(<<m>>) = 1 /\ <<m>>[1] = m
    OBVIOUS
  <1>2. /\ q \in Seq(Message) /\ Len(q) = 1 + Len(rest)
        /\ \A i \in 1 .. 1 + Len(rest) : q[i] = IF i <= 1 THEN <<m>>[i] ELSE rest[i - 1]
    BY <1>1, ConcatProperties DEF From
  <1>3. Len(rest) \in Nat
    BY LenProperties
  <1> HIDE DEF q
  <1>4. q # << >> /\ q[1] = m
    BY <1>1, <1>2, <1>3, EmptySeq
  <1>5. Head(q) = m
    BY <1>2, <1>4
  <1>6. /\ Tail(q) \in Seq(Message) /\ Len(Tail(q)) = Len(rest)
        /\ \A i \in 1 .. Len(rest) : Tail(q)[i] = q[i + 1]
    BY <1>2, <1>3, <1>4, HeadTailProperties
  <1>7. \A i \in 1 .. Len(rest) : Tail(q)[i] = rest[i]
    BY <1>2, <1>3, <1>6
  <1>8. Tail(q) = rest
    BY <1>6, <1>7, SeqEqual
  <1>9. QED
    BY <1>2, <1>4, <1>5, <1>8 DEF q

LEMMA ExtensionType ==
    ASSUME NEW e \in Extensions
    PROVE  e \in Seq(Message) /\ Asked(e) \in Nat
  <1>1. CASE e = << >>
    BY <1>1 DEF Asked
  <1>2. ASSUME NEW a \in Nat, e = <<Msg("ExtendLockAmount", a)>>
        PROVE  e \in Seq(Message) /\ Asked(e) \in Nat
    <2>1. Msg("ExtendLockAmount", a) \in Message
      BY MsgType
    <2>2. Head(e) = Msg("ExtendLockAmount", a) /\ e # << >>
      BY <1>2
    <2>3. Asked(e) = a
      BY <2>2 DEF Asked, Msg
    <2>4. QED
      BY <1>2, <2>1, <2>3
  <1>3. QED
    BY <1>1, <1>2 DEF Extensions

LEMMA RenewalType ==
    ASSUME NEW h \in Nat, NEW b \in Nat, NEW e \in Extensions
    PROVE  /\ ToCreate(b, e) \in Seq(Message)
           /\ ToEscrow(b, e) \in Seq(Message)
           /\ ToCallback(h, b, e) \in Seq(Message)
           /\ ToClaim(h, b, e) \in Seq(Message)
           /\ ToRelock(e) \in Seq(Message)
  <1>1. e \in Seq(Message)
    BY ExtensionType
  <1>2. ToRelock(e) \in Seq(Message) /\ ToCreate(b, e) \in Seq(Message)
    BY <1>1, MsgType, FromType DEF ToRelock, ToCreate
  <1>3. ToEscrow(b, e) \in Seq(Message)
    BY <1>2, MsgType, FromType DEF ToEscrow
  <1>4. ToCallback(h, b, e) \in Seq(Message)
    BY <1>3, MsgType, FromType DEF ToCallback
  <1>5. ToClaim(h, b, e) \in Seq(Message)
    BY <1>4, MsgType, FromType DEF ToClaim
  <1>6. QED
    BY <1>2, <1>3, <1>4, <1>5

\* What one message before others is.
LEMMA Prefixed ==
    ASSUME NEW M, NEW m \in M, NEW e \in Seq(M)
    PROVE  /\ <<m>> \o e \in Seq(M) /\ Len(<<m>> \o e) = 1 + Len(e)
           /\ (<<m>> \o e)[1] = m
           /\ \A i \in 2 .. 1 + Len(e) : (<<m>> \o e)[i] = e[i - 1]
  <1> DEFINE p == <<m>>
             q == p \o e
  <1>1. p \in Seq(M) /\ Len(p) = 1 /\ p[1] = m
    OBVIOUS
  <1>2. Len(e) \in Nat
    BY LenProperties
  <1> HIDE DEF p
  <1>3. /\ q \in Seq(M) /\ Len(q) = Len(p) + Len(e)
        /\ \A i \in 1 .. Len(p) + Len(e) : q[i] = IF i <= Len(p) THEN p[i] ELSE e[i - Len(p)]
    BY <1>1, ConcatProperties
  <1> HIDE DEF q
  <1>4. q[1] = m /\ \A i \in 2 .. 1 + Len(e) : q[i] = e[i - 1]
    BY <1>1, <1>2, <1>3
  <1>5. q \in Seq(M) /\ Len(q) = 1 + Len(e)
    BY <1>1, <1>3
  <1>6. QED
    BY <1>4, <1>5 DEF q, p

\* The messages that relock puts before the rest.
LEMMA RenewalMessages ==
    ASSUME NEW h \in Nat, NEW b \in Nat, NEW e \in Extensions
    PROVE  <<Msg("FeeClaim", 0), Msg("AfterStakingClaimed", h),
             Msg("EscrowWithdraw", 0), Msg("CreateLock", b)>> \o e = ToClaim(h, b, e)
  <1>1. /\ Msg("FeeClaim", 0) \in Message /\ Msg("AfterStakingClaimed", h) \in Message
        /\ Msg("EscrowWithdraw", 0) \in Message /\ Msg("CreateLock", b) \in Message
    BY MsgType
  <1>2. e \in Seq(Message)
    BY ExtensionType
  <1> DEFINE m1 == Msg("FeeClaim", 0)
             m2 == Msg("AfterStakingClaimed", h)
             m3 == Msg("EscrowWithdraw", 0)
             m4 == Msg("CreateLock", b)
             t == <<m1, m2, m3, m4>>
             r1 == ToClaim(h, b, e)
             r2 == ToCallback(h, b, e)
             r3 == ToEscrow(b, e)
             r4 == ToCreate(b, e)
             n == Len(e)
             q == t \o e
  <1>3. r1 = From(m1, r2) /\ r2 = From(m2, r3) /\ r3 = From(m3, r4) /\ r4 = From(m4, e)
    BY DEF ToClaim, ToCallback, ToEscrow, ToCreate
  <1> HIDE DEF m1, m2, m3, m4, r1, r2, r3, r4
  <1>4. m1 \in Message /\ m2 \in Message /\ m3 \in Message /\ m4 \in Message
    BY <1>1 DEF m1, m2, m3, m4
  <1>5. t \in Seq(Message) /\ Len(t) = 4 /\ t[1] = m1 /\ t[2] = m2 /\ t[3] = m3 /\ t[4] = m4
    BY <1>4
  <1> HIDE DEF t
  <1>6. n \in Nat
    BY <1>2, LenProperties
  <1>7. /\ r4 \in Seq(Message) /\ Len(r4) = 1 + n /\ r4[1] = m4
        /\ \A i \in 2 .. 1 + n : r4[i] = e[i - 1]
    <2>1. e \in Seq(Message) /\ Len(e) = 0 + n
      BY <1>2, <1>6
    <2> HIDE DEF n
    <2>2. /\ r4 \in Seq(Message) /\ Len(r4) = 1 + Len(e) /\ r4[1] = m4
          /\ \A i \in 2 .. 1 + Len(e) : r4[i] = e[i - 1]
      BY <1>3, <1>4, <2>1, Prefixed DEF From
    <2>3. QED
      BY <1>6, <2>1, <2>2
  <1>8. /\ r3 \in Seq(Message) /\ Len(r3) = 2 + n /\ r3[1] = m3
        /\ \A i \in 2 .. 2 + n : r3[i] = r4[i - 1]
    <2>1. r4 \in Seq(Message) /\ Len(r4) = 1 + n
      BY <1>6, <1>7
    <2> HIDE DEF n
    <2>2. /\ r3 \in Seq(Message) /\ Len(r3) = 1 + Len(r4) /\ r3[1] = m3
          /\ \A i \in 2 .. 1 + Len(r4) : r3[i] = r4[i - 1]
      BY <1>3, <1>4, <2>1, Prefixed DEF From
    <2>3. QED
      BY <1>6, <2>1, <2>2
  <1>9. /\ r2 \in Seq(Message) /\ Len(r2) = 3 + n /\ r2[1] = m2
        /\ \A i \in 2 .. 3 + n : r2[i] = r3[i - 1]
    <2>1. r3 \in Seq(Message) /\ Len(r3) = 2 + n
      BY <1>6, <1>8
    <2> HIDE DEF n
    <2>2. /\ r2 \in Seq(Message) /\ Len(r2) = 1 + Len(r3) /\ r2[1] = m2
          /\ \A i \in 2 .. 1 + Len(r3) : r2[i] = r3[i - 1]
      BY <1>3, <1>4, <2>1, Prefixed DEF From
    <2>3. QED
      BY <1>6, <2>1, <2>2
  <1>10. /\ r1 \in Seq(Message) /\ Len(r1) = 4 + n /\ r1[1] = m1
        /\ \A i \in 2 .. 4 + n : r1[i] = r2[i - 1]
    <2>1. r2 \in Seq(Message) /\ Len(r2) = 3 + n
      BY <1>6, <1>9
    <2> HIDE DEF n
    <2>2. /\ r1 \in Seq(Message) /\ Len(r1) = 1 + Len(r2) /\ r1[1] = m1
          /\ \A i \in 2 .. 1 + Len(r2) : r1[i] = r2[i - 1]
      BY <1>3, <1>4, <2>1, Prefixed DEF From
    <2>3. QED
      BY <1>6, <2>1, <2>2
  <1> HIDE DEF n
  <1>12. /\ q \in Seq(Message) /\ Len(q) = 4 + n
        /\ \A i \in 1 .. 4 + n : q[i] = IF i <= 4 THEN t[i] ELSE e[i - 4]
    <2>1. t \in Seq(Message)
      BY <1>5
    <2>2. /\ q \in Seq(Message) /\ Len(q) = Len(t) + Len(e)
          /\ \A i \in 1 .. Len(t) + Len(e) : q[i] = IF i <= Len(t) THEN t[i] ELSE e[i - Len(t)]
      BY <1>2, <2>1, ConcatProperties
    <2> HIDE DEF q
    <2>3. Len(e) = n /\ Len(t) = 4
      BY <1>5 DEF n
    <2>4. QED
      BY <2>2, <2>3
  <1> HIDE DEF q
  <1>13. \A i \in 1 .. Len(q) : q[i] = r1[i]
    <2>1. q[1] = r1[1] /\ q[2] = r1[2] /\ q[3] = r1[3] /\ q[4] = r1[4]
      BY <1>6, <1>7, <1>8, <1>9, <1>10, <1>5, <1>12
    <2>2. ASSUME NEW i \in 5 .. 4 + n PROVE q[i] = r1[i]
      <3>1. q[i] = e[i - 4]
        BY <1>6, <1>12
      <3>2. r1[i] = r2[i - 1] /\ i - 1 \in 4 .. 3 + n
        BY <1>6, <1>10
      <3>3. r2[i - 1] = r3[i - 2] /\ i - 2 \in 3 .. 2 + n
        BY <1>6, <1>9, <3>2
      <3>4. r3[i - 2] = r4[i - 3] /\ i - 3 \in 2 .. 1 + n
        BY <1>6, <1>8, <3>3
      <3>5. r4[i - 3] = e[i - 4]
        BY <1>6, <1>7, <3>4
      <3>6. QED
        BY <3>1, <3>2, <3>3, <3>4, <3>5
    <2>3. QED
      BY <1>6, <1>12, <2>1, <2>2
  <1>14. q = r1
    BY <1>10, <1>12, <1>13, SeqEqual
  <1>15. QED
    BY <1>14 DEF q, t, r1, m1, m2, m3, m4

-----------------------------------------------------------------------------
(* The inductive invariant *)

BondShares(k) == [u \in Stakers |-> k[u].bond_share]
Unstaking(s, k) == [u \in Stakers |-> UpdateStaking(s, k[u]).unstaking_amount]
Unstaked(s, k) == [u \in Stakers |-> UpdateStaking(s, k[u]).unstaked_amount]

\* What a staker has a right to, SCALE times, without truncation.
Claim(s, info) ==
    SCALE * info.pending_reward + info.bond_share * (s.reward_index - info.reward_index)
Claims(s, k) == [u \in Stakers |-> Claim(s, k[u])]

\* A record is not ahead of the state.
Known(s, info) ==
    /\ info.reward_index <= s.reward_index
    /\ info.unstaking_period <= s.unstaking_period
    /\ info.exists \/ info = NoStaker

\* The records of a state in period p.
Records(s, k, p) ==
    /\ s \in StakingState /\ k \in [Stakers -> StakerInfo]
    /\ s.unstaking_period <= p
    /\ \A u \in Stakers : Known(s, k[u])
    /\ Total(BondShares(k)) = s.total_bond_share

\* The claims, the income and what is owed to LP holders are reconciled, and
\* what is reconciled is there.
Backed(s, k, r, h, o) ==
    /\ r \in RewardInfo /\ h \in Nat /\ o \in Nat
    /\ Total(Claims(s, k)) + SCALE * (r.staker_income + o) <= SCALE * r.reconciled_amount
    /\ r.reconciled_amount <= h

\* The totals of requests are those of the records.
AddUp(s, k) ==
    /\ Total(Unstaking(s, k)) = s.total_unstaking_amount
    /\ Total(Unstaked(s, k)) = s.total_unstaked_amount

\* Between renewals, the lock covers the requests and was made after the last
\* relock.
Locked(s, k, l) ==
    /\ AddUp(s, k)
    /\ s.total_unstaking_amount <= l.amount
    /\ l.amount > 0 => s.unstaking_period < l.end

\* While there are shares, not all of a lock that gets a more is asked for.
Live(s, l, a) == s.total_bond_share > 0 => s.total_unstaking_amount < l.amount + a

\* During a renewal, only a lock that has ended can be withdrawn.
Renewing(s, k, l, p) ==
    /\ s.total_unstaking_amount = 0
    /\ l.amount > 0 /\ l.end <= p => AddUp(s, k)

\* The stages of a transaction: before the relock, until the lock is
\* withdrawn, and until the new one is made of b xASTRO.
Before(e) ==
    /\ Locked(state, stakers, lock) /\ Live(state, lock, Asked(e))
    /\ state.total_unstaked_amount + Asked(e) <= xastro
During(b, e) ==
    /\ Renewing(state, stakers, lock, period)
    /\ state.total_unstaked_amount + b + Asked(e) <= xastro + lock.amount
After(b, e) ==
    /\ lock.amount = 0
    /\ AddUp(state, stakers) /\ state.total_unstaking_amount = 0
    /\ state.total_unstaked_amount + b + Asked(e) <= xastro

\* Which stage it is can be told from the messages left.
Phase ==
    \E e \in Extensions :
        \/ queue \in {e, ToRelock(e)} /\ Before(e)
        \/ \E h, b \in Nat :
              /\ queue \in {ToClaim(h, b, e), ToCallback(h, b, e)}
              /\ reward.reconciled_amount <= h /\ h <= held
              /\ During(b, e)
        \/ \E b \in Nat : queue = ToEscrow(b, e) /\ During(b, e)
        \/ \E b \in Nat : queue = ToCreate(b, e) /\ After(b, e)

Sound ==
    /\ max_quota \in Nat /\ period \in Nat /\ weekly \in [1 .. MaxPeriod -> Nat]
    /\ xastro \in Nat /\ lock \in Lock /\ last_claim \in Nat
    /\ Records(state, stakers, period)
    /\ Backed(state, stakers, reward, held, lp_owed)

\* What a failed message brings back is as between transactions.
Undone ==
    /\ undo.xastro \in Nat /\ undo.lock \in Lock /\ undo.last_claim \in Nat
    /\ Records(undo.state, undo.stakers, period)
    /\ Backed(undo.state, undo.stakers, undo.reward, undo.held, undo.lp_owed)
    /\ Locked(undo.state, undo.stakers, undo.lock) /\ Live(undo.state, undo.lock, 0)
    /\ undo.state.total_unstaked_amount <= undo.xastro

IInv == Sound /\ Phase /\ (~Idle => Undone)

-----------------------------------------------------------------------------
(* Which message is next *)

LEMMA Heads ==
    ASSUME NEW h \in Nat, NEW b \in Nat, NEW e \in Extensions
    PROVE  /\ ToRelock(e) # << >> /\ Head(ToRelock(e)) = Msg("Relock", 0)
           /\ Tail(ToRelock(e)) = e
           /\ ToClaim(h, b, e) # << >> /\ Head(ToClaim(h, b, e)) = Msg("FeeClaim", 0)
           /\ Tail(ToClaim(h, b, e)) = ToCallback(h, b, e)
           /\ ToCallback(h, b, e) # << >>
           /\ Head(ToCallback(h, b, e)) = Msg("AfterStakingClaimed", h)
           /\ Tail(ToCallback(h, b, e)) = ToEscrow(b, e)
           /\ ToEscrow(b, e) # << >> /\ Head(ToEscrow(b, e)) = Msg("EscrowWithdraw", 0)
           /\ Tail(ToEscrow(b, e)) = ToCreate(b, e)
           /\ ToCreate(b, e) # << >> /\ Head(ToCreate(b, e)) = Msg("CreateLock", b)
           /\ Tail(ToCreate(b, e)) = e
           /\ e # << >> => /\ Head(e) = Msg("ExtendLockAmount", Asked(e))
                           /\ Tail(e) = << >>
  <1>1. e \in Seq(Message)
    BY ExtensionType
  <1>2. /\ ToRelock(e) # << >> /\ Head(ToRelock(e)) = Msg("Relock", 0)
        /\ Tail(ToRelock(e)) = e
    BY <1>1, MsgType, FromType DEF ToRelock
  <1>3. /\ ToClaim(h, b, e) # << >> /\ Head(ToClaim(h, b, e)) = Msg("FeeClaim", 0)
        /\ Tail(ToClaim(h, b, e)) = ToCallback(h, b, e)
    BY RenewalType, MsgType, FromType DEF ToClaim
  <1>4. /\ ToCallback(h, b, e) # << >>
        /\ Head(ToCallback(h, b, e)) = Msg("AfterStakingClaimed", h)
        /\ Tail(ToCallback(h, b, e)) = ToEscrow(b, e)
    BY RenewalType, MsgType, FromType DEF ToCallback
  <1>5. /\ ToEscrow(b, e) # << >> /\ Head(ToEscrow(b, e)) = Msg("EscrowWithdraw", 0)
        /\ Tail(ToEscrow(b, e)) = ToCreate(b, e)
    BY RenewalType, MsgType, FromType DEF ToEscrow
  <1>6. /\ ToCreate(b, e) # << >> /\ Head(ToCreate(b, e)) = Msg("CreateLock", b)
        /\ Tail(ToCreate(b, e)) = e
    BY <1>1, MsgType, FromType DEF ToCreate
  <1>7. e # << >> => Head(e) = Msg("ExtendLockAmount", Asked(e)) /\ Tail(e) = << >>
    <2>1. SUFFICES ASSUME e # << >>
                   PROVE  Head(e) = Msg("ExtendLockAmount", Asked(e)) /\ Tail(e) = << >>
      OBVIOUS
    <2>2. PICK a \in Nat : e = <<Msg("ExtendLockAmount", a)>>
      BY <2>1 DEF Extensions
    <2> DEFINE m == Msg("ExtendLockAmount", a)
    <2>3. m.amount = a
      BY DEF Msg
    <2> HIDE DEF m
    <2>4. e = <<m>>
      BY <2>2 DEF m
    <2>5. Head(e) = m /\ Tail(e) = << >>
      BY <2>4
    <2>6. Asked(e) = a
      BY <2>1, <2>3, <2>5 DEF Asked
    <2>7. QED
      BY <2>5, <2>6 DEF m
  <1>8. QED
    BY <1>2, <1>3, <1>4, <1>5, <1>6, <1>7

\* The stage at each message.
LEMMA NextMessage ==
    ASSUME Phase
    PROVE  /\ Idle => Before(<< >>)
           /\ Executes("Relock") =>
                \E e \in Extensions : Tail(queue) = e /\ Before(e)
           /\ Executes("FeeClaim") =>
                \E h, b \in Nat, e \in Extensions :
                    /\ Tail(queue) = ToCallback(h, b, e)
                    /\ reward.reconciled_amount <= h /\ h <= held /\ During(b, e)
           /\ Executes("AfterStakingClaimed") =>
                \E h, b \in Nat, e \in Extensions :
                    /\ Head(queue).amount = h /\ Tail(queue) = ToEscrow(b, e)
                    /\ reward.reconciled_amount <= h /\ h <= held /\ During(b, e)
           /\ Executes("EscrowWithdraw") =>
                \E b \in Nat, e \in Extensions : Tail(queue) = ToCreate(b, e) /\ During(b, e)
           /\ Executes("CreateLock") =>
                \E b \in Nat, e \in Extensions :
                    Head(queue).amount = b /\ Tail(queue) = e /\ After(b, e)
           /\ Executes("ExtendLockAmount") =>
                \E a \in Nat :
                    /\ Head(queue).amount = a /\ Tail(queue) = << >>
                    /\ Locked(state, stakers, lock) /\ Live(state, lock, a)
                    /\ state.total_unstaked_amount + a <= xastro
  <1>1. \A t, a : Msg(t, a).type = t /\ Msg(t, a).amount = a
    BY DEF Msg
  <1>2. PICK e \in Extensions :
            \/ queue = e /\ Before(e)
            \/ queue = ToRelock(e) /\ Before(e)
            \/ \E h, b \in Nat :
                  /\ queue \in {ToClaim(h, b, e), ToCallback(h, b, e)}
                  /\ reward.reconciled_amount <= h /\ h <= held
                  /\ During(b, e)
            \/ \E b \in Nat : queue = ToEscrow(b, e) /\ During(b, e)
            \/ \E b \in Nat : queue = ToCreate(b, e) /\ After(b, e)
    BY DEF Phase
  <1>3. CASE queue = e /\ Before(e) /\ e = << >>
    BY <1>3 DEF Idle, Executes
  <1>4. CASE queue = e /\ Before(e) /\ e # << >>
    <2>1. Head(queue) = Msg("ExtendLockAmount", Asked(e)) /\ Tail(queue) = << >>
      BY <1>4, Heads
    <2>2. Asked(e) \in Nat
      BY ExtensionType
    <2>3. Head(queue).type = "ExtendLockAmount" /\ Head(queue).amount = Asked(e)
      BY <1>1, <2>1
    <2>4. QED
      BY <1>4, <2>1, <2>2, <2>3 DEF Idle, Executes, Before
  <1>5. CASE queue = ToRelock(e) /\ Before(e)
    <2>1. Head(queue).type = "Relock" /\ Tail(queue) = e /\ queue # << >>
      BY <1>1, <1>5, Heads
    <2>2. QED
      BY <1>5, <2>1 DEF Idle, Executes
  <1>6. ASSUME NEW h \in Nat, NEW b \in Nat,
               reward.reconciled_amount <= h, h <= held, During(b, e),
               queue = ToClaim(h, b, e)
        PROVE  Executes("FeeClaim") /\ Tail(queue) = ToCallback(h, b, e)
    <2>1. queue # << >> /\ Head(queue) = Msg("FeeClaim", 0) /\ Tail(queue) = ToCallback(h, b, e)
      BY <1>6, Heads
    <2>2. Head(queue).type = "FeeClaim" /\ Head(queue).amount = 0
      BY <1>1, <2>1
    <2>3. QED
      BY <2>1, <2>2 DEF Idle, Executes
  <1>7. ASSUME NEW h \in Nat, NEW b \in Nat,
               reward.reconciled_amount <= h, h <= held, During(b, e),
               queue = ToCallback(h, b, e)
        PROVE  /\ Executes("AfterStakingClaimed") /\ Tail(queue) = ToEscrow(b, e)
               /\ Head(queue).amount = h
    <2>1. queue # << >> /\ Head(queue) = Msg("AfterStakingClaimed", h) /\ Tail(queue) = ToEscrow(b, e)
      BY <1>7, Heads
    <2>2. Head(queue).type = "AfterStakingClaimed" /\ Head(queue).amount = h
      BY <1>1, <2>1
    <2>3. QED
      BY <2>1, <2>2 DEF Idle, Executes
  <1>8. ASSUME NEW b \in Nat, queue = ToEscrow(b, e)
        PROVE  Executes("EscrowWithdraw") /\ Tail(queue) = ToCreate(b, e)
    <2>1. queue # << >> /\ Head(queue) = Msg("EscrowWithdraw", 0) /\ Tail(queue) = ToCreate(b, e)
      BY <1>8, Heads
    <2>2. Head(queue).type = "EscrowWithdraw" /\ Head(queue).amount = 0
      BY <1>1, <2>1
    <2>3. QED
      BY <2>1, <2>2 DEF Idle, Executes
  <1>9. ASSUME NEW b \in Nat, queue = ToCreate(b, e)
        PROVE  Executes("CreateLock") /\ Tail(queue) = e /\ Head(queue).amount = b
    <2>1. queue # << >> /\ Head(queue) = Msg("CreateLock", b) /\ Tail(queue) = e
      BY <1>9, Heads
    <2>2. Head(queue).type = "CreateLock" /\ Head(queue).amount = b
      BY <1>1, <2>1
    <2>3. QED
      BY <2>1, <2>2 DEF Idle, Executes
  <1>10. QED
    BY <1>2, <1>3, <1>4, <1>5, <1>6, <1>7, <1>8, <1>9 DEF Idle, Executes

-----------------------------------------------------------------------------
(* Decimals *)

LEMMA FromRatioBounds ==
    ASSUME NEW num \in Nat, NEW den \in Nat \ {0}
    PROVE  /\ FromRatio(num, den) \in Nat
           /\ den * FromRatio(num, den) <= num * SCALE
  <1>1. num * SCALE \in Nat
    BY DecimalAssumption
  <1>2. QED
    BY <1>1, DivBounds DEF FromRatio

LEMMA TimesDecimalBounds ==
    ASSUME NEW amount \in Nat, NEW decimal \in Nat
    PROVE  /\ TimesDecimal(amount, decimal) \in Nat
           /\ SCALE * TimesDecimal(amount, decimal) <= amount * decimal
  <1>1. amount * decimal \in Nat
    OBVIOUS
  <1>2. QED
    BY <1>1, DivBounds, DecimalAssumption DEF TimesDecimal

-----------------------------------------------------------------------------
(* What the contract's operators do to the records *)

\* Claims and shares are naturals.
LEMMA RecordType ==
    ASSUME NEW s \in StakingState, NEW k \in [Stakers -> StakerInfo],
           \A u \in Stakers : Known(s, k[u])
    PROVE  /\ BondShares(k) \in [Stakers -> Nat] /\ Claims(s, k) \in [Stakers -> Nat]
           /\ Total(BondShares(k)) \in Nat /\ Total(Claims(s, k)) \in Nat
  <1>1. BondShares(k) \in [Stakers -> Nat]
    BY DEF BondShares, StakerInfo
  <1>2. ASSUME NEW u \in Stakers PROVE Claim(s, k[u]) \in Nat
    <2>1. /\ k[u].bond_share \in Nat /\ k[u].pending_reward \in Nat
          /\ s.reward_index - k[u].reward_index \in Nat
      BY DEF Known, StakerInfo, StakingState
    <2>2. /\ SCALE * k[u].pending_reward \in Nat
          /\ k[u].bond_share * (s.reward_index - k[u].reward_index) \in Nat
      BY <2>1, DecimalAssumption
    <2>3. QED
      BY <2>2 DEF Claim
  <1>3. Claims(s, k) \in [Stakers -> Nat]
    BY <1>2 DEF Claims
  <1>4. QED
    BY <1>1, <1>3, TotalType, StakeAssumption

LEMMA UnstakingType ==
    ASSUME NEW s \in StakingState, NEW k \in [Stakers -> StakerInfo]
    PROVE  /\ \A u \in Stakers : UpdateStaking(s, k[u]) \in StakerInfo
           /\ Unstaking(s, k) \in [Stakers -> Nat] /\ Unstaked(s, k) \in [Stakers -> Nat]
           /\ Total(Unstaking(s, k)) \in Nat /\ Total(Unstaked(s, k)) \in Nat
  <1>1. ASSUME NEW u \in Stakers PROVE UpdateStaking(s, k[u]) \in StakerInfo
    <2> DEFINE i == k[u]
    <2>1. i \in StakerInfo /\ s.unstaking_period \in Nat
      BY DEF StakingState
    <2> HIDE DEF i
    <2>2. i.unstaked_amount + i.unstaking_amount \in Nat
      BY <2>1 DEF StakerInfo
    <2>3. UpdateStaking(s, i) \in StakerInfo
      BY <2>1, <2>2 DEF UpdateStaking, StakerInfo
    <2>4. QED
      BY <2>3 DEF i
  <1>2. Unstaking(s, k) \in [Stakers -> Nat] /\ Unstaked(s, k) \in [Stakers -> Nat]
    BY <1>1 DEF Unstaking, Unstaked, StakerInfo
  <1>3. QED
    BY <1>1, <1>2, TotalType, StakeAssumption

\* A distribution moves the index only.
LEMMA DistributedType ==
    ASSUME NEW s \in StakingState, NEW r \in RewardInfo
    PROVE  /\ Distributed(s, r) \in StakingState /\ Taken(s, r) \in RewardInfo
           /\ s.reward_index <= Distributed(s, r).reward_index
           /\ Distributed(s, r).total_bond_share = s.total_bond_share
           /\ Distributed(s, r).total_unstaking_amount = s.total_unstaking_amount
           /\ Distributed(s, r).total_unstaked_amount = s.total_unstaked_amount
           /\ Distributed(s, r).unstaking_period = s.unstaking_period
           /\ Taken(s, r).reconciled_amount = r.reconciled_amount
           /\ Taken(s, r).exists = r.exists
  <1>1. /\ s.reward_index \in Nat /\ s.total_bond_share \in Nat
        /\ r.staker_income \in Nat
    BY DEF StakingState, RewardInfo
  <1>2. IndexAfter(s, r) \in Nat /\ s.reward_index <= IndexAfter(s, r)
    BY <1>1, FromRatioBounds DEF IndexAfter
  <1>3. IncomeAfter(s, r) \in Nat
    BY <1>1 DEF IncomeAfter
  <1>4. QED
    BY <1>2, <1>3 DEF Distributed, Taken, StakingState, RewardInfo

\* A distribution gives the stakers no more than the income it takes away.
LEMMA DistributedBacked ==
    ASSUME NEW s, NEW k, NEW p \in Nat, Records(s, k, p),
           NEW r, NEW h, NEW o, Backed(s, k, r, h, o)
    PROVE  /\ Records(Distributed(s, r), k, p)
           /\ Backed(Distributed(s, r), k, Taken(s, r), h, o)
  <1> DEFINE d == Distributed(s, r)
             t == Taken(s, r)
  <1>1. /\ s \in StakingState /\ k \in [Stakers -> StakerInfo] /\ r \in RewardInfo
        /\ h \in Nat /\ o \in Nat /\ \A u \in Stakers : Known(s, k[u])
        /\ Total(BondShares(k)) = s.total_bond_share
    BY DEF Records, Backed
  <1>2. /\ d \in StakingState /\ t \in RewardInfo
        /\ s.reward_index <= d.reward_index
        /\ d.total_bond_share = s.total_bond_share
        /\ d.unstaking_period = s.unstaking_period
        /\ t.reconciled_amount = r.reconciled_amount
    BY <1>1, DistributedType
  <1>3. \A u \in Stakers : Known(d, k[u])
    BY <1>1, <1>2 DEF Known, StakingState, StakerInfo
  <1>4. Records(d, k, p)
    BY <1>1, <1>2, <1>3 DEF Records
  <1>5. Total(Claims(d, k)) + SCALE * t.staker_income <= Total(Claims(s, k)) + SCALE * r.staker_income
    <2>1. CASE s.total_bond_share = 0
      <3>1. d.reward_index = s.reward_index /\ t.staker_income = r.staker_income
        BY <1>1, <2>1 DEF Distributed, Taken, IndexAfter, IncomeAfter, StakingState, RewardInfo
      <3>2. Claims(d, k) = Claims(s, k)
        BY <3>1 DEF Claims, Claim
      <3>3. Total(Claims(s, k)) \in Nat /\ SCALE * r.staker_income \in Nat
        BY <1>1, RecordType, DecimalAssumption DEF RewardInfo
      <3>4. QED
        BY <3>1, <3>2, <3>3
    <2>2. CASE s.total_bond_share # 0
      <3> DEFINE part == FromRatio(r.staker_income, s.total_bond_share)
                 T == s.total_bond_share
                 z == [u \in Stakers |-> 0]
      <3>1. T \in Nat \ {0} /\ r.staker_income \in Nat
        BY <1>1, <2>2 DEF StakingState, RewardInfo
      <3>2. part \in Nat /\ T * part <= r.staker_income * SCALE
        BY <3>1, FromRatioBounds
      <3>3. d.reward_index = s.reward_index + part /\ t.staker_income = 0
        BY <1>1, <2>2 DEF Distributed, Taken, IndexAfter, IncomeAfter, StakingState, RewardInfo
      <3> HIDE DEF part, d, t
      <3>4. /\ BondShares(k) \in [Stakers -> Nat]
            /\ Claims(s, k) \in [Stakers -> Nat] /\ Claims(d, k) \in [Stakers -> Nat]
            /\ Total(Claims(s, k)) \in Nat /\ Total(Claims(d, k)) \in Nat
        BY <1>1, <1>2, <1>3, RecordType
      <3>5. ASSUME NEW u \in Stakers
            PROVE  Claims(d, k)[u] = Claims(s, k)[u] + BondShares(k)[u] * part
        <4> DEFINE i == k[u].reward_index
                   b == k[u].bond_share
                   w == SCALE * k[u].pending_reward
                   x == s.reward_index
        <4>1. i \in Nat /\ b \in Nat /\ x \in Nat /\ w \in Nat
          BY <1>1, DecimalAssumption DEF StakerInfo, StakingState
        <4>2. /\ Claims(d, k)[u] = w + b * (d.reward_index - i)
              /\ Claims(s, k)[u] = w + b * (x - i) /\ BondShares(k)[u] = b
          BY DEF Claims, Claim, BondShares
        <4> HIDE DEF i, b, w, x
        <4>3. d.reward_index - i = (x - i) + part
          BY <3>2, <3>3, <4>1 DEF x
        <4>4. b * ((x - i) + part) = b * (x - i) + b * part
          BY <3>2, <4>1
        <4>5. b * (x - i) \in Int /\ b * part \in Int
          BY <3>2, <4>1
        <4>6. QED
          BY <4>1, <4>2, <4>3, <4>4, <4>5
      <3>6. z \in [Stakers -> Nat] /\ Total(z) = 0
        BY TotalOfZeros
      <3>7. 1 * Total(Claims(d, k)) + 1 * Total(z)
                <= 1 * Total(Claims(s, k)) + part * Total(BondShares(k))
        <4>1. ASSUME NEW u \in Stakers
              PROVE  1 * Claims(d, k)[u] + 1 * z[u]
                         <= 1 * Claims(s, k)[u] + part * BondShares(k)[u]
          <5>1. /\ Claims(d, k)[u] \in Nat /\ Claims(s, k)[u] \in Nat /\ BondShares(k)[u] \in Nat
                /\ z[u] = 0
            BY <3>4
          <5>2. BondShares(k)[u] * part = part * BondShares(k)[u]
            BY <3>2, <5>1
          <5>3. part * BondShares(k)[u] \in Nat
            BY <3>2, <5>1
          <5>4. QED
            BY <3>5, <5>1, <5>2, <5>3
        <4> HIDE DEF z
        <4>2. 1 \in Nat
          OBVIOUS
        <4>3. QED
          BY <3>2, <3>4, <3>6, <4>1, <4>2, TotalsRelated, StakeAssumption
      <3>8. part * Total(BondShares(k)) <= SCALE * r.staker_income
        BY <1>1, <3>1, <3>2, DecimalAssumption
      <3>9. part * Total(BondShares(k)) \in Nat /\ SCALE * r.staker_income \in Nat /\ SCALE * 0 = 0
        BY <1>1, <3>1, <3>2, DecimalAssumption
      <3> HIDE DEF z
      <3>10. QED
        BY <3>3, <3>4, <3>6, <3>7, <3>8, <3>9
    <2>3. QED
      BY <2>1, <2>2
  <1>6. Backed(d, k, t, h, o)
    <2>1. /\ r.staker_income \in Nat /\ t.staker_income \in Nat /\ r.reconciled_amount \in Nat
      BY <1>1, <1>2 DEF RewardInfo
    <2>2. /\ Total(Claims(d, k)) \in Nat /\ Total(Claims(s, k)) \in Nat
      BY <1>1, <1>2, <1>3, RecordType
    <2>3. /\ SCALE * (r.staker_income + o) = SCALE * r.staker_income + SCALE * o
          /\ SCALE * (t.staker_income + o) = SCALE * t.staker_income + SCALE * o
          /\ SCALE * r.staker_income \in Nat /\ SCALE * t.staker_income \in Nat
          /\ SCALE * o \in Nat /\ SCALE * r.reconciled_amount \in Nat
      BY <1>1, <2>1, DecimalAssumption
    <2>4. /\ Total(Claims(s, k)) + SCALE * (r.staker_income + o) <= SCALE * r.reconciled_amount
          /\ r.reconciled_amount <= h
      BY DEF Backed
    <2> HIDE DEF d, t
    <2>5. Total(Claims(d, k)) + SCALE * (t.staker_income + o) <= SCALE * t.reconciled_amount
      BY <1>2, <1>5, <2>2, <2>3, <2>4
    <2>6. QED
      BY <1>1, <1>2, <2>4, <2>5 DEF Backed
  <1>7. QED
    BY <1>4, <1>6

\* What is credited to a staker is no more than the claim.
LEMMA EarnedBound ==
    ASSUME NEW s \in StakingState, NEW i \in StakerInfo, i.reward_index <= s.reward_index
    PROVE  /\ Earned(s, i) \in Nat /\ Claim(s, i) \in Nat
           /\ SCALE * Earned(s, i) <= Claim(s, i)
  <1> DEFINE d == s.reward_index - i.reward_index
             e == TimesDecimal(i.bond_share, d)
             w == i.pending_reward
             b == i.bond_share
  <1>1. d \in Nat /\ w \in Nat /\ b \in Nat
    BY DEF StakingState, StakerInfo
  <1>2. e \in Nat /\ SCALE * e <= b * d
    BY <1>1, TimesDecimalBounds
  <1>3. Earned(s, i) = w + e /\ Claim(s, i) = SCALE * w + b * d
    BY DEF Earned, Claim
  <1> HIDE DEF d, w, b, e
  <1>4. SCALE * (w + e) = SCALE * w + SCALE * e
    BY <1>1, <1>2, DecimalAssumption
  <1>5. SCALE * w \in Nat /\ SCALE * e \in Nat /\ b * d \in Nat
    BY <1>1, <1>2, DecimalAssumption
  <1>6. QED
    BY <1>1, <1>2, <1>3, <1>4, <1>5

\* One record changes, and the total of shares with it.
LEMMA ReplacedRecords ==
    ASSUME NEW s, NEW k, NEW p \in Nat, Records(s, k, p),
           NEW t \in StakingState, NEW u \in Stakers, NEW i \in StakerInfo,
           t.reward_index = s.reward_index, t.unstaking_period = s.unstaking_period,
           t.total_bond_share = s.total_bond_share - k[u].bond_share + i.bond_share,
           Known(t, i)
    PROVE  Records(t, [k EXCEPT ![u] = i], p)
  <1> DEFINE n == [k EXCEPT ![u] = i]
  <1>1. /\ s \in StakingState /\ k \in [Stakers -> StakerInfo] /\ s.unstaking_period <= p
        /\ \A v \in Stakers : Known(s, k[v])
        /\ Total(BondShares(k)) = s.total_bond_share
    BY DEF Records
  <1>2. n \in [Stakers -> StakerInfo]
    BY <1>1
  <1>3. ASSUME NEW v \in Stakers PROVE Known(t, n[v])
    BY <1>1 DEF Known
  <1>4. /\ \A v \in Stakers : v # u => BondShares(n)[v] = BondShares(k)[v]
        /\ BondShares(n)[u] = i.bond_share /\ BondShares(k)[u] = k[u].bond_share
    BY <1>1 DEF BondShares
  <1>5. BondShares(k) \in [Stakers -> Nat] /\ BondShares(n) \in [Stakers -> Nat]
    BY <1>1, <1>2 DEF BondShares, StakerInfo
  <1> HIDE DEF n
  <1>6. Total(BondShares(n)) = Total(BondShares(k)) - BondShares(k)[u] + BondShares(n)[u]
    BY <1>4, <1>5, TotalReplaced, StakeAssumption
  <1>7. QED
    BY <1>1, <1>2, <1>3, <1>4, <1>6 DEF Records, n

\* One record changes, and its owner is paid from the claim.
LEMMA ReplacedBacked ==
    ASSUME NEW s, NEW k, NEW p \in Nat, Records(s, k, p),
           NEW r, NEW h, NEW o, Backed(s, k, r, h, o),
           NEW t, NEW u \in Stakers, NEW i \in StakerInfo,
           t.reward_index = s.reward_index, i.reward_index <= s.reward_index,
           NEW paid \in Nat, paid <= r.reconciled_amount,
           Claim(s, i) + SCALE * paid <= Claim(s, k[u]),
           NEW q \in RewardInfo, q.staker_income = r.staker_income,
           q.reconciled_amount = r.reconciled_amount - paid
    PROVE  Backed(t, [k EXCEPT ![u] = i], q, h - paid, o)
  <1> DEFINE n == [k EXCEPT ![u] = i]
             C == Total(Claims(s, k))
             D == Total(Claims(t, n))
  <1>1. /\ s \in StakingState /\ k \in [Stakers -> StakerInfo]
        /\ \A v \in Stakers : Known(s, k[v])
        /\ r \in RewardInfo /\ h \in Nat /\ o \in Nat
        /\ C + SCALE * (r.staker_income + o) <= SCALE * r.reconciled_amount
        /\ r.reconciled_amount <= h
    BY DEF Records, Backed
  <1>2. Claim(s, i) \in Nat
    BY <1>1, EarnedBound
  <1>3. /\ \A v \in Stakers : v # u => Claims(t, n)[v] = Claims(s, k)[v]
        /\ Claims(t, n)[u] = Claim(s, i)
    BY <1>1 DEF Claims, Claim
  <1>4. Claims(s, k) \in [Stakers -> Nat] /\ C \in Nat
    BY <1>1, RecordType
  <1>5. D = C - Claims(s, k)[u] + Claim(s, i)
    <2>1. \A v \in Stakers : Claims(t, n)[v] \in Nat
      BY <1>2, <1>3, <1>4
    <2>2. Claims(t, n) \in [Stakers -> Nat]
      BY <2>1 DEF Claims
    <2> HIDE DEF n
    <2>3. QED
      BY <1>3, <1>4, <2>2, TotalReplaced, StakeAssumption
  <1>6. Claims(s, k)[u] = Claim(s, k[u]) /\ Claims(s, k)[u] \in Nat
    BY <1>4 DEF Claims
  <1> HIDE DEF C, D, n
  <1>7. /\ SCALE * paid \in Nat /\ SCALE * r.reconciled_amount \in Nat
        /\ SCALE * (r.staker_income + o) \in Nat
        /\ SCALE * (r.reconciled_amount - paid) = SCALE * r.reconciled_amount - SCALE * paid
    BY <1>1, DecimalAssumption DEF RewardInfo
  <1>8. D + SCALE * (q.staker_income + o) <= SCALE * q.reconciled_amount
    BY <1>1, <1>2, <1>4, <1>5, <1>6, <1>7
  <1>9. h - paid \in Nat /\ q.reconciled_amount <= h - paid
    BY <1>1 DEF RewardInfo
  <1>10. QED
    BY <1>1, <1>8, <1>9 DEF Backed, D, n

\* Nothing but the requests and dates of the state changes.
LEMMA SameBacked ==
    ASSUME NEW s, NEW k, NEW r, NEW h, NEW o, Backed(s, k, r, h, o),
           NEW t, t.reward_index = s.reward_index
    PROVE  Backed(t, k, r, h, o)
  <1>1. Claims(t, k) = Claims(s, k)
    BY DEF Claims, Claim
  <1>2. QED
    BY <1>1 DEF Backed

LEMMA SameRecords ==
    ASSUME NEW s, NEW k, NEW p \in Nat, Records(s, k, p),
           NEW t \in StakingState, t.reward_index = s.reward_index,
           t.total_bond_share = s.total_bond_share,
           s.unstaking_period <= t.unstaking_period, t.unstaking_period <= p
    PROVE  Records(t, k, p)
  <1>1. /\ s \in StakingState /\ k \in [Stakers -> StakerInfo]
        /\ \A v \in Stakers : Known(s, k[v])
        /\ Total(BondShares(k)) = s.total_bond_share
    BY DEF Records
  <1>2. ASSUME NEW v \in Stakers PROVE Known(t, k[v])
    BY <1>1 DEF Known, StakingState, StakerInfo
  <1>3. QED
    BY <1>1, <1>2 DEF Records

\* A state with the same requests.
LEMMA SameAddUp ==
    ASSUME NEW s, NEW k, AddUp(s, k),
           NEW t, t.unstaking_period = s.unstaking_period,
           t.total_unstaking_amount = s.total_unstaking_amount,
           t.total_unstaked_amount = s.total_unstaked_amount
    PROVE  AddUp(t, k)
  <1>1. Unstaking(t, k) = Unstaking(s, k) /\ Unstaked(t, k) = Unstaked(s, k)
    BY DEF Unstaking, Unstaked, UpdateStaking
  <1>2. QED
    BY <1>1 DEF AddUp

\* One record asks for more or is paid.
LEMMA ReplacedAddUp ==
    ASSUME NEW s \in StakingState, NEW k \in [Stakers -> StakerInfo], AddUp(s, k),
           NEW t \in StakingState, t.unstaking_period = s.unstaking_period,
           NEW u \in Stakers, NEW i \in StakerInfo,
           NEW asked \in Nat, NEW paid \in Nat,
           t.total_unstaking_amount = s.total_unstaking_amount + asked,
           t.total_unstaked_amount = s.total_unstaked_amount - paid,
           UpdateStaking(s, i).unstaking_amount
               = UpdateStaking(s, k[u]).unstaking_amount + asked,
           UpdateStaking(s, i).unstaked_amount
               = UpdateStaking(s, k[u]).unstaked_amount - paid
    PROVE  AddUp(t, [k EXCEPT ![u] = i])
  <1> DEFINE n == [k EXCEPT ![u] = i]
             a == UpdateStaking(s, i).unstaking_amount
             b == UpdateStaking(s, i).unstaked_amount
  <1>1. n \in [Stakers -> StakerInfo] /\ n[u] = i
    OBVIOUS
  <1>2. UpdateStaking(s, n[u]) \in StakerInfo
    BY <1>1, UnstakingType
  <1>3. a \in Nat /\ b \in Nat
    BY <1>1, <1>2 DEF StakerInfo
  <1>4. \A j \in StakerInfo : UpdateStaking(t, j) = UpdateStaking(s, j)
    BY DEF UpdateStaking
  <1>5. /\ Unstaking(s, k) \in [Stakers -> Nat] /\ Unstaked(s, k) \in [Stakers -> Nat]
        /\ Unstaking(t, n) \in [Stakers -> Nat] /\ Unstaked(t, n) \in [Stakers -> Nat]
        /\ Total(Unstaking(s, k)) \in Nat /\ Total(Unstaked(s, k)) \in Nat
    BY <1>1, UnstakingType
  <1>6. /\ Total(Unstaking(t, n)) = Total(Unstaking(s, k)) - Unstaking(s, k)[u] + a
        /\ Total(Unstaked(t, n)) = Total(Unstaked(s, k)) - Unstaked(s, k)[u] + b
    <2>1. \A v \in Stakers : v # u => n[v] = k[v]
      OBVIOUS
    <2> HIDE DEF n
    <2>2. ASSUME NEW v \in Stakers, v # u
          PROVE  /\ Unstaking(t, n)[v] = Unstaking(s, k)[v]
                 /\ Unstaked(t, n)[v] = Unstaked(s, k)[v]
      BY <1>4, <2>1, <2>2 DEF Unstaking, Unstaked
    <2>3. Unstaking(t, n)[u] = a /\ Unstaked(t, n)[u] = b
      BY <1>1, <1>4 DEF Unstaking, Unstaked
    <2> HIDE DEF a, b
    <2>4. QED
      BY <1>5, <2>2, <2>3, TotalReplaced, StakeAssumption
  <1>7. /\ a = Unstaking(s, k)[u] + asked /\ b = Unstaked(s, k)[u] - paid
        /\ Unstaking(s, k)[u] \in Nat /\ Unstaked(s, k)[u] \in Nat
    BY <1>5 DEF a, b, Unstaking, Unstaked
  <1>8. /\ Total(Unstaking(s, k)) = s.total_unstaking_amount
        /\ Total(Unstaked(s, k)) = s.total_unstaked_amount
    BY DEF AddUp
  <1>9. AddUp(t, n)
    BY <1>5, <1>6, <1>7, <1>8 DEF AddUp
  <1>10. QED
    BY <1>9 DEF n

\* A relock in a later period than the last makes all requests done.
LEMMA RelockAddUp ==
    ASSUME NEW s \in StakingState, NEW k \in [Stakers -> StakerInfo], AddUp(s, k),
           \A u \in Stakers : Known(s, k[u]),
           NEW t \in StakingState, s.unstaking_period < t.unstaking_period,
           t.total_unstaking_amount = 0,
           t.total_unstaked_amount = s.total_unstaked_amount + s.total_unstaking_amount
    PROVE  AddUp(t, k)
  <1>1. ASSUME NEW u \in Stakers
        PROVE  /\ UpdateStaking(t, k[u]).unstaking_amount = 0
               /\ UpdateStaking(t, k[u]).unstaked_amount
                    = UpdateStaking(s, k[u]).unstaked_amount + UpdateStaking(s, k[u]).unstaking_amount
    <2> DEFINE i == k[u]
               a == i.unstaking_amount
               b == i.unstaked_amount
    <2>1. i \in StakerInfo /\ a \in Nat /\ b \in Nat /\ i.unstaking_period <= s.unstaking_period
      BY DEF StakerInfo, Known
    <2>2. /\ i.unstaking_period \in Nat /\ s.unstaking_period \in Nat /\ t.unstaking_period \in Nat
      BY <2>1 DEF StakerInfo, StakingState
    <2>3. t.unstaking_period > i.unstaking_period
      BY <2>1, <2>2
    <2> HIDE DEF i
    <2>4. /\ UpdateStaking(t, i).unstaking_amount = 0
          /\ UpdateStaking(t, i).unstaked_amount = b + a
      BY <2>1, <2>3 DEF UpdateStaking, StakerInfo
    <2>5. CASE s.unstaking_period > i.unstaking_period
      <3>1. /\ UpdateStaking(s, i).unstaking_amount = 0
            /\ UpdateStaking(s, i).unstaked_amount = b + a
        BY <2>1, <2>5 DEF UpdateStaking, StakerInfo
      <3>2. QED
        BY <2>1, <2>4, <3>1 DEF i
    <2>6. CASE ~(s.unstaking_period > i.unstaking_period)
      <3>1. UpdateStaking(s, i) = i
        BY <2>6 DEF UpdateStaking
      <3>2. QED
        BY <2>1, <2>4, <3>1 DEF i
    <2>7. QED
      BY <2>5, <2>6
  <1>2. /\ Unstaking(s, k) \in [Stakers -> Nat] /\ Unstaked(s, k) \in [Stakers -> Nat]
        /\ Unstaking(t, k) \in [Stakers -> Nat] /\ Unstaked(t, k) \in [Stakers -> Nat]
        /\ Total(Unstaking(s, k)) \in Nat /\ Total(Unstaked(s, k)) \in Nat
    BY UnstakingType
  <1>3. Unstaking(t, k) = [u \in Stakers |-> 0]
    BY <1>1 DEF Unstaking
  <1>4. Total(Unstaking(t, k)) = 0
    BY <1>3, TotalOfZeros
  <1>5. \A u \in Stakers : Unstaked(t, k)[u] = Unstaked(s, k)[u] + Unstaking(s, k)[u]
    BY <1>1 DEF Unstaking, Unstaked
  <1>6. Total(Unstaked(t, k)) = Total(Unstaked(s, k)) + Total(Unstaking(s, k))
    BY <1>2, <1>5, TotalOfSum, StakeAssumption
  <1>7. QED
    BY <1>4, <1>6 DEF AddUp

\* Shares are counted in naturals.
LEMMA ShareType ==
    ASSUME NEW s \in StakingState, NEW locked \in Nat, NEW amount \in Nat
    PROVE  MintShare(s, locked, amount) \in Nat /\ BurnShare(s, locked, amount) \in Nat
  <1>1. s.total_bond_share \in Nat /\ s.total_unstaking_amount \in Nat
    BY DEF StakingState
  <1>2. Bonded(s, locked) \in Nat
    BY <1>1 DEF Bonded, AtMost
  <1>3. QED
    BY <1>1, <1>2, MulRatioBounds, MulRatioCeilBounds DEF MintShare, BurnShare

-----------------------------------------------------------------------------
(* Facts that the steps have in common *)

LEMMA SoundType ==
    ASSUME Sound
    PROVE  /\ state \in StakingState /\ stakers \in [Stakers -> StakerInfo]
           /\ reward \in RewardInfo /\ held \in Nat /\ lp_owed \in Nat
           /\ \A u \in Stakers : Known(state, stakers[u])
           /\ state.unstaking_period <= period
           /\ reward.reconciled_amount <= held
           /\ Total(BondShares(stakers)) = state.total_bond_share
  BY DEF Sound, Records, Backed

\* Between transactions.
LEMMA AtRest ==
    ASSUME IInv, Idle
    PROVE  /\ Locked(state, stakers, lock) /\ Live(state, lock, 0)
           /\ state.total_unstaked_amount <= xastro
  <1>1. Before(<< >>)
    BY NextMessage DEF IInv
  <1>2. Asked(<< >>) = 0
    BY DEF Asked
  <1>3. state.total_unstaked_amount \in Nat
    BY SoundType DEF IInv, StakingState
  <1>4. QED
    BY <1>1, <1>2, <1>3 DEF Before

\* A step after which no messages are left.
LEMMA Resting ==
    ASSUME queue' = << >>, Locked(state', stakers', lock'), Live(state', lock', 0),
           state'.total_unstaked_amount \in Nat, state'.total_unstaked_amount <= xastro'
    PROVE  Phase' /\ (~Idle' => Undone')
  <1>1. Asked(<< >>) = 0 /\ << >> \in Extensions
    BY DEF Asked, Extensions
  <1>2. Before(<< >>)'
    BY <1>1 DEF Before
  <1>3. QED
    BY <1>1, <1>2 DEF Phase, Idle

\* A call remembers a state that can be brought back.
LEMMA BeganUndone ==
    ASSUME IInv, NEW m, Begin(m), period' = period
    PROVE  ~Idle' => Undone'
  <1>1. SUFFICES ASSUME ~Idle' PROVE Undone'
    OBVIOUS
  <1>2. Idle /\ undo' = State
    BY <1>1 DEF Begin, Idle
  <1>3. /\ undo'.state = state /\ undo'.stakers = stakers /\ undo'.reward = reward
        /\ undo'.held = held /\ undo'.xastro = xastro /\ undo'.lp_owed = lp_owed
        /\ undo'.lock = lock /\ undo'.last_claim = last_claim
    BY <1>2 DEF State
  <1>4. /\ Locked(state, stakers, lock) /\ Live(state, lock, 0)
        /\ state.total_unstaked_amount <= xastro
    BY <1>2, AtRest
  <1>5. /\ xastro \in Nat /\ lock \in Lock /\ last_claim \in Nat
        /\ Records(state, stakers, period)
        /\ Backed(state, stakers, reward, held, lp_owed)
    BY DEF IInv, Sound
  <1>6. QED
    BY <1>3, <1>4, <1>5 DEF Undone

\* A message leaves what can be brought back alone.
LEMMA ProceededUndone ==
    ASSUME IInv, ~Idle, NEW m, Proceed(m), period' = period
    PROVE  ~Idle' => Undone'
  <1>1. SUFFICES ASSUME ~Idle' PROVE Undone'
    OBVIOUS
  <1>2. undo' = undo
    BY <1>1 DEF Proceed, Idle
  <1>3. QED
    BY <1>2 DEF IInv, Undone

\* Income arrives, and what is owed to others changes, as the record says.
LEMMA IncomeBacked ==
    ASSUME NEW s \in StakingState, NEW k \in [Stakers -> StakerInfo],
           \A u \in Stakers : Known(s, k[u]),
           NEW r, NEW h, NEW o, Backed(s, k, r, h, o),
           NEW a \in Nat, NEW b \in Int, o + b \in Nat, NEW g \in Nat,
           NEW q \in RewardInfo, q.staker_income = r.staker_income + a,
           q.reconciled_amount = r.reconciled_amount + a + b,
           q.reconciled_amount <= g
    PROVE  Backed(s, k, q, g, o + b)
  <1> DEFINE C == Total(Claims(s, k))
             i == r.staker_income
             c == r.reconciled_amount
  <1>1. /\ i \in Nat /\ c \in Nat /\ o \in Nat
        /\ C + SCALE * (i + o) <= SCALE * c
    BY DEF Backed, RewardInfo
  <1>2. C \in Nat
    BY RecordType
  <1>3. q.staker_income = i + a /\ q.reconciled_amount = c + a + b
    OBVIOUS
  <1> HIDE DEF C, i, c
  <1>4. /\ SCALE * (i + a + (o + b)) = SCALE * (i + o) + SCALE * (a + b)
        /\ SCALE * (c + a + b) = SCALE * c + SCALE * (a + b)
        /\ SCALE * (a + b) \in Int /\ SCALE * (i + o) \in Int /\ SCALE * c \in Int
    BY <1>1, DecimalAssumption
  <1>5. C + SCALE * (q.staker_income + (o + b)) <= SCALE * q.reconciled_amount
    BY <1>1, <1>2, <1>3, <1>4
  <1>6. QED
    BY <1>5 DEF Backed, C

\* A credited record has what was earned as its claim.
LEMMA CurrentClaim ==
    ASSUME NEW s \in StakingState, NEW i \in StakerInfo, i.reward_index = s.reward_index
    PROVE  Claim(s, i) = SCALE * i.pending_reward
  <1>1. s.reward_index - i.reward_index = 0 /\ i.bond_share * 0 = 0
    BY DEF StakingState, StakerInfo
  <1>2. SCALE * i.pending_reward \in Nat
    BY DecimalAssumption DEF StakerInfo
  <1>3. QED
    BY <1>1, <1>2 DEF Claim

\* A record that is brought up to date is so.
LEMMA UpdatedStaking ==
    ASSUME NEW s \in StakingState, NEW i \in StakerInfo, i.unstaking_period <= s.unstaking_period
    PROVE  /\ UpdateStaking(s, i) \in StakerInfo
           /\ UpdateStaking(s, i).unstaking_period = s.unstaking_period
           /\ UpdateStaking(s, i).exists = i.exists
           /\ UpdateStaking(s, i).bond_share = i.bond_share
           /\ UpdateStaking(s, i).reward_index = i.reward_index
           /\ UpdateStaking(s, i).pending_reward = i.pending_reward
  <1>1. i.unstaked_amount + i.unstaking_amount \in Nat /\ s.unstaking_period \in Nat
        /\ i.unstaking_period \in Nat
    BY DEF StakerInfo, StakingState
  <1>2. CASE s.unstaking_period > i.unstaking_period
    <2> DEFINE j == [i EXCEPT !.unstaked_amount = @ + i.unstaking_amount,
                              !.unstaking_amount = 0, !.unstaking_period = s.unstaking_period]
    <2>1. UpdateStaking(s, i) = j
      BY <1>2 DEF UpdateStaking
    <2>2. /\ j \in StakerInfo /\ j.unstaking_period = s.unstaking_period
          /\ j.exists = i.exists /\ j.bond_share = i.bond_share
          /\ j.reward_index = i.reward_index /\ j.pending_reward = i.pending_reward
      BY <1>1 DEF StakerInfo
    <2>3. QED
      BY <2>1, <2>2
  <1>3. CASE ~(s.unstaking_period > i.unstaking_period)
    <2>1. UpdateStaking(s, i) = i /\ i.unstaking_period = s.unstaking_period
      BY <1>1, <1>3 DEF UpdateStaking
    <2>2. QED
      BY <2>1
  <1>4. QED
    BY <1>2, <1>3

-----------------------------------------------------------------------------
(* Each step keeps the invariant *)

LEMMA InitInv == Init => IInv
  <1> SUFFICES ASSUME Init PROVE IInv
    OBVIOUS
  <1>1. /\ state \in StakingState /\ state.total_bond_share = 0
        /\ state.unstaking_period = 1 /\ state.reward_index = 0
        /\ state.total_unstaking_amount = 0 /\ state.total_unstaked_amount = 0
    BY DEF Init, StakingState
  <1>2. NoStaker \in StakerInfo
    BY DEF NoStaker, StakerInfo
  <1>3. stakers \in [Stakers -> StakerInfo] /\ \A u \in Stakers : stakers[u] = NoStaker
    BY <1>2 DEF Init
  <1>4. period = 1 /\ max_quota \in Nat /\ weekly \in [1 .. MaxPeriod -> Nat]
    BY StakeAssumption DEF Init
  <1>5. /\ reward \in RewardInfo /\ reward.staker_income = 0 /\ reward.reconciled_amount = 0
        /\ lock \in Lock /\ lock.amount = 0
        /\ held = 0 /\ xastro = 0 /\ lp_owed = 0 /\ last_claim = 0
    BY DEF Init, NoReward, NoLock, RewardInfo, Lock
  <1>6. \A u \in Stakers : Known(state, stakers[u])
    BY <1>1, <1>3 DEF Known, NoStaker
  <1>7. \A u \in Stakers : Claim(state, stakers[u]) = 0
    <2>1. NoStaker.reward_index = 0 /\ NoStaker.pending_reward = 0
      BY DEF NoStaker
    <2>2. Claim(state, NoStaker) = SCALE * 0
      BY <1>1, <1>2, <2>1, CurrentClaim
    <2>3. QED
      BY <1>3, <2>2, DecimalAssumption
  <1>8. \A u \in Stakers : /\ UpdateStaking(state, stakers[u]).unstaking_amount = 0
                          /\ UpdateStaking(state, stakers[u]).unstaked_amount = 0
    BY <1>1, <1>3 DEF UpdateStaking, NoStaker
  <1>9. /\ BondShares(stakers) = [u \in Stakers |-> 0]
        /\ Claims(state, stakers) = [u \in Stakers |-> 0]
        /\ Unstaking(state, stakers) = [u \in Stakers |-> 0]
        /\ Unstaked(state, stakers) = [u \in Stakers |-> 0]
    BY <1>3, <1>7, <1>8 DEF BondShares, Claims, Unstaking, Unstaked, NoStaker
  <1>10. /\ Total(BondShares(stakers)) = 0 /\ Total(Claims(state, stakers)) = 0
         /\ Total(Unstaking(state, stakers)) = 0 /\ Total(Unstaked(state, stakers)) = 0
    BY <1>9, TotalOfZeros
  <1>11. Records(state, stakers, period)
    BY <1>1, <1>3, <1>4, <1>6, <1>10 DEF Records
  <1>12. Backed(state, stakers, reward, held, lp_owed)
    BY <1>5, <1>10, DecimalAssumption DEF Backed
  <1>13. Sound
    BY <1>4, <1>5, <1>11, <1>12 DEF Sound
  <1>14. Idle
    BY DEF Init, Idle
  <1>15. Before(<< >>)
    BY <1>1, <1>5, <1>10 DEF Before, Locked, Live, AddUp, Asked
  <1>16. Phase
    BY <1>14, <1>15 DEF Phase, Idle, Extensions
  <1>17. QED
    BY <1>13, <1>14, <1>16 DEF IInv

LEMMA PairOfMessages ==
    ASSUME NEW m \in Message, NEW n \in Message
    PROVE  <<m, n>> = From(m, <<n>>)
  <1> DEFINE p == <<m>>
             t == <<n>>
             q == p \o t
             r == <<m, n>>
  <1>1. /\ p \in Seq(Message) /\ Len(p) = 1 /\ p[1] = m
        /\ t \in Seq(Message) /\ Len(t) = 1 /\ t[1] = n
        /\ r \in Seq(Message) /\ Len(r) = 2 /\ r[1] = m /\ r[2] = n
    OBVIOUS
  <1> HIDE DEF p, t, r
  <1>2. /\ q \in Seq(Message) /\ Len(q) = Len(p) + Len(t)
        /\ \A i \in 1 .. Len(p) + Len(t) : q[i] = IF i <= Len(p) THEN p[i] ELSE t[i - Len(p)]
    BY <1>1, ConcatProperties
  <1> HIDE DEF q
  <1>3. q[1] = m /\ q[2] = n /\ Len(q) = 2
    BY <1>1, <1>2
  <1>4. \A i \in 1 .. Len(r) : r[i] = q[i]
    BY <1>1, <1>3
  <1>5. r = q
    BY <1>1, <1>2, <1>3, <1>4, SeqEqual
  <1>6. QED
    BY <1>5 DEF p, t, q, r, From

\* Messages as the calls write them.
LEMMA CallMessages ==
    ASSUME NEW a \in Nat
    PROVE  /\ <<Msg("CreateLock", a)>> = ToCreate(a, << >>)
           /\ <<Msg("Relock", 0)>> = ToRelock(<< >>)
           /\ <<Msg("Relock", 0), Msg("ExtendLockAmount", a)>>
                = ToRelock(<<Msg("ExtendLockAmount", a)>>)
           /\ << >> \in Extensions /\ <<Msg("ExtendLockAmount", a)>> \in Extensions
           /\ Asked(<< >>) = 0 /\ Asked(<<Msg("ExtendLockAmount", a)>>) = a
  <1> DEFINE c == Msg("CreateLock", a)
             r == Msg("Relock", 0)
             x == Msg("ExtendLockAmount", a)
  <1>1. << >> \in Extensions /\ <<x>> \in Extensions /\ Asked(<< >>) = 0
    BY DEF Extensions, Asked
  <1>2. Asked(<<x>>) = a
    BY DEF Asked, Msg
  <1>3. c \in Message /\ r \in Message /\ x \in Message
    BY MsgType
  <1> HIDE DEF c, r, x
  <1>4. <<c>> = From(c, << >>) /\ <<r>> = From(r, << >>)
    BY <1>3 DEF From
  <1>5. <<r, x>> = From(r, <<x>>)
    BY <1>3, PairOfMessages
  <1>6. QED
    BY <1>1, <1>2, <1>4, <1>5 DEF ToCreate, ToRelock, c, r, x

\* The record with which a staker begins.
LEMMA StakerOfFacts ==
    ASSUME NEW s \in StakingState, NEW i \in StakerInfo, Known(s, i)
    PROVE  /\ StakerOf(s, i) \in StakerInfo /\ StakerOf(s, i).exists
           /\ StakerOf(s, i).reward_index <= s.reward_index
           /\ StakerOf(s, i).unstaking_period <= s.unstaking_period
           /\ StakerOf(s, i).bond_share = i.bond_share
           /\ \A t \in StakingState : s.reward_index <= t.reward_index =>
                  Claim(t, StakerOf(s, i)) = Claim(t, i)
           /\ UpdateStaking(s, StakerOf(s, i)).unstaking_amount
                  = UpdateStaking(s, i).unstaking_amount
           /\ UpdateStaking(s, StakerOf(s, i)).unstaked_amount
                  = UpdateStaking(s, i).unstaked_amount
  <1> DEFINE j == StakerOf(s, i)
  <1>1. CASE i.exists
    <2>1. j = i
      BY <1>1 DEF StakerOf
    <2>2. QED
      BY <1>1, <2>1 DEF Known
  <1>2. CASE ~i.exists
    <2>1. i = NoStaker
      BY <1>2 DEF Known
    <2>2. /\ j \in StakerInfo /\ j.exists
          /\ j.reward_index = s.reward_index /\ j.unstaking_period = s.unstaking_period
          /\ j.bond_share = 0 /\ j.pending_reward = 0
          /\ j.unstaking_amount = 0 /\ j.unstaked_amount = 0
      BY <1>2 DEF StakerOf, NoStaker, StakerInfo, StakingState
    <2>3. /\ i.bond_share = 0 /\ i.pending_reward = 0 /\ i.reward_index \in Nat
          /\ i.unstaking_amount = 0 /\ i.unstaked_amount = 0
      BY <2>1 DEF NoStaker
    <2>4. /\ s.reward_index \in Nat /\ s.unstaking_period \in Nat
      BY DEF StakingState
    <2>5. ASSUME NEW t \in StakingState PROVE Claim(t, j) = Claim(t, i)
      <3>1. t.reward_index - j.reward_index \in Int /\ t.reward_index - i.reward_index \in Int
        BY <2>2, <2>3, <2>4 DEF StakingState
      <3>2. 0 * (t.reward_index - j.reward_index) = 0 /\ 0 * (t.reward_index - i.reward_index) = 0
        BY <3>1
      <3> HIDE DEF j
      <3>3. QED
        BY <2>2, <2>3, <3>2 DEF Claim
    <2> HIDE DEF j
    <2>6. /\ UpdateStaking(s, j).unstaking_amount = 0 /\ UpdateStaking(s, j).unstaked_amount = 0
      BY <2>2, <2>4 DEF UpdateStaking
    <2>7. /\ UpdateStaking(s, i).unstaking_amount = 0 /\ UpdateStaking(s, i).unstaked_amount = 0
      BY <2>1 DEF UpdateStaking, NoStaker
    <2>8. QED
      BY <2>2, <2>3, <2>4, <2>5, <2>6, <2>7 DEF j
  <1>3. QED
    BY <1>1, <1>2

LEMMA CreditedFacts ==
    ASSUME NEW s \in StakingState, NEW i \in StakerInfo, Earned(s, i) \in Nat
    PROVE  /\ Credited(s, i) \in StakerInfo
           /\ Credited(s, i).pending_reward = Earned(s, i)
           /\ Credited(s, i).reward_index = s.reward_index
           /\ Credited(s, i).exists = i.exists
           /\ Credited(s, i).bond_share = i.bond_share
           /\ Credited(s, i).unstaking_period = i.unstaking_period
           /\ Credited(s, i).unstaking_amount = i.unstaking_amount
           /\ Credited(s, i).unstaked_amount = i.unstaked_amount
  BY DEF Credited, StakerInfo, StakingState

LEMMA StakeInv ==
    ASSUME IInv, NEW u \in Stakers, NEW a \in Amounts, ExecuteStake(u, a)
    PROVE  IInv'
  <1> DEFINE d == Distributed(state, reward)
             j == StakerOf(state, stakers[u])
             w == Earned(d, j)
             x == MintShare(d, lock.amount, a)
             t == [d EXCEPT !.total_bond_share = @ + x]
             i == [Credited(d, j) EXCEPT !.bond_share = @ + x]
             q == Taken(state, reward)
  <1>1. /\ a > 0 /\ Idle
        /\ queue' = (IF lock.amount = 0 THEN <<Msg("CreateLock", a)>>
                     ELSE IF lock.end <= period
                     THEN <<Msg("Relock", 0), Msg("ExtendLockAmount", a)>>
                     ELSE <<Msg("ExtendLockAmount", a)>>)
        /\ xastro' = xastro + a /\ state' = t /\ stakers' = [stakers EXCEPT ![u] = i]
        /\ reward' = q
        /\ UNCHANGED <<max_quota, period, held, lp_owed, lock, last_claim, weekly>>
    BY DEF ExecuteStake, Begin
  <1>2. ~Idle' => Undone'
    <2>1. PICK m : Begin(m)
      BY DEF ExecuteStake
    <2>2. QED
      BY <1>1, <2>1, BeganUndone
  <1>3. /\ state \in StakingState /\ reward \in RewardInfo /\ stakers[u] \in StakerInfo
        /\ stakers \in [Stakers -> StakerInfo]
        /\ Known(state, stakers[u]) /\ lock \in Lock /\ xastro \in Nat /\ period \in Nat
        /\ a \in Nat /\ held \in Nat /\ lp_owed \in Nat /\ reward.reconciled_amount \in Nat
    BY SoundType, StakeAssumption DEF IInv, Sound, RewardInfo
  <1>4. /\ Locked(state, stakers, lock) /\ Live(state, lock, 0)
        /\ state.total_unstaked_amount <= xastro
    BY <1>1, AtRest
  <1>5. /\ d \in StakingState /\ q \in RewardInfo
        /\ state.reward_index <= d.reward_index
        /\ d.total_bond_share = state.total_bond_share
        /\ d.total_unstaking_amount = state.total_unstaking_amount
        /\ d.total_unstaked_amount = state.total_unstaked_amount
        /\ d.unstaking_period = state.unstaking_period
    BY <1>3, DistributedType
  <1>6. Records(d, stakers, period) /\ Backed(d, stakers, q, held, lp_owed)
    BY <1>3, DistributedBacked DEF IInv, Sound
  <1>7. /\ j \in StakerInfo /\ j.exists /\ j.reward_index <= state.reward_index
        /\ j.unstaking_period <= state.unstaking_period
        /\ j.bond_share = stakers[u].bond_share
        /\ Claim(d, j) = Claim(d, stakers[u])
        /\ UpdateStaking(state, j).unstaking_amount
               = UpdateStaking(state, stakers[u]).unstaking_amount
        /\ UpdateStaking(state, j).unstaked_amount
               = UpdateStaking(state, stakers[u]).unstaked_amount
    BY <1>3, <1>5, StakerOfFacts
  <1> HIDE DEF d, j, q
  <1>8. x \in Nat
    BY <1>3, <1>5, ShareType DEF Lock
  <1>9. w \in Nat /\ Claim(d, j) \in Nat /\ SCALE * w <= Claim(d, j)
    <2>1. j.reward_index <= d.reward_index
      BY <1>3, <1>5, <1>7 DEF StakingState, StakerInfo
    <2>2. QED
      BY <1>5, <1>7, <2>1, EarnedBound
  <1> HIDE DEF x, w
  <1>10. /\ t \in StakingState /\ t.total_bond_share = d.total_bond_share + x
         /\ t.reward_index = d.reward_index /\ t.unstaking_period = d.unstaking_period
         /\ t.total_unstaking_amount = d.total_unstaking_amount
         /\ t.total_unstaked_amount = d.total_unstaked_amount
    BY <1>5, <1>8 DEF StakingState
  <1>11. /\ i \in StakerInfo /\ i.bond_share = j.bond_share + x /\ i.exists
         /\ i.reward_index = d.reward_index /\ i.pending_reward = w
         /\ i.unstaking_period = j.unstaking_period
         /\ i.unstaking_amount = j.unstaking_amount /\ i.unstaked_amount = j.unstaked_amount
    <2> DEFINE c == Credited(d, j)
    <2>1. /\ c \in StakerInfo /\ c.pending_reward = w /\ c.reward_index = d.reward_index
          /\ c.exists = j.exists /\ c.bond_share = j.bond_share
          /\ c.unstaking_period = j.unstaking_period
          /\ c.unstaking_amount = j.unstaking_amount /\ c.unstaked_amount = j.unstaked_amount
      BY <1>5, <1>7, <1>9, CreditedFacts DEF w
    <2>2. i = [c EXCEPT !.bond_share = @ + x]
      OBVIOUS
    <2> HIDE DEF c, i
    <2>3. c.bond_share + x \in Nat
      BY <1>8, <2>1 DEF StakerInfo
    <2>4. QED
      BY <1>7, <2>1, <2>2, <2>3 DEF StakerInfo
  <1> HIDE DEF t, i
  <1>12. Records(t, [stakers EXCEPT ![u] = i], period)
    <2>1. t.total_bond_share = d.total_bond_share - stakers[u].bond_share + i.bond_share
      BY <1>3, <1>5, <1>7, <1>8, <1>10, <1>11 DEF StakerInfo, StakingState
    <2>2. Known(t, i)
      BY <1>5, <1>7, <1>10, <1>11 DEF Known, StakingState
    <2>3. QED
      BY <1>3, <1>6, <1>10, <1>11, <2>1, <2>2, ReplacedRecords
  <1>13. Backed(t, [stakers EXCEPT ![u] = i], q, held, lp_owed)
    <2>1. Claim(d, i) = SCALE * w
      BY <1>5, <1>11, CurrentClaim
    <2>2. /\ 0 \in Nat /\ SCALE * 0 = 0 /\ held - 0 = held
          /\ q.reconciled_amount \in Nat /\ q.reconciled_amount = q.reconciled_amount - 0
          /\ 0 <= q.reconciled_amount
      BY <1>3, <1>5, DecimalAssumption DEF RewardInfo
    <2>3. Claim(d, i) + SCALE * 0 <= Claim(d, stakers[u]) /\ i.reward_index <= d.reward_index
      BY <1>5, <1>7, <1>9, <1>11, <2>1, <2>2, DecimalAssumption DEF StakingState
    <2>4. Backed(t, [stakers EXCEPT ![u] = i], q, held - 0, lp_owed)
      BY <1>3, <1>5, <1>6, <1>10, <1>11, <2>2, <2>3, ReplacedBacked
    <2>5. QED
      BY <2>2, <2>4
  <1>14. AddUp(t, [stakers EXCEPT ![u] = i])
    <2>1. /\ UpdateStaking(state, i).unstaking_amount = UpdateStaking(state, j).unstaking_amount
          /\ UpdateStaking(state, i).unstaked_amount = UpdateStaking(state, j).unstaked_amount
      BY <1>7, <1>11 DEF UpdateStaking, StakerInfo
    <2>2. /\ UpdateStaking(state, stakers[u]).unstaking_amount \in Nat
          /\ UpdateStaking(state, stakers[u]).unstaked_amount \in Nat
      <3>1. UpdateStaking(state, stakers[u]) \in StakerInfo
        BY <1>3, UnstakingType
      <3>2. QED
        BY <3>1 DEF StakerInfo
    <2>3. /\ 0 \in Nat
          /\ t.total_unstaking_amount = state.total_unstaking_amount + 0
          /\ t.total_unstaked_amount = state.total_unstaked_amount - 0
          /\ UpdateStaking(state, i).unstaking_amount
               = UpdateStaking(state, stakers[u]).unstaking_amount + 0
          /\ UpdateStaking(state, i).unstaked_amount
               = UpdateStaking(state, stakers[u]).unstaked_amount - 0
      BY <1>3, <1>5, <1>7, <1>10, <2>1, <2>2 DEF StakingState
    <2>4. AddUp(state, stakers) /\ t.unstaking_period = state.unstaking_period
      BY <1>4, <1>5, <1>10 DEF Locked
    <2>5. QED
      BY <1>3, <1>10, <1>11, <2>3, <2>4, ReplacedAddUp
  <1>15. Sound'
    BY <1>1, <1>12, <1>13, <1>3 DEF IInv, Sound
  <1>16. Phase'
    <2>1. /\ lock.amount \in Nat /\ lock.end \in Nat /\ state.total_unstaking_amount \in Nat
          /\ state.total_unstaked_amount \in Nat
      BY <1>3 DEF Lock, StakingState
    <2>2. /\ AddUp(state', stakers')
          /\ state'.total_unstaking_amount = state.total_unstaking_amount
          /\ state'.total_unstaked_amount = state.total_unstaked_amount
          /\ state'.unstaking_period = state.unstaking_period
          /\ state.total_unstaking_amount <= lock.amount
          /\ lock.amount > 0 => state.unstaking_period < lock.end
      BY <1>1, <1>4, <1>5, <1>10, <1>14 DEF Locked
    <2>3. CASE lock.amount = 0
      <3>1. queue' = ToCreate(a, << >>) /\ << >> \in Extensions /\ Asked(<< >>) = 0
        BY <1>1, <1>3, <2>3, CallMessages
      <3>2. After(a, << >>)'
        <4>1. lock'.amount = 0 /\ state'.total_unstaking_amount = 0
          BY <1>1, <2>1, <2>2, <2>3
        <4>2. state'.total_unstaked_amount + a + 0 <= xastro'
          BY <1>1, <1>3, <1>4, <2>1, <2>2
        <4>3. QED
          BY <2>2, <3>1, <4>1, <4>2 DEF After
      <3>3. QED
        BY <1>3, <3>1, <3>2 DEF Phase
    <2>4. CASE lock.amount # 0
      <3> DEFINE e == <<Msg("ExtendLockAmount", a)>>
      <3>1. e \in Extensions /\ Asked(e) = a
        BY <1>3, CallMessages
      <3>2. queue' = e \/ queue' = ToRelock(e)
        BY <1>1, <1>3, <2>4, CallMessages
      <3> HIDE DEF e
      <3>3. Before(e)'
        BY <1>1, <1>3, <1>4, <2>1, <2>2, <2>4, <3>1 DEF Before, Locked, Live
      <3>4. QED
        BY <3>1, <3>2, <3>3 DEF Phase
    <2>5. QED
      BY <2>3, <2>4
  <1>17. QED
    BY <1>2, <1>15, <1>16 DEF IInv

\* A burnt share is worth the xASTRO that is asked for: a request leaves the
\* lock covered, and not empty while shares are left.
LEMMA BurnCovers ==
    ASSUME NEW s \in StakingState, NEW l \in Lock, NEW a \in Nat,
           s.total_unstaking_amount <= l.amount, Live(s, l, 0),
           BurnShare(s, l.amount, a) <= s.total_bond_share
    PROVE  /\ s.total_unstaking_amount + a <= l.amount
           /\ BurnShare(s, l.amount, a) < s.total_bond_share =>
                  s.total_unstaking_amount + a < l.amount
  <1> DEFINE T == s.total_bond_share
             N == s.total_unstaking_amount
             L == l.amount
             x == BurnShare(s, L, a)
  <1>1. T \in Nat /\ N \in Nat /\ L \in Nat /\ N <= L /\ x <= T
    BY DEF StakingState, Lock
  <1>2. CASE T = 0
    <2>1. x = a
      BY <1>2 DEF BurnShare
    <2>2. QED
      BY <1>1, <1>2, <2>1
  <1>3. CASE T > 0
    <2> DEFINE B == Bonded(s, L)
    <2>1. N < L
      BY <1>1, <1>3 DEF Live
    <2>2. B = L - N /\ B \in Nat \ {0}
      BY <1>1, <2>1 DEF Bonded, AtMost
    <2>3. x = MulRatioCeil(a, T, B)
      BY <1>3, <2>2 DEF BurnShare
    <2> HIDE DEF B
    <2>4. x \in Nat /\ a * T <= B * x
      BY <1>1, <2>2, <2>3, MulRatioCeilBounds
    <2> HIDE DEF x, T, N, L
    <2>5. B * x <= B * T
      BY <1>1, <2>2, <2>4, TimesMonotone
    <2>6. a <= B
      <3>1. a * T <= B * T
        BY <1>1, <2>2, <2>4, <2>5
      <3>2. T \in Nat \ {0} /\ B \in Int /\ a \in Int
        BY <1>1, <1>3, <2>2
      <3>3. QED
        BY <3>1, <3>2, TimesCancel
    <2>7. ASSUME x < T PROVE a < B
      <3>1. SUFFICES ASSUME a = B PROVE FALSE
        BY <2>2, <2>6
      <3>2. B * x < B * T
        BY <1>1, <2>2, <2>4, <2>7
      <3>3. QED
        BY <1>1, <2>2, <2>4, <3>1, <3>2
    <2>8. QED
      BY <1>1, <2>2, <2>6, <2>7 DEF x, T, N, L
  <1>4. QED
    BY <1>1, <1>2, <1>3

LEMMA RequestInv ==
    ASSUME IInv, NEW u \in Stakers, NEW a \in Amounts, ExecuteRequestUnstake(u, a)
    PROVE  IInv'
  <1> DEFINE d == Distributed(state, reward)
             c == Credited(d, stakers[u])
             w == Earned(d, stakers[u])
             j == UpdateStaking(d, c)
             x == BurnShare(d, lock.amount, a)
             t == [d EXCEPT !.total_bond_share = @ - x, !.total_unstaking_amount = @ + a]
             i == [j EXCEPT !.bond_share = @ - x, !.unstaking_amount = @ + a]
             q == Taken(state, reward)
  <1>1. /\ stakers[u].exists /\ Idle /\ queue' = << >>
        /\ x <= j.bond_share /\ x <= d.total_bond_share
        /\ state' = t /\ stakers' = [stakers EXCEPT ![u] = i] /\ reward' = q
        /\ UNCHANGED <<max_quota, period, held, xastro, lp_owed, lock, last_claim, weekly>>
    BY DEF ExecuteRequestUnstake, Begin, Burnable, theirs
  <1>2. /\ state \in StakingState /\ reward \in RewardInfo /\ stakers[u] \in StakerInfo
        /\ stakers \in [Stakers -> StakerInfo]
        /\ Known(state, stakers[u]) /\ lock \in Lock /\ xastro \in Nat /\ period \in Nat
        /\ a \in Nat /\ held \in Nat /\ lp_owed \in Nat
    BY SoundType, StakeAssumption DEF IInv, Sound
  <1>3. /\ Locked(state, stakers, lock) /\ Live(state, lock, 0)
        /\ state.total_unstaked_amount <= xastro
    BY <1>1, AtRest
  <1>4. /\ d \in StakingState /\ q \in RewardInfo
        /\ state.reward_index <= d.reward_index
        /\ d.total_bond_share = state.total_bond_share
        /\ d.total_unstaking_amount = state.total_unstaking_amount
        /\ d.total_unstaked_amount = state.total_unstaked_amount
        /\ d.unstaking_period = state.unstaking_period
    BY <1>2, DistributedType
  <1>5. Records(d, stakers, period) /\ Backed(d, stakers, q, held, lp_owed)
    BY <1>2, DistributedBacked DEF IInv, Sound
  <1> HIDE DEF d, q
  <1>6. /\ w \in Nat /\ SCALE * w <= Claim(d, stakers[u])
        /\ stakers[u].reward_index <= d.reward_index
        /\ stakers[u].unstaking_period <= d.unstaking_period
    <2>1. /\ stakers[u].reward_index <= d.reward_index
          /\ stakers[u].unstaking_period <= d.unstaking_period
      BY <1>2, <1>4 DEF StakingState, StakerInfo, Known
    <2>2. QED
      BY <1>2, <1>4, <2>1, EarnedBound
  <1>7. /\ c \in StakerInfo /\ c.pending_reward = w /\ c.reward_index = d.reward_index
        /\ c.exists = stakers[u].exists /\ c.bond_share = stakers[u].bond_share
        /\ c.unstaking_period = stakers[u].unstaking_period
        /\ c.unstaking_amount = stakers[u].unstaking_amount
        /\ c.unstaked_amount = stakers[u].unstaked_amount
    BY <1>2, <1>4, <1>6, CreditedFacts
  <1> HIDE DEF c, w
  <1>8. /\ j \in StakerInfo /\ j.exists = c.exists /\ j.bond_share = c.bond_share
        /\ j.reward_index = c.reward_index /\ j.pending_reward = c.pending_reward
        /\ j.unstaking_period = d.unstaking_period
    BY <1>4, <1>6, <1>7, UpdatedStaking
  <1>9. /\ j.unstaking_amount = UpdateStaking(state, stakers[u]).unstaking_amount
        /\ j.unstaked_amount = UpdateStaking(state, stakers[u]).unstaked_amount
    BY <1>2, <1>4, <1>7 DEF UpdateStaking, StakerInfo
  <1> HIDE DEF j
  <1>10. x \in Nat
    BY <1>2, <1>4, ShareType DEF Lock
  <1>11. /\ state.total_unstaking_amount + a <= lock.amount
         /\ x < d.total_bond_share => state.total_unstaking_amount + a < lock.amount
    <2>1. d.total_unstaking_amount <= lock.amount /\ Live(d, lock, 0)
      BY <1>3, <1>4 DEF Locked, Live
    <2>2. QED
      BY <1>1, <1>2, <1>4, <2>1, BurnCovers
  <1> HIDE DEF x
  <1>12. /\ t \in StakingState /\ t.total_bond_share = d.total_bond_share - x
         /\ t.reward_index = d.reward_index /\ t.unstaking_period = d.unstaking_period
         /\ t.total_unstaking_amount = d.total_unstaking_amount + a
         /\ t.total_unstaked_amount = d.total_unstaked_amount
    <2>1. d.total_bond_share - x \in Nat /\ d.total_unstaking_amount + a \in Nat
      BY <1>1, <1>2, <1>4, <1>10 DEF StakingState
    <2>2. QED
      BY <1>4, <2>1 DEF StakingState
  <1>13. /\ i \in StakerInfo /\ i.bond_share = j.bond_share - x /\ i.exists = j.exists
         /\ i.reward_index = d.reward_index /\ i.pending_reward = w
         /\ i.unstaking_period = d.unstaking_period
         /\ i.unstaking_amount = j.unstaking_amount + a
         /\ i.unstaked_amount = j.unstaked_amount
    <2>1. j.bond_share - x \in Nat /\ j.unstaking_amount + a \in Nat
      BY <1>1, <1>2, <1>8, <1>10 DEF StakerInfo
    <2>2. QED
      BY <1>7, <1>8, <2>1 DEF StakerInfo
  <1> HIDE DEF t, i
  <1>14. Records(t, [stakers EXCEPT ![u] = i], period)
    <2>1. t.total_bond_share = d.total_bond_share - stakers[u].bond_share + i.bond_share
      BY <1>2, <1>4, <1>7, <1>8, <1>10, <1>12, <1>13 DEF StakerInfo, StakingState
    <2>2. Known(t, i)
      BY <1>1, <1>4, <1>7, <1>8, <1>12, <1>13 DEF Known, StakingState
    <2>3. QED
      BY <1>2, <1>5, <1>12, <1>13, <2>1, <2>2, ReplacedRecords
  <1>15. Backed(t, [stakers EXCEPT ![u] = i], q, held, lp_owed)
    <2>1. Claim(d, i) = SCALE * w
      BY <1>4, <1>13, CurrentClaim
    <2>2. /\ 0 \in Nat /\ SCALE * 0 = 0 /\ held - 0 = held
          /\ q.reconciled_amount \in Nat /\ q.reconciled_amount = q.reconciled_amount - 0
          /\ 0 <= q.reconciled_amount
      BY <1>2, <1>4, DecimalAssumption DEF RewardInfo
    <2>3. Claim(d, i) + SCALE * 0 <= Claim(d, stakers[u]) /\ i.reward_index <= d.reward_index
      BY <1>4, <1>6, <1>13, <2>1, <2>2, DecimalAssumption DEF StakingState
    <2>4. Backed(t, [stakers EXCEPT ![u] = i], q, held - 0, lp_owed)
      BY <1>2, <1>4, <1>5, <1>12, <1>13, <2>2, <2>3, ReplacedBacked
    <2>5. QED
      BY <2>2, <2>4
  <1>16. AddUp(t, [stakers EXCEPT ![u] = i])
    <2>1. UpdateStaking(state, i) = i
      BY <1>2, <1>4, <1>13 DEF UpdateStaking, StakingState
    <2>2. /\ UpdateStaking(state, stakers[u]).unstaking_amount \in Nat
          /\ UpdateStaking(state, stakers[u]).unstaked_amount \in Nat
      <3>1. UpdateStaking(state, stakers[u]) \in StakerInfo
        BY <1>2, UnstakingType
      <3>2. QED
        BY <3>1 DEF StakerInfo
    <2>3. /\ 0 \in Nat
          /\ t.total_unstaking_amount = state.total_unstaking_amount + a
          /\ t.total_unstaked_amount = state.total_unstaked_amount - 0
          /\ UpdateStaking(state, i).unstaking_amount
               = UpdateStaking(state, stakers[u]).unstaking_amount + a
          /\ UpdateStaking(state, i).unstaked_amount
               = UpdateStaking(state, stakers[u]).unstaked_amount - 0
      BY <1>2, <1>4, <1>9, <1>12, <1>13, <2>1, <2>2 DEF StakingState
    <2>4. AddUp(state, stakers) /\ t.unstaking_period = state.unstaking_period
      BY <1>3, <1>4, <1>12 DEF Locked
    <2>5. QED
      BY <1>2, <1>12, <1>13, <2>3, <2>4, ReplacedAddUp
  <1>17. Sound'
    BY <1>1, <1>2, <1>14, <1>15 DEF IInv, Sound
  <1>18. Phase' /\ (~Idle' => Undone')
    <2>1. Locked(state', stakers', lock')
      BY <1>1, <1>3, <1>4, <1>11, <1>12, <1>16 DEF Locked
    <2>2. Live(state', lock', 0)
      <3>1. lock.amount \in Nat /\ d.total_bond_share \in Nat /\ state.total_unstaking_amount \in Nat
        BY <1>2, <1>4 DEF Lock, StakingState
      <3>2. t.total_bond_share > 0 => x < d.total_bond_share
        BY <1>10, <1>12, <3>1
      <3>3. t.total_bond_share > 0 => t.total_unstaking_amount < lock.amount + 0
        BY <1>2, <1>4, <1>11, <1>12, <3>1, <3>2
      <3>4. QED
        BY <1>1, <3>3 DEF Live
    <2>3. state'.total_unstaked_amount \in Nat /\ state'.total_unstaked_amount <= xastro'
      BY <1>1, <1>2, <1>3, <1>4, <1>12 DEF StakingState
    <2>4. QED
      BY <1>1, <2>1, <2>2, <2>3, Resting
  <1>19. QED
    BY <1>17, <1>18 DEF IInv

LEMMA WithdrawInv ==
    ASSUME IInv, NEW u \in Stakers, NEW a \in Amounts, ExecuteWithdrawUnstaked(u, a)
    PROVE  IInv'
  <1> DEFINE j == UpdateStaking(state, stakers[u])
             t == [state EXCEPT !.total_unstaked_amount = @ - a]
             i == [j EXCEPT !.unstaked_amount = @ - a]
  <1>1. /\ stakers[u].exists /\ a <= xastro /\ a <= j.unstaked_amount
        /\ a <= state.total_unstaked_amount /\ Idle /\ queue' = << >>
        /\ state' = t /\ stakers' = [stakers EXCEPT ![u] = i] /\ xastro' = xastro - a
        /\ UNCHANGED <<reward, max_quota, period, held, lp_owed, lock, last_claim, weekly>>
    BY DEF ExecuteWithdrawUnstaked, Begin
  <1>2. /\ state \in StakingState /\ reward \in RewardInfo /\ stakers[u] \in StakerInfo
        /\ stakers \in [Stakers -> StakerInfo]
        /\ Known(state, stakers[u]) /\ lock \in Lock /\ xastro \in Nat /\ period \in Nat
        /\ a \in Nat /\ held \in Nat /\ lp_owed \in Nat
    BY SoundType, StakeAssumption DEF IInv, Sound
  <1>3. /\ Locked(state, stakers, lock) /\ Live(state, lock, 0)
        /\ state.total_unstaked_amount <= xastro
        /\ Records(state, stakers, period) /\ Backed(state, stakers, reward, held, lp_owed)
    BY <1>1, AtRest DEF IInv, Sound
  <1>4. /\ j \in StakerInfo /\ j.exists = stakers[u].exists
        /\ j.bond_share = stakers[u].bond_share
        /\ j.reward_index = stakers[u].reward_index
        /\ j.pending_reward = stakers[u].pending_reward
        /\ j.unstaking_period = state.unstaking_period
    BY <1>2, UpdatedStaking DEF Known
  <1> HIDE DEF j
  <1>5. /\ t \in StakingState /\ t.total_bond_share = state.total_bond_share
        /\ t.reward_index = state.reward_index /\ t.unstaking_period = state.unstaking_period
        /\ t.total_unstaking_amount = state.total_unstaking_amount
        /\ t.total_unstaked_amount = state.total_unstaked_amount - a
    <2>1. state.total_unstaked_amount - a \in Nat
      BY <1>1, <1>2 DEF StakingState
    <2>2. QED
      BY <1>2, <2>1 DEF StakingState
  <1>6. /\ i \in StakerInfo /\ i.bond_share = j.bond_share /\ i.exists = j.exists
        /\ i.reward_index = j.reward_index /\ i.pending_reward = j.pending_reward
        /\ i.unstaking_period = j.unstaking_period
        /\ i.unstaking_amount = j.unstaking_amount
        /\ i.unstaked_amount = j.unstaked_amount - a
    <2>1. j.unstaked_amount - a \in Nat
      BY <1>1, <1>2, <1>4 DEF StakerInfo
    <2>2. QED
      BY <1>4, <2>1 DEF StakerInfo
  <1> HIDE DEF t, i
  <1>7. Records(t, [stakers EXCEPT ![u] = i], period)
    <2>1. t.total_bond_share = state.total_bond_share - stakers[u].bond_share + i.bond_share
      BY <1>2, <1>4, <1>5, <1>6 DEF StakerInfo, StakingState
    <2>2. Known(t, i)
      BY <1>1, <1>2, <1>4, <1>5, <1>6 DEF Known, StakingState
    <2>3. QED
      BY <1>2, <1>3, <1>5, <1>6, <2>1, <2>2, ReplacedRecords
  <1>8. Backed(t, [stakers EXCEPT ![u] = i], reward, held, lp_owed)
    <2>1. Claim(state, i) = Claim(state, stakers[u])
      BY <1>4, <1>6 DEF Claim
    <2>2. /\ 0 \in Nat /\ SCALE * 0 = 0 /\ held - 0 = held
          /\ reward.reconciled_amount = reward.reconciled_amount - 0
          /\ 0 <= reward.reconciled_amount
      BY <1>2, DecimalAssumption DEF RewardInfo
    <2>3. Claim(state, stakers[u]) \in Nat
      BY <1>2, EarnedBound DEF Known
    <2>4. Claim(state, i) + SCALE * 0 <= Claim(state, stakers[u])
          /\ i.reward_index <= state.reward_index
      BY <1>2, <1>4, <1>6, <2>1, <2>2, <2>3 DEF Known
    <2>5. Backed(t, [stakers EXCEPT ![u] = i], reward, held - 0, lp_owed)
      BY <1>2, <1>3, <1>5, <1>6, <2>2, <2>4, ReplacedBacked
    <2>6. QED
      BY <2>2, <2>5
  <1>9. AddUp(t, [stakers EXCEPT ![u] = i])
    <2>1. UpdateStaking(state, i) = i
      BY <1>2, <1>4, <1>6 DEF UpdateStaking, StakingState
    <2>2. /\ j.unstaking_amount \in Nat /\ j.unstaked_amount \in Nat
          /\ j = UpdateStaking(state, stakers[u])
      BY <1>4 DEF j, StakerInfo
    <2>3. /\ 0 \in Nat
          /\ t.total_unstaking_amount = state.total_unstaking_amount + 0
          /\ t.total_unstaked_amount = state.total_unstaked_amount - a
          /\ UpdateStaking(state, i).unstaking_amount
               = UpdateStaking(state, stakers[u]).unstaking_amount + 0
          /\ UpdateStaking(state, i).unstaked_amount
               = UpdateStaking(state, stakers[u]).unstaked_amount - a
      BY <1>2, <1>5, <1>6, <2>1, <2>2 DEF StakingState
    <2>4. AddUp(state, stakers)
      BY <1>3 DEF Locked
    <2>5. QED
      BY <1>2, <1>5, <1>6, <2>3, <2>4, ReplacedAddUp
  <1>10. Sound'
    <2>1. xastro - a \in Nat
      BY <1>1, <1>2
    <2>2. QED
      BY <1>1, <1>2, <1>7, <1>8, <2>1 DEF IInv, Sound
  <1>11. Phase' /\ (~Idle' => Undone')
    <2>1. Locked(state', stakers', lock') /\ Live(state', lock', 0)
      BY <1>1, <1>3, <1>5, <1>9 DEF Locked, Live
    <2>2. state'.total_unstaked_amount \in Nat /\ state'.total_unstaked_amount <= xastro'
      BY <1>1, <1>2, <1>3, <1>5 DEF StakingState
    <2>3. QED
      BY <1>1, <2>1, <2>2, Resting
  <1>12. QED
    BY <1>10, <1>11 DEF IInv

LEMMA ClaimInv ==
    ASSUME IInv, NEW u \in Stakers, ExecuteClaimIncome(u)
    PROVE  IInv'
  <1> DEFINE d == Distributed(state, reward)
             w == Earned(d, stakers[u])
             c == Credited(d, stakers[u])
             i == [c EXCEPT !.pending_reward = 0]
             q == Taken(state, reward)
             g == [q EXCEPT !.reconciled_amount = @ - w]
  <1>1. /\ stakers[u].exists /\ w <= held /\ w <= reward.reconciled_amount
        /\ Idle /\ queue' = << >>
        /\ state' = d /\ stakers' = [stakers EXCEPT ![u] = i] /\ reward' = g
        /\ held' = held - w
        /\ UNCHANGED <<max_quota, period, xastro, lp_owed, lock, last_claim, weekly>>
    BY DEF ExecuteClaimIncome, Begin
  <1>2. /\ state \in StakingState /\ reward \in RewardInfo /\ stakers[u] \in StakerInfo
        /\ stakers \in [Stakers -> StakerInfo]
        /\ Known(state, stakers[u]) /\ lock \in Lock /\ xastro \in Nat /\ period \in Nat
        /\ held \in Nat /\ lp_owed \in Nat
    BY SoundType DEF IInv, Sound
  <1>3. /\ Locked(state, stakers, lock) /\ Live(state, lock, 0)
        /\ state.total_unstaked_amount <= xastro
    BY <1>1, AtRest
  <1>4. /\ d \in StakingState /\ q \in RewardInfo
        /\ state.reward_index <= d.reward_index
        /\ d.total_bond_share = state.total_bond_share
        /\ d.total_unstaking_amount = state.total_unstaking_amount
        /\ d.total_unstaked_amount = state.total_unstaked_amount
        /\ d.unstaking_period = state.unstaking_period
        /\ q.reconciled_amount = reward.reconciled_amount
    BY <1>2, DistributedType
  <1>5. Records(d, stakers, period) /\ Backed(d, stakers, q, held, lp_owed)
    BY <1>2, DistributedBacked DEF IInv, Sound
  <1> HIDE DEF d, q
  <1>6. /\ w \in Nat /\ SCALE * w <= Claim(d, stakers[u])
        /\ stakers[u].reward_index <= d.reward_index
    <2>1. stakers[u].reward_index <= d.reward_index
      BY <1>2, <1>4 DEF StakingState, StakerInfo, Known
    <2>2. QED
      BY <1>2, <1>4, <2>1, EarnedBound
  <1>7. /\ c \in StakerInfo /\ c.reward_index = d.reward_index
        /\ c.exists = stakers[u].exists /\ c.bond_share = stakers[u].bond_share
        /\ c.unstaking_period = stakers[u].unstaking_period
        /\ c.unstaking_amount = stakers[u].unstaking_amount
        /\ c.unstaked_amount = stakers[u].unstaked_amount
    BY <1>2, <1>4, <1>6, CreditedFacts
  <1> HIDE DEF c, w
  <1>8. /\ i \in StakerInfo /\ i.pending_reward = 0 /\ i.reward_index = d.reward_index
        /\ i.exists = stakers[u].exists /\ i.bond_share = stakers[u].bond_share
        /\ i.unstaking_period = stakers[u].unstaking_period
        /\ i.unstaking_amount = stakers[u].unstaking_amount
        /\ i.unstaked_amount = stakers[u].unstaked_amount
    BY <1>7 DEF StakerInfo
  <1>9. /\ g \in RewardInfo /\ g.staker_income = q.staker_income
        /\ g.reconciled_amount = q.reconciled_amount - w
    <2>1. q.reconciled_amount - w \in Nat
      BY <1>1, <1>4, <1>6 DEF RewardInfo
    <2>2. QED
      BY <1>4, <2>1 DEF RewardInfo
  <1> HIDE DEF i, g
  <1>10. Records(d, [stakers EXCEPT ![u] = i], period)
    <2>1. d.total_bond_share = d.total_bond_share - stakers[u].bond_share + i.bond_share
      BY <1>2, <1>4, <1>8 DEF StakerInfo, StakingState
    <2>2. Known(d, i)
      BY <1>1, <1>2, <1>4, <1>8 DEF Known, StakingState
    <2>3. QED
      BY <1>2, <1>4, <1>5, <1>8, <2>1, <2>2, ReplacedRecords
  <1>11. Backed(d, [stakers EXCEPT ![u] = i], g, held - w, lp_owed)
    <2>1. Claim(d, i) = SCALE * 0 /\ SCALE * 0 = 0
      BY <1>4, <1>8, CurrentClaim, DecimalAssumption
    <2>2. Claim(d, i) + SCALE * w <= Claim(d, stakers[u]) /\ i.reward_index <= d.reward_index
      BY <1>4, <1>6, <1>8, <2>1, DecimalAssumption DEF StakingState
    <2>3. w <= q.reconciled_amount
      BY <1>1, <1>4
    <2>4. QED
      BY <1>2, <1>5, <1>6, <1>8, <1>9, <2>2, <2>3, ReplacedBacked
  <1>12. AddUp(d, [stakers EXCEPT ![u] = i])
    <2>1. /\ UpdateStaking(state, i).unstaking_amount
               = UpdateStaking(state, stakers[u]).unstaking_amount
          /\ UpdateStaking(state, i).unstaked_amount
               = UpdateStaking(state, stakers[u]).unstaked_amount
      BY <1>2, <1>8 DEF UpdateStaking, StakerInfo
    <2>2. /\ UpdateStaking(state, stakers[u]).unstaking_amount \in Nat
          /\ UpdateStaking(state, stakers[u]).unstaked_amount \in Nat
      <3>1. UpdateStaking(state, stakers[u]) \in StakerInfo
        BY <1>2, UnstakingType
      <3>2. QED
        BY <3>1 DEF StakerInfo
    <2>3. /\ 0 \in Nat
          /\ d.total_unstaking_amount = state.total_unstaking_amount + 0
          /\ d.total_unstaked_amount = state.total_unstaked_amount - 0
          /\ UpdateStaking(state, i).unstaking_amount
               = UpdateStaking(state, stakers[u]).unstaking_amount + 0
          /\ UpdateStaking(state, i).unstaked_amount
               = UpdateStaking(state, stakers[u]).unstaked_amount - 0
      BY <1>2, <1>4, <2>1, <2>2 DEF StakingState
    <2>4. AddUp(state, stakers)
      BY <1>3 DEF Locked
    <2>5. QED
      BY <1>2, <1>4, <1>8, <2>3, <2>4, ReplacedAddUp
  <1>13. Sound'
    BY <1>1, <1>2, <1>10, <1>11 DEF IInv, Sound
  <1>14. Phase' /\ (~Idle' => Undone')
    <2>1. Locked(state', stakers', lock') /\ Live(state', lock', 0)
      BY <1>1, <1>3, <1>4, <1>12 DEF Locked, Live
    <2>2. state'.total_unstaked_amount \in Nat /\ state'.total_unstaked_amount <= xastro'
      BY <1>1, <1>2, <1>3, <1>4 DEF StakingState
    <2>3. QED
      BY <1>1, <2>1, <2>2, Resting
  <1>15. QED
    BY <1>13, <1>14 DEF IInv

LEMMA ControllerRelockInv ==
    ASSUME IInv, ControllerRelock
    PROVE  IInv'
  <1>1. /\ Idle /\ queue' = <<Msg("Relock", 0)>>
        /\ UNCHANGED <<state, stakers, reward, max_quota, period, held, xastro, lp_owed, lock,
                       last_claim, weekly>>
    BY DEF ControllerRelock, Begin, ours, theirs
  <1>2. ~Idle' => Undone'
    <2>1. Begin(<<Msg("Relock", 0)>>)
      BY DEF ControllerRelock
    <2>2. QED
      BY <1>1, <2>1, BeganUndone
  <1>3. Before(<< >>)
    BY <1>1, NextMessage DEF IInv
  <1>4. queue' = ToRelock(<< >>) /\ << >> \in Extensions
    BY <1>1, CallMessages, 0 \in Nat
  <1>5. Before(<< >>)'
    BY <1>1, <1>3 DEF Before
  <1>6. Phase'
    BY <1>4, <1>5 DEF Phase
  <1>7. Sound'
    BY <1>1 DEF IInv, Sound
  <1>8. QED
    BY <1>2, <1>6, <1>7 DEF IInv

LEMMA UpdateParametersInv ==
    ASSUME IInv, NEW quota \in Quotas, UpdateParameters(quota)
    PROVE  IInv'
  <1>1. /\ Idle /\ queue' = << >> /\ max_quota' \in Nat
        /\ UNCHANGED <<state, stakers, reward, period, held, xastro, lp_owed, lock,
                       last_claim, weekly>>
    BY StakeAssumption DEF UpdateParameters, Begin, ours, theirs
  <1>2. /\ Locked(state, stakers, lock) /\ Live(state, lock, 0)
        /\ state.total_unstaked_amount <= xastro /\ state.total_unstaked_amount \in Nat
    BY <1>1, AtRest, SoundType DEF IInv, StakingState
  <1>3. Phase' /\ (~Idle' => Undone')
    BY <1>1, <1>2, Resting
  <1>4. Sound'
    BY <1>1 DEF IInv, Sound
  <1>5. QED
    BY <1>3, <1>4 DEF IInv

\* What the distributor pays is an amount.
LEMMA PayableType ==
    ASSUME weekly \in [1 .. MaxPeriod -> Nat], NEW first, NEW last
    PROVE  Payable(first, last) \in Nat
  <1> DEFINE f == [p \in 1 .. MaxPeriod |->
                      IF p \in first .. last - 1 /\ p <= lock.end THEN weekly[p] ELSE 0]
  <1>1. f \in [1 .. MaxPeriod -> Nat]
    OBVIOUS
  <1>2. IsFiniteSet(1 .. MaxPeriod)
    BY FS_Interval, StakeAssumption
  <1> HIDE DEF f
  <1>3. Total(f) \in Nat
    BY <1>1, <1>2, TotalType
  <1>4. QED
    BY <1>3 DEF f, Payable

\* A distribution keeps the requests.
LEMMA DistributedAddUp ==
    ASSUME NEW s \in StakingState, NEW k, NEW r \in RewardInfo, AddUp(s, k)
    PROVE  AddUp(Distributed(s, r), k)
  BY DistributedType, SameAddUp

LEMMA RelockInv ==
    ASSUME IInv, Relock
    PROVE  IInv'
  <1> DEFINE s == [state EXCEPT !.total_unstaked_amount = @ + state.total_unstaking_amount,
                                !.total_unstaking_amount = 0,
                                !.unstaking_period = period,
                                !.next_claim_period = last_claim]
             n == ClaimedByOthers
             r == WithIncome(n)
             d == Distributed(s, r)
             q == Taken(s, r)
  <1>1. /\ Executes("Relock") /\ ~Idle /\ state.total_unstaking_amount <= lock.amount
        /\ state' = d /\ reward' = q
        /\ queue' = <<Msg("FeeClaim", 0), Msg("AfterStakingClaimed", held),
                      Msg("EscrowWithdraw", 0), Msg("CreateLock", RelockAmount)>>
                    \o Tail(queue)
        /\ UNCHANGED <<stakers, max_quota, period, held, xastro, lp_owed, lock, last_claim,
                       weekly>>
    BY DEF Relock, Proceed, Executes, theirs
  <1>2. ~Idle' => Undone'
    <2>1. PICK m : Proceed(m)
      BY DEF Relock
    <2>2. QED
      BY <1>1, <2>1, ProceededUndone
  <1>3. PICK e \in Extensions : Tail(queue) = e /\ Before(e)
    BY <1>1, NextMessage DEF IInv
  <1>4. /\ state \in StakingState /\ reward \in RewardInfo
        /\ stakers \in [Stakers -> StakerInfo] /\ \A u \in Stakers : Known(state, stakers[u])
        /\ lock \in Lock /\ xastro \in Nat /\ period \in Nat /\ last_claim \in Nat
        /\ held \in Nat /\ lp_owed \in Nat /\ state.unstaking_period <= period
        /\ reward.reconciled_amount <= held /\ weekly \in [1 .. MaxPeriod -> Nat]
    BY SoundType DEF IInv, Sound
  <1>5. /\ state.total_unstaking_amount \in Nat /\ state.total_unstaked_amount \in Nat
        /\ lock.amount \in Nat /\ lock.end \in Nat /\ Asked(e) \in Nat
        /\ state.unstaking_period \in Nat
        /\ reward.reconciled_amount \in Nat /\ reward.staker_income \in Nat
    BY <1>4, ExtensionType DEF StakingState, Lock, RewardInfo
  <1>6. /\ s \in StakingState /\ s.reward_index = state.reward_index
        /\ s.total_bond_share = state.total_bond_share /\ s.unstaking_period = period
        /\ s.total_unstaking_amount = 0
        /\ s.total_unstaked_amount = state.total_unstaked_amount + state.total_unstaking_amount
    <2>1. state.total_unstaked_amount + state.total_unstaking_amount \in Nat
      BY <1>5
    <2>2. QED
      BY <1>4, <2>1 DEF StakingState
  <1>7. n \in Nat /\ reward.reconciled_amount + n <= held
    <2>1. Payable(state.next_claim_period, last_claim) \in Nat
      BY <1>4, PayableType
    <2>2. QED
      BY <1>4, <1>5, <2>1 DEF ClaimedByOthers, AtMost
  <1>8. /\ r \in RewardInfo /\ r.staker_income = reward.staker_income + n
        /\ r.reconciled_amount = reward.reconciled_amount + n
    <2>1. reward.staker_income + n \in Nat /\ reward.reconciled_amount + n \in Nat
      BY <1>5, <1>7
    <2> HIDE DEF n
    <2>2. QED
      BY <1>4, <2>1 DEF WithIncome, RewardInfo
  <1>9. PICK h \in Nat, b \in Nat :
            /\ h = held /\ b = RelockAmount
            /\ b = lock.amount - state.total_unstaking_amount
    BY <1>1, <1>4, <1>5 DEF RelockAmount
  <1> HIDE DEF s, n, r
  <1>10. /\ d \in StakingState /\ q \in RewardInfo
         /\ d.total_bond_share = s.total_bond_share
         /\ d.total_unstaking_amount = s.total_unstaking_amount
         /\ d.total_unstaked_amount = s.total_unstaked_amount
         /\ d.unstaking_period = s.unstaking_period
         /\ q.reconciled_amount = r.reconciled_amount
    BY <1>6, <1>8, DistributedType
  <1>11. Records(d, stakers, period) /\ Backed(d, stakers, q, held, lp_owed)
    <2>1. Records(s, stakers, period)
      <3>1. Records(state, stakers, period) /\ period <= period
        BY <1>4 DEF IInv, Sound
      <3>2. QED
        BY <1>4, <1>6, <3>1, SameRecords
    <2>2. Backed(s, stakers, reward, held, lp_owed)
      BY <1>6, SameBacked DEF IInv, Sound
    <2>3. Backed(s, stakers, r, held, lp_owed)
      <3>1. /\ 0 \in Int /\ lp_owed + 0 \in Nat /\ lp_owed + 0 = lp_owed
            /\ r.reconciled_amount = reward.reconciled_amount + n + 0
            /\ r.reconciled_amount <= held
        BY <1>4, <1>5, <1>7, <1>8
      <3>2. \A u \in Stakers : Known(s, stakers[u])
        BY <2>1 DEF Records
      <3>3. Backed(s, stakers, r, held, lp_owed + 0)
        BY <1>4, <1>6, <1>7, <1>8, <2>2, <3>1, <3>2, IncomeBacked
      <3>4. QED
        BY <3>1, <3>3
    <2>4. QED
      BY <1>4, <2>1, <2>3, DistributedBacked
  <1> HIDE DEF d, q
  <1>12. Sound'
    BY <1>1, <1>4, <1>11 DEF IInv, Sound
  <1>13. lock.amount > 0 /\ lock.end <= period => AddUp(d, stakers)
    <2>1. SUFFICES ASSUME lock.amount > 0, lock.end <= period PROVE AddUp(d, stakers)
      OBVIOUS
    <2>2. AddUp(state, stakers) /\ state.unstaking_period < lock.end
      BY <1>3, <2>1 DEF Before, Locked
    <2>3. state.unstaking_period < d.unstaking_period
      BY <1>4, <1>5, <1>6, <1>10, <2>1, <2>2
    <2>4. QED
      BY <1>4, <1>6, <1>10, <2>2, <2>3, RelockAddUp
  <1>14. During(b, e)'
    <2>1. Renewing(state', stakers', lock', period')
      BY <1>1, <1>6, <1>10, <1>13 DEF Renewing
    <2>2. state'.total_unstaked_amount + b + Asked(e) <= xastro' + lock'.amount
      <3>1. state.total_unstaked_amount + Asked(e) <= xastro
        BY <1>3 DEF Before
      <3>2. state'.total_unstaked_amount
                = state.total_unstaked_amount + state.total_unstaking_amount
        BY <1>1, <1>6, <1>10
      <3>3. xastro' = xastro /\ lock'.amount = lock.amount
        BY <1>1
      <3>4. xastro \in Nat /\ b = lock.amount - state.total_unstaking_amount
        BY <1>4, <1>9
      <3>5. state'.total_unstaked_amount + b
                = state.total_unstaked_amount + lock.amount
        BY <1>5, <3>2, <3>4
      <3>6. QED
        BY <1>5, <3>1, <3>3, <3>4, <3>5
    <2>3. QED
      BY <2>1, <2>2 DEF During
  <1>15. Phase'
    <2>1. queue' = ToClaim(h, b, e)
      <3>1. queue' = <<Msg("FeeClaim", 0), Msg("AfterStakingClaimed", h),
                       Msg("EscrowWithdraw", 0), Msg("CreateLock", b)>> \o e
        <4>1. Tail(queue) = e /\ held = h /\ RelockAmount = b
          BY <1>3, <1>9
        <4>2. queue' = <<Msg("FeeClaim", 0), Msg("AfterStakingClaimed", held),
                         Msg("EscrowWithdraw", 0), Msg("CreateLock", RelockAmount)>>
                       \o Tail(queue)
          BY <1>1
        <4>3. QED
          BY <4>1, <4>2, Zenon
      <3>2. QED
        BY <3>1, RenewalMessages, Zenon
    <2>2. reward'.reconciled_amount <= h /\ h <= held'
      BY <1>1, <1>4, <1>7, <1>8, <1>9, <1>10
    <2>3. QED
      BY <1>4, <1>9, <1>14, <2>1, <2>2 DEF Phase
  <1>16. QED
    BY <1>2, <1>12, <1>15 DEF IInv

LEMMA AfterStakingClaimedInv ==
    ASSUME IInv, AfterStakingClaimed
    PROVE  IInv'
  <1> DEFINE s == [state EXCEPT !.next_claim_period = last_claim]
             n == Claimed
             r == WithIncome(n)
             d == Distributed(s, r)
             q == Taken(s, r)
  <1>1. /\ Executes("AfterStakingClaimed") /\ ~Idle /\ Head(queue).amount <= held
        /\ state' = d /\ reward' = q /\ queue' = Tail(queue)
        /\ UNCHANGED <<stakers, max_quota, period, held, xastro, lp_owed, lock, last_claim,
                       weekly>>
    BY DEF AfterStakingClaimed, Proceed, Executes, theirs
  <1>2. ~Idle' => Undone'
    <2>1. Proceed(Tail(queue))
      BY DEF AfterStakingClaimed
    <2>2. QED
      BY <1>1, <2>1, ProceededUndone
  <1>3. PICK h \in Nat, b \in Nat, e \in Extensions :
            /\ Head(queue).amount = h /\ Tail(queue) = ToEscrow(b, e)
            /\ reward.reconciled_amount <= h /\ h <= held /\ During(b, e)
    BY <1>1, NextMessage DEF IInv
  <1>4. /\ state \in StakingState /\ reward \in RewardInfo
        /\ stakers \in [Stakers -> StakerInfo] /\ \A u \in Stakers : Known(state, stakers[u])
        /\ held \in Nat /\ lp_owed \in Nat /\ last_claim \in Nat /\ period \in Nat
        /\ state.unstaking_period <= period /\ state.unstaking_period \in Nat
        /\ reward.reconciled_amount \in Nat /\ reward.staker_income \in Nat
    BY SoundType DEF IInv, Sound, RewardInfo, StakingState
  <1>5. /\ s \in StakingState /\ s.reward_index = state.reward_index
        /\ s.total_bond_share = state.total_bond_share
        /\ s.unstaking_period = state.unstaking_period
        /\ s.total_unstaking_amount = state.total_unstaking_amount
        /\ s.total_unstaked_amount = state.total_unstaked_amount
    BY <1>4 DEF StakingState
  <1>6. n \in Nat /\ reward.reconciled_amount + n <= held
    BY <1>3, <1>4 DEF Claimed
  <1>7. /\ r \in RewardInfo /\ r.staker_income = reward.staker_income + n
        /\ r.reconciled_amount = reward.reconciled_amount + n
    <2>1. reward.staker_income + n \in Nat /\ reward.reconciled_amount + n \in Nat
      BY <1>4, <1>6
    <2> HIDE DEF n
    <2>2. QED
      BY <1>4, <2>1 DEF WithIncome, RewardInfo
  <1> HIDE DEF s, n, r
  <1>8. /\ d \in StakingState /\ q \in RewardInfo
        /\ d.total_unstaking_amount = s.total_unstaking_amount
        /\ d.total_unstaked_amount = s.total_unstaked_amount
        /\ d.unstaking_period = s.unstaking_period
    BY <1>5, <1>7, DistributedType
  <1>9. Records(d, stakers, period) /\ Backed(d, stakers, q, held, lp_owed)
    <2>1. Records(s, stakers, period)
      <3>1. Records(state, stakers, period) /\ state.unstaking_period <= s.unstaking_period
            /\ s.unstaking_period <= period
        BY <1>4, <1>5 DEF IInv, Sound
      <3>2. QED
        BY <1>4, <1>5, <3>1, SameRecords
    <2>2. Backed(s, stakers, reward, held, lp_owed)
      BY <1>5, SameBacked DEF IInv, Sound
    <2>3. Backed(s, stakers, r, held, lp_owed)
      <3>1. /\ 0 \in Int /\ lp_owed + 0 \in Nat /\ lp_owed + 0 = lp_owed
            /\ r.reconciled_amount = reward.reconciled_amount + n + 0
            /\ r.reconciled_amount <= held
        BY <1>4, <1>6, <1>7
      <3>2. \A u \in Stakers : Known(s, stakers[u])
        BY <2>1 DEF Records
      <3>3. Backed(s, stakers, r, held, lp_owed + 0)
        BY <1>4, <1>5, <1>6, <1>7, <2>2, <3>1, <3>2, IncomeBacked
      <3>4. QED
        BY <3>1, <3>3
    <2>4. QED
      BY <1>4, <2>1, <2>3, DistributedBacked
  <1>10. AddUp(state, stakers) => AddUp(d, stakers)
    BY <1>5, <1>8, SameAddUp
  <1> HIDE DEF d, q
  <1>11. Sound'
    BY <1>1, <1>9 DEF IInv, Sound
  <1>12. During(b, e)'
    BY <1>1, <1>3, <1>5, <1>8, <1>10 DEF During, Renewing
  <1>13. Phase'
    BY <1>1, <1>3, <1>12 DEF Phase
  <1>14. QED
    BY <1>2, <1>11, <1>13 DEF IInv

\* A claim at the distributor brings ASTRO and moves the date of the claim.
LEMMA FeeClaimedFacts ==
    ASSUME Sound, FeeClaimed
    PROVE  held' \in Nat /\ held <= held' /\ last_claim' \in Nat
  <1> DEFINE first == IF last_claim = 0 THEN lock.start ELSE last_claim
             last  == AtMost(period, lock.end + 1)
  <1>1. held' = held + Payable(first, last)
        /\ last_claim' = IF last > first THEN last ELSE first
    BY DEF FeeClaimed
  <1>2. Payable(first, last) \in Nat
    BY PayableType DEF Sound
  <1>3. held \in Nat /\ first \in Nat /\ last \in Nat
    BY DEF Sound, Backed, Lock, AtMost
  <1> HIDE DEF first, last
  <1>4. QED
    BY <1>1, <1>2, <1>3

\* More of the token backs the same record.
LEMMA HeldBacked ==
    ASSUME NEW s, NEW k, NEW r, NEW h, NEW o, Backed(s, k, r, h, o), NEW g \in Nat, h <= g
    PROVE  Backed(s, k, r, g, o)
  BY DEF Backed, RewardInfo

LEMMA FeeClaimInv ==
    ASSUME IInv, FeeClaim
    PROVE  IInv'
  <1>1. /\ Executes("FeeClaim") /\ ~Idle /\ FeeClaimed /\ queue' = Tail(queue)
        /\ UNCHANGED <<state, stakers, reward, max_quota, period, xastro, lp_owed, lock, weekly>>
    BY DEF FeeClaim, Proceed, Executes, ours
  <1>2. ~Idle' => Undone'
    <2>1. Proceed(Tail(queue))
      BY DEF FeeClaim
    <2>2. QED
      BY <1>1, <2>1, ProceededUndone
  <1>3. PICK h \in Nat, b \in Nat, e \in Extensions :
            /\ Tail(queue) = ToCallback(h, b, e)
            /\ reward.reconciled_amount <= h /\ h <= held /\ During(b, e)
    BY <1>1, NextMessage DEF IInv
  <1>4. held' \in Nat /\ held <= held' /\ last_claim' \in Nat /\ held \in Nat
    BY <1>1, FeeClaimedFacts, SoundType DEF IInv
  <1>5. Backed(state, stakers, reward, held', lp_owed)
    BY <1>4, HeldBacked DEF IInv, Sound
  <1>6. Sound'
    BY <1>1, <1>4, <1>5 DEF IInv, Sound
  <1>7. During(b, e)'
    BY <1>1, <1>3 DEF During
  <1>8. reward'.reconciled_amount <= h /\ h <= held'
    BY <1>1, <1>3, <1>4
  <1>9. Phase'
    BY <1>1, <1>3, <1>7, <1>8 DEF Phase
  <1>10. QED
    BY <1>2, <1>6, <1>9 DEF IInv

LEMMA EscrowWithdrawInv ==
    ASSUME IInv, EscrowWithdraw
    PROVE  IInv'
  <1>1. /\ Executes("EscrowWithdraw") /\ ~Idle /\ queue' = Tail(queue)
        /\ lock.amount > 0 /\ lock.end <= period
        /\ xastro' = xastro + lock.amount /\ lock' = NoLock
        /\ UNCHANGED <<state, stakers, reward, max_quota, period, held, lp_owed, last_claim,
                       weekly>>
    BY DEF EscrowWithdraw, Proceed, Executes, ours
  <1>2. ~Idle' => Undone'
    <2>1. Proceed(Tail(queue))
      BY DEF EscrowWithdraw
    <2>2. QED
      BY <1>1, <2>1, ProceededUndone
  <1>3. PICK b \in Nat, e \in Extensions : Tail(queue) = ToCreate(b, e) /\ During(b, e)
    BY <1>1, NextMessage DEF IInv
  <1>4. xastro' \in Nat /\ lock' \in Lock /\ lock'.amount = 0
    BY <1>1 DEF IInv, Sound, Lock, NoLock
  <1>5. Sound'
    BY <1>1, <1>4 DEF IInv, Sound
  <1>6. After(b, e)'
    BY <1>1, <1>3, <1>4 DEF During, Renewing, After
  <1>7. Phase'
    BY <1>1, <1>3, <1>6 DEF Phase
  <1>8. QED
    BY <1>2, <1>5, <1>7 DEF IInv

LEMMA CreateLockInv ==
    ASSUME IInv, CreateLock
    PROVE  IInv'
  <1>1. /\ Executes("CreateLock") /\ ~Idle /\ queue' = Tail(queue)
        /\ UNCHANGED <<state, stakers, reward, max_quota, period, held, lp_owed, last_claim,
                       weekly>>
    BY DEF CreateLock, Proceed, Executes, ours
  <1>2. ~Idle' => Undone'
    <2>1. Proceed(Tail(queue))
      BY DEF CreateLock
    <2>2. QED
      BY <1>1, <2>1, ProceededUndone
  <1>3. PICK b \in Nat, e \in Extensions :
            Head(queue).amount = b /\ Tail(queue) = e /\ After(b, e)
    BY <1>1, NextMessage DEF IInv
  <1>4. /\ b > 0 /\ b <= xastro /\ xastro' = xastro - b
        /\ lock' = [amount |-> b, start |-> period, end |-> period + 1]
    BY <1>3 DEF CreateLock
  <1>5. /\ period \in Nat /\ xastro \in Nat /\ Asked(e) \in Nat
        /\ state.unstaking_period \in Nat /\ state.total_unstaked_amount \in Nat
        /\ state.unstaking_period <= period
    BY ExtensionType, SoundType DEF IInv, Sound, StakingState
  <1>6. /\ xastro' \in Nat /\ lock' \in Lock /\ lock'.amount = b /\ lock'.end = period + 1
    BY <1>4, <1>5 DEF Lock
  <1>7. Sound'
    BY <1>1, <1>6 DEF IInv, Sound
  <1>8. /\ AddUp(state, stakers) /\ state.total_unstaking_amount = 0
        /\ state.total_unstaked_amount + b + Asked(e) <= xastro
    BY <1>3 DEF After
  <1>9. Before(e)'
    <2>1. Locked(state', stakers', lock') /\ Live(state', lock', Asked(e))
      BY <1>1, <1>4, <1>5, <1>6, <1>8 DEF Locked, Live
    <2>2. state'.total_unstaked_amount + Asked(e) <= xastro'
      BY <1>1, <1>4, <1>5, <1>8
    <2>3. QED
      BY <2>1, <2>2 DEF Before
  <1>10. Phase'
    BY <1>1, <1>3, <1>9 DEF Phase
  <1>11. QED
    BY <1>2, <1>7, <1>10 DEF IInv

LEMMA ExtendLockInv ==
    ASSUME IInv, ExtendLockAmount
    PROVE  IInv'
  <1>1. /\ Executes("ExtendLockAmount") /\ ~Idle /\ queue' = Tail(queue)
        /\ UNCHANGED <<state, stakers, reward, max_quota, period, held, lp_owed, last_claim,
                       weekly>>
    BY DEF ExtendLockAmount, Proceed, Executes, ours
  <1>2. PICK a \in Nat :
            /\ Head(queue).amount = a /\ Tail(queue) = << >>
            /\ Locked(state, stakers, lock) /\ Live(state, lock, a)
            /\ state.total_unstaked_amount + a <= xastro
    BY <1>1, NextMessage DEF IInv
  <1>3. /\ a <= xastro /\ xastro' = xastro - a /\ lock' = [lock EXCEPT !.amount = @ + a]
    BY <1>2 DEF ExtendLockAmount
  <1>4. /\ lock \in Lock /\ xastro \in Nat /\ lock.amount \in Nat /\ lock.amount > 0
        /\ state.total_unstaked_amount \in Nat /\ state.total_unstaking_amount \in Nat
    BY SoundType DEF IInv, Sound, Lock, StakingState, ExtendLockAmount
  <1>5. /\ xastro' \in Nat /\ lock' \in Lock /\ lock'.amount = lock.amount + a
        /\ lock'.end = lock.end
    <2>1. lock.amount + a \in Nat
      BY <1>4
    <2>2. QED
      BY <1>3, <1>4, <2>1 DEF Lock
  <1>6. Sound'
    BY <1>1, <1>5 DEF IInv, Sound
  <1>7. Locked(state', stakers', lock') /\ Live(state', lock', 0)
    BY <1>1, <1>2, <1>4, <1>5 DEF Locked, Live
  <1>8. state'.total_unstaked_amount \in Nat /\ state'.total_unstaked_amount <= xastro'
    BY <1>1, <1>2, <1>3, <1>4
  <1>9. Phase' /\ (~Idle' => Undone')
    BY <1>1, <1>2, <1>7, <1>8, Resting
  <1>10. QED
    BY <1>6, <1>9 DEF IInv

\* Between transactions, what the requests and the lock say is kept.
LEMMA StillAtRest ==
    ASSUME IInv, Idle, UNCHANGED <<state, stakers, queue, xastro, lock>>, Sound'
    PROVE  IInv'
  <1>1. /\ Locked(state, stakers, lock) /\ Live(state, lock, 0)
        /\ state.total_unstaked_amount <= xastro /\ state.total_unstaked_amount \in Nat
    BY AtRest, SoundType DEF IInv, StakingState
  <1>2. queue' = << >>
    BY DEF Idle
  <1>3. Phase' /\ (~Idle' => Undone')
    BY <1>1, <1>2, Resting
  <1>4. QED
    BY <1>3 DEF IInv

LEMMA ClaimManyInv ==
    ASSUME IInv, ClaimMany
    PROVE  IInv'
  <1>1. /\ Idle /\ FeeClaimed
        /\ UNCHANGED <<state, stakers, reward, max_quota, period, queue, xastro, lp_owed, lock,
                       weekly>>
    BY DEF ClaimMany, ours
  <1>2. held' \in Nat /\ held <= held' /\ last_claim' \in Nat
    BY <1>1, FeeClaimedFacts DEF IInv
  <1>3. Backed(state, stakers, reward, held', lp_owed)
    BY <1>2, HeldBacked DEF IInv, Sound
  <1>4. Sound'
    BY <1>1, <1>2, <1>3 DEF IInv, Sound
  <1>5. QED
    BY <1>1, <1>4, StillAtRest

LEMMA DepositForInv ==
    ASSUME IInv, DepositFor
    PROVE  IInv'
  <1>1. /\ Idle /\ lock.amount \in 1 .. MaxLock - 1 /\ lock' = [lock EXCEPT !.amount = @ + 1]
        /\ UNCHANGED <<state, stakers, reward, max_quota, period, queue, held, xastro, lp_owed,
                       last_claim, weekly>>
    BY DEF DepositFor, ours
  <1>2. /\ lock' \in Lock /\ lock'.amount = lock.amount + 1 /\ lock'.end = lock.end
        /\ lock.amount \in Nat /\ lock.amount > 0
    BY <1>1 DEF IInv, Sound, Lock
  <1>3. Sound'
    BY <1>1, <1>2 DEF IInv, Sound
  <1>4. /\ Locked(state, stakers, lock) /\ Live(state, lock, 0)
        /\ state.total_unstaked_amount <= xastro /\ state.total_unstaked_amount \in Nat
        /\ state.total_unstaking_amount \in Nat
    BY <1>1, AtRest, SoundType DEF IInv, StakingState
  <1>5. Locked(state', stakers', lock') /\ Live(state', lock', 0)
    BY <1>1, <1>2, <1>4 DEF Locked, Live
  <1>6. queue' = << >> /\ xastro' = xastro
    BY <1>1 DEF Idle
  <1>7. Phase' /\ (~Idle' => Undone')
    BY <1>1, <1>4, <1>5, <1>6, Resting
  <1>8. QED
    BY <1>3, <1>7 DEF IInv

LEMMA BondRewardInv ==
    ASSUME IInv, NEW income \in Gifts, NEW rest \in Gifts, BondReward(income, rest)
    PROVE  IInv'
  <1> DEFINE q == [WithIncome(income) EXCEPT !.exists = TRUE, !.reconciled_amount = @ + rest]
  <1>1. /\ Idle /\ held' = held + income + rest /\ lp_owed' = lp_owed + rest
        /\ reward' = q
        /\ UNCHANGED <<state, stakers, max_quota, period, queue, xastro, lock, last_claim,
                       weekly>>
    BY DEF BondReward
  <1>2. /\ income \in Nat /\ rest \in Nat /\ reward \in RewardInfo
        /\ held \in Nat /\ lp_owed \in Nat /\ reward.reconciled_amount <= held
        /\ reward.reconciled_amount \in Nat /\ reward.staker_income \in Nat
        /\ state \in StakingState /\ stakers \in [Stakers -> StakerInfo]
        /\ \A u \in Stakers : Known(state, stakers[u])
    BY StakeAssumption, SoundType DEF IInv, RewardInfo
  <1>3. /\ q \in RewardInfo /\ q.staker_income = reward.staker_income + income
        /\ q.reconciled_amount = reward.reconciled_amount + income + rest
    <2>1. /\ reward.staker_income + income \in Nat /\ reward.reconciled_amount + income \in Nat
          /\ reward.reconciled_amount + income + rest \in Nat
      BY <1>2
    <2>2. QED
      BY <1>2, <2>1 DEF WithIncome, RewardInfo
  <1> HIDE DEF q
  <1>4. Backed(state, stakers, q, held + income + rest, lp_owed + rest)
    <2>1. /\ rest \in Int /\ lp_owed + rest \in Nat /\ held + income + rest \in Nat
          /\ q.reconciled_amount <= held + income + rest
      BY <1>2, <1>3
    <2>2. Backed(state, stakers, reward, held, lp_owed)
      BY DEF IInv, Sound
    <2>3. QED
      BY <1>2, <1>3, <2>1, <2>2, IncomeBacked
  <1>5. Sound'
    BY <1>1, <1>4 DEF IInv, Sound
  <1>6. QED
    BY <1>1, <1>5, StillAtRest

LEMMA BondPaysInv ==
    ASSUME IInv, BondPays
    PROVE  IInv'
  <1> DEFINE q == [reward EXCEPT !.reconciled_amount = @ - lp_owed]
             m == 0 - lp_owed
  <1>1. /\ Idle /\ held' = held - lp_owed /\ lp_owed' = 0 /\ reward' = q
        /\ UNCHANGED <<state, stakers, max_quota, period, queue, xastro, lock, last_claim,
                       weekly>>
    BY DEF BondPays
  <1>2. /\ reward \in RewardInfo
        /\ held \in Nat /\ lp_owed \in Nat /\ reward.reconciled_amount <= held
        /\ reward.reconciled_amount \in Nat /\ reward.staker_income \in Nat
        /\ state \in StakingState /\ stakers \in [Stakers -> StakerInfo]
        /\ \A u \in Stakers : Known(state, stakers[u])
        /\ Backed(state, stakers, reward, held, lp_owed)
    BY SoundType DEF IInv, Sound, RewardInfo
  <1>3. lp_owed <= reward.reconciled_amount
    <2> DEFINE C == Total(Claims(state, stakers))
               i == reward.staker_income
               c == reward.reconciled_amount
    <2>1. C \in Nat /\ C + SCALE * (i + lp_owed) <= SCALE * c /\ i \in Nat /\ c \in Nat
      BY <1>2, RecordType DEF Backed
    <2> HIDE DEF C, i, c
    <2>2. SCALE * (i + lp_owed) <= SCALE * c /\ SCALE * (i + lp_owed) = (i + lp_owed) * SCALE
          /\ SCALE * c = c * SCALE
      BY <1>2, <2>1, DecimalAssumption
    <2>3. i + lp_owed <= c
      BY <1>2, <2>1, <2>2, TimesCancel, DecimalAssumption
    <2>4. QED
      BY <1>2, <2>1, <2>3 DEF c
  <1>4. /\ q \in RewardInfo /\ q.staker_income = reward.staker_income
        /\ q.reconciled_amount = reward.reconciled_amount - lp_owed
    <2>1. reward.reconciled_amount - lp_owed \in Nat
      BY <1>2, <1>3
    <2>2. QED
      BY <1>2, <2>1 DEF RewardInfo
  <1> HIDE DEF q
  <1>5. Backed(state, stakers, q, held - lp_owed, 0)
    <2>1. /\ m \in Int /\ lp_owed + m = 0 /\ 0 \in Nat /\ held - lp_owed \in Nat
          /\ q.staker_income = reward.staker_income + 0
          /\ q.reconciled_amount = reward.reconciled_amount + 0 + m
          /\ q.reconciled_amount <= held - lp_owed
      BY <1>2, <1>3, <1>4
    <2> HIDE DEF m
    <2>2. Backed(state, stakers, q, held - lp_owed, lp_owed + m)
      BY <1>2, <1>4, <2>1, IncomeBacked
    <2>3. QED
      BY <2>1, <2>2
  <1>6. Sound'
    BY <1>1, <1>5 DEF IInv, Sound
  <1>7. QED
    BY <1>1, <1>6, StillAtRest

LEMMA DonateInv ==
    ASSUME IInv, Donate
    PROVE  IInv'
  <1>1. /\ Idle /\ held' = held + 1
        /\ UNCHANGED <<state, stakers, reward, max_quota, period, queue, xastro, lp_owed, lock,
                       last_claim, weekly>>
    BY DEF Donate, ours
  <1>2. held \in Nat /\ held + 1 \in Nat /\ held <= held + 1
    BY SoundType DEF IInv
  <1>3. Backed(state, stakers, reward, held + 1, lp_owed)
    BY <1>2, HeldBacked DEF IInv, Sound
  <1>4. Sound'
    BY <1>1, <1>3 DEF IInv, Sound
  <1>5. QED
    BY <1>1, <1>4, StillAtRest

LEMMA TickInv ==
    ASSUME IInv, Tick
    PROVE  IInv'
  <1>1. /\ Idle /\ period' = period + 1
        /\ UNCHANGED <<state, stakers, reward, max_quota, queue, held, xastro, lp_owed, lock,
                       last_claim>>
    BY DEF Tick, ours, theirs
  <1>2. weekly' \in [1 .. MaxPeriod -> Nat]
    <2>1. PICK fee \in (IF lock.amount > 0 /\ period < lock.end THEN Fees ELSE {0}) :
              weekly' = [weekly EXCEPT ![period] = fee]
      BY DEF Tick
    <2>2. fee \in Nat
      BY <2>1, StakeAssumption
    <2>3. QED
      BY <2>1, <2>2 DEF IInv, Sound
  <1>3. Records(state, stakers, period + 1) /\ period + 1 \in Nat
    BY DEF IInv, Sound, Records, StakingState
  <1>4. Sound'
    BY <1>1, <1>2, <1>3 DEF IInv, Sound
  <1>5. QED
    BY <1>1, <1>4, StillAtRest

LEMMA RevertInv ==
    ASSUME IInv, Revert
    PROVE  IInv'
  <1>1. /\ ~Idle /\ queue' = << >>
        /\ state' = undo.state /\ stakers' = undo.stakers /\ reward' = undo.reward
        /\ held' = undo.held /\ xastro' = undo.xastro /\ lp_owed' = undo.lp_owed
        /\ lock' = undo.lock /\ last_claim' = undo.last_claim
        /\ UNCHANGED <<max_quota, period, weekly>>
    BY DEF Revert, Proceed
  <1>2. Undone
    BY <1>1 DEF IInv
  <1>3. Sound'
    BY <1>1, <1>2 DEF IInv, Sound, Undone
  <1>4. state'.total_unstaked_amount \in Nat
    BY <1>1, <1>2 DEF Undone, Records, StakingState
  <1>5. /\ Locked(state', stakers', lock') /\ Live(state', lock', 0)
        /\ state'.total_unstaked_amount <= xastro'
    BY <1>1, <1>2 DEF Undone
  <1>6. Phase' /\ (~Idle' => Undone')
    BY <1>1, <1>4, <1>5, Resting
  <1>7. QED
    BY <1>3, <1>6 DEF IInv

LEMMA StutterInv ==
    ASSUME IInv, UNCHANGED vars
    PROVE  IInv'
  <1>1. UNCHANGED <<state, stakers, reward, max_quota, period, queue, undo, held, xastro,
                    lp_owed, lock, last_claim, weekly>>
    BY DEF vars, ours, theirs
  <1>2. Sound' /\ (~Idle' => Undone')
    BY <1>1 DEF IInv, Sound, Idle, Undone
  <1>3. Phase'
    BY <1>1 DEF IInv, Phase, Before, During, After
  <1>4. QED
    BY <1>2, <1>3 DEF IInv

LEMMA NextInv == IInv /\ [Next]_vars => IInv'
  <1> SUFFICES ASSUME IInv, [Next]_vars PROVE IInv'
    OBVIOUS
  <1>1. ASSUME NEW u \in Stakers, NEW a \in Amounts,
               \/ ExecuteStake(u, a)
               \/ ExecuteRequestUnstake(u, a)
               \/ ExecuteWithdrawUnstaked(u, a)
        PROVE  IInv'
    BY <1>1, StakeInv, RequestInv, WithdrawInv
  <1>2. ASSUME NEW u \in Stakers, ExecuteClaimIncome(u) PROVE IInv'
    BY <1>2, ClaimInv
  <1>3. ASSUME NEW quota \in Quotas, UpdateParameters(quota) PROVE IInv'
    BY <1>3, UpdateParametersInv
  <1>4. ASSUME NEW income \in Gifts, NEW rest \in Gifts, BondReward(income, rest) PROVE IInv'
    BY <1>4, BondRewardInv
  <1>5. CASE ControllerRelock \/ Relock \/ AfterStakingClaimed
    BY <1>5, ControllerRelockInv, RelockInv, AfterStakingClaimedInv
  <1>6. CASE FeeClaim \/ EscrowWithdraw \/ CreateLock \/ ExtendLockAmount
    BY <1>6, FeeClaimInv, EscrowWithdrawInv, CreateLockInv, ExtendLockInv
  <1>7. CASE ClaimMany \/ DepositFor \/ BondPays \/ Donate \/ Tick \/ Revert
    BY <1>7, ClaimManyInv, DepositForInv, BondPaysInv, DonateInv, TickInv, RevertInv
  <1>8. CASE UNCHANGED vars
    BY <1>8, StutterInv
  <1>9. QED
    BY <1>1, <1>2, <1>3, <1>4, <1>5, <1>6, <1>7, <1>8 DEF Next

\* Before every message of staking.rs the books are in the order that its
\* stage calls for, and what a revert brings back is in order too.
THEOREM Invariance == Spec => []IInv
  <1>1. Init => IInv
    BY InitInv
  <1>2. IInv /\ [Next]_vars => IInv'
    BY NextInv
  <1>3. QED
    BY <1>1, <1>2, PTL DEF Spec

-----------------------------------------------------------------------------
(* Theorems *)

LEMMA PhaseType ==
    ASSUME Phase
    PROVE  queue \in Seq(Message)
  <1>1. PICK e \in Extensions :
            \/ queue = e
            \/ queue = ToRelock(e)
            \/ \E h, b \in Nat : queue = ToClaim(h, b, e) \/ queue = ToCallback(h, b, e)
            \/ \E b \in Nat : queue = ToEscrow(b, e)
            \/ \E b \in Nat : queue = ToCreate(b, e)
    BY DEF Phase
  <1>2. CASE queue = e
    BY <1>2, ExtensionType
  <1>3. CASE queue = ToRelock(e)
    BY <1>3, RenewalType, 0 \in Nat
  <1>4. ASSUME NEW h \in Nat, NEW b \in Nat, queue = ToClaim(h, b, e) \/ queue = ToCallback(h, b, e)
        PROVE  queue \in Seq(Message)
    BY <1>4, RenewalType
  <1>5. ASSUME NEW b \in Nat, queue = ToEscrow(b, e) \/ queue = ToCreate(b, e)
        PROVE  queue \in Seq(Message)
    BY <1>5, RenewalType
  <1>6. QED
    BY <1>1, <1>2, <1>3, <1>4, <1>5

\* Every reachable state of the staking part has the types of staking.rs: no
\* total or balance is ever negative, whatever interleaves with a relock.
THEOREM TypeCorrect == Spec => []TypeOK
  <1>1. IInv => TypeOK
    <2> SUFFICES ASSUME IInv PROVE TypeOK
      OBVIOUS
    <2>1. queue \in Seq(Message)
      BY PhaseType DEF IInv
    <2>2. QED
      BY <2>1, SoundType DEF IInv, Sound, TypeOK
  <1>2. QED
    BY <1>1, Invariance, PTL

\* The totals of STAKING_STATE are at all times those of the stakers' records,
\* however many relocks a record has missed (update_staking, execute_relock).
THEOREM StakesAddUp == Spec => []StakeConservation
  <1>1. IInv => StakeConservation
    <2> SUFFICES ASSUME IInv PROVE StakeConservation
      OBVIOUS
    <2>1. Total(BondShares(stakers)) = state.total_bond_share
      BY SoundType DEF IInv
    <2>2. Idle => AddUp(state, stakers)
      BY AtRest DEF Locked
    <2>3. QED
      BY <2>1, <2>2 DEF StakeConservation, AddUp, BondShares, Unstaking, Unstaked
  <1>2. QED
    BY <1>1, Invariance, PTL

\* Between transactions the lock covers what has been asked back from it, and
\* the contract holds the xASTRO of earlier requests (execute_request_unstake,
\* execute_relock, and whatever fails on the way).
THEOREM RequestsAreCovered == Spec => []RequestsCovered
  <1>1. IInv => RequestsCovered
    BY AtRest DEF RequestsCovered, Locked
  <1>2. QED
    BY <1>1, Invariance, PTL

\* What the stakers have earned, the income still to be distributed and what
\* the LP holders and the fee have is at all times covered by the reconciled
\* ASTRO, and that by the balance (reconcile_staker_income, execute_relock,
\* callback_after_staking_claimed): nobody's income is paid twice.
THEOREM IncomeIsCovered == Spec => []IncomeCovered
  <1>1. IInv => IncomeCovered
    <2> SUFFICES ASSUME IInv PROVE IncomeCovered
      OBVIOUS
    <2> DEFINE f == [u \in Stakers |-> Earned(state, stakers[u])]
               k == Claims(state, stakers)
               z == [u \in Stakers |-> 0]
               i == reward.staker_income
               c == reward.reconciled_amount
    <2>1. /\ state \in StakingState /\ stakers \in [Stakers -> StakerInfo]
          /\ \A u \in Stakers : Known(state, stakers[u])
          /\ i \in Nat /\ c \in Nat /\ lp_owed \in Nat /\ c <= held
      BY SoundType DEF IInv, RewardInfo
    <2>2. Total(k) + SCALE * (i + lp_owed) <= SCALE * c
      BY DEF IInv, Sound, Backed
    <2>3. ASSUME NEW u \in Stakers
          PROVE  f[u] \in Nat /\ k[u] \in Nat /\ SCALE * f[u] <= k[u]
      BY <2>1, EarnedBound DEF Known, Claims
    <2>4. f \in [Stakers -> Nat] /\ k \in [Stakers -> Nat]
      BY <2>3 DEF Claims
    <2>5. Total(f) \in Nat /\ Total(k) \in Nat
      BY <2>4, TotalType, StakeAssumption
    <2>6. z \in [Stakers -> Nat] /\ Total(z) = 0 /\ \A u \in Stakers : z[u] = 0
      BY TotalOfZeros
    <2> HIDE DEF f, k, z, i, c
    <2>7. SCALE * Total(f) <= Total(k)
      <3>1. SCALE \in Nat /\ 1 \in Nat
        BY DecimalAssumption
      <3>2. ASSUME NEW u \in Stakers
            PROVE  SCALE * f[u] + SCALE * z[u] <= SCALE * z[u] + 1 * k[u]
        <4>1. f[u] \in Nat /\ k[u] \in Nat /\ SCALE * f[u] <= k[u] /\ z[u] = 0
          BY <2>3, <2>6
        <4>2. SCALE * f[u] \in Nat /\ SCALE * z[u] = 0
          BY <3>1, <4>1
        <4>3. QED
          BY <4>1, <4>2
      <3>3. SCALE * Total(f) + SCALE * Total(z) <= SCALE * Total(z) + 1 * Total(k)
        BY <2>4, <2>6, <3>1, <3>2, TotalsRelated, StakeAssumption
      <3>4. SCALE * Total(z) = 0 /\ SCALE * Total(f) \in Nat
        BY <2>5, <2>6, <3>1
      <3>5. QED
        BY <2>5, <3>3, <3>4
    <2>8. Total(f) + i + lp_owed <= c
      <3> DEFINE s == Total(f) + i + lp_owed
      <3>1. s \in Nat /\ s * SCALE = SCALE * Total(f) + SCALE * (i + lp_owed)
            /\ SCALE * c = c * SCALE
        BY <2>1, <2>5, DecimalAssumption DEF i, c
      <3>2. SCALE * Total(f) \in Nat /\ SCALE * (i + lp_owed) \in Nat /\ SCALE * c \in Nat
        BY <2>1, <2>5, DecimalAssumption DEF i, c
      <3>3. s * SCALE <= c * SCALE
        BY <2>2, <2>5, <2>7, <3>1, <3>2
      <3> HIDE DEF s
      <3>4. s <= c
        BY <2>1, <3>1, <3>3, TimesCancel, DecimalAssumption DEF c
      <3>5. QED
        BY <3>4 DEF s
    <2>9. QED
      BY <2>1, <2>8 DEF IncomeCovered, f, i, c
  <1>2. QED
    BY <1>1, Invariance, PTL

-----------------------------------------------------------------------------
(* The SharePool *)

\* Of one state and a later one: nobody's shares have changed, or u's only.
Kept(k, w) == \A u \in Stakers : w[u].bond_share = k[u].bond_share
OnlyShareOf(k, w, u) == \A v \in Stakers \ {u} : w[v].bond_share = k[v].bond_share

\* What the shares are shares of.
Pot(s, l) == l.amount - s.total_unstaking_amount

\* The shares for n of a pot of p.
Minted(total, p, n) == IF total = 0 \/ p = 0 THEN n ELSE MulRatio(n, total, p)

\* With the pot at p, somebody has got shares for n, or n is 0.
Paid(k, w, p, n) ==
    \/ n = 0 /\ Kept(k, w)
    \/ /\ n > 0
       /\ \E u \in Stakers :
             /\ OnlyShareOf(k, w, u)
             /\ w[u].bond_share = k[u].bond_share + Minted(Total(BondShares(k)), p, n)

\* u has given up shares worth what has left the pot.
Burned(k, w, p, r, u) ==
    /\ OnlyShareOf(k, w, u)
    /\ 0 <= r /\ r <= p
    /\ (p - r) * Total(BondShares(k)) <= (k[u].bond_share - w[u].bond_share) * p

\* A step of the SharePool from a pot of p to one of r.
Moves(k, w, p, r) ==
    \/ \E n \in Nat : Paid(k, w, p, n) /\ r = p + n
    \/ Kept(k, w) /\ r > p
    \/ \E u \in Stakers : Burned(k, w, p, r, u)

\* Executing the messages q ends with a pot of p.
Leads(q, s, l, p) ==
    \E e \in Extensions :
        \/ q \in {e, ToRelock(e)} /\ Pot(s, l) + Asked(e) = p
        \/ /\ s.total_unstaking_amount = 0
           /\ \E b \in Nat :
                 /\ b + Asked(e) = p
                 /\ \/ \E h \in Nat : q \in {ToClaim(h, b, e), ToCallback(h, b, e)}
                    \/ q \in {ToEscrow(b, e), ToCreate(b, e)}

\* A transaction has changed at most one staker's shares, and ends with what
\* was paid for these in the pot.
Journey ==
    ~Idle => \E n \in Nat :
                /\ Paid(undo.stakers, stakers, Pot(undo.state, undo.lock), n)
                /\ Leads(queue, state, lock, Pot(undo.state, undo.lock) + n)

\* Where the messages lead, at each of them.
LEMMA NextLeads ==
    ASSUME NEW p \in Int, Leads(queue, state, lock, p)
    PROVE  /\ Idle => Pot(state, lock) + 0 = p
           /\ Executes("Relock") =>
                \E e \in Extensions : Tail(queue) = e /\ Pot(state, lock) + Asked(e) = p
           /\ Executes("FeeClaim") =>
                \E h, b \in Nat, e \in Extensions :
                    /\ Tail(queue) = ToCallback(h, b, e)
                    /\ state.total_unstaking_amount = 0 /\ b + Asked(e) = p
           /\ Executes("AfterStakingClaimed") =>
                \E b \in Nat, e \in Extensions :
                    /\ Tail(queue) = ToEscrow(b, e)
                    /\ state.total_unstaking_amount = 0 /\ b + Asked(e) = p
           /\ Executes("EscrowWithdraw") =>
                \E b \in Nat, e \in Extensions :
                    /\ Tail(queue) = ToCreate(b, e)
                    /\ state.total_unstaking_amount = 0 /\ b + Asked(e) = p
           /\ Executes("CreateLock") =>
                \E b \in Nat, e \in Extensions :
                    /\ Head(queue).amount = b /\ Tail(queue) = e
                    /\ state.total_unstaking_amount = 0 /\ b + Asked(e) = p
           /\ Executes("ExtendLockAmount") =>
                \E a \in Nat :
                    /\ Head(queue).amount = a /\ Tail(queue) = << >>
                    /\ Pot(state, lock) + a = p
  <1>1. \A t, a : Msg(t, a).type = t /\ Msg(t, a).amount = a
    BY DEF Msg
  <1>2. PICK e \in Extensions :
            \/ queue \in {e, ToRelock(e)} /\ Pot(state, lock) + Asked(e) = p
            \/ /\ state.total_unstaking_amount = 0
               /\ \E b \in Nat :
                     /\ b + Asked(e) = p
                     /\ \/ \E h \in Nat : queue \in {ToClaim(h, b, e), ToCallback(h, b, e)}
                        \/ queue \in {ToEscrow(b, e), ToCreate(b, e)}
    BY DEF Leads
  <1>3. CASE queue = e /\ e = << >> /\ Pot(state, lock) + Asked(e) = p
    <2>1. Asked(e) = 0
      BY <1>3 DEF Asked
    <2>2. QED
      BY <1>3, <2>1 DEF Idle, Executes
  <1>4. CASE queue = e /\ e # << >> /\ Pot(state, lock) + Asked(e) = p
    <2>1. Head(queue) = Msg("ExtendLockAmount", Asked(e)) /\ Tail(queue) = << >>
      <3>1. 0 \in Nat
        OBVIOUS
      <3>2. QED
        BY <1>4, <3>1, Heads
    <2>2. Asked(e) \in Nat
      BY ExtensionType
    <2>3. Head(queue).type = "ExtendLockAmount" /\ Head(queue).amount = Asked(e)
      BY <1>1, <2>1
    <2>4. QED
      BY <1>4, <2>1, <2>2, <2>3 DEF Idle, Executes
  <1>5. CASE queue = ToRelock(e) /\ Pot(state, lock) + Asked(e) = p
    <2>1. Head(queue).type = "Relock" /\ Tail(queue) = e /\ queue # << >>
      <3>1. 0 \in Nat
        OBVIOUS
      <3>2. QED
        BY <1>1, <1>5, <3>1, Heads
    <2>2. QED
      BY <1>5, <2>1 DEF Idle, Executes
  <1>6. ASSUME NEW h \in Nat, NEW b \in Nat, queue = ToClaim(h, b, e)
        PROVE  Executes("FeeClaim") /\ Tail(queue) = ToCallback(h, b, e)
    <2>1. queue # << >> /\ Head(queue) = Msg("FeeClaim", 0) /\ Tail(queue) = ToCallback(h, b, e)
      BY <1>6, Heads
    <2>2. Head(queue).type = "FeeClaim" /\ Head(queue).amount = 0
      BY <1>1, <2>1
    <2>3. QED
      BY <2>1, <2>2 DEF Idle, Executes
  <1>7. ASSUME NEW h \in Nat, NEW b \in Nat, queue = ToCallback(h, b, e)
        PROVE  Executes("AfterStakingClaimed") /\ Tail(queue) = ToEscrow(b, e)
    <2>1. queue # << >> /\ Head(queue) = Msg("AfterStakingClaimed", h) /\ Tail(queue) = ToEscrow(b, e)
      BY <1>7, Heads
    <2>2. Head(queue).type = "AfterStakingClaimed" /\ Head(queue).amount = h
      BY <1>1, <2>1
    <2>3. QED
      BY <2>1, <2>2 DEF Idle, Executes
  <1>8. ASSUME NEW b \in Nat, queue = ToEscrow(b, e)
        PROVE  Executes("EscrowWithdraw") /\ Tail(queue) = ToCreate(b, e)
    <2>1. queue # << >> /\ Head(queue) = Msg("EscrowWithdraw", 0) /\ Tail(queue) = ToCreate(b, e)
      BY <1>8, Heads
    <2>2. Head(queue).type = "EscrowWithdraw" /\ Head(queue).amount = 0
      BY <1>1, <2>1
    <2>3. QED
      BY <2>1, <2>2 DEF Idle, Executes
  <1>9. ASSUME NEW b \in Nat, queue = ToCreate(b, e)
        PROVE  Executes("CreateLock") /\ Tail(queue) = e /\ Head(queue).amount = b
    <2>1. queue # << >> /\ Head(queue) = Msg("CreateLock", b) /\ Tail(queue) = e
      BY <1>9, Heads
    <2>2. Head(queue).type = "CreateLock" /\ Head(queue).amount = b
      BY <1>1, <2>1
    <2>3. QED
      BY <2>1, <2>2 DEF Idle, Executes
  <1>10. CASE queue \in {e, ToRelock(e)} /\ Pot(state, lock) + Asked(e) = p
    BY <1>3, <1>4, <1>5, <1>10
  <1>11. ASSUME NEW b \in Nat, state.total_unstaking_amount = 0, b + Asked(e) = p,
                \/ \E h \in Nat : queue \in {ToClaim(h, b, e), ToCallback(h, b, e)}
                \/ queue \in {ToEscrow(b, e), ToCreate(b, e)}
         PROVE  \/ /\ Executes("FeeClaim")
                   /\ \E h \in Nat : Tail(queue) = ToCallback(h, b, e)
                \/ Executes("AfterStakingClaimed") /\ Tail(queue) = ToEscrow(b, e)
                \/ Executes("EscrowWithdraw") /\ Tail(queue) = ToCreate(b, e)
                \/ Executes("CreateLock") /\ Tail(queue) = e /\ Head(queue).amount = b
    BY <1>6, <1>7, <1>8, <1>9, <1>11
  <1>12. ASSUME NEW b \in Nat, state.total_unstaking_amount = 0, b + Asked(e) = p,
                \/ /\ Executes("FeeClaim")
                   /\ \E h \in Nat : Tail(queue) = ToCallback(h, b, e)
                \/ Executes("AfterStakingClaimed") /\ Tail(queue) = ToEscrow(b, e)
                \/ Executes("EscrowWithdraw") /\ Tail(queue) = ToCreate(b, e)
                \/ Executes("CreateLock") /\ Tail(queue) = e /\ Head(queue).amount = b
         PROVE  /\ ~Idle /\ ~Executes("Relock") /\ ~Executes("ExtendLockAmount")
                /\ Executes("FeeClaim") => \E h \in Nat : Tail(queue) = ToCallback(h, b, e)
                /\ Executes("AfterStakingClaimed") => Tail(queue) = ToEscrow(b, e)
                /\ Executes("EscrowWithdraw") => Tail(queue) = ToCreate(b, e)
                /\ Executes("CreateLock") => Tail(queue) = e /\ Head(queue).amount = b
    BY <1>12 DEF Executes
  <1>13. ASSUME NEW b \in Nat, state.total_unstaking_amount = 0, b + Asked(e) = p,
                \/ \E h \in Nat : queue \in {ToClaim(h, b, e), ToCallback(h, b, e)}
                \/ queue \in {ToEscrow(b, e), ToCreate(b, e)}
         PROVE  /\ ~Idle /\ ~Executes("Relock") /\ ~Executes("ExtendLockAmount")
                /\ Executes("FeeClaim") => \E h \in Nat : Tail(queue) = ToCallback(h, b, e)
                /\ Executes("AfterStakingClaimed") => Tail(queue) = ToEscrow(b, e)
                /\ Executes("EscrowWithdraw") => Tail(queue) = ToCreate(b, e)
                /\ Executes("CreateLock") => Tail(queue) = e /\ Head(queue).amount = b
    BY <1>11, <1>12, <1>13
  <1>14. QED
    BY <1>2, <1>10, <1>13

\* A message leaves the shares alone, and the pot that is led to.
LEMMA MessageLeads ==
    ASSUME IInv, NEW p \in Int, Leads(queue, state, lock, p),
           \/ Relock \/ AfterStakingClaimed
           \/ FeeClaim \/ EscrowWithdraw \/ CreateLock \/ ExtendLockAmount
    PROVE  Leads(queue', state', lock', p) /\ stakers' = stakers
  <1>1. /\ state \in StakingState /\ reward \in RewardInfo /\ lock \in Lock
        /\ state.total_unstaking_amount \in Nat /\ lock.amount \in Nat /\ held \in Nat
    BY SoundType DEF IInv, Sound, StakingState, Lock
  <1>2. CASE Relock
    <2> DEFINE s == [state EXCEPT !.total_unstaked_amount = @ + state.total_unstaking_amount,
                                  !.total_unstaking_amount = 0,
                                  !.unstaking_period = period,
                                  !.next_claim_period = last_claim]
               r == WithIncome(ClaimedByOthers)
    <2>1. /\ Executes("Relock") /\ state.total_unstaking_amount <= lock.amount
          /\ state' = Distributed(s, r) /\ stakers' = stakers /\ lock' = lock
          /\ queue' = <<Msg("FeeClaim", 0), Msg("AfterStakingClaimed", held),
                        Msg("EscrowWithdraw", 0), Msg("CreateLock", RelockAmount)>>
                      \o Tail(queue)
      BY <1>2 DEF Relock, Proceed, theirs
    <2>2. PICK e \in Extensions : Tail(queue) = e /\ Pot(state, lock) + Asked(e) = p
      BY <2>1, NextLeads
    <2>3. PICK h \in Nat, b \in Nat :
              /\ h = held /\ b = RelockAmount
              /\ b = lock.amount - state.total_unstaking_amount
      BY <1>1, <2>1 DEF RelockAmount
    <2>4. queue' = ToClaim(h, b, e)
      <3>1. queue' = <<Msg("FeeClaim", 0), Msg("AfterStakingClaimed", h),
                       Msg("EscrowWithdraw", 0), Msg("CreateLock", b)>> \o e
        BY <2>1, <2>2, <2>3
      <3>2. QED
        BY <3>1, RenewalMessages
    <2>5. state'.total_unstaking_amount = 0
      <3>1. s.total_unstaking_amount = 0
        BY <1>1 DEF StakingState
      <3>2. Distributed(s, r).total_unstaking_amount = s.total_unstaking_amount
        <4>1. /\ [s EXCEPT !.reward_index = IndexAfter(s, r)].total_unstaking_amount
                   = s.total_unstaking_amount
          BY <1>1 DEF StakingState
        <4>2. QED
          BY <4>1 DEF Distributed
      <3>3. QED
        BY <2>1, <3>1, <3>2
    <2>6. b + Asked(e) = p
      BY <2>2, <2>3 DEF Pot
    <2>7. QED
      BY <2>1, <2>4, <2>5, <2>6 DEF Leads
  <1>3. CASE AfterStakingClaimed
    <2> DEFINE s == [state EXCEPT !.next_claim_period = last_claim]
               r == WithIncome(Claimed)
    <2>1. /\ Executes("AfterStakingClaimed") /\ queue' = Tail(queue)
          /\ state' = Distributed(s, r) /\ stakers' = stakers /\ lock' = lock
      BY <1>3 DEF AfterStakingClaimed, Proceed, theirs
    <2>2. PICK b \in Nat, e \in Extensions :
              /\ Tail(queue) = ToEscrow(b, e)
              /\ state.total_unstaking_amount = 0 /\ b + Asked(e) = p
      BY <2>1, NextLeads
    <2>3. state'.total_unstaking_amount = 0
      <3>1. s.total_unstaking_amount = state.total_unstaking_amount
        BY <1>1 DEF StakingState
      <3>2. [s EXCEPT !.reward_index = IndexAfter(s, r)].total_unstaking_amount
                = s.total_unstaking_amount
        BY <1>1 DEF StakingState
      <3>3. QED
        BY <2>1, <2>2, <3>1, <3>2 DEF Distributed
    <2>4. QED
      BY <2>1, <2>2, <2>3 DEF Leads
  <1>4. CASE FeeClaim
    <2>1. /\ Executes("FeeClaim") /\ queue' = Tail(queue)
          /\ UNCHANGED <<state, stakers, lock>>
      BY <1>4 DEF FeeClaim, Proceed, ours
    <2>2. PICK h \in Nat, b \in Nat, e \in Extensions :
              /\ Tail(queue) = ToCallback(h, b, e)
              /\ state.total_unstaking_amount = 0 /\ b + Asked(e) = p
      BY <2>1, NextLeads
    <2>3. QED
      BY <2>1, <2>2 DEF Leads
  <1>5. CASE EscrowWithdraw
    <2>1. /\ Executes("EscrowWithdraw") /\ queue' = Tail(queue)
          /\ UNCHANGED <<state, stakers>>
      BY <1>5 DEF EscrowWithdraw, Proceed, ours
    <2>2. PICK b \in Nat, e \in Extensions :
              /\ Tail(queue) = ToCreate(b, e)
              /\ state.total_unstaking_amount = 0 /\ b + Asked(e) = p
      BY <2>1, NextLeads
    <2>3. QED
      BY <2>1, <2>2 DEF Leads
  <1>6. CASE CreateLock
    <2>1. /\ Executes("CreateLock") /\ queue' = Tail(queue)
          /\ UNCHANGED <<state, stakers>>
      BY <1>6 DEF CreateLock, Proceed, ours
    <2>2. PICK b \in Nat, e \in Extensions :
              /\ Head(queue).amount = b /\ Tail(queue) = e
              /\ state.total_unstaking_amount = 0 /\ b + Asked(e) = p
      BY <2>1, NextLeads
    <2>3. lock' = [amount |-> b, start |-> period, end |-> period + 1]
      BY <1>6, <2>2 DEF CreateLock
    <2>4. Pot(state', lock') + Asked(e) = p
      <3>1. Pot(state', lock') = b
        BY <2>1, <2>2, <2>3 DEF Pot
      <3>2. QED
        BY <2>2, <3>1
    <2>5. QED
      BY <2>1, <2>2, <2>4 DEF Leads
  <1>7. CASE ExtendLockAmount
    <2>1. /\ Executes("ExtendLockAmount") /\ queue' = Tail(queue)
          /\ UNCHANGED <<state, stakers>>
      BY <1>7 DEF ExtendLockAmount, Proceed, ours
    <2>2. PICK a \in Nat :
              /\ Head(queue).amount = a /\ Tail(queue) = << >>
              /\ Pot(state, lock) + a = p
      BY <2>1, NextLeads
    <2>3. lock' = [lock EXCEPT !.amount = @ + a]
      BY <1>7, <2>2 DEF ExtendLockAmount
    <2>4. Pot(state', lock') + 0 = p
      <3>1. lock'.amount = lock.amount + a
        BY <1>1, <2>3 DEF Lock
      <3>2. QED
        BY <1>1, <2>1, <2>2, <3>1 DEF Pot
    <2>5. << >> \in Extensions /\ Asked(<< >>) = 0
      BY DEF Extensions, Asked
    <2>6. QED
      BY <2>1, <2>2, <2>4, <2>5 DEF Leads
  <1>8. QED
    BY <1>2, <1>3, <1>4, <1>5, <1>6, <1>7

\* Nothing is led to but the present pot when there are no messages.
LEMMA EmptyLeads ==
    ASSUME NEW s, NEW l, NEW p, Leads(<< >>, s, l, p)
    PROVE  Pot(s, l) + Asked(<< >>) = p
  <1>1. PICK e \in Extensions :
            \/ << >> \in {e, ToRelock(e)} /\ Pot(s, l) + Asked(e) = p
            \/ \E b \in Nat :
                  \/ \E h \in Nat : << >> \in {ToClaim(h, b, e), ToCallback(h, b, e)}
                  \/ << >> \in {ToEscrow(b, e), ToCreate(b, e)}
    BY DEF Leads
  <1>2. \A h, b \in Nat : /\ ToRelock(e) # << >> /\ ToClaim(h, b, e) # << >>
                          /\ ToCallback(h, b, e) # << >> /\ ToEscrow(b, e) # << >>
                          /\ ToCreate(b, e) # << >>
    BY Heads
  <1>3. 0 \in Nat
    OBVIOUS
  <1>4. << >> = e /\ Pot(s, l) + Asked(e) = p
    BY <1>1, <1>2, <1>3
  <1>5. QED
    BY <1>4

\* What the SharePool sees, between transactions and in one.
Typed ==
    /\ Settled.stakers \in [Stakers -> StakerInfo]
    /\ Pot(Settled.state, Settled.lock) \in Nat

LEMMA SettledType ==
    ASSUME IInv
    PROVE  Typed
  <1>1. CASE Idle
    <2>1. /\ Settled.stakers = stakers /\ Settled.state = state /\ Settled.lock = lock
      BY <1>1 DEF Settled, State
    <2>2. /\ state \in StakingState /\ stakers \in [Stakers -> StakerInfo] /\ lock \in Lock
      BY SoundType DEF IInv, Sound
    <2>3. state.total_unstaking_amount <= lock.amount
      BY <1>1, AtRest DEF Locked
    <2>4. QED
      BY <2>1, <2>2, <2>3 DEF Typed, Pot, StakingState, Lock
  <1>2. CASE ~Idle
    <2>1. Settled = undo
      BY <1>2 DEF Settled
    <2>2. Undone
      BY <1>2 DEF IInv
    <2>3. /\ undo.state \in StakingState /\ undo.stakers \in [Stakers -> StakerInfo]
          /\ undo.lock \in Lock
          /\ undo.state.total_unstaking_amount <= undo.lock.amount
      BY <2>2 DEF Undone, Records, Locked
    <2>4. QED
      BY <2>1, <2>3 DEF Typed, Pot, StakingState, Lock
  <1>3. QED
    BY <1>1, <1>2

\* What is the same before and after.
LEMMA SameMoves ==
    ASSUME NEW k, NEW w, Kept(k, w), NEW p \in Nat, NEW r, r = p
    PROVE  Moves(k, w, p, r)
  <1>1. r = p + 0 /\ 0 \in Nat
    OBVIOUS
  <1>2. Paid(k, w, p, 0)
    BY DEF Paid
  <1>3. QED
    BY <1>1, <1>2 DEF Moves

\* A message is a step of the SharePool if it is the last, and none otherwise.
LEMMA MessageSettles ==
    ASSUME IInv, Journey, Pot(Settled'.state, Settled'.lock) \in Nat,
           \/ Relock \/ AfterStakingClaimed
           \/ FeeClaim \/ EscrowWithdraw \/ CreateLock \/ ExtendLockAmount
    PROVE  /\ Journey'
           /\ Moves(Settled.stakers, Settled'.stakers, Pot(Settled.state, Settled.lock),
                    Pot(Settled'.state, Settled'.lock))
  <1>1. ~Idle /\ undo' = (IF queue' = << >> THEN NoUndo ELSE undo)
    BY DEF Relock, AfterStakingClaimed, FeeClaim, EscrowWithdraw, CreateLock,
           ExtendLockAmount, Executes, Proceed
  <1>2. Settled = undo
    BY <1>1 DEF Settled
  <1>3. PICK k, p : k = undo.stakers /\ p = Pot(undo.state, undo.lock)
    OBVIOUS
  <1>4. p \in Nat
    BY <1>2, <1>3, SettledType DEF Typed
  <1>5. PICK n \in Nat : Paid(k, stakers, p, n) /\ Leads(queue, state, lock, p + n)
    BY <1>1, <1>3 DEF Journey
  <1>6. PICK r : r = p + n
    OBVIOUS
  <1>7. r \in Nat /\ r \in Int /\ Leads(queue, state, lock, r)
    BY <1>4, <1>5, <1>6
  <1>8. Leads(queue', state', lock', r) /\ stakers' = stakers
    BY <1>7, MessageLeads
  <1>9. CASE queue' # << >>
    <2>1. undo' = undo /\ Settled' = undo
      BY <1>1, <1>9 DEF Settled, Idle
    <2>2. Journey'
      BY <1>3, <1>5, <1>6, <1>8, <2>1 DEF Journey
    <2>3. Kept(k, k)
      BY DEF Kept
    <2>4. Moves(k, k, p, p)
      BY <1>4, <2>3, SameMoves
    <2>5. QED
      BY <1>2, <1>3, <2>1, <2>2, <2>4
  <1>10. CASE queue' = << >>
    <2>1. Settled' = State'
      BY <1>10 DEF Settled, Idle
    <2>2. Settled'.stakers = stakers' /\ Settled'.state = state' /\ Settled'.lock = lock'
      BY <2>1 DEF State
    <2>3. Pot(state', lock') = r
      <3>1. PICK t, m : t = state' /\ m = lock'
        OBVIOUS
      <3>2. Leads(<< >>, t, m, r)
        BY <1>8, <1>10, <3>1
      <3>3. Pot(t, m) + Asked(<< >>) = r
        BY <3>2, EmptyLeads
      <3>4. Pot(t, m) \in Nat
        BY <2>2, <3>1
      <3>5. QED
        BY <3>1, <3>3, <3>4 DEF Asked
    <2>4. Moves(k, stakers, p, r)
      BY <1>5, <1>6 DEF Moves
    <2>5. Journey'
      BY <1>10 DEF Journey, Idle
    <2>6. QED
      BY <1>2, <1>3, <1>8, <2>2, <2>3, <2>4, <2>5
  <1>11. QED
    BY <1>9, <1>10

\* Between transactions: the shares stay and the pot does not fall, or
\* somebody leaves.
LEMMA RestSettles ==
    ASSUME IInv, Idle, queue' = << >>,
           \/ Kept(stakers, stakers') /\ Pot(state', lock') >= Pot(state, lock)
           \/ \E u \in Stakers :
                 Burned(stakers, stakers', Pot(state, lock), Pot(state', lock'), u),
           Pot(state', lock') \in Nat
    PROVE  /\ Journey'
           /\ Moves(Settled.stakers, Settled'.stakers, Pot(Settled.state, Settled.lock),
                    Pot(Settled'.state, Settled'.lock))
  <1>1. Settled = State /\ Settled' = State'
    BY DEF Settled, Idle
  <1>2. PICK k, w, p, r : /\ k = stakers /\ w = stakers'
                          /\ p = Pot(state, lock) /\ r = Pot(state', lock')
    OBVIOUS
  <1>3. /\ Settled.stakers = k /\ Pot(Settled.state, Settled.lock) = p
        /\ Settled'.stakers = w /\ Pot(Settled'.state, Settled'.lock) = r
    BY <1>1, <1>2 DEF State
  <1>4. p \in Nat /\ r \in Nat
    BY <1>2, <1>3, SettledType DEF Typed
  <1>5. Moves(k, w, p, r)
    <2>1. CASE Kept(k, w) /\ r > p
      BY <2>1 DEF Moves
    <2>2. CASE Kept(k, w) /\ r = p
      BY <1>4, <2>2, SameMoves
    <2>3. CASE \E u \in Stakers : Burned(k, w, p, r, u)
      BY <2>3 DEF Moves
    <2>4. QED
      BY <1>2, <1>4, <2>1, <2>2, <2>3
  <1>6. Journey'
    BY DEF Journey, Idle
  <1>7. QED
    BY <1>3, <1>5, <1>6

\* A call that leaves messages is no step of the SharePool yet.
LEMMA BeginSettles ==
    ASSUME IInv, NEW m, Begin(m), m # << >>, NEW n \in Nat,
           Paid(stakers, stakers', Pot(state, lock), n),
           Leads(m, state', lock', Pot(state, lock) + n)
    PROVE  /\ Journey'
           /\ Moves(Settled.stakers, Settled'.stakers, Pot(Settled.state, Settled.lock),
                    Pot(Settled'.state, Settled'.lock))
  <1>1. Idle /\ queue' = m /\ undo' = State
    BY DEF Begin
  <1>2. Settled = State /\ Settled' = State
    BY <1>1 DEF Settled, Idle
  <1>3. State.stakers = stakers /\ State.state = state /\ State.lock = lock
    BY DEF State
  <1>4. Journey'
    BY <1>1, <1>3 DEF Journey
  <1>5. PICK k, p : k = stakers /\ p = Pot(state, lock)
    OBVIOUS
  <1>6. p \in Nat
    <2>1. Settled.state = state /\ Settled.lock = lock
      BY <1>2, <1>3
    <2>2. QED
      BY <1>5, <2>1, SettledType DEF Typed
  <1>7. Kept(k, k)
    BY DEF Kept
  <1>8. Moves(k, k, p, p)
    BY <1>6, <1>7, SameMoves
  <1>9. QED
    BY <1>2, <1>3, <1>4, <1>5, <1>8

LEMMA RevertSettles ==
    ASSUME IInv, Revert
    PROVE  /\ Journey'
           /\ Moves(Settled.stakers, Settled'.stakers, Pot(Settled.state, Settled.lock),
                    Pot(Settled'.state, Settled'.lock))
  <1>1. /\ ~Idle /\ queue' = << >>
        /\ state' = undo.state /\ stakers' = undo.stakers /\ lock' = undo.lock
    BY DEF Revert, Proceed
  <1>2. Settled = undo /\ Settled' = State'
    BY <1>1 DEF Settled, Idle
  <1>3. /\ Settled'.stakers = undo.stakers /\ Settled'.state = undo.state
        /\ Settled'.lock = undo.lock
    BY <1>1, <1>2 DEF State
  <1>4. PICK k, p : k = undo.stakers /\ p = Pot(undo.state, undo.lock)
    OBVIOUS
  <1>5. p \in Nat
    BY <1>2, <1>4, SettledType DEF Typed
  <1>6. Kept(k, k)
    BY DEF Kept
  <1>7. Moves(k, k, p, p)
    BY <1>5, <1>6, SameMoves
  <1>8. Journey'
    BY <1>1 DEF Journey, Idle
  <1>9. QED
    BY <1>2, <1>3, <1>4, <1>7, <1>8

LEMMA StakeSettles ==
    ASSUME IInv, NEW u \in Stakers, NEW a \in Amounts, ExecuteStake(u, a)
    PROVE  /\ Journey'
           /\ Moves(Settled.stakers, Settled'.stakers, Pot(Settled.state, Settled.lock),
                    Pot(Settled'.state, Settled'.lock))
  <1> DEFINE d == Distributed(state, reward)
             j == StakerOf(state, stakers[u])
             x == MintShare(d, lock.amount, a)
             c == Credited(d, j)
             i == [c EXCEPT !.bond_share = @ + x]
             m == IF lock.amount = 0 THEN <<Msg("CreateLock", a)>>
                  ELSE IF lock.end <= period
                  THEN <<Msg("Relock", 0), Msg("ExtendLockAmount", a)>>
                  ELSE <<Msg("ExtendLockAmount", a)>>
             n == lock.amount - state.total_unstaking_amount
  <1>1. /\ a > 0 /\ Begin(m) /\ Idle /\ lock' = lock
        /\ state' = [d EXCEPT !.total_bond_share = @ + x]
        /\ stakers' = [stakers EXCEPT ![u] = i]
    BY DEF ExecuteStake, Begin
  <1>2. /\ state \in StakingState /\ reward \in RewardInfo /\ stakers[u] \in StakerInfo
        /\ stakers \in [Stakers -> StakerInfo] /\ Known(state, stakers[u]) /\ lock \in Lock
        /\ Total(BondShares(stakers)) = state.total_bond_share
    BY SoundType DEF IInv, Sound
  <1>3. /\ a \in Nat /\ lock.amount \in Nat /\ stakers[u].bond_share \in Nat
        /\ state.total_unstaking_amount \in Nat /\ state.total_unstaking_amount <= lock.amount
    BY <1>1, <1>2, StakeAssumption, AtRest DEF StakingState, StakerInfo, Lock, Locked
  <1>4. /\ d \in StakingState /\ d.total_bond_share = state.total_bond_share
        /\ d.total_unstaking_amount = state.total_unstaking_amount
    BY <1>2, DistributedType
  <1> HIDE DEF d
  <1>5. Pot(state, lock) = n /\ n \in Nat
    BY <1>2, <1>3 DEF Pot
  <1>6. x \in Nat /\ x = Minted(state.total_bond_share, n, a)
    <2>1. x \in Nat
      BY <1>3, <1>4, ShareType
    <2>2. Bonded(d, lock.amount) = n
      BY <1>3, <1>4 DEF Bonded, AtMost
    <2> HIDE DEF n
    <2>3. QED
      BY <1>4, <2>1, <2>2 DEF MintShare, Minted
  <1>7. j \in StakerInfo /\ j.bond_share = stakers[u].bond_share
    BY <1>2, StakerOfFacts
  <1>8. i.bond_share = stakers[u].bond_share + x
    <2>1. c = [[j EXCEPT !.pending_reward = Earned(d, j)] EXCEPT !.reward_index = d.reward_index]
      BY DEF Credited
    <2>2. [c EXCEPT !.bond_share = @ + x].bond_share = j.bond_share + x
      <3> HIDE DEF j, x
      <3>1. QED
        BY <1>7, <2>1 DEF StakerInfo
    <2>3. QED
      BY <1>7, <2>2
  <1> HIDE DEF i, x
  <1>9. stakers'[u] = i /\ \A v \in Stakers \ {u} : stakers'[v] = stakers[v]
    BY <1>1, <1>2
  <1>10. Paid(stakers, stakers', Pot(state, lock), a)
    BY <1>1, <1>2, <1>3, <1>5, <1>6, <1>8, <1>9 DEF Paid, OnlyShareOf
  <1>11. /\ state'.total_unstaking_amount = state.total_unstaking_amount
         /\ Pot(state', lock') = n
    <2>1. state'.total_unstaking_amount = state.total_unstaking_amount
      BY <1>1, <1>4 DEF StakingState
    <2>2. QED
      BY <1>1, <2>1 DEF Pot
  <1>12. m # << >> /\ Leads(m, state', lock', Pot(state, lock) + a)
    <2> DEFINE e == <<Msg("ExtendLockAmount", a)>>
    <2>1. /\ <<Msg("CreateLock", a)>> = ToCreate(a, << >>)
          /\ <<Msg("Relock", 0), Msg("ExtendLockAmount", a)>> = ToRelock(e)
          /\ << >> \in Extensions /\ e \in Extensions
          /\ Asked(<< >>) = 0 /\ Asked(e) = a
      BY <1>3, CallMessages
    <2>2. e # << >>
      OBVIOUS
    <2> HIDE DEF e
    <2>3. ToCreate(a, << >>) # << >> /\ ToRelock(e) # << >>
      BY <1>3, <2>1, Heads
    <2>4. CASE lock.amount = 0
      <3>1. m = ToCreate(a, << >>) /\ n = 0 /\ state.total_unstaking_amount = 0
        BY <1>3, <2>1, <2>4
      <3>2. a + Asked(<< >>) = Pot(state, lock) + a
        BY <1>3, <1>5, <2>1, <3>1
      <3> HIDE DEF m, n
      <3>3. QED
        BY <1>3, <1>11, <2>1, <2>3, <3>1, <3>2 DEF Leads
    <2>5. CASE lock.amount # 0
      <3>1. m \in {e, ToRelock(e)}
        BY <2>1, <2>5 DEF e
      <3>2. Pot(state', lock') + Asked(e) = Pot(state, lock) + a
        BY <1>5, <1>11, <2>1
      <3> HIDE DEF m, n
      <3>3. Leads(m, state', lock', Pot(state, lock) + a)
        BY <2>1, <3>1, <3>2 DEF Leads
      <3>4. QED
        BY <2>2, <2>3, <3>1, <3>3
    <2>6. QED
      BY <2>4, <2>5
  <1> HIDE DEF m
  <1>13. QED
    BY <1>1, <1>3, <1>10, <1>12, BeginSettles

LEMMA ControllerSettles ==
    ASSUME IInv, ControllerRelock
    PROVE  /\ Journey'
           /\ Moves(Settled.stakers, Settled'.stakers, Pot(Settled.state, Settled.lock),
                    Pot(Settled'.state, Settled'.lock))
  <1> DEFINE m == <<Msg("Relock", 0)>>
  <1>1. /\ Begin(m) /\ stakers' = stakers /\ state' = state /\ lock' = lock
    BY DEF ControllerRelock, ours, theirs
  <1>2. /\ m = ToRelock(<< >>) /\ << >> \in Extensions /\ Asked(<< >>) = 0
    BY 0 \in Nat, CallMessages
  <1>3. m # << >>
    OBVIOUS
  <1> HIDE DEF m
  <1>4. Leads(m, state', lock', Pot(state, lock) + 0)
    BY <1>1, <1>2 DEF Leads
  <1>5. Paid(stakers, stakers', Pot(state, lock), 0)
    BY <1>1 DEF Paid, Kept
  <1>6. QED
    BY <1>1, <1>3, <1>4, <1>5, BeginSettles, 0 \in Nat

\* Who asks for xASTRO gives up shares that are worth it: they are rounded up.
LEMMA RequestBurns ==
    ASSUME IInv, NEW u \in Stakers, NEW a \in Amounts, ExecuteRequestUnstake(u, a)
    PROVE  /\ Idle /\ queue' = << >> /\ Pot(state', lock') \in Nat
           /\ Burned(stakers, stakers', Pot(state, lock), Pot(state', lock'), u)
  <1> DEFINE d == Distributed(state, reward)
             c == Credited(d, stakers[u])
             j == UpdateStaking(d, c)
             x == BurnShare(d, lock.amount, a)
             i == [j EXCEPT !.bond_share = @ - x, !.unstaking_amount = @ + a]
             n == lock.amount - state.total_unstaking_amount
             T == state.total_bond_share
  <1>1. /\ Idle /\ queue' = << >> /\ x <= j.bond_share /\ x <= d.total_bond_share
        /\ state' = [d EXCEPT !.total_bond_share = @ - x, !.total_unstaking_amount = @ + a]
        /\ stakers' = [stakers EXCEPT ![u] = i] /\ lock' = lock
    BY DEF ExecuteRequestUnstake, Begin, Burnable, theirs
  <1>2. /\ state \in StakingState /\ reward \in RewardInfo /\ stakers[u] \in StakerInfo
        /\ stakers \in [Stakers -> StakerInfo] /\ Known(state, stakers[u]) /\ lock \in Lock
        /\ Total(BondShares(stakers)) = T
    BY SoundType DEF IInv, Sound
  <1>3. /\ a \in Nat /\ lock.amount \in Nat /\ stakers[u].bond_share \in Nat /\ T \in Nat
        /\ state.total_unstaking_amount \in Nat /\ state.total_unstaking_amount <= lock.amount
        /\ Live(state, lock, 0)
    BY <1>1, <1>2, StakeAssumption, AtRest DEF StakingState, StakerInfo, Lock, Locked
  <1>4. /\ d \in StakingState /\ d.total_bond_share = T
        /\ d.total_unstaking_amount = state.total_unstaking_amount
        /\ state.reward_index <= d.reward_index /\ d.unstaking_period = state.unstaking_period
    BY <1>2, DistributedType
  <1> HIDE DEF d
  <1>5. /\ Live(d, lock, 0) /\ d.total_unstaking_amount <= lock.amount
    BY <1>3, <1>4 DEF Live
  <1>6. state.total_unstaking_amount + a <= lock.amount
    BY <1>1, <1>2, <1>3, <1>4, <1>5, BurnCovers
  <1>7. x \in Nat
    BY <1>3, <1>4, ShareType
  <1>8. n \in Nat /\ a <= n /\ Pot(state, lock) = n /\ n - a \in Nat /\ n - (n - a) = a
    BY <1>3, <1>6 DEF Pot
  <1>9. Pot(state', lock') = n - a
    <2>1. state'.total_unstaking_amount = state.total_unstaking_amount + a
      BY <1>1, <1>4 DEF StakingState
    <2>2. QED
      BY <1>1, <1>3, <2>1 DEF Pot
  <1>10. a * T <= x * n
    <2>1. Bonded(d, lock.amount) = n
      BY <1>3, <1>4 DEF Bonded, AtMost
    <2> HIDE DEF n
    <2>2. CASE T = 0
      <3>1. a * T = 0 /\ x * n \in Nat
        BY <1>3, <1>7, <1>8, <2>2
      <3>2. QED
        BY <3>1
    <2>3. CASE n = 0
      <3>1. a = 0
        BY <1>3, <1>8, <2>3
      <3>2. a * T = 0 /\ x * n = 0
        BY <1>3, <1>7, <2>3, <3>1
      <3>3. QED
        BY <3>2
    <2>4. CASE T # 0 /\ n # 0
      <3>1. x = MulRatioCeil(a, T, n)
        BY <1>4, <2>1, <2>4 DEF BurnShare
      <3>2. n \in Nat \ {0}
        BY <1>8, <2>4
      <3> HIDE DEF x, T
      <3>3. a * T <= n * x
        BY <1>3, <3>1, <3>2, MulRatioCeilBounds
      <3>4. QED
        BY <1>7, <1>8, <3>3
    <2>5. QED
      BY <2>2, <2>3, <2>4
  <1>11. c \in StakerInfo /\ c.bond_share = stakers[u].bond_share
         /\ c.unstaking_period <= d.unstaking_period
    <2>1. stakers[u].reward_index <= d.reward_index
      BY <1>2, <1>4 DEF StakingState, StakerInfo, Known
    <2>2. Earned(d, stakers[u]) \in Nat
      BY <1>2, <1>4, <2>1, EarnedBound
    <2>3. /\ c \in StakerInfo /\ c.bond_share = stakers[u].bond_share
          /\ c.unstaking_period = stakers[u].unstaking_period
      BY <1>2, <1>4, <2>2, CreditedFacts
    <2>4. QED
      BY <1>2, <1>4, <2>3 DEF Known
  <1> HIDE DEF c
  <1>12. j \in StakerInfo /\ j.bond_share = stakers[u].bond_share
    BY <1>4, <1>11, UpdatedStaking
  <1>13. i.bond_share = stakers[u].bond_share - x
    <2> HIDE DEF j, x
    <2>1. QED
      BY <1>12 DEF StakerInfo
  <1> HIDE DEF i, x, n, T, j
  <1>14. stakers'[u] = i /\ \A v \in Stakers \ {u} : stakers'[v] = stakers[v]
    BY <1>1, <1>2
  <1>15. stakers[u].bond_share - stakers'[u].bond_share = x
    BY <1>3, <1>7, <1>13, <1>14
  <1>16. (n - (n - a)) * T <= (stakers[u].bond_share - stakers'[u].bond_share) * n
    BY <1>8, <1>10, <1>15
  <1>17. Burned(stakers, stakers', n, n - a, u)
    BY <1>2, <1>3, <1>8, <1>14, <1>16 DEF Burned, OnlyShareOf
  <1>18. QED
    BY <1>1, <1>8, <1>9, <1>17

\* What only pays leaves the shares and the pot alone.
LEMMA OthersKeep ==
    ASSUME IInv,
           \/ \E u \in Stakers, a \in Amounts : ExecuteWithdrawUnstaked(u, a)
           \/ \E u \in Stakers : ExecuteClaimIncome(u)
           \/ \E quota \in Quotas : UpdateParameters(quota)
           \/ \E income, rest \in Gifts : BondReward(income, rest)
           \/ ClaimMany \/ BondPays \/ Donate \/ Tick
    PROVE  /\ Idle /\ queue' = << >> /\ Kept(stakers, stakers')
           /\ Pot(state', lock') = Pot(state, lock)
  <1>1. /\ state \in StakingState /\ reward \in RewardInfo
        /\ stakers \in [Stakers -> StakerInfo] /\ \A u \in Stakers : Known(state, stakers[u])
    BY SoundType DEF IInv
  <1>2. ASSUME NEW u \in Stakers, NEW a \in Amounts, ExecuteWithdrawUnstaked(u, a)
        PROVE  /\ Idle /\ queue' = << >> /\ Kept(stakers, stakers')
               /\ Pot(state', lock') = Pot(state, lock)
    <2> DEFINE j == UpdateStaking(state, stakers[u])
               i == [j EXCEPT !.unstaked_amount = @ - a]
    <2>1. /\ Idle /\ queue' = << >> /\ lock' = lock
          /\ stakers' = [stakers EXCEPT ![u] = i]
          /\ state' = [state EXCEPT !.total_unstaked_amount = @ - a]
      BY <1>2 DEF ExecuteWithdrawUnstaked, Begin
    <2>2. j \in StakerInfo /\ j.bond_share = stakers[u].bond_share
      <3>1. stakers[u] \in StakerInfo /\ stakers[u].unstaking_period <= state.unstaking_period
        BY <1>1 DEF Known
      <3>2. QED
        BY <1>1, <3>1, UpdatedStaking
    <2>3. i.bond_share = stakers[u].bond_share
      <3> HIDE DEF j
      <3>1. QED
        BY <2>2 DEF StakerInfo
    <2> HIDE DEF i
    <2>4. Kept(stakers, stakers')
      BY <1>1, <2>1, <2>3 DEF Kept
    <2>5. Pot(state', lock') = Pot(state, lock)
      BY <1>1, <2>1 DEF Pot, StakingState
    <2>6. QED
      BY <2>1, <2>4, <2>5
  <1>3. ASSUME NEW u \in Stakers, ExecuteClaimIncome(u)
        PROVE  /\ Idle /\ queue' = << >> /\ Kept(stakers, stakers')
               /\ Pot(state', lock') = Pot(state, lock)
    <2> DEFINE d == Distributed(state, reward)
               c == Credited(d, stakers[u])
               i == [c EXCEPT !.pending_reward = 0]
    <2>1. /\ Idle /\ queue' = << >> /\ lock' = lock /\ state' = d
          /\ stakers' = [stakers EXCEPT ![u] = i]
      BY <1>3 DEF ExecuteClaimIncome, Begin
    <2>2. /\ d \in StakingState /\ d.total_unstaking_amount = state.total_unstaking_amount
          /\ state.reward_index <= d.reward_index
      BY <1>1, DistributedType
    <2> HIDE DEF d
    <2>3. c \in StakerInfo /\ c.bond_share = stakers[u].bond_share
      <3>1. stakers[u] \in StakerInfo /\ stakers[u].reward_index <= d.reward_index
        BY <1>1, <2>2 DEF StakingState, StakerInfo, Known
      <3>2. Earned(d, stakers[u]) \in Nat
        BY <2>2, <3>1, EarnedBound
      <3>3. QED
        BY <2>2, <3>1, <3>2, CreditedFacts
    <2>4. i.bond_share = stakers[u].bond_share
      <3> HIDE DEF c
      <3>1. QED
        BY <2>3 DEF StakerInfo
    <2> HIDE DEF i
    <2>5. Kept(stakers, stakers')
      BY <1>1, <2>1, <2>4 DEF Kept
    <2>6. Pot(state', lock') = Pot(state, lock)
      BY <2>1, <2>2 DEF Pot
    <2>7. QED
      BY <2>1, <2>5, <2>6
  <1>4. CASE \/ \E quota \in Quotas : UpdateParameters(quota)
             \/ \E income, rest \in Gifts : BondReward(income, rest)
             \/ ClaimMany \/ BondPays \/ Donate \/ Tick
    <2>1. Idle /\ queue' = << >> /\ UNCHANGED <<state, stakers, lock>>
      BY <1>4 DEF UpdateParameters, BondReward, ClaimMany, BondPays, Donate, Tick, ours, theirs,
                  Begin, Idle
    <2>2. QED
      BY <2>1 DEF Kept
  <1>5. QED
    BY <1>2, <1>3, <1>4

LEMMA StepSettles ==
    ASSUME IInv, Journey, Pot(Settled'.state, Settled'.lock) \in Nat, [Next]_vars
    PROVE  /\ Journey'
           /\ Moves(Settled.stakers, Settled'.stakers, Pot(Settled.state, Settled.lock),
                    Pot(Settled'.state, Settled'.lock))
  <1>1. CASE UNCHANGED vars
    <2>1. UNCHANGED <<state, stakers, reward, queue, undo, held, xastro, lp_owed, lock,
                      last_claim>>
      BY <1>1 DEF vars, ours, theirs
    <2>2. Settled' = Settled /\ Journey'
      BY <2>1 DEF Settled, State, Journey, Idle
    <2>3. PICK k, p : k = Settled.stakers /\ p = Pot(Settled.state, Settled.lock)
      OBVIOUS
    <2>4. p \in Nat /\ Kept(k, k)
      BY <2>3, SettledType DEF Typed, Kept
    <2>5. Moves(k, k, p, p)
      BY <2>4, SameMoves
    <2>6. QED
      BY <2>2, <2>3, <2>5
  <1>2. ASSUME NEW u \in Stakers, NEW a \in Amounts, ExecuteStake(u, a)
        PROVE  /\ Journey'
               /\ Moves(Settled.stakers, Settled'.stakers, Pot(Settled.state, Settled.lock),
                        Pot(Settled'.state, Settled'.lock))
    BY <1>2, StakeSettles
  <1>3. ASSUME NEW u \in Stakers, NEW a \in Amounts, ExecuteRequestUnstake(u, a)
        PROVE  /\ Journey'
               /\ Moves(Settled.stakers, Settled'.stakers, Pot(Settled.state, Settled.lock),
                        Pot(Settled'.state, Settled'.lock))
    <2>1. /\ Idle /\ queue' = << >> /\ Pot(state', lock') \in Nat
          /\ Burned(stakers, stakers', Pot(state, lock), Pot(state', lock'), u)
      BY <1>3, RequestBurns
    <2>2. QED
      BY <2>1, RestSettles
  <1>4. CASE ControllerRelock
    BY <1>4, ControllerSettles
  <1>5. CASE \/ Relock \/ AfterStakingClaimed
             \/ FeeClaim \/ EscrowWithdraw \/ CreateLock \/ ExtendLockAmount
    BY <1>5, MessageSettles
  <1>6. CASE \/ \E u \in Stakers, a \in Amounts : ExecuteWithdrawUnstaked(u, a)
             \/ \E u \in Stakers : ExecuteClaimIncome(u)
             \/ \E quota \in Quotas : UpdateParameters(quota)
             \/ \E income, rest \in Gifts : BondReward(income, rest)
             \/ ClaimMany \/ BondPays \/ Donate \/ Tick
    <2>1. /\ Idle /\ queue' = << >> /\ Kept(stakers, stakers')
          /\ Pot(state', lock') = Pot(state, lock)
      BY <1>6, OthersKeep
    <2>2. Pot(state, lock) \in Nat
      <3>1. Settled.state = state /\ Settled.lock = lock
        BY <2>1 DEF Settled, State
      <3>2. QED
        BY <3>1, SettledType DEF Typed
    <2>3. Pot(state', lock') \in Nat /\ Pot(state', lock') >= Pot(state, lock)
      BY <2>1, <2>2
    <2>4. QED
      BY <2>1, <2>3, RestSettles
  <1>7. CASE DepositFor
    <2>1. /\ Idle /\ queue' = << >> /\ lock' = [lock EXCEPT !.amount = @ + 1]
          /\ state' = state /\ stakers' = stakers
      BY <1>7 DEF DepositFor, ours, Idle
    <2>2. /\ lock \in Lock /\ lock.amount \in Nat /\ state.total_unstaking_amount \in Nat
          /\ state.total_unstaking_amount <= lock.amount
      BY <2>1, SoundType, AtRest DEF IInv, Sound, Lock, Locked, StakingState
    <2>3. lock'.amount = lock.amount + 1
      BY <2>1, <2>2 DEF Lock
    <2>4. Pot(state', lock') \in Nat /\ Pot(state', lock') >= Pot(state, lock)
      BY <2>1, <2>2, <2>3 DEF Pot
    <2>5. Kept(stakers, stakers')
      BY <2>1 DEF Kept
    <2>6. QED
      BY <2>1, <2>4, <2>5, RestSettles
  <1>8. CASE Revert
    BY <1>8, RevertSettles
  <1>9. QED
    BY <1>1, <1>2, <1>3, <1>4, <1>5, <1>6, <1>7, <1>8 DEF Next

\* What has been moved is a step of the SharePool.
LEMMA PoolMoves ==
    ASSUME NEW k \in [Stakers -> StakerInfo], NEW w \in [Stakers -> StakerInfo],
           NEW p \in Nat, NEW r \in Nat,
           k = Settled.stakers, w = Settled'.stakers,
           p = Pot(Settled.state, Settled.lock), r = Pot(Settled'.state, Settled'.lock),
           Moves(k, w, p, r)
    PROVE  [Pool!Next]_(Pool!pool_vars)
  <1> DEFINE a == [u \in Stakers |-> k[u].bond_share]
             b == [u \in Stakers |-> w[u].bond_share]
  <1>1. /\ a \in [Stakers -> Nat] /\ b \in [Stakers -> Nat]
        /\ p = Settled.lock.amount - Settled.state.total_unstaking_amount
        /\ r = Settled'.lock.amount - Settled'.state.total_unstaking_amount
    BY DEF StakerInfo, Pot
  <1>2. a = BondShares(k)
    BY DEF BondShares
  <1>3. Pool!TotalShares = Total(BondShares(k)) /\ Total(BondShares(k)) \in Nat
    <2>1. Pool!TotalShares = Total(a)
      BY DEF Pool!TotalShares, Pool!Total, Pool!Units, Total, Units, Pool!Cardinality, Cardinality
    <2>2. Total(a) \in Nat
      BY <1>1, StakeAssumption, TotalType
    <2>3. QED
      BY <1>2, <2>1, <2>2
  <1>4. ASSUME Kept(k, w) PROVE a = b
    BY <1>4 DEF Kept
  <1>5. ASSUME Kept(k, w), r = p PROVE UNCHANGED Pool!pool_vars
    <2>1. a = b
      BY <1>4, <1>5
    <2>2. QED
      BY <1>1, <1>5, <2>1 DEF Pool!pool_vars
  <1>6. ASSUME NEW n \in Nat, Paid(k, w, p, n), r = p + n
        PROVE  [Pool!Next]_(Pool!pool_vars)
    <2>1. CASE n = 0
      <3>1. Kept(k, w) /\ r = p
        BY <1>6, <2>1 DEF Paid
      <3>2. QED
        BY <1>5, <3>1
    <2>2. CASE n > 0
      <3>1. PICK u \in Stakers :
                /\ OnlyShareOf(k, w, u)
                /\ w[u].bond_share = k[u].bond_share + Minted(Total(BondShares(k)), p, n)
        BY <1>6, <2>2 DEF Paid
      <3>2. r - p = n
        BY <1>6
      <3>3. \A v \in Stakers \ {u} : b[v] = a[v]
        BY <3>1 DEF OnlyShareOf
      <3>4. b[u] - a[u] = Minted(Total(BondShares(k)), p, n)
        <4>1. Minted(Total(BondShares(k)), p, n) \in Nat
          BY <1>3, MulRatioBounds DEF Minted
        <4>2. a[u] \in Nat
          BY <1>1
        <4>3. QED
          BY <3>1, <4>1, <4>2
      <3>5. Pool!Enter(u)
        BY <1>1, <1>3, <2>2, <3>2, <3>3, <3>4
           DEF Pool!Enter, Pool!Only, Minted, MulRatio, Pool!MulRatio
      <3>6. QED
        BY <3>5 DEF Pool!Next
    <2>3. QED
      BY <2>1, <2>2
  <1>7. ASSUME Kept(k, w), r > p PROVE [Pool!Next]_(Pool!pool_vars)
    <2>1. a = b
      BY <1>4, <1>7
    <2>2. Pool!Gain
      BY <1>1, <1>7, <2>1 DEF Pool!Gain
    <2>3. QED
      BY <2>2 DEF Pool!Next
  <1>8. ASSUME NEW u \in Stakers, Burned(k, w, p, r, u) PROVE [Pool!Next]_(Pool!pool_vars)
    <2>1. \A v \in Stakers \ {u} : b[v] = a[v]
      BY <1>8 DEF Burned, OnlyShareOf
    <2>2. /\ p - r >= 0 /\ r >= 0 /\ b[u] >= 0
          /\ (p - r) * Total(BondShares(k)) <= (a[u] - b[u]) * p
      BY <1>1, <1>8 DEF Burned
    <2>3. Pool!Leave(u)
      BY <1>1, <1>3, <2>1, <2>2 DEF Pool!Leave, Pool!Only
    <2>4. QED
      BY <2>3 DEF Pool!Next
  <1>9. QED
    BY <1>6, <1>7, <1>8 DEF Moves

\* Over whole transactions the xASTRO of the lock that nobody has asked for is
\* a fair pool of the stakers (calc_bond_share): shares are minted and burned
\* at their price, also where a stake finds an ended lock and the relock it
\* queues takes all of the xASTRO out and back in, and where that fails.
THEOREM Refines == Spec => ImplementsSharePool
  <1>1. Init => Journey /\ Pool!Init
    <2> SUFFICES ASSUME Init PROVE Journey /\ Pool!Init
      OBVIOUS
    <2>1. Idle /\ Settled = State
      BY DEF Init, Settled, Idle
    <2>2. Settled.stakers = stakers /\ Settled.state = state /\ Settled.lock = lock
      BY <2>1 DEF State
    <2>3. Settled.lock.amount = 0 /\ Settled.state.total_unstaking_amount = 0
      BY <2>2 DEF Init, NoLock
    <2>4. \A u \in Stakers : Settled.stakers[u].bond_share = 0
      BY <2>2 DEF Init, NoStaker
    <2>5. QED
      BY <2>1, <2>3, <2>4 DEF Pool!Init, Journey
  <1>2. IInv => Typed
    BY SettledType
  <1>3. IInv /\ Typed /\ Typed' /\ Journey /\ [Next]_vars
           => Journey' /\ [Pool!Next]_(Pool!pool_vars)
    <2> SUFFICES ASSUME IInv, Typed, Typed', Journey, [Next]_vars
                 PROVE  Journey' /\ [Pool!Next]_(Pool!pool_vars)
      OBVIOUS
    <2>1. PICK k, w, p, r : /\ k = Settled.stakers /\ w = Settled'.stakers
                            /\ p = Pot(Settled.state, Settled.lock)
                            /\ r = Pot(Settled'.state, Settled'.lock)
      OBVIOUS
    <2>2. /\ k \in [Stakers -> StakerInfo] /\ p \in Nat
          /\ w \in [Stakers -> StakerInfo] /\ r \in Nat
      BY <2>1 DEF Typed
    <2>3. Journey' /\ Moves(k, w, p, r)
      BY <2>1, <2>2, StepSettles
    <2>4. [Pool!Next]_(Pool!pool_vars)
      BY <2>1, <2>2, <2>3, PoolMoves
    <2>5. QED
      BY <2>3, <2>4
  <1>4. QED
    BY <1>1, <1>2, <1>3, Invariance, PTL DEF Spec, ImplementsSharePool, Pool!Spec

\* A step of the SharePool leaves the price of a share where it was or raises
\* it.
LEMMA PoolIsFair ==
    ASSUME Typed, Typed', [Pool!Next]_(Pool!pool_vars)
    PROVE  Pool!PriceKept
  <1> DEFINE a == [u \in Stakers |-> Settled.stakers[u].bond_share]
             b == [u \in Stakers |-> Settled'.stakers[u].bond_share]
             x == Settled.lock.amount - Settled.state.total_unstaking_amount
             y == Settled'.lock.amount - Settled'.state.total_unstaking_amount
  <1>1. a \in [Stakers -> Nat] /\ b \in [Stakers -> Nat] /\ x \in Nat /\ y \in Nat
    BY DEF Typed, Pot, StakerInfo
  <1> DEFINE s == Total(a)
             t == Total(b)
  <1>2. Pool!TotalShares = s /\ Pool!TotalShares' = t
    BY DEF Pool!TotalShares, Pool!Total, Pool!Units, Total, Units, Pool!Cardinality, Cardinality
  <1> HIDE DEF a, b, x, y
  <1>3. IsFiniteSet(Stakers)
    BY StakeAssumption
  <1>4. s \in Nat /\ t \in Nat
    BY <1>1, <1>3, TotalType
  <1>5. ASSUME NEW u \in Stakers, \A v \in Stakers : v # u => b[v] = a[v]
        PROVE  t = s - a[u] + b[u]
    BY <1>1, <1>3, <1>5, TotalReplaced
  <1>6. ASSUME a = b PROVE s = t
    BY <1>6
  <1>7. ASSUME NEW g \in Stakers, NEW h \in Stakers, g # h, a[g] + a[h] = b[g] + b[h],
               \A v \in Stakers : v # g /\ v # h => b[v] = a[v]
        PROVE  s = t
    BY <1>1, <1>3, <1>7, TotalMoved
  <1> HIDE DEF s, t
  <1>8. SUFFICES ASSUME s > 0 PROVE y * s >= x * t
    BY <1>2 DEF Pool!PriceKept, x, y
  <1>9. CASE UNCHANGED Pool!pool_vars
    <2>1. a = b /\ x = y
      BY <1>9 DEF Pool!pool_vars, a, b, x, y
    <2>2. QED
      BY <1>1, <1>4, <1>6, <2>1
  <1>10. ASSUME NEW u \in Stakers, Pool!Enter(u) PROVE y * s >= x * t
    <2> DEFINE m == b[u] - a[u]
    <2>1. y - x > 0 /\ \A v \in Stakers : v # u => b[v] = a[v]
      BY <1>10 DEF Pool!Enter, Pool!Only, a, b, x, y
    <2>2. m = IF s = 0 \/ x = 0 THEN y - x ELSE MulRatio(y - x, s, x)
      BY <1>2, <1>10 DEF Pool!Enter, Pool!MulRatio, MulRatio, a, b, x, y
    <2>3. t = s + m
      <3>1. t = s - a[u] + b[u]
        BY <1>5, <2>1
      <3>2. QED
        BY <1>1, <1>4, <3>1
    <2> HIDE DEF m
    <2>4. m \in Nat
      <3>1. y - x \in Nat
        BY <1>1, <2>1
      <3>2. CASE x = 0
        BY <2>2, <3>1, <3>2
      <3>3. CASE x # 0
        BY <1>1, <1>4, <1>8, <2>2, <3>1, <3>3, MulRatioBounds
      <3>4. QED
        BY <3>2, <3>3
    <2>5. x # 0 => m = MulRatio(y - x, s, x)
      BY <1>4, <1>8, <2>2
    <2>6. y > x /\ s \in Nat \ {0}
      BY <1>1, <1>4, <1>8, <2>1
    <2>7. QED
      BY <1>1, <2>3, <2>4, <2>5, <2>6, MintingIsFair
  <1>11. ASSUME NEW u \in Stakers, Pool!Leave(u) PROVE y * s >= x * t
    <2>1. /\ \A v \in Stakers : v # u => b[v] = a[v]
          /\ (x - y) * s <= (a[u] - b[u]) * x
      BY <1>2, <1>11 DEF Pool!Leave, Pool!Only, a, b, x, y
    <2>2. t = s - a[u] + b[u]
      BY <1>5, <2>1
    <2>3. a[u] - b[u] = s - t
      BY <1>1, <1>4, <2>2
    <2>4. (x - y) * s <= (s - t) * x
      BY <2>1, <2>3
    <2>5. QED
      BY <1>1, <1>4, <2>4, BurningIsFair
  <1>12. ASSUME NEW g \in Stakers, NEW h \in Stakers, g # h, Pool!Move(g, h) PROVE y * s >= x * t
    <2> DEFINE m == a[g] - b[g]
    <2>1. /\ m \in 1 .. a[g] /\ x = y
          /\ b = [a EXCEPT ![g] = @ - m, ![h] = @ + m]
      BY <1>12 DEF Pool!Move, a, b, x, y
    <2> HIDE DEF m
    <2>2. /\ b[g] = a[g] - m /\ b[h] = a[h] + m
          /\ \A v \in Stakers : v # g /\ v # h => b[v] = a[v]
      BY <1>1, <1>12, <2>1
    <2>3. a[g] + a[h] = b[g] + b[h]
      BY <1>1, <2>1, <2>2
    <2>4. s = t
      BY <1>7, <1>12, <2>2, <2>3
    <2>5. QED
      BY <1>1, <1>4, <2>1, <2>4
  <1>13. CASE Pool!Gain
    <2>1. a = b /\ y > x
      BY <1>13 DEF Pool!Gain, a, b, x, y
    <2>2. QED
      BY <1>1, <1>4, <1>6, <2>1, TimesMonotone
  <1>14. CASE Pool!Donate
    <2>1. a = b /\ x = y
      BY <1>14 DEF Pool!Donate, a, b, x, y
    <2>2. QED
      BY <1>1, <1>4, <1>6, <2>1
  <1>15. QED
    BY <1>9, <1>10, <1>11, <1>12, <1>13, <1>14 DEF Pool!Next

\* The xASTRO behind a share of the lock never becomes less (calc_bond_share,
\* calc_bond_amount), over whole transactions: no stake, request to unstake,
\* income or relock dilutes those who hold on.
THEOREM PriceNeverFalls == Spec => SharePriceNeverFalls
  <1>1. IInv => Typed
    BY SettledType
  <1>2. Typed /\ Typed' /\ [Pool!Next]_(Pool!pool_vars) => Pool!PriceKept
    BY PoolIsFair
  <1>3. QED
    BY <1>1, <1>2, Invariance, Refines, PTL DEF ImplementsSharePool, SharePriceNeverFalls,
       Pool!Spec, Pool!PriceNeverFalls
=============================================================================
