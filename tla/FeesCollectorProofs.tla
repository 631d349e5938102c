------------------------ MODULE FeesCollectorProofs ------------------------
(***************************************************************************)
(* Theorems about fees_collector: types, the handover of its ownership,    *)
(* that a collect leaves nothing on the way and brings what was simulated, *)
(* and that validated bridges reach the stablecoin.                        *)
(***************************************************************************)
EXTENDS FeesCollector, RatiosTheorems, SequenceTheorems, TLAPS

\* What a pair returns is an amount (a Uint128), in every state it gets into.
ReturnsAreAmounts ==
    \A state \in PairStates, from, to \in Tokens, amount \in Nat :
        Return(state, from, to, amount) \in Nat /\ Moved(state, from, to, amount) \in PairStates

-----------------------------------------------------------------------------
(* The rounds of a collect *)

SwapsOf(swaps) == [NoMessage EXCEPT !.swaps = swaps]

CallOf(assets, depth) ==
    [NoMessage EXCEPT !.type = "SwapBridgeAssets", !.assets = assets, !.depth = depth]

\* The messages of a transaction, of which the swaps may be under way: then
\* the call to itself for the bridges' tokens, and the distribution at the end.
Rest(assets, depth, last) ==
    (IF assets = {} THEN <<>> ELSE <<CallOf(assets, depth)>>) \o <<last>>

Messages(swaps, assets, depth, last) ==
    (IF swaps = {} THEN <<>> ELSE <<SwapsOf(swaps)>>) \o Rest(assets, depth, last)

Round(q, swaps, assets, depth, last) ==
    /\ swaps \in SUBSET Swap /\ assets \in SUBSET Tokens /\ depth \in Nat
    /\ last \in Message /\ last.type = "DistributeFees"
    /\ q = Messages(swaps, assets, depth, last)

\* What is to be sold is there: one swap per token, for another one.
InHand(swaps) ==
    \A s \in swaps :
        /\ s.from # s.to
        /\ s.amount <= held[s.from]
        /\ \A r \in swaps : r.from = s.from => r = s

\* What comes in is the stablecoin, or the next round sells it.
Onwards(swaps, assets) == \A s \in swaps : s.to = Stable \/ s.to \in assets

\* The collect was asked to sell all of t.
Whole(t) == t \in DOMAIN tx.asked /\ tx.asked[t] = NoLimit

\* Of what the next round does not sell, the swaps under way leave no more
\* than there was before, and nothing if all of it was to be sold.
Clean(swaps, assets) ==
    \A t \in Tokens \ {Stable} : t \notin assets =>
        /\ (\A s \in swaps : s.from # t)
           => held[t] <= tx.undo[t] /\ (Whole(t) => held[t] = 0)
        /\ \A s \in swaps : s.from = t
           => held[t] - s.amount <= tx.undo[t] /\ (Whole(t) => held[t] = s.amount)

Config ==
    /\ Owner!TypeOK /\ Owner!ProposalIsOwners
    /\ operator \in Accounts /\ target_list \in TargetLists /\ pairs \in PairSets
    /\ DOMAIN bridges \subseteq Tokens
    /\ \A t \in DOMAIN bridges : bridges[t] \in Tokens \ {t}

Idle == tx = NoTx /\ queue = <<>>

Collecting ==
    /\ tx.open = TRUE
    /\ tx.undo \in [Tokens -> Nat] /\ tx.market \in MarketStates
    /\ DOMAIN tx.asked \subseteq Tokens
    /\ \E swaps, assets, depth, last :
          /\ Round(queue, swaps, assets, depth, last)
          /\ InHand(swaps) /\ Onwards(swaps, assets) /\ Clean(swaps, assets)

IInv ==
    /\ Config
    /\ market \in MarketStates
    /\ held \in [Tokens -> Nat]
    /\ Idle \/ Collecting

-----------------------------------------------------------------------------
(* Lists of messages *)

LEMMA MessageTypes ==
    ASSUME NEW swaps \in SUBSET Swap, NEW assets \in SUBSET Tokens, NEW depth \in Nat
    PROVE  /\ SwapsOf(swaps) \in Message /\ CallOf(assets, depth) \in Message
           /\ SwapsOf(swaps).type = "Swaps" /\ SwapsOf(swaps).swaps = swaps
           /\ CallOf(assets, depth).type = "SwapBridgeAssets"
           /\ CallOf(assets, depth).assets = assets /\ CallOf(assets, depth).depth = depth
  BY DEF SwapsOf, CallOf, NoMessage, Message

LEMMA ShortLists ==
    ASSUME NEW S, NEW a \in S, NEW b \in S, NEW c \in S
    PROVE  /\ <<>> \o <<a>> = <<a>> /\ <<a>> \o <<b>> = <<a, b>>
           /\ <<a>> \o <<b, c>> = <<a, b, c>> /\ <<>> \o <<a, b>> = <<a, b>>
  <1>1. <<a>> \in Seq(S) /\ <<b>> \in Seq(S) /\ <<a, b>> \in Seq(S)
    OBVIOUS
  <1>2. <<b, c>> \in Seq(S) /\ <<a, b, c>> \in Seq(S)
    OBVIOUS
  <1>3. <<a>> \o <<b>> = <<a, b>>
    <2> DEFINE q == <<a>> \o <<b>>
    <2>1. q \in Seq(S) /\ Len(q) = 2 /\ q[1] = a /\ q[2] = b
      BY <1>1, ConcatProperties
    <2> HIDE DEF q
    <2>2. Len(<<a, b>>) = 2 /\ \A i \in 1 .. 2 : q[i] = <<a, b>>[i]
      BY <2>1
    <2>3. q = <<a, b>>
      BY <1>1, <2>1, <2>2, SeqEqual
    <2>4. QED
      BY <2>3 DEF q
  <1>4. <<a>> \o <<b, c>> = <<a, b, c>>
    <2> DEFINE q == <<a>> \o <<b, c>>
    <2>1. q \in Seq(S) /\ Len(q) = 3 /\ q[1] = a /\ q[2] = b /\ q[3] = c
      BY <1>1, <1>2, ConcatProperties
    <2> HIDE DEF q
    <2>2. Len(<<a, b, c>>) = 3 /\ \A i \in 1 .. 3 : q[i] = <<a, b, c>>[i]
      BY <2>1
    <2>3. q = <<a, b, c>>
      BY <1>2, <2>1, <2>2, SeqEqual
    <2>4. QED
      BY <2>3 DEF q
  <1>5. QED
    BY <1>1, <1>3, <1>4, ConcatEmptySeq

\* What follows the swaps: the call, if there is one, and the distribution.
LEMMA RestForms ==
    ASSUME NEW assets \in SUBSET Tokens, NEW depth \in Nat, NEW last \in Message
    PROVE  /\ assets = {} => Rest(assets, depth, last) = <<last>>
           /\ assets # {} => Rest(assets, depth, last) = <<CallOf(assets, depth), last>>
           /\ Rest(assets, depth, last) \in Seq(Message)
  <1>1. CallOf(assets, depth) \in Message
    BY MessageTypes, {} \in SUBSET Swap
  <1>2. /\ <<>> \o <<last>> = <<last>>
        /\ <<CallOf(assets, depth)>> \o <<last>> = <<CallOf(assets, depth), last>>
    BY <1>1, ShortLists
  <1>3. <<last>> \in Seq(Message) /\ <<CallOf(assets, depth), last>> \in Seq(Message)
    BY <1>1
  <1>4. QED
    BY <1>2, <1>3 DEF Rest

\* The three kinds of first message and what follows them.
LEMMA MessageForms ==
    ASSUME NEW q, NEW swaps, NEW assets, NEW depth, NEW last,
           Round(q, swaps, assets, depth, last)
    PROVE  /\ q \in Seq(Message) /\ q # <<>>
           /\ Head(q).type = "Swaps" => /\ swaps # {} /\ Head(q) = SwapsOf(swaps)
                                        /\ Tail(q) = Rest(assets, depth, last)
           /\ Head(q).type = "SwapBridgeAssets"
              => /\ swaps = {} /\ assets # {} /\ Head(q) = CallOf(assets, depth)
                 /\ Tail(q) = Rest({}, depth, last)
           /\ Head(q).type = "DistributeFees"
              => swaps = {} /\ assets = {} /\ Head(q) = last /\ Tail(q) = <<>>
  <1> DEFINE m == SwapsOf(swaps)
             c == CallOf(assets, depth)
             r == Rest(assets, depth, last)
             e == Rest({}, depth, last)
  <1>0. /\ swaps \in SUBSET Swap /\ assets \in SUBSET Tokens /\ depth \in Nat
        /\ last \in Message /\ last.type = "DistributeFees"
        /\ q = Messages(swaps, assets, depth, last)
    BY DEF Round
  <1>1. /\ m \in Message /\ c \in Message
        /\ m.type = "Swaps" /\ c.type = "SwapBridgeAssets"
    <2>1. swaps \in SUBSET Swap /\ assets \in SUBSET Tokens /\ depth \in Nat
      BY <1>0
    <2>2. /\ SwapsOf(swaps) \in Message /\ CallOf(assets, depth) \in Message
          /\ SwapsOf(swaps).type = "Swaps" /\ CallOf(assets, depth).type = "SwapBridgeAssets"
      BY <2>1, MessageTypes
    <2>3. QED
      BY <2>2
  <1>2. /\ assets = {} => r = <<last>>
        /\ assets # {} => r = <<c, last>>
        /\ e = <<last>>
    BY <1>0, RestForms
  <1>3. /\ swaps = {} => q = <<>> \o r
        /\ swaps # {} => q = <<m>> \o r
    BY <1>0 DEF Messages
  <1> HIDE DEF m, c, r, e
  <1>4. CASE swaps # {} /\ assets # {}
    <2>1. r = <<c, last>> /\ q = <<m, c, last>>
      BY <1>0, <1>1, <1>2, <1>3, <1>4, ShortLists
    <2>2. q \in Seq(Message) /\ q # <<>>
      BY <1>0, <1>1, <2>1
    <2>3. Head(q) = m /\ Tail(q) = r
      BY <1>0, <1>1, <2>1
    <2>4. QED
      BY <1>0, <1>1, <1>4, <2>2, <2>3 DEF m, c, r, e
  <1>5. CASE swaps # {} /\ assets = {}
    <2>1. r = <<last>> /\ q = <<m, last>>
      BY <1>0, <1>1, <1>2, <1>3, <1>5, ShortLists
    <2>2. q \in Seq(Message) /\ q # <<>>
      BY <1>0, <1>1, <2>1
    <2>3. Head(q) = m /\ Tail(q) = r
      BY <1>0, <1>1, <2>1
    <2>4. QED
      BY <1>0, <1>1, <1>5, <2>2, <2>3 DEF m, c, r, e
  <1>6. CASE swaps = {} /\ assets # {}
    <2>1. q = <<c, last>>
      BY <1>0, <1>1, <1>2, <1>3, <1>6, ShortLists
    <2>2. q \in Seq(Message) /\ q # <<>>
      BY <1>0, <1>1, <2>1
    <2>3. Head(q) = c /\ Tail(q) = e
      BY <1>0, <1>1, <1>2, <2>1
    <2>4. QED
      BY <1>0, <1>1, <1>6, <2>2, <2>3 DEF m, c, r, e
  <1>7. CASE swaps = {} /\ assets = {}
    <2>1. q = <<last>>
      BY <1>0, <1>1, <1>2, <1>3, <1>7, ShortLists
    <2>2. q \in Seq(Message) /\ q # <<>>
      BY <1>0, <1>1, <2>1
    <2>3. Head(q) = last /\ Tail(q) = <<>>
      BY <1>0, <1>1, <2>1
    <2>4. QED
      BY <1>0, <1>1, <1>7, <2>2, <2>3 DEF m, c, r, e
  <1>8. QED
    BY <1>4, <1>5, <1>6, <1>7

-----------------------------------------------------------------------------
(* A round of swaps *)

LEMMA PairsDiffer ==
    ASSUME pairs \in PairSets, NEW a, NEW b, HasPair(a, b)
    PROVE  a \in Tokens /\ b \in Tokens /\ a # b
  <1>1. {a, b} \subseteq Tokens /\ Cardinality({a, b}) = 2
    BY CollectorAssumption DEF HasPair
  <1>2. ASSUME a = b PROVE FALSE
    <2>1. {a, b} = {a}
      BY <1>2
    <2>2. Cardinality({a}) = 1
      BY FS_Singleton
    <2>3. QED
      BY <1>1, <2>1, <2>2
  <1>3. QED
    BY <1>1, <1>2

LEMMA TargetType ==
    ASSUME Config, NEW t \in Tokens
    PROVE  SwapTarget(t) \in Tokens
  BY CollectorAssumption DEF Config, SwapTarget

\* What swap_assets asks to be sold.
Asked(asked) == \E ts \in SUBSET Tokens : asked \in [ts -> Nat \cup {NoLimit}]

LEMMA LimitedType ==
    ASSUME held \in [Tokens -> Nat], NEW t \in Tokens, NEW limit \in Nat \cup {NoLimit}
    PROVE  /\ Limited(t, limit) \in Nat /\ Limited(t, limit) <= held[t]
           /\ limit = NoLimit => Limited(t, limit) = held[t]
  BY DEF Limited, AtMost

\* The swaps of a round sell what is there, for other tokens, and whatever is
\* not sold for the stablecoin is among the assets of the next round.
LEMMA RoundBegins ==
    ASSUME Config, held \in [Tokens -> Nat], NEW asked, Asked(asked),
           \A t \in Sold(asked) : CanSwap(t)
    PROVE  /\ Swaps(asked) \in SUBSET Swap /\ BridgeAssets(asked) \in SUBSET Tokens
           /\ Swaps(asked) = {} <=> Sold(asked) = {}
           /\ InHand(Swaps(asked)) /\ Onwards(Swaps(asked), BridgeAssets(asked))
           /\ \A s \in Swaps(asked) : /\ s.from \in DOMAIN asked
                                      /\ s.amount = Limited(s.from, asked[s.from])
           /\ \A t \in DOMAIN asked :
                 (\A s \in Swaps(asked) : s.from # t) => Limited(t, asked[t]) = 0
  <1>1. PICK ts \in SUBSET Tokens : asked \in [ts -> Nat \cup {NoLimit}]
    BY DEF Asked
  <1>2. \A t \in ts : /\ Limited(t, asked[t]) \in Nat /\ Limited(t, asked[t]) <= held[t]
                      /\ SwapTarget(t) \in Tokens
    BY <1>1, LimitedType, TargetType
  <1>3. Sold(asked) \subseteq ts
    BY <1>1 DEF Sold
  <1>4. ASSUME NEW t \in Sold(asked) PROVE t # SwapTarget(t)
    BY <1>4, PairsDiffer DEF CanSwap, Config
  <1>5. \A s \in Swaps(asked) :
           /\ s.from \in Sold(asked) /\ s.to = SwapTarget(s.from)
           /\ s.amount = Limited(s.from, asked[s.from])
           /\ s = [from |-> s.from, to |-> SwapTarget(s.from),
                   amount |-> Limited(s.from, asked[s.from])]
    BY DEF Swaps
  <1>6. Swaps(asked) \in SUBSET Swap
    BY <1>2, <1>3 DEF Swaps, Swap
  <1>7. BridgeAssets(asked) \in SUBSET Tokens
    BY <1>2, <1>3 DEF BridgeAssets
  <1>8. InHand(Swaps(asked))
    BY <1>2, <1>3, <1>4, <1>5 DEF InHand
  <1>9. Onwards(Swaps(asked), BridgeAssets(asked))
    <2>1. \A t \in Sold(asked) : SwapTarget(t) = Stable \/ SwapTarget(t) \in BridgeAssets(asked)
      BY DEF BridgeAssets, ViaBridge, SwapTarget
    <2>2. QED
      BY <1>5, <2>1 DEF Onwards
  <1>10. ASSUME NEW t \in DOMAIN asked, \A s \in Swaps(asked) : s.from # t
         PROVE  Limited(t, asked[t]) = 0
    <2>1. t \notin Sold(asked)
      <3>1. t \in Sold(asked)
            => [from |-> t, to |-> SwapTarget(t), amount |-> Limited(t, asked[t])] \in Swaps(asked)
        BY DEF Swaps
      <3>2. QED
        BY <1>10, <3>1
    <2>2. QED
      BY <1>1, <1>2, <1>10, <2>1 DEF Sold
  <1>11. Swaps(asked) = {} <=> Sold(asked) = {}
    BY DEF Swaps
  <1>12. QED
    BY <1>1, <1>3, <1>5, <1>6, <1>7, <1>8, <1>9, <1>10, <1>11

\* The messages of a round, in front of what follows it.
LEMMA RoundMessages ==
    ASSUME Config, held \in [Tokens -> Nat], NEW asked, Asked(asked),
           \A t \in Sold(asked) : CanSwap(t),
           NEW depth \in Nat, NEW last \in Message
    PROVE  SwapMessages(asked, depth) \o <<last>>
              = Messages(Swaps(asked), BridgeAssets(asked), depth, last)
  <1> DEFINE S == Swaps(asked)
             A == BridgeAssets(asked)
             front == IF S = {} THEN <<>> ELSE <<SwapsOf(S)>>
             call == IF A = {} THEN <<>> ELSE <<CallOf(A, depth)>>
  <1>1. S \in SUBSET Swap /\ A \in SUBSET Tokens /\ (S = {} <=> Sold(asked) = {})
    BY RoundBegins
  <1>2. SwapMessages(asked, depth) = front \o call
    BY <1>1 DEF SwapMessages, SwapsOf, CallOf
  <1> HIDE DEF S, A
  <1>3. SwapsOf(S) \in Message /\ CallOf(A, depth) \in Message
    BY <1>1, MessageTypes
  <1>4. front \in Seq(Message) /\ call \in Seq(Message) /\ <<last>> \in Seq(Message)
    BY <1>3
  <1>5. (front \o call) \o <<last>> = front \o (call \o <<last>>)
    <2> HIDE DEF front, call
    <2>1. QED
      BY <1>4, ConcatAssociative
  <1>6. Messages(S, A, depth, last) = front \o (call \o <<last>>)
    BY DEF Messages, Rest
  <1>7. QED
    BY <1>2, <1>5, <1>6 DEF S, A

-----------------------------------------------------------------------------
(* The messages of a collect *)

LEMMA OpenIsCollecting ==
    ASSUME IInv, tx # NoTx
    PROVE  Collecting
  BY DEF IInv, Idle

\* A pair executes one of the swaps under way.
LEMMA SwapStep ==
    ASSUME ExecuteSwap, NEW swaps, NEW assets, NEW depth, NEW last,
           Round(queue, swaps, assets, depth, last)
    PROVE  \E s \in swaps :
              /\ held' = [held EXCEPT ![s.from] = @ - s.amount,
                                      ![s.to] = @ + Returned(market, s.from, s.to, s.amount)]
              /\ market' = [market EXCEPT ![{s.from, s.to}] = Moved(@, s.from, s.to, s.amount)]
              /\ Round(queue', swaps \ {s}, assets, depth, last)
  <1>1. tx # NoTx /\ Head(queue).type = "Swaps"
    BY DEF ExecuteSwap
  <1>2. Head(queue) = SwapsOf(swaps) /\ Tail(queue) = Rest(assets, depth, last)
    BY <1>1, MessageForms
  <1>3. /\ swaps \in SUBSET Swap /\ assets \in SUBSET Tokens /\ depth \in Nat
        /\ last \in Message /\ last.type = "DistributeFees"
        /\ SwapsOf(swaps).swaps = swaps
    BY MessageTypes DEF Round
  <1>4. PICK s \in swaps :
           /\ held' = [held EXCEPT ![s.from] = @ - s.amount,
                                   ![s.to] = @ + Returned(market, s.from, s.to, s.amount)]
           /\ market' = [market EXCEPT ![{s.from, s.to}] = Moved(@, s.from, s.to, s.amount)]
           /\ queue' = IF swaps = {s} THEN Tail(queue)
                       ELSE <<[Head(queue) EXCEPT !.swaps = swaps \ {s}]>> \o Tail(queue)
    BY <1>2, <1>3 DEF ExecuteSwap
  <1> DEFINE left == swaps \ {s}
  <1>5. queue' = Messages(left, assets, depth, last)
    <2>1. CASE swaps = {s}
      <3>1. left = {}
        BY <2>1
      <3>2. Rest(assets, depth, last) \in Seq(Message)
        BY <1>3, RestForms
      <3>3. Messages(left, assets, depth, last) = Rest(assets, depth, last)
        BY <3>1, <3>2, ConcatEmptySeq DEF Messages
      <3>4. QED
        BY <1>2, <1>4, <2>1, <3>3
    <2>2. CASE swaps # {s}
      <3>1. left # {}
        BY <2>2
      <3>2. [Head(queue) EXCEPT !.swaps = left] = SwapsOf(left)
        BY <1>2 DEF SwapsOf, NoMessage
      <3>3. QED
        BY <1>2, <1>4, <2>2, <3>1, <3>2 DEF Messages
    <2>3. QED
      BY <2>1, <2>2
  <1>6. left \in SUBSET Swap
    BY <1>3
  <1>7. Round(queue', left, assets, depth, last)
    BY <1>3, <1>5, <1>6 DEF Round
  <1>8. QED
    BY <1>4, <1>7

\* The contract calls itself: all that it holds of the bridges' tokens is sold.
LEMMA CallStep ==
    ASSUME IInv, SwapBridgeAssets, NEW swaps, NEW assets, NEW depth, NEW last, NEW asked,
           Round(queue, swaps, assets, depth, last), asked = [t \in assets |-> NoLimit]
    PROVE  /\ swaps = {} /\ assets # {} /\ assets \in SUBSET Tokens
           /\ \A t \in Sold(asked) : CanSwap(t)
           /\ Asked(asked)
           /\ Round(queue', Swaps(asked), BridgeAssets(asked), depth + 1, last)
  <1>1. tx # NoTx /\ Head(queue).type = "SwapBridgeAssets"
    BY DEF SwapBridgeAssets
  <1>2. held \in [Tokens -> Nat] /\ Config
    BY DEF IInv
  <1>4. /\ swaps = {} /\ assets # {} /\ Head(queue) = CallOf(assets, depth)
        /\ Tail(queue) = Rest({}, depth, last)
    BY <1>1, MessageForms
  <1>5. /\ assets \in SUBSET Tokens /\ depth \in Nat
        /\ last \in Message /\ last.type = "DistributeFees"
        /\ CallOf(assets, depth).assets = assets /\ CallOf(assets, depth).depth = depth
    BY MessageTypes DEF Round
  <1>6. Tail(queue) = <<last>>
    BY <1>4, <1>5, RestForms, {} \in SUBSET Tokens
  <1>7. /\ \A t \in Sold(asked) : CanSwap(t)
        /\ queue' = SwapMessages(asked, depth + 1) \o <<last>>
    BY <1>4, <1>5, <1>6 DEF SwapBridgeAssets
  <1>8. Asked(asked)
    BY <1>5 DEF Asked
  <1>9. depth + 1 \in Nat
    BY <1>5
  <1>10. queue' = Messages(Swaps(asked), BridgeAssets(asked), depth + 1, last)
    BY <1>2, <1>5, <1>7, <1>8, <1>9, RoundMessages
  <1>11. Swaps(asked) \in SUBSET Swap /\ BridgeAssets(asked) \in SUBSET Tokens
    BY <1>2, <1>7, <1>8, RoundBegins
  <1>12. Round(queue', Swaps(asked), BridgeAssets(asked), depth + 1, last)
    BY <1>5, <1>9, <1>10, <1>11 DEF Round
  <1>13. QED
    BY <1>4, <1>5, <1>7, <1>8, <1>12

\* The first round of a collect; the stablecoin is left out of it.
LEMMA CollectStep ==
    ASSUME IInv, NEW sender, NEW asked, Asked(asked), NEW minimum \in Nat,
           Collect(sender, asked, minimum), NEW selling,
           selling = [t \in DOMAIN asked \ {Stable} |-> asked[t]]
    PROVE  /\ \A t \in Sold(selling) : CanSwap(t)
           /\ Asked(selling)
           /\ \E last : Round(queue', Swaps(selling), BridgeAssets(selling), 0, last)
  <1> DEFINE last == [NoMessage EXCEPT !.type = "DistributeFees", !.minimum_receive = minimum]
  <1>0. PICK S, A : S = Swaps(selling) /\ A = BridgeAssets(selling)
    OBVIOUS
  <1>1. held \in [Tokens -> Nat] /\ Config
    BY DEF IInv
  <1>2. /\ \A t \in Sold(selling) : CanSwap(t)
        /\ queue' = Append(SwapMessages(selling, 0), last)
    BY DEF Collect
  <1>3. last \in Message /\ last.type = "DistributeFees"
    BY DEF Message, NoMessage
  <1>4. PICK ts \in SUBSET Tokens : asked \in [ts -> Nat \cup {NoLimit}]
    BY DEF Asked
  <1>5. selling \in [ts \ {Stable} -> Nat \cup {NoLimit}]
    BY <1>4
  <1> HIDE DEF last
  <1>6. Asked(selling)
    BY <1>4, <1>5 DEF Asked
  <1>7. queue' = Messages(S, A, 0, last)
    <2>1. SwapMessages(selling, 0) \o <<last>> = Messages(S, A, 0, last)
      BY <1>0, <1>1, <1>2, <1>3, <1>6, 0 \in Nat, RoundMessages
    <2>2. SwapMessages(selling, 0) \in Seq(Message)
      <3>1. /\ S \in SUBSET Swap /\ A \in SUBSET Tokens
            /\ S = {} <=> Sold(selling) = {}
        BY <1>0, <1>1, <1>2, <1>6, RoundBegins
      <3> DEFINE front == IF S = {} THEN <<>> ELSE <<SwapsOf(S)>>
                 call == IF A = {} THEN <<>> ELSE <<CallOf(A, 0)>>
      <3>2. SwapMessages(selling, 0) = front \o call
        BY <1>0, <3>1 DEF SwapMessages, SwapsOf, CallOf
      <3>3. SwapsOf(S) \in Message /\ CallOf(A, 0) \in Message
        BY <3>1, MessageTypes
      <3>4. front \in Seq(Message) /\ call \in Seq(Message)
        BY <3>3
      <3> HIDE DEF front, call
      <3>5. QED
        BY <3>2, <3>4, ConcatProperties
    <2>3. Append(SwapMessages(selling, 0), last) = SwapMessages(selling, 0) \o <<last>>
      BY <1>3, <2>2, AppendIsConcat
    <2>4. QED
      BY <1>2, <2>1, <2>3
  <1>8. S \in SUBSET Swap /\ A \in SUBSET Tokens
    BY <1>0, <1>1, <1>2, <1>6, RoundBegins
  <1>9. Round(queue', S, A, 0, last)
    BY <1>3, <1>7, <1>8 DEF Round
  <1>10. QED
    BY <1>0, <1>2, <1>6, <1>9

\* What a swap returns, and the pair after it.
LEMMA ReturnedType ==
    ASSUME ReturnsAreAmounts, NEW at \in MarketStates,
           NEW from \in Tokens, NEW to \in Tokens, NEW amount \in Nat
    PROVE  /\ Returned(at, from, to, amount) \in Nat
           /\ [at EXCEPT ![{from, to}] = Moved(@, from, to, amount)] \in MarketStates
  <1>1. {from, to} \in {{s, t} : s, t \in Tokens}
    OBVIOUS
  <1>2. at[{from, to}] \in PairStates
    BY <1>1 DEF MarketStates
  <1>3. /\ Return(at[{from, to}], from, to, amount) \in Nat
        /\ Moved(at[{from, to}], from, to, amount) \in PairStates
    BY <1>2 DEF ReturnsAreAmounts
  <1>4. QED
    BY <1>1, <1>3 DEF Returned, MarketStates

\* A pair executes a swap: what is left to be sold is still there, and of the
\* token sold nothing remains that was not there before.
LEMMA ExecuteSwapKeeps ==
    ASSUME ReturnsAreAmounts, IInv, ExecuteSwap
    PROVE  held' \in [Tokens -> Nat] /\ market' \in MarketStates /\ Collecting'
  <1>1. tx # NoTx /\ Head(queue).type = "Swaps" /\ tx' = tx
    BY DEF ExecuteSwap
  <1>2. Collecting /\ held \in [Tokens -> Nat] /\ market \in MarketStates
    BY <1>1, OpenIsCollecting DEF IInv
  <1>3. PICK swaps, assets, depth, last :
           /\ Round(queue, swaps, assets, depth, last)
           /\ InHand(swaps) /\ Onwards(swaps, assets) /\ Clean(swaps, assets)
    BY <1>2 DEF Collecting
  <1>5. swaps \in SUBSET Swap
    BY <1>3 DEF Round
  <1>6. PICK s \in swaps :
           /\ held' = [held EXCEPT ![s.from] = @ - s.amount,
                                   ![s.to] = @ + Returned(market, s.from, s.to, s.amount)]
           /\ market' = [market EXCEPT ![{s.from, s.to}] = Moved(@, s.from, s.to, s.amount)]
           /\ Round(queue', swaps \ {s}, assets, depth, last)
    BY <1>3, SwapStep
  <1> DEFINE left == swaps \ {s}
             gain == Returned(market, s.from, s.to, s.amount)
  <1>4. /\ s.from \in Tokens /\ s.to \in Tokens /\ s.amount \in Nat
        /\ s.from # s.to /\ s.amount <= held[s.from]
    BY <1>3, <1>5 DEF Swap, InHand
  <1>7. /\ s.from \in Tokens /\ s.to \in Tokens /\ s.amount \in Nat /\ gain \in Nat
        /\ s.from # s.to /\ s.amount <= held[s.from]
    BY <1>2, <1>4, ReturnedType
  <1>9. market' \in MarketStates
    BY <1>2, <1>4, <1>6, ReturnedType
  <1> HIDE DEF gain
  <1>8. /\ held' \in [Tokens -> Nat]
        /\ held'[s.from] = held[s.from] - s.amount
        /\ held'[s.to] >= held[s.to]
        /\ \A t \in Tokens \ {s.from, s.to} : held'[t] = held[t]
    <2>1. held' = [held EXCEPT ![s.from] = @ - s.amount, ![s.to] = @ + gain]
      BY <1>6 DEF gain
    <2>2. /\ held'[s.from] = held[s.from] - s.amount
          /\ held'[s.to] = held[s.to] + gain
          /\ \A t \in Tokens \ {s.from, s.to} : held'[t] = held[t]
      BY <1>2, <1>7, <2>1
    <2>3. held[s.from] \in Nat /\ held[s.to] \in Nat
      BY <1>2, <1>7
    <2>4. held[s.from] - s.amount \in Nat /\ held[s.to] + gain \in Nat
      BY <1>7, <2>3
    <2>5. held' \in [Tokens -> Nat]
      BY <1>2, <2>1, <2>4
    <2>6. QED
      BY <1>7, <2>2, <2>3, <2>5
  <1>10. left \in SUBSET Swap /\ \A r \in left : r \in swaps /\ r.from # s.from /\ r.from \in Tokens
    BY <1>3, <1>5 DEF InHand, Swap
  <1>11. InHand(left)'
    <2>1. ASSUME NEW r \in left PROVE r.amount <= held'[r.from]
      <3>1. r.amount \in Nat /\ r.amount <= held[r.from] /\ held[r.from] \in Nat
        BY <1>2, <1>3, <1>5, <1>10 DEF InHand, Swap
      <3>2. held'[r.from] >= held[r.from] /\ held'[r.from] \in Nat
        BY <1>2, <1>8, <1>10, <3>1
      <3>3. QED
        BY <3>1, <3>2
    <2>2. \A r \in left : r.from # r.to /\ \A q \in left : q.from = r.from => q = r
      BY <1>3, <1>10 DEF InHand
    <2> HIDE DEF left
    <2>3. QED
      BY <2>1, <2>2 DEF InHand
  <1>12. Onwards(left, assets)'
    BY <1>3 DEF Onwards
  <1>13. Clean(left, assets)'
    <2> SUFFICES ASSUME NEW t \in Tokens \ {Stable}, t \notin assets
                 PROVE  /\ (\A r \in left : r.from # t)
                           => held'[t] <= tx.undo[t] /\ (Whole(t) => held'[t] = 0)
                        /\ \A r \in left : r.from = t
                           => held'[t] - r.amount <= tx.undo[t] /\ (Whole(t) => held'[t] = r.amount)
      BY <1>1 DEF Clean, Whole
    <2>1. s.to # t
      BY <1>3 DEF Onwards
    <2>2. /\ (\A r \in swaps : r.from # t)
             => held[t] <= tx.undo[t] /\ (Whole(t) => held[t] = 0)
          /\ \A r \in swaps : r.from = t
             => held[t] - r.amount <= tx.undo[t] /\ (Whole(t) => held[t] = r.amount)
      BY <1>3 DEF Clean
    <2>3. CASE t = s.from
      <3>1. \A r \in left : r.from # t
        BY <1>10, <2>3
      <3>2. held[t] - s.amount <= tx.undo[t] /\ (Whole(t) => held[t] = s.amount)
        BY <2>2, <2>3
      <3>3. held'[t] = held[t] - s.amount
        BY <1>8, <2>3
      <3>4. held[t] \in Nat
        BY <1>2
      <3>5. QED
        BY <1>7, <3>1, <3>2, <3>3, <3>4
    <2>4. CASE t # s.from
      <3>1. held'[t] = held[t]
        BY <1>8, <2>1, <2>4
      <3>2. (\A r \in left : r.from # t) => \A r \in swaps : r.from # t
        BY <2>4
      <3>3. \A r \in left : r \in swaps
        OBVIOUS
      <3> HIDE DEF left
      <3>4. QED
        BY <2>2, <3>1, <3>2, <3>3
    <2>5. QED
      BY <2>3, <2>4
  <1> HIDE DEF left
  <1>14. /\ tx'.open = TRUE /\ tx'.undo \in [Tokens -> Nat] /\ DOMAIN tx'.asked \subseteq Tokens
         /\ tx'.market \in MarketStates
    BY <1>1, <1>2 DEF Collecting
  <1>15. Collecting'
    <2>1. Round(queue', left, assets, depth, last)
      BY <1>6 DEF left
    <2>2. QED
      BY <1>11, <1>12, <1>13, <1>14, <2>1 DEF Collecting
  <1>16. QED
    BY <1>8, <1>9, <1>15

\* The contract calls itself: all that it holds of the bridges' tokens is sold
\* next, and of the others nothing is under way any more.
LEMMA SwapBridgeAssetsKeeps ==
    ASSUME IInv, SwapBridgeAssets
    PROVE  Collecting'
  <1>1. tx # NoTx /\ Head(queue).type = "SwapBridgeAssets" /\ tx' = tx /\ held' = held
    BY DEF SwapBridgeAssets
  <1>2. Collecting /\ held \in [Tokens -> Nat] /\ Config
    BY <1>1, OpenIsCollecting DEF IInv
  <1>3. PICK swaps, assets, depth, last :
           /\ Round(queue, swaps, assets, depth, last)
           /\ InHand(swaps) /\ Onwards(swaps, assets) /\ Clean(swaps, assets)
    BY <1>2 DEF Collecting
  <1> DEFINE asked == [t \in assets |-> NoLimit]
  <1>0. PICK S, A : S = Swaps(asked) /\ A = BridgeAssets(asked)
    OBVIOUS
  <1>4. /\ swaps = {} /\ assets \in SUBSET Tokens
        /\ \A t \in Sold(asked) : CanSwap(t)
        /\ Asked(asked)
        /\ Round(queue', S, A, depth + 1, last)
    BY <1>0, <1>3, CallStep
  <1>8. DOMAIN asked = assets /\ \A t \in assets : asked[t] = NoLimit
    OBVIOUS
  <1> HIDE DEF asked
  <1>10. /\ S \in SUBSET Swap /\ A \in SUBSET Tokens
         /\ InHand(S) /\ Onwards(S, A)
         /\ \A s \in S : s.from \in DOMAIN asked /\ s.amount = Limited(s.from, asked[s.from])
         /\ \A t \in DOMAIN asked : (\A s \in S : s.from # t) => Limited(t, asked[t]) = 0
    BY <1>0, <1>2, <1>4, RoundBegins
  <1>11. \A t \in assets : Limited(t, asked[t]) = held[t]
    BY <1>8 DEF Limited
  <1>12. Clean(S, A)'
    <2> SUFFICES ASSUME NEW t \in Tokens \ {Stable}
                 PROVE  /\ (\A r \in S : r.from # t)
                           => held[t] <= tx.undo[t] /\ (Whole(t) => held[t] = 0)
                        /\ \A r \in S : r.from = t
                           => held[t] - r.amount <= tx.undo[t] /\ (Whole(t) => held[t] = r.amount)
      BY <1>1 DEF Clean, Whole
    <2>1. held[t] \in Nat /\ tx.undo[t] \in Nat
      BY <1>2 DEF Collecting
    <2>2. CASE t \in assets
      <3>1. (\A r \in S : r.from # t) => held[t] = 0
        BY <1>8, <1>10, <1>11, <2>2
      <3>2. \A r \in S : r.from = t => r.amount = held[t]
        BY <1>10, <1>11, <2>2
      <3>3. QED
        BY <2>1, <3>1, <3>2
    <2>3. CASE t \notin assets
      <3>1. held[t] <= tx.undo[t] /\ (Whole(t) => held[t] = 0)
        BY <1>3, <1>4, <2>3 DEF Clean
      <3>2. \A r \in S : r.from # t
        BY <1>8, <1>10, <2>3
      <3>3. QED
        BY <3>1, <3>2
    <2>4. QED
      BY <2>2, <2>3
  <1>13. InHand(S)' /\ Onwards(S, A)'
    BY <1>1, <1>10 DEF InHand, Onwards
  <1>15. /\ tx'.open = TRUE /\ tx'.undo \in [Tokens -> Nat] /\ DOMAIN tx'.asked \subseteq Tokens
         /\ tx'.market \in MarketStates
    BY <1>1, <1>2 DEF Collecting
  <1>16. QED
    BY <1>4, <1>12, <1>13, <1>15 DEF Collecting

\* A collect begins: what it was asked to sell whole is under way whole.
LEMMA CollectBegins ==
    ASSUME IInv, NEW sender, NEW asked, Asked(asked), NEW minimum \in Nat,
           Collect(sender, asked, minimum)
    PROVE  Collecting'
  <1> DEFINE selling == [t \in DOMAIN asked \ {Stable} |-> asked[t]]
  <1>0. PICK S, A : S = Swaps(selling) /\ A = BridgeAssets(selling)
    OBVIOUS
  <1>1. held \in [Tokens -> Nat] /\ Config /\ market \in MarketStates
    BY DEF IInv
  <1>2. /\ \A t \in Sold(selling) : CanSwap(t)
        /\ Asked(selling)
        /\ \E last : Round(queue', S, A, 0, last)
    BY <1>0, CollectStep
  <1>3. tx'.open = TRUE /\ tx'.undo = held /\ tx'.asked = asked /\ held' = held
        /\ tx'.market = market
    BY DEF Collect
  <1>4. PICK ts \in SUBSET Tokens : asked \in [ts -> Nat \cup {NoLimit}]
    BY DEF Asked
  <1>5. /\ DOMAIN selling = ts \ {Stable}
        /\ \A t \in ts \ {Stable} : selling[t] = asked[t] /\ selling[t] \in Nat \cup {NoLimit}
        /\ selling \in [ts \ {Stable} -> Nat \cup {NoLimit}]
    BY <1>4
  <1> HIDE DEF selling
  <1>8. /\ S \in SUBSET Swap /\ A \in SUBSET Tokens
        /\ InHand(S) /\ Onwards(S, A)
        /\ \A s \in S : s.from \in DOMAIN selling /\ s.amount = Limited(s.from, selling[s.from])
        /\ \A t \in DOMAIN selling : (\A s \in S : s.from # t) => Limited(t, selling[t]) = 0
    BY <1>0, <1>1, <1>2, RoundBegins
  <1>9. \A t \in ts \ {Stable} :
           /\ Limited(t, selling[t]) \in Nat /\ Limited(t, selling[t]) <= held[t]
           /\ selling[t] = NoLimit => Limited(t, selling[t]) = held[t]
    BY <1>1, <1>5, LimitedType
  <1>10. Clean(S, A)'
    <2> SUFFICES ASSUME NEW t \in Tokens \ {Stable}
                 PROVE  /\ (\A r \in S : r.from # t)
                           => held[t] <= held[t] /\ (Whole(t)' => held[t] = 0)
                        /\ \A r \in S : r.from = t
                           => held[t] - r.amount <= held[t] /\ (Whole(t)' => held[t] = r.amount)
      BY <1>3 DEF Clean, Whole
    <2>1. held[t] \in Nat
      BY <1>1
    <2>2. Whole(t)' => t \in ts /\ selling[t] = NoLimit
      BY <1>3, <1>4, <1>5 DEF Whole
    <2>3. (\A r \in S : r.from # t) /\ Whole(t)' => held[t] = 0
      BY <1>5, <1>8, <1>9, <2>2
    <2>4. ASSUME NEW r \in S, r.from = t
          PROVE  held[t] - r.amount <= held[t] /\ (Whole(t)' => held[t] = r.amount)
      <3>1. t \in ts \ {Stable} /\ r.amount = Limited(t, selling[t])
        BY <1>5, <1>8, <2>4
      <3>2. r.amount \in Nat
        BY <1>9, <3>1
      <3>3. Whole(t)' => held[t] = r.amount
        BY <1>9, <2>2, <3>1
      <3>4. QED
        BY <2>1, <3>2, <3>3
    <2>5. QED
      BY <2>1, <2>3, <2>4
  <1>11. InHand(S)' /\ Onwards(S, A)'
    BY <1>3, <1>8 DEF InHand, Onwards
  <1>12. QED
    BY <1>1, <1>2, <1>3, <1>4, <1>10, <1>11 DEF Collecting

-----------------------------------------------------------------------------
(* The distribution *)

\* The payouts never exceed what is there, and leave less than one unit per
\* target.
LEMMA PayoutsCover ==
    ASSUME target_list \in TargetLists, NEW amount \in Nat,
           target_list # <<>> => Total(Weights) > 0
    PROVE  /\ Total(Payouts(amount)) \in Nat /\ Total(Payouts(amount)) <= amount
           /\ target_list # <<>> => amount - Total(Payouts(amount)) < Len(target_list)
  <1> DEFINE n == Len(target_list)
             D == 1 .. n
             W == Total(Weights)
             P == Total(Payouts(amount))
  <1>1. target_list \in Seq([to: Accounts, weight: Nat])
    BY CollectorAssumption
  <1>2. n \in Nat /\ DOMAIN target_list = D
    BY <1>1, LenProperties
  <1>3. IsFiniteSet(D) /\ Cardinality(D) = n
    <2> HIDE DEF n
    <2>1. IsFiniteSet(1 .. n) /\ Cardinality(1 .. n) = n
      BY <1>2, FS_Interval
    <2>2. QED
      BY <2>1
  <1>4. \A i \in D : target_list[i].weight \in Nat
    <2>1. \A i \in D : target_list[i] \in [to: Accounts, weight: Nat]
      BY <1>1, ElementOfSeq
    <2>2. QED
      BY <2>1
  <1>5. Weights \in [D -> Nat] /\ \A i \in D : Weights[i] = target_list[i].weight
    BY <1>2, <1>4 DEF Weights
  <1>6. W \in Nat
    BY <1>3, <1>5, TotalType
  <1>7. CASE target_list = <<>>
    <2>1. n = 0
      BY <1>7
    <2>2. D = {}
      BY <2>1
    <2>3. Payouts(amount) = [i \in {} |-> 0]
      BY <1>2, <2>2 DEF Payouts
    <2>4. P = 0
      BY <2>3, TotalOfZeros
    <2>5. QED
      BY <1>7, <2>4
  <1>8. CASE target_list # <<>>
    <2>1. W \in Nat \ {0}
      BY <1>6, <1>8
    <2>2. n # 0
      BY <1>1, <1>8, EmptySeq
    <2> HIDE DEF W
    <2>3. \A i \in D : /\ Payouts(amount)[i] = MulRatio(amount, Weights[i], W)
                       /\ Payouts(amount)[i] \in Nat
                       /\ W * Payouts(amount)[i] <= amount * Weights[i]
                       /\ amount * Weights[i] < W * Payouts(amount)[i] + W
      <3> SUFFICES ASSUME NEW i \in D
                   PROVE  /\ Payouts(amount)[i] = MulRatio(amount, Weights[i], W)
                          /\ Payouts(amount)[i] \in Nat
                          /\ W * Payouts(amount)[i] <= amount * Weights[i]
                          /\ amount * Weights[i] < W * Payouts(amount)[i] + W
        OBVIOUS
      <3>1. Payouts(amount)[i] = MulRatio(amount, Weights[i], W)
        BY <1>2, <1>5 DEF Payouts, W
      <3>2. Weights[i] \in Nat
        BY <1>5
      <3>3. QED
        BY <2>1, <3>1, <3>2, MulRatioBounds
    <2>4. Payouts(amount) \in [D -> Nat]
      BY <1>2, <2>3 DEF Payouts
    <2>5. P \in Nat
      BY <1>3, <2>4, TotalType
    <2> DEFINE p == Payouts(amount)
               w == Weights
               scaled == [i \in D |-> W * p[i]]
               exact == [i \in D |-> amount * w[i]]
               ones == [i \in D |-> 1]
               zeros == [i \in D |-> 0]
    <2>6. /\ p \in [D -> Nat] /\ w \in [D -> Nat] /\ Total(p) = P /\ Total(w) = W
          /\ \A i \in D : W * p[i] <= amount * w[i] /\ amount * w[i] < W * p[i] + W
      BY <1>5, <2>3, <2>4 DEF W
    <2> HIDE DEF p, w, P, D, n
    <2>7. /\ scaled \in [D -> Nat] /\ exact \in [D -> Nat]
          /\ ones \in [D -> Nat] /\ zeros \in [D -> Nat]
          /\ \A i \in D : /\ scaled[i] = W * p[i] /\ exact[i] = amount * w[i]
                          /\ ones[i] = 1 /\ zeros[i] = 0
      <3>1. \A i \in D : W * p[i] \in Nat /\ amount * w[i] \in Nat
        BY <2>1, <2>6
      <3>2. QED
        BY <3>1
    <2>8. /\ Total(ones) = n /\ Total(zeros) = 0
      BY <1>3, TotalOfOnes, TotalOfZeros
    <2> HIDE DEF scaled, exact, ones, zeros
    <2>9. Total(scaled) = W * P /\ Total(exact) = amount * W
      <3>1. Total(scaled) = W * Total(p)
        <4>1. W \in Nat /\ \A i \in D : scaled[i] = W * p[i]
          BY <2>1, <2>7
        <4>2. IsFiniteSet(D) /\ p \in [D -> Nat] /\ scaled \in [D -> Nat]
          BY <1>3, <2>6, <2>7
        <4>3. QED
          BY <4>1, <4>2, TotalScaled, Zenon
      <3>2. Total(exact) = amount * Total(w)
        <4>1. \A i \in D : exact[i] = amount * w[i]
          BY <2>7
        <4>2. IsFiniteSet(D) /\ w \in [D -> Nat] /\ exact \in [D -> Nat]
          BY <1>3, <2>6, <2>7
        <4>3. QED
          BY <4>1, <4>2, TotalScaled, Zenon
      <3>3. QED
        BY <2>6, <3>1, <3>2
    <2>10. W * P <= amount * W
      <3>1. \A i \in D : scaled[i] <= exact[i]
        BY <2>6, <2>7
      <3>2. Total(scaled) <= Total(exact)
        BY <1>3, <2>7, <3>1, TotalMonotone
      <3>3. QED
        BY <2>9, <3>2
    <2>11. P <= amount
      <3>1. P * W <= amount * W
        BY <2>1, <2>5, <2>10
      <3>2. QED
        BY <2>1, <2>5, <3>1, TimesCancel
    <2>12. amount * W + n <= W * P + W * n
      <3>1. \A i \in D : 1 * exact[i] + 1 * ones[i] <= 1 * scaled[i] + W * ones[i]
        <4> SUFFICES ASSUME NEW i \in D
                     PROVE  1 * exact[i] + 1 * ones[i] <= 1 * scaled[i] + W * ones[i]
          OBVIOUS
        <4>1. /\ exact[i] \in Nat /\ scaled[i] \in Nat /\ ones[i] = 1
              /\ exact[i] < scaled[i] + W
          BY <2>6, <2>7
        <4>2. QED
          BY <2>1, <4>1
      <3>2. 1 * Total(exact) + 1 * Total(ones) <= 1 * Total(scaled) + W * Total(ones)
        BY <1>3, <2>1, <2>7, <3>1, 1 \in Nat, TotalsRelated
      <3>3. Total(exact) \in Nat /\ Total(scaled) \in Nat
        BY <1>3, <2>7, TotalType
      <3>4. QED
        BY <1>2, <2>8, <2>9, <3>2, <3>3
    <2>13. amount < P + n
      <3>1. SUFFICES ASSUME P + n <= amount PROVE FALSE
        BY <1>2, <2>5
      <3>2. (P + n) * W <= amount * W
        BY <1>2, <2>1, <2>5, <3>1, TimesMonotone
      <3>3. (P + n) * W = W * P + W * n
        BY <1>2, <2>1, <2>5
      <3>4. amount * W \in Nat /\ W * P \in Nat /\ W * n \in Nat
        BY <1>2, <2>1, <2>5
      <3>5. n \in Nat /\ n > 0
        BY <1>2, <2>2
      <3>6. QED
        BY <2>12, <3>2, <3>3, <3>4, <3>5
    <2>14. QED
      BY <1>2, <2>5, <2>11, <2>13 DEF P, n
  <1>9. QED
    BY <1>7, <1>8

\* The distribution is the last message.
LEMMA DistributeEnds ==
    ASSUME IInv, DistributeFees
    PROVE  /\ held' \in [Tokens -> Nat] /\ Idle' /\ DOMAIN tx.asked \subseteq Tokens
           /\ \A t \in Tokens \ {Stable} : held'[t] <= tx.undo[t] /\ (Whole(t) => held'[t] = 0)
           /\ target_list # <<>> => held'[Stable] < Len(target_list)
  <1>1. tx # NoTx /\ Head(queue).type = "DistributeFees" /\ tx' = NoTx
        /\ queue' = Tail(queue)
    BY DEF DistributeFees
  <1>2. Collecting /\ held \in [Tokens -> Nat] /\ Config
    BY <1>1, OpenIsCollecting DEF IInv
  <1>3. PICK swaps, assets, depth, last :
           /\ Round(queue, swaps, assets, depth, last)
           /\ InHand(swaps) /\ Onwards(swaps, assets) /\ Clean(swaps, assets)
           /\ DOMAIN tx.asked \subseteq Tokens
    BY <1>2 DEF Collecting
  <1>4. swaps = {} /\ assets = {} /\ Tail(queue) = <<>>
    BY <1>1, <1>3, MessageForms
  <1>5. Idle'
    BY <1>1, <1>4 DEF Idle
  <1>6. \A t \in Tokens \ {Stable} : held[t] <= tx.undo[t] /\ (Whole(t) => held[t] = 0)
    BY <1>3, <1>4 DEF Clean
  <1>7. Stable \in Tokens /\ target_list \in TargetLists /\ held[Stable] \in Nat
    BY <1>2, CollectorAssumption DEF Config
  <1>8. CASE held[Stable] = 0
    <2>1. held' = held
      BY <1>8 DEF DistributeFees
    <2>2. target_list # <<>> => Len(target_list) > 0
      <3>1. target_list \in Seq([to: Accounts, weight: Nat])
        BY <1>7, CollectorAssumption
      <3>2. QED
        BY <3>1, EmptySeq, LenProperties
    <2>3. QED
      BY <1>2, <1>3, <1>5, <1>6, <1>8, <2>1, <2>2
  <1>9. CASE held[Stable] # 0
    <2> DEFINE paid == Total(Payouts(held[Stable]))
    <2>1. /\ target_list # <<>> => Total(Weights) > 0
          /\ held' = [held EXCEPT ![Stable] = held[Stable] - paid]
      BY <1>9 DEF DistributeFees
    <2>2. /\ paid \in Nat /\ paid <= held[Stable]
          /\ target_list # <<>> => held[Stable] - paid < Len(target_list)
      BY <1>7, <2>1, PayoutsCover
    <2> HIDE DEF paid
    <2>3. held' \in [Tokens -> Nat] /\ held'[Stable] = held[Stable] - paid
          /\ \A t \in Tokens \ {Stable} : held'[t] = held[t]
      BY <1>2, <1>7, <2>1, <2>2
    <2>4. QED
      BY <1>3, <1>5, <1>6, <2>2, <2>3
  <1>10. QED
    BY <1>8, <1>9

-----------------------------------------------------------------------------
(* The other calls *)

LEMMA NoTxIsIdle ==
    ASSUME IInv, tx = NoTx
    PROVE  Idle
  BY DEF IInv, Collecting, NoTx

\* What an owner offered is withdrawn by the next offer, and used up by the
\* claim that ends his ownership.
LEMMA HandoverKeeps ==
    ASSUME Config, Handover
    PROVE  Config'
  <1>1. UNCHANGED config
    BY DEF Handover
  <1>2. /\ owner \in Accounts /\ proposal \in Owner!Proposal \cup {Owner!NoProposal} /\ now \in Nat
        /\ proposal.exists => proposal.by = owner /\ proposal.owner # owner
    BY DEF Config, Owner!TypeOK, Owner!ProposalIsOwners
  <1>3. Owner!TypeOK' /\ Owner!ProposalIsOwners'
    <2>1. ASSUME NEW a \in Accounts, NEW b \in Accounts, NEW e \in Expiries,
                 Owner!ProposeNewOwner(a, b, e)
          PROVE  Owner!TypeOK' /\ Owner!ProposalIsOwners'
      <3>1. e \in Nat
        BY CollectorAssumption
      <3>2. proposal' = [exists |-> TRUE, owner |-> b, ttl |-> now + e, by |-> a]
            /\ a = owner /\ b # owner /\ owner' = owner /\ now' = now
        BY <2>1 DEF Owner!ProposeNewOwner
      <3>3. proposal' \in Owner!Proposal
        BY <1>2, <3>1, <3>2 DEF Owner!Proposal
      <3>4. QED
        BY <1>2, <3>2, <3>3 DEF Owner!TypeOK, Owner!ProposalIsOwners
    <2>2. ASSUME NEW a \in Accounts, Owner!DropOwnershipProposal(a)
          PROVE  Owner!TypeOK' /\ Owner!ProposalIsOwners'
      BY <1>2, <2>2 DEF Owner!DropOwnershipProposal, Owner!TypeOK, Owner!ProposalIsOwners,
                        Owner!NoProposal
    <2>3. ASSUME NEW a \in Accounts, Owner!ClaimOwnership(a)
          PROVE  Owner!TypeOK' /\ Owner!ProposalIsOwners'
      <3>1. proposal' = Owner!NoProposal /\ owner' \in Accounts /\ now' = now
        BY <2>3 DEF Owner!ClaimOwnership
      <3>2. QED
        BY <1>2, <3>1 DEF Owner!TypeOK, Owner!ProposalIsOwners, Owner!NoProposal
    <2>4. ASSUME Owner!Tick
          PROVE  Owner!TypeOK' /\ Owner!ProposalIsOwners'
      BY <1>2, <2>4 DEF Owner!Tick, Owner!TypeOK, Owner!ProposalIsOwners
    <2>5. QED
      BY <2>1, <2>2, <2>3, <2>4 DEF Handover, Owner!Next
  <1>4. QED
    BY <1>1, <1>3 DEF Config, config

LEMMA UpdateBridgesKeeps ==
    ASSUME Config, NEW sender, NEW add \in Additions, NEW remove,
           UpdateBridges(sender, add, remove)
    PROVE  Config'
  <1>1. UNCHANGED <<owner, proposal, now, operator, target_list, pairs>>
    BY DEF UpdateBridges
  <1> DEFINE kept == DOMAIN bridges \ remove
  <1>2. /\ \A t \in DOMAIN add : add[t] # t
        /\ bridges' = [t \in kept \cup DOMAIN add |->
                          IF t \in DOMAIN add THEN add[t] ELSE bridges[t]]
    BY DEF UpdateBridges
  <1>3. DOMAIN add \subseteq Tokens /\ \A t \in DOMAIN add : add[t] \in Tokens
    <2>1. CASE add = <<>>
      BY <2>1
    <2>2. CASE \E b \in Bridges : add = [t \in {b[1]} |-> b[2]]
      <3>1. PICK b \in Bridges : add = [t \in {b[1]} |-> b[2]]
        BY <2>2
      <3>2. b[1] \in Tokens /\ b[2] \in Tokens
        BY CollectorAssumption
      <3>3. QED
        BY <3>1, <3>2
    <2>3. QED
      BY <2>1, <2>2 DEF Additions
  <1>4. kept \subseteq Tokens /\ \A t \in kept : bridges[t] \in Tokens \ {t}
    BY <1>1 DEF Config
  <1> HIDE DEF kept
  <1>5. /\ DOMAIN bridges' \subseteq Tokens
        /\ \A t \in DOMAIN bridges' : bridges'[t] \in Tokens \ {t}
    BY <1>2, <1>3, <1>4
  <1>6. QED
    BY <1>1, <1>5 DEF Config, Owner!TypeOK, Owner!ProposalIsOwners

\* The configuration keeps its invariant whatever the pairs return.
LEMMA ConfigKeeps ==
    ASSUME Config, [Next]_vars
    PROVE  Config'
  <1>1. ASSUME UNCHANGED <<owner, proposal, now, config>> PROVE Config'
    BY <1>1 DEF Config, config, Owner!TypeOK, Owner!ProposalIsOwners
  <1>2. CASE NextMessage
    BY <1>1, <1>2 DEF NextMessage, ExecuteSwap, SwapBridgeAssets, DistributeFees, Revert
  <1>3. CASE Handover
    BY <1>3, HandoverKeeps
  <1>4. ASSUME NEW a \in Accounts, NEW asked \in Asks, NEW m \in Minimums, Collect(a, asked, m)
        PROVE  Config'
    BY <1>1, <1>4 DEF Collect
  <1>5. ASSUME NEW a \in Accounts, NEW o \in Accounts, NEW l \in TargetLists, NEW p \in PairSets,
               UpdateConfig(a, o, l, p)
        PROVE  Config'
    BY <1>5 DEF UpdateConfig, Config, Owner!TypeOK, Owner!ProposalIsOwners
  <1>6. ASSUME NEW p \in PairSets, FactoryChanges(p) PROVE Config'
    BY <1>6 DEF FactoryChanges, Config, Owner!TypeOK, Owner!ProposalIsOwners
  <1>7. ASSUME NEW t \in FeeTokens, ReceiveFee(t) PROVE Config'
    BY <1>1, <1>7 DEF ReceiveFee
  <1>8. CASE \E a \in Accounts, add \in Additions, remove \in SUBSET DOMAIN bridges :
                UpdateBridges(a, add, remove)
    BY <1>8, UpdateBridgesKeeps
  <1>9. CASE OthersTrade \/ UNCHANGED vars
    BY <1>1, <1>9 DEF OthersTrade, vars
  <1>10. QED
    BY <1>2, <1>3, <1>4, <1>5, <1>6, <1>7, <1>8, <1>9 DEF Next

LEMMA InitHolds == Init => IInv
  <1> SUFFICES ASSUME Init PROVE IInv
    OBVIOUS
  <1>1. Owner!TypeOK /\ Owner!ProposalIsOwners
    BY DEF Init, Owner!Init, Owner!TypeOK, Owner!ProposalIsOwners, Owner!NoProposal
  <1>2. DOMAIN bridges = {}
    BY DEF Init
  <1>3. held \in [Tokens -> Nat] /\ market \in MarketStates
    BY CollectorAssumption DEF Init
  <1>4. QED
    BY <1>1, <1>2, <1>3 DEF Init, IInv, Config, Idle

LEMMA AskedTypes ==
    ASSUME NEW asked \in Asks
    PROVE  Asked(asked)
  <1>1. PICK ts \in SUBSET FeeTokens : asked \in [ts -> Limits \cup {NoLimit}]
    BY DEF Asks
  <1>2. ts \in SUBSET Tokens /\ asked \in [ts -> Nat \cup {NoLimit}]
    BY <1>1, CollectorAssumption
  <1>3. QED
    BY <1>2 DEF Asked

LEMMA NextKeeps ==
    ASSUME ReturnsAreAmounts, IInv, [Next]_vars
    PROVE  IInv'
  <1>1. Config' /\ held \in [Tokens -> Nat] /\ market \in MarketStates
    BY ConfigKeeps DEF IInv
  <1>2. ASSUME tx = NoTx, UNCHANGED <<queue, tx>>, held' \in [Tokens -> Nat],
               market' \in MarketStates
        PROVE  IInv'
    BY <1>1, <1>2, NoTxIsIdle DEF IInv, Idle
  <1>3. ASSUME ExecuteSwap PROVE IInv'
    BY <1>1, <1>3, ExecuteSwapKeeps DEF IInv
  <1>4. ASSUME SwapBridgeAssets PROVE IInv'
    BY <1>1, <1>4, SwapBridgeAssetsKeeps DEF IInv, SwapBridgeAssets
  <1>5. ASSUME DistributeFees PROVE IInv'
    BY <1>1, <1>5, DistributeEnds DEF IInv, DistributeFees
  <1>6. ASSUME Revert PROVE IInv'
    <2>1. Collecting
      BY <1>6, OpenIsCollecting DEF Revert
    <2>2. held' \in [Tokens -> Nat] /\ market' \in MarketStates /\ Idle'
      BY <1>6, <2>1 DEF Collecting, Revert, Idle
    <2>3. QED
      BY <1>1, <2>2 DEF IInv
  <1>7. ASSUME Handover PROVE IInv'
    BY <1>1, <1>2, <1>7 DEF Handover
  <1>8. ASSUME NEW a \in Accounts, NEW asked \in Asks, NEW m \in Minimums, Collect(a, asked, m)
        PROVE  IInv'
    <2>1. Asked(asked) /\ m \in Nat
      BY AskedTypes, CollectorAssumption
    <2>2. Collecting'
      BY <1>8, <2>1, CollectBegins
    <2>3. QED
      BY <1>1, <1>8, <2>2 DEF IInv, Collect
  <1>9. ASSUME NEW a \in Accounts, NEW o \in Accounts, NEW l \in TargetLists, NEW p \in PairSets,
               UpdateConfig(a, o, l, p)
        PROVE  IInv'
    BY <1>1, <1>2, <1>9 DEF UpdateConfig
  <1>10. ASSUME NEW a, NEW add, NEW remove, UpdateBridges(a, add, remove) PROVE IInv'
    BY <1>1, <1>2, <1>10 DEF UpdateBridges
  <1>11. ASSUME NEW p \in PairSets, FactoryChanges(p) PROVE IInv'
    BY <1>1, <1>2, <1>11 DEF FactoryChanges
  <1>12. ASSUME NEW t \in FeeTokens, ReceiveFee(t) PROVE IInv'
    <2>1. t \in Tokens /\ held[t] + 1 \in Nat
      BY <1>1, CollectorAssumption
    <2>2. held' \in [Tokens -> Nat]
      BY <1>1, <1>12, <2>1 DEF ReceiveFee
    <2>3. QED
      BY <1>1, <1>2, <1>12, <2>2 DEF ReceiveFee
  <1>15. ASSUME OthersTrade PROVE IInv'
    <2>1. market' \in MarketStates
      BY <1>15, CollectorAssumption DEF OthersTrade
    <2>2. QED
      BY <1>1, <1>2, <1>15, <2>1 DEF OthersTrade
  <1>13. ASSUME UNCHANGED vars PROVE IInv'
    <2>1. Collecting => Collecting'
      BY <1>13 DEF vars, Collecting, InHand, Onwards, Clean, Whole
    <2>2. QED
      BY <1>1, <1>13, <2>1 DEF vars, IInv, Idle
  <1>14. QED
    BY <1>3, <1>4, <1>5, <1>6, <1>7, <1>8, <1>9, <1>10, <1>11, <1>12, <1>13, <1>15
       DEF Next, NextMessage

-----------------------------------------------------------------------------
(* The theorems about collects and ownership *)

\* The inductive invariant: the configuration has its types and a proposal is
\* the owner's; a transaction is idle or a collect whose swaps are covered.
THEOREM Invariance ==
    ASSUME ReturnsAreAmounts
    PROVE  Spec => []IInv
  <1>1. Init => IInv
    BY InitHolds
  <1>2. IInv /\ [Next]_vars => IInv'
    BY NextKeeps
  <1>3. QED
    BY <1>1, <1>2, PTL DEF Spec

\* Every variable keeps its type: no swap and no payout takes more of a token
\* than the contract holds, and a transaction is open as long as it has
\* messages.
THEOREM TypeCorrect ==
    ASSUME ReturnsAreAmounts
    PROVE  Spec => []TypeOK
  <1>1. ASSUME IInv PROVE TypeOK
    <2>1. (\A i \in DOMAIN queue : queue[i] \in Message) /\ (tx = NoTx <=> queue = <<>>)
      <3>1. CASE Idle
        BY <3>1 DEF Idle
      <3>2. CASE Collecting
        <4>1. PICK swaps, assets, depth, last : Round(queue, swaps, assets, depth, last)
          BY <3>2 DEF Collecting
        <4>2. queue \in Seq(Message) /\ queue # <<>>
          BY <4>1, MessageForms
        <4>3. tx # NoTx
          BY <3>2 DEF Collecting, NoTx
        <4>4. \A i \in DOMAIN queue : queue[i] \in Message
          BY <4>2, ElementOfSeq, LenProperties
        <4>5. QED
          BY <4>2, <4>3, <4>4
      <3>3. QED
        BY <1>1, <3>1, <3>2 DEF IInv
    <2>2. QED
      BY <1>1, <2>1 DEF IInv, Config, TypeOK
  <1>2. QED
    BY <1>1, Invariance, PTL

\* A standing proposal was made by the present owner for another account, in
\* whatever order offers, claims and withdrawals follow each other.
THEOREM ProposalsAreOwners == Spec => []ProposalIsOwners
  <1>1. Init => Config
    BY InitHolds DEF IInv
  <1>2. Config /\ [Next]_vars => Config'
    BY ConfigKeeps
  <1>3. Config => ProposalIsOwners
    BY DEF Config, ProposalIsOwners
  <1>4. QED
    BY <1>1, <1>2, <1>3, PTL DEF Spec

\* A collect that goes through leaves nothing on the way, whatever bridges its
\* tokens share, whatever the pairs return and in whatever order they execute,
\* and of the stablecoin less than one unit per target.
THEOREM CollectsAreClean ==
    ASSUME ReturnsAreAmounts
    PROVE  Spec => CollectLeavesDust
  <1> DEFINE Clear == /\ \A t \in DOMAIN tx.asked \ {Stable} : tx.asked[t] = NoLimit => held'[t] = 0
                      /\ \A t \in Tokens \ {Stable} : held'[t] <= tx.undo[t]
                      /\ target_list # <<>> => held'[Stable] < Len(target_list)
  <1>1. ASSUME IInv, DistributeFees PROVE Clear
    <2>1. QED
      BY <1>1, DistributeEnds DEF Whole
  <1>2. IInv /\ [Next]_vars => [DistributeFees => Clear]_vars
    BY <1>1
  <1> HIDE DEF Clear
  <1>3. QED
    BY <1>2, Invariance, PTL DEF Spec, CollectLeavesDust, Clear

-----------------------------------------------------------------------------
(* Bridges *)

\* A bridge that is valid with a route as long as one that is executed may be.
DepthsFit == BRIDGES_MAX_DEPTH < BRIDGES_EXECUTION_MAX_DEPTH

ValidStep(f, map, depth) ==
    {t \in DOMAIN map :
        /\ HasPair(t, map[t])
        /\ \/ HasPair(map[t], Stable)
           \/ depth < BRIDGES_MAX_DEPTH /\ map[t] \in f[depth + 1]}

IsValid(f, map) == f = [depth \in 0 .. BRIDGES_MAX_DEPTH |-> ValidStep(f, map, depth)]

WithinStep(g, hops) ==
    IF hops = 0 THEN {Stable}
    ELSE {Stable} \cup {t \in Tokens : CanSwap(t) /\ SwapTarget(t) \in g[hops - 1]}

IsWithin(g, limit) == g = [hops \in 0 .. limit |-> WithinStep(g, hops)]

\* The recursion of validate_bridge has a value: from the last depth upwards.
LEMMA ValidExists ==
    ASSUME NEW map
    PROVE  \E f : IsValid(f, map)
  <1> DEFINE D == BRIDGES_MAX_DEPTH
             From(f, n) == f = [depth \in (D - n) .. D |-> ValidStep(f, map, depth)]
             T == {n \in Nat : n <= D /\ ~ \E f : From(f, n)}
  <1>1. D \in Nat
    BY CollectorAssumption
  <1>2. ASSUME T # {} PROVE FALSE
    <2>1. PICK m \in T : \A k \in T : m <= k
      BY <1>2, SmallestNumber
    <2>2. m \in Nat /\ m <= D /\ ~ \E f : From(f, m)
      OBVIOUS
    <2>3. CASE m = 0
      <3> DEFINE f == [depth \in D .. D |->
                         {t \in DOMAIN map : HasPair(t, map[t]) /\ HasPair(map[t], Stable)}]
      <3>1. \A depth \in (D - 0) .. D : f[depth] = ValidStep(f, map, depth)
        BY <1>1 DEF ValidStep
      <3>2. f = [depth \in (D - 0) .. D |-> f[depth]]
        BY <1>1
      <3> HIDE DEF f, D
      <3>3. From(f, 0)
        BY <3>1, <3>2
      <3>4. QED
        BY <2>2, <2>3, <3>3
    <2>4. CASE m # 0
      <3>1. m - 1 \in Nat /\ m - 1 <= D /\ ~(m <= m - 1)
        BY <1>1, <2>2, <2>4
      <3>2. m - 1 \notin T
        BY <2>1, <3>1
      <3>3. PICK f : From(f, m - 1)
        BY <3>1, <3>2
      <3> DEFINE h == [depth \in (D - m) .. D |-> IF depth = D - m THEN ValidStep(f, map, depth)
                                                  ELSE f[depth]]
      <3> HIDE DEF D
      <3>4. ASSUME NEW d \in (D - m) .. D PROVE h[d] = ValidStep(h, map, d)
        <4>1. h[d] = ValidStep(f, map, d)
          <5>1. CASE d = D - m
            BY <5>1
          <5>2. CASE d # D - m
            <6>1. d \in (D - (m - 1)) .. D
              BY <1>1, <2>2, <5>2
            <6>2. f[d] = ValidStep(f, map, d)
              <7> HIDE DEF h
              <7>1. QED
                BY <3>3, <6>1
            <6>3. QED
              BY <5>2, <6>2
          <5>3. QED
            BY <5>1, <5>2
        <4>2. d < D => h[d + 1] = f[d + 1]
          BY <1>1, <2>2
        <4> HIDE DEF h
        <4>3. QED
          BY <4>1, <4>2 DEF ValidStep, D
      <3>5. h = [depth \in (D - m) .. D |-> h[depth]]
        OBVIOUS
      <3> HIDE DEF h
      <3>6. From(h, m)
        BY <3>4, <3>5
      <3>7. QED
        BY <2>2, <3>6
    <2>5. QED
      BY <2>3, <2>4
  <1>3. D \notin T
    BY <1>2
  <1>4. PICK f : From(f, D)
    BY <1>1, <1>3
  <1>5. (D - D) .. D = 0 .. D
    BY <1>1
  <1>6. QED
    BY <1>4, <1>5 DEF IsValid

LEMMA ValidMeans ==
    ASSUME NEW map, ValidBridges(map)
    PROVE  \E f : IsValid(f, map) /\ f[0] = DOMAIN map
  <1> DEFINE f == CHOOSE f : f = [depth \in 0 .. BRIDGES_MAX_DEPTH |->
                    {t \in DOMAIN map :
                        /\ HasPair(t, map[t])
                        /\ \/ HasPair(map[t], Stable)
                           \/ depth < BRIDGES_MAX_DEPTH /\ map[t] \in f[depth + 1]}]
  <1>1. \E g : g = [depth \in 0 .. BRIDGES_MAX_DEPTH |->
                    {t \in DOMAIN map :
                        /\ HasPair(t, map[t])
                        /\ \/ HasPair(map[t], Stable)
                           \/ depth < BRIDGES_MAX_DEPTH /\ map[t] \in g[depth + 1]}]
    BY ValidExists DEF IsValid, ValidStep
  <1>2. f = [depth \in 0 .. BRIDGES_MAX_DEPTH |->
                    {t \in DOMAIN map :
                        /\ HasPair(t, map[t])
                        /\ \/ HasPair(map[t], Stable)
                           \/ depth < BRIDGES_MAX_DEPTH /\ map[t] \in f[depth + 1]}]
    BY <1>1
  <1>3. f[0] = DOMAIN map
    BY DEF ValidBridges
  <1> HIDE DEF f
  <1>4. IsValid(f, map)
    BY <1>2 DEF IsValid, ValidStep
  <1>5. QED
    BY <1>3, <1>4

LEMMA WithinExists ==
    ASSUME NEW limit \in Nat
    PROVE  \E g : IsWithin(g, limit)
  <1> DEFINE T == {n \in Nat : ~ \E g : IsWithin(g, n)}
  <1>1. ASSUME T # {} PROVE FALSE
    <2>1. PICK m \in T : \A k \in T : m <= k
      BY <1>1, SmallestNumber
    <2>2. m \in Nat /\ ~ \E g : IsWithin(g, m)
      OBVIOUS
    <2>3. CASE m = 0
      <3> DEFINE g == [hops \in 0 .. 0 |-> {Stable}]
      <3>1. \A hops \in 0 .. 0 : g[hops] = WithinStep(g, hops)
        BY DEF WithinStep
      <3>2. g = [hops \in 0 .. 0 |-> g[hops]]
        OBVIOUS
      <3> HIDE DEF g
      <3>3. IsWithin(g, 0)
        BY <3>1, <3>2 DEF IsWithin
      <3>4. QED
        BY <2>2, <2>3, <3>3
    <2>4. CASE m # 0
      <3>1. m - 1 \in Nat /\ ~(m <= m - 1)
        BY <2>2, <2>4
      <3>2. m - 1 \notin T
        BY <2>1, <3>1
      <3>3. PICK g : IsWithin(g, m - 1)
        BY <3>1, <3>2
      <3> DEFINE h == [hops \in 0 .. m |-> IF hops = m THEN WithinStep(g, hops) ELSE g[hops]]
      <3>4. ASSUME NEW k \in 0 .. m PROVE h[k] = WithinStep(h, k)
        <4>1. h[k] = WithinStep(g, k)
          <5>1. CASE k = m
            BY <5>1
          <5>2. CASE k # m
            <6>1. k \in 0 .. m - 1
              BY <2>2, <5>2
            <6>2. g[k] = WithinStep(g, k)
              <7> HIDE DEF h
              <7>1. QED
                BY <3>3, <6>1 DEF IsWithin
            <6>3. QED
              BY <5>2, <6>2
          <5>3. QED
            BY <5>1, <5>2
        <4>2. k # 0 => h[k - 1] = g[k - 1]
          BY <2>2
        <4> HIDE DEF h
        <4>3. QED
          BY <4>1, <4>2 DEF WithinStep
      <3>5. h = [hops \in 0 .. m |-> h[hops]]
        OBVIOUS
      <3> HIDE DEF h
      <3>6. IsWithin(h, m)
        BY <3>4, <3>5 DEF IsWithin
      <3>7. QED
        BY <2>2, <3>6
    <2>5. QED
      BY <2>3, <2>4
  <1>2. limit \notin T
    BY <1>1
  <1>3. QED
    BY <1>2

LEMMA SellableMeans ==
    ASSUME NEW limit \in Nat
    PROVE  \E g : IsWithin(g, limit) /\ Sellable(limit) = g[limit]
  <1> DEFINE g == CHOOSE g : g = [hops \in 0 .. limit |->
                    IF hops = 0 THEN {Stable}
                    ELSE {Stable} \cup {t \in Tokens : CanSwap(t) /\ SwapTarget(t) \in g[hops - 1]}]
  <1>1. \E f : f = [hops \in 0 .. limit |->
                    IF hops = 0 THEN {Stable}
                    ELSE {Stable} \cup {t \in Tokens : CanSwap(t) /\ SwapTarget(t) \in f[hops - 1]}]
    BY WithinExists DEF IsWithin, WithinStep
  <1>2. g = [hops \in 0 .. limit |->
                    IF hops = 0 THEN {Stable}
                    ELSE {Stable} \cup {t \in Tokens : CanSwap(t) /\ SwapTarget(t) \in g[hops - 1]}]
    BY <1>1
  <1>3. Sellable(limit) = g[limit]
    BY DEF Sellable
  <1> HIDE DEF g
  <1>4. IsWithin(g, limit)
    BY <1>2 DEF IsWithin, WithinStep
  <1>5. QED
    BY <1>3, <1>4

\* Bridges that do not go on where they could end lead to the stablecoin.
RoutesLead ==
    \A f : /\ Config
           /\ IsValid(f, bridges) /\ f[0] = DOMAIN bridges
           /\ ~(\E t \in DOMAIN bridges :
                   bridges[t] \in DOMAIN bridges /\ HasPair(bridges[t], Stable))
           => DOMAIN bridges \subseteq Sellable(MaxHops)

\* A token is within one hop more than what it is sold for; so one whose
\* bridge was valid k calls before the deepest is within k + 2 hops.
LEMMA ValidLeads == DepthsFit => RoutesLead
  <1> DEFINE D == BRIDGES_MAX_DEPTH
             L == MaxHops
  <1> SUFFICES ASSUME DepthsFit, Config, NEW f, IsValid(f, bridges), f[0] = DOMAIN bridges,
                      \A t \in DOMAIN bridges :
                         ~(bridges[t] \in DOMAIN bridges /\ HasPair(bridges[t], Stable))
               PROVE  DOMAIN bridges \subseteq Sellable(L)
    BY DEF RoutesLead
  <1>1. D \in Nat /\ L \in Nat /\ D + 2 <= L
    BY CollectorAssumption DEF DepthsFit, MaxHops
  <1>2. PICK g : IsWithin(g, L) /\ Sellable(L) = g[L]
    BY <1>1, SellableMeans
  <1>3. /\ \A d \in 0 .. D : f[d] = ValidStep(f, bridges, d)
        /\ \A h \in 0 .. L : g[h] = WithinStep(g, h)
    BY <1>2 DEF IsValid, IsWithin
  <1> HIDE DEF D, L
  <1>4. \A h \in 0 .. L : Stable \in g[h]
    BY <1>3 DEF WithinStep
  <1>5. ASSUME NEW t \in Tokens, CanSwap(t), NEW h \in 1 .. L, SwapTarget(t) \in g[h - 1]
        PROVE  t \in g[h]
    <2>1. h \in 0 .. L /\ h # 0
      BY <1>1
    <2>2. g[h] = WithinStep(g, h)
      BY <1>3, <2>1
    <2>3. QED
      BY <1>5, <2>1, <2>2 DEF WithinStep
  <1>6. ASSUME NEW t \in DOMAIN bridges, HasPair(t, bridges[t]), NEW h \in 1 .. L,
               bridges[t] \in g[h - 1]
        PROVE  t \in g[h]
    <2>1. t \in Tokens /\ SwapTarget(t) = bridges[t]
      BY DEF Config, SwapTarget
    <2>2. CanSwap(t)
      BY <1>6, <2>1 DEF CanSwap
    <2>3. QED
      BY <1>5, <1>6, <2>1, <2>2
  <1>7. ASSUME NEW t \in DOMAIN bridges, HasPair(t, bridges[t]), HasPair(bridges[t], Stable),
               NEW h \in 2 .. L
        PROVE  t \in g[h]
    <2>1. /\ bridges[t] \in Tokens /\ bridges[t] \notin DOMAIN bridges
          /\ SwapTarget(bridges[t]) = Stable /\ CanSwap(bridges[t])
      BY <1>7 DEF Config, SwapTarget, CanSwap
    <2>2. h - 1 \in 1 .. L /\ h \in 1 .. L /\ (h - 1) - 1 \in 0 .. L
      BY <1>1
    <2>3. bridges[t] \in g[h - 1]
      BY <1>4, <1>5, <2>1, <2>2
    <2>4. QED
      BY <1>6, <1>7, <2>2, <2>3
  <1> DEFINE Leads(k) == \A h \in k + 2 .. L : f[D - k] \subseteq g[h]
             T == {k \in Nat : k <= D /\ ~Leads(k)}
  <1>8. ASSUME T # {} PROVE FALSE
    <2>1. PICK m \in T : \A k \in T : m <= k
      BY <1>8, SmallestNumber
    <2>2. m \in Nat /\ m <= D /\ ~Leads(m)
      OBVIOUS
    <2>3. m # 0 => Leads(m - 1)
      <3>1. SUFFICES ASSUME m # 0 PROVE Leads(m - 1)
        OBVIOUS
      <3>2. m - 1 \in Nat /\ m - 1 <= D /\ ~(m <= m - 1)
        BY <1>1, <2>2, <3>1
      <3>3. m - 1 \notin T
        BY <2>1, <3>2
      <3> HIDE DEF Leads
      <3>4. QED
        BY <3>2, <3>3
    <2>4. ASSUME NEW h \in m + 2 .. L, NEW t \in f[D - m] PROVE t \in g[h]
      <3>1. D - m \in 0 .. D /\ h \in 2 .. L /\ h \in 1 .. L
        BY <1>1, <2>2
      <3>2. t \in ValidStep(f, bridges, D - m)
        BY <1>3, <3>1
      <3>3. /\ t \in DOMAIN bridges /\ HasPair(t, bridges[t])
            /\ \/ HasPair(bridges[t], Stable)
               \/ D - m < D /\ bridges[t] \in f[(D - m) + 1]
        BY <3>2 DEF ValidStep, D
      <3>4. CASE HasPair(bridges[t], Stable)
        BY <1>7, <3>1, <3>3, <3>4
      <3>5. CASE D - m < D /\ bridges[t] \in f[(D - m) + 1]
        <4>1. m # 0 /\ (D - m) + 1 = D - (m - 1) /\ h - 1 \in (m - 1) + 2 .. L
          BY <1>1, <2>2, <3>5
        <4>2. bridges[t] \in g[h - 1]
          BY <2>3, <3>5, <4>1
        <4>3. QED
          BY <1>6, <3>1, <3>3, <4>2
      <3>6. QED
        BY <3>3, <3>4, <3>5
    <2>5. QED
      BY <2>2, <2>4
  <1>9. Leads(D)
    <2>1. D \in Nat /\ D <= D
      BY <1>1
    <2> HIDE DEF Leads
    <2>2. ~Leads(D) => D \in T
      BY <2>1
    <2> HIDE DEF T
    <2>3. T = {}
      BY <1>8
    <2>4. QED
      BY <2>2, <2>3
  <1>10. L \in D + 2 .. L /\ D - D = 0
    BY <1>1
  <1>11. f[0] \subseteq g[L]
    BY <1>9, <1>10
  <1>12. QED
    BY <1>2, <1>11

\* Every token with a bridge can be sold for the stablecoin within the depth of
\* the execution, as long as no bridge goes on where it could end: validated
\* to one depth, the bridges are executed to a greater one.
THEOREM ValidRoutesEnd ==
    ASSUME DepthsFit
    PROVE  Spec => RoutesEnd
  <1>1. ASSUME Config', RoutesLead', [Next]_vars, bridges' # bridges
        PROVE  (~(\E t \in DOMAIN bridges : bridges[t] \in DOMAIN bridges /\ HasPair(bridges[t], Stable))
                => DOMAIN bridges \subseteq Sellable(MaxHops))'
    <2>1. PICK a \in Accounts, add \in Additions, remove \in SUBSET DOMAIN bridges :
             UpdateBridges(a, add, remove)
      BY <1>1 DEF Next, NextMessage, ExecuteSwap, SwapBridgeAssets, DistributeFees, Revert, Handover,
                  Collect, UpdateConfig, FactoryChanges, ReceiveFee, OthersTrade, vars, config
    <2>2. ValidBridges(bridges') /\ pairs' = pairs
      BY <2>1 DEF UpdateBridges
    <2>3. PICK f : IsValid(f, bridges') /\ f[0] = DOMAIN bridges'
      BY <2>2, ValidMeans
    <2>4. IsValid(f, bridges)'
      BY <2>2, <2>3 DEF IsValid, ValidStep, HasPair
    <2>5. QED
      BY <1>1, <2>3, <2>4 DEF RoutesLead
  <1>2. Config' /\ RoutesLead' /\ [Next]_vars
        => [bridges' # bridges
            => (~(\E t \in DOMAIN bridges : bridges[t] \in DOMAIN bridges /\ HasPair(bridges[t], Stable))
                => DOMAIN bridges \subseteq Sellable(MaxHops))']_vars
    BY <1>1
  <1>3. Init => Config
    BY InitHolds DEF IInv
  <1>4. Config /\ [Next]_vars => Config'
    BY ConfigKeeps
  <1>5. RoutesLead
    BY ValidLeads
  <1>6. QED
    BY <1>2, <1>3, <1>4, <1>5, PTL DEF Spec, RoutesEnd

-----------------------------------------------------------------------------
(* The simulation of a collect *)

\* The operator gives the stablecoin itself no bridge.
StableHasNoBridge == \A b \in Bridges : b[1] # Stable

\* What the simulation holds after each round.
IsSimulated(at, after, amounts) ==
    after = [round \in 0 .. BRIDGES_EXECUTION_MAX_DEPTH |->
                IF round = 0 THEN amounts ELSE SimulationRound(at, after[round - 1])]

\* No swap of the simulation fails, and the last ones are for the stablecoin.
Ends(after) ==
    /\ \A round \in 1 .. BRIDGES_EXECUTION_MAX_DEPTH :
          \A t \in Selling(after[round - 1]) : CanSwap(t)
    /\ \A t \in Selling(after[BRIDGES_EXECUTION_MAX_DEPTH - 1]) : SwapTarget(t) = Stable

\* The swaps of the tokens D when there are `amounts'.
SwapsFor(amounts, D) ==
    {[from |-> t, to |-> SwapTarget(t), amount |-> amounts[t]] : t \in D}

BridgesFor(amounts) == {SwapTarget(t) : t \in {u \in Selling(amounts) : ViaBridge(u)}}

\* What the swaps of the tokens D bring of the token u.
Brought(at, amounts, D, u) ==
    [t \in Tokens |-> IF t \in D /\ SwapTarget(t) = u THEN Returned(at, t, u, amounts[t]) ELSE 0]

\* In a round that began with `amounts', the tokens L have yet to be sold.
Halfway(at, amounts, L) ==
    \A u \in Tokens :
        held[u] = (IF u \in L \cup {Stable} THEN amounts[u] ELSE 0)
                  + Total(Brought(at, amounts, Selling(amounts) \ L, u))

\* The pairs that the rest of the round and the later rounds meet are as the
\* simulation found them.
Unmoved(at, after, k, L) ==
    /\ \A t \in L : market[{t, SwapTarget(t)}] = at[{t, SwapTarget(t)}]
    /\ \A j \in k + 1 .. BRIDGES_EXECUTION_MAX_DEPTH - 1 :
          \A t \in Selling(after[j]) : market[{t, SwapTarget(t)}] = at[{t, SwapTarget(t)}]

\* The execution is in the round after the first k of the simulation.
Following(after, k) ==
    /\ IsSimulated(tx.market, after, tx.undo) /\ Ends(after) /\ PairsMetOnce(after)
    /\ tx.simulation.return_amount = after[BRIDGES_EXECUTION_MAX_DEPTH][Stable]
    /\ k \in 0 .. BRIDGES_EXECUTION_MAX_DEPTH - 1
    /\ \E L \in SUBSET Selling(after[k]) :
          /\ Halfway(tx.market, after[k], L) /\ Unmoved(tx.market, after, k, L)
          /\ \E depth, last :
                Round(queue, SwapsFor(after[k], L), BridgesFor(after[k]), depth, last)

\* No bridge begins or ends at the stablecoin.
Apart == \A t \in DOMAIN bridges : t # Stable /\ bridges[t] # Stable

-----------------------------------------------------------------------------
(* The rounds of the simulation *)

LEMMA TotalNat ==
    ASSUME NEW f \in [Tokens -> Nat]
    PROVE  Total(f) \in Nat
  BY CollectorAssumption, TotalType

LEMMA BroughtType ==
    ASSUME ReturnsAreAmounts, NEW at \in MarketStates, NEW amounts \in [Tokens -> Nat],
           NEW D \in SUBSET Tokens, NEW u \in Tokens
    PROVE  Brought(at, amounts, D, u) \in [Tokens -> Nat] /\ Total(Brought(at, amounts, D, u)) \in Nat
  <1>1. \A t \in Tokens : Returned(at, t, u, amounts[t]) \in Nat
    BY ReturnedType
  <1>2. Brought(at, amounts, D, u) \in [Tokens -> Nat]
    BY <1>1 DEF Brought
  <1>3. QED
    BY <1>2, TotalNat

\* A total over some accounts is that over all when the others have nothing.
LEMMA TotalOfSome ==
    ASSUME NEW S, NEW f \in [S -> Nat], NEW D \in SUBSET S, NEW g \in [D -> Nat],
           \A x \in S : f[x] = IF x \in D THEN g[x] ELSE 0
    PROVE  Total(f) = Total(g)
  <1>1. ASSUME NEW x \in S, x \notin D PROVE {x} \X (1 .. f[x]) = {}
    <2>1. 1 .. f[x] = {}
      BY <1>1
    <2>2. QED
      BY <2>1
  <1>2. \A x \in D : {x} \X (1 .. f[x]) = {x} \X (1 .. g[x])
    OBVIOUS
  <1>3. Units(f) = Units(g)
    BY <1>1, <1>2 DEF Units
  <1>4. QED
    BY <1>3 DEF Total

\* A round of the simulation, as what all of its swaps bring.
LEMMA SimulationRoundIs ==
    ASSUME ReturnsAreAmounts, NEW at \in MarketStates, NEW amounts \in [Tokens -> Nat]
    PROVE  /\ SimulationRound(at, amounts) \in [Tokens -> Nat]
           /\ \A u \in Tokens :
                 SimulationRound(at, amounts)[u]
                    = (IF u = Stable THEN amounts[Stable] ELSE 0)
                      + Total(Brought(at, amounts, Selling(amounts), u))
  <1>0. Stable \in Tokens
    BY CollectorAssumption
  <1>1. ASSUME NEW u \in Tokens
        PROVE  /\ SimulationRound(at, amounts)[u] \in Nat
               /\ SimulationRound(at, amounts)[u]
                    = (IF u = Stable THEN amounts[Stable] ELSE 0)
                      + Total(Brought(at, amounts, Selling(amounts), u))
    <2> DEFINE D == {x \in Selling(amounts) : SwapTarget(x) = u}
               g == [t \in D |-> Returned(at, t, u, amounts[t])]
               f == Brought(at, amounts, Selling(amounts), u)
    <2>1. f \in [Tokens -> Nat] /\ Total(f) \in Nat
      BY BroughtType DEF Selling
    <2>2. g \in [D -> Nat]
      BY ReturnedType DEF Selling
    <2>3. \A x \in Tokens : f[x] = IF x \in D THEN g[x] ELSE 0
      BY DEF Brought, Selling
    <2>4. SimulationRound(at, amounts)[u] = Total(g) + (IF u = Stable THEN amounts[Stable] ELSE 0)
      BY DEF SimulationRound
    <2>5. D \in SUBSET Tokens
      BY DEF Selling
    <2> HIDE DEF D, g, f
    <2>6. Total(f) = Total(g)
      BY <2>1, <2>2, <2>3, <2>5, TotalOfSome
    <2>7. QED
      BY <1>0, <2>1, <2>4, <2>6 DEF f
  <1>2. SimulationRound(at, amounts) = [u \in Tokens |-> SimulationRound(at, amounts)[u]]
    BY DEF SimulationRound
  <1>3. QED
    BY <1>1, <1>2

\* The recursion of bulk_swap_simulation has a value.
LEMMA SimulatedExists ==
    ASSUME NEW at, NEW amounts
    PROVE  \E after : IsSimulated(at, after, amounts)
  <1> DEFINE Step(g, n) == IF n = 0 THEN amounts ELSE SimulationRound(at, g[n - 1])
             Upto(g, n) == g = [i \in 0 .. n |-> Step(g, i)]
             T == {n \in Nat : ~ \E g : Upto(g, n)}
  <1>1. ASSUME T # {} PROVE FALSE
    <2>1. PICK m \in T : \A k \in T : m <= k
      BY <1>1, SmallestNumber
    <2>2. m \in Nat /\ ~ \E g : Upto(g, m)
      OBVIOUS
    <2>3. CASE m = 0
      <3> DEFINE g == [i \in 0 .. 0 |-> amounts]
      <3>1. \A i \in 0 .. 0 : g[i] = Step(g, i)
        OBVIOUS
      <3>2. g = [i \in 0 .. 0 |-> g[i]]
        OBVIOUS
      <3> HIDE DEF g
      <3>3. Upto(g, 0)
        BY <3>1, <3>2
      <3>4. QED
        BY <2>2, <2>3, <3>3
    <2>4. CASE m # 0
      <3>1. m - 1 \in Nat /\ ~(m <= m - 1)
        BY <2>2, <2>4
      <3>2. m - 1 \notin T
        BY <2>1, <3>1
      <3>3. PICK g : Upto(g, m - 1)
        BY <3>1, <3>2
      <3> DEFINE h == [i \in 0 .. m |-> IF i = m THEN Step(g, m) ELSE g[i]]
      <3> HIDE DEF Step
      <3>4. ASSUME NEW k \in 0 .. m PROVE h[k] = Step(h, k)
        <4>1. h[k] = Step(g, k)
          <5>1. CASE k = m
            BY <5>1
          <5>2. CASE k # m
            <6>1. k \in 0 .. m - 1
              BY <2>2, <5>2
            <6>2. g[k] = Step(g, k)
              <7> HIDE DEF h
              <7>1. QED
                BY <3>3, <6>1
            <6>3. QED
              BY <5>2, <6>2
          <5>3. QED
            BY <5>1, <5>2
        <4>2. k # 0 => h[k - 1] = g[k - 1]
          BY <2>2
        <4> HIDE DEF h
        <4>3. QED
          BY <4>1, <4>2 DEF Step
      <3>5. h = [i \in 0 .. m |-> h[i]]
        OBVIOUS
      <3> HIDE DEF h
      <3>6. Upto(h, m)
        BY <3>4, <3>5
      <3>7. QED
        BY <2>2, <3>6
    <2>5. QED
      BY <2>3, <2>4
  <1>2. BRIDGES_EXECUTION_MAX_DEPTH \in Nat
    BY CollectorAssumption
  <1>3. PICK g : Upto(g, BRIDGES_EXECUTION_MAX_DEPTH)
    BY <1>1, <1>2
  <1>4. QED
    BY <1>3 DEF IsSimulated

LEMMA SimulationMeans ==
    ASSUME NEW at, NEW amounts
    PROVE  \E after :
              /\ IsSimulated(at, after, amounts)
              /\ Simulation(at, amounts).ok = Ends(after)
              /\ Simulation(at, amounts).return_amount = after[BRIDGES_EXECUTION_MAX_DEPTH][Stable]
              /\ Simulation(at, amounts).rounds = after
  <1> DEFINE M == BRIDGES_EXECUTION_MAX_DEPTH
             after == CHOOSE g : g = [round \in 0 .. M |->
                         IF round = 0 THEN amounts ELSE SimulationRound(at, g[round - 1])]
             selling(round) == Selling(after[round - 1])
  <1>1. \E g : g = [round \in 0 .. M |->
                       IF round = 0 THEN amounts ELSE SimulationRound(at, g[round - 1])]
    <2>1. PICK g : IsSimulated(at, g, amounts)
      BY SimulatedExists
    <2>2. g = [round \in 0 .. M |-> IF round = 0 THEN amounts ELSE SimulationRound(at, g[round - 1])]
      BY <2>1 DEF IsSimulated
    <2>3. QED
      BY <2>2
  <1>2. after = [round \in 0 .. M |->
                       IF round = 0 THEN amounts ELSE SimulationRound(at, after[round - 1])]
    BY <1>1
  <1>3. Simulation(at, amounts)
           = [ok |-> /\ \A round \in 1 .. M : \A t \in selling(round) : CanSwap(t)
                     /\ \A t \in selling(M) : SwapTarget(t) = Stable,
              return_amount |-> after[M][Stable], rounds |-> after]
    BY DEF Simulation
  <1> HIDE DEF after
  <1>4. IsSimulated(at, after, amounts)
    BY <1>2 DEF IsSimulated
  <1>5. /\ Simulation(at, amounts).return_amount = after[M][Stable]
        /\ Simulation(at, amounts).rounds = after
    BY <1>3
  <1>6. Simulation(at, amounts).ok = Ends(after)
    BY <1>3 DEF Ends, Selling
  <1>7. QED
    BY <1>4, <1>5, <1>6

\* The amounts after each round are amounts.
LEMMA SimulatedTypes ==
    ASSUME ReturnsAreAmounts, NEW at \in MarketStates, NEW amounts \in [Tokens -> Nat], NEW after,
           IsSimulated(at, after, amounts)
    PROVE  /\ \A k \in 0 .. BRIDGES_EXECUTION_MAX_DEPTH : after[k] \in [Tokens -> Nat]
           /\ after[0] = amounts
           /\ \A k \in 1 .. BRIDGES_EXECUTION_MAX_DEPTH :
                 after[k] = SimulationRound(at, after[k - 1])
  <1> DEFINE M == BRIDGES_EXECUTION_MAX_DEPTH
             T == {n \in Nat : n <= M /\ after[n] \notin [Tokens -> Nat]}
  <1>1. M \in Nat
    BY CollectorAssumption
  <1>2. after[0] = amounts /\ \A k \in 1 .. M : after[k] = SimulationRound(at, after[k - 1])
    BY <1>1 DEF IsSimulated
  <1> HIDE DEF M
  <1>3. ASSUME T # {} PROVE FALSE
    <2>1. PICK m \in T : \A k \in T : m <= k
      BY <1>3, SmallestNumber
    <2>2. m \in 0 .. M /\ after[m] \notin [Tokens -> Nat] /\ m # 0
      BY <1>2
    <2>3. m \in 1 .. M /\ m - 1 \in 0 .. M /\ ~(m <= m - 1)
      BY <1>1, <2>2
    <2>4. after[m - 1] \in [Tokens -> Nat]
      BY <2>1, <2>3
    <2>5. after[m] \in [Tokens -> Nat]
      BY <1>2, <2>3, <2>4, SimulationRoundIs
    <2>6. QED
      BY <2>2, <2>5
  <1>4. \A k \in 0 .. M : after[k] \in [Tokens -> Nat]
    BY <1>3
  <1>5. QED
    BY <1>2, <1>4 DEF M

\* Once only the stablecoin is left, nothing changes.
LEMMA SimulationRests ==
    ASSUME ReturnsAreAmounts, NEW at \in MarketStates, NEW amounts \in [Tokens -> Nat], NEW after,
           IsSimulated(at, after, amounts), NEW j \in 0 .. BRIDGES_EXECUTION_MAX_DEPTH,
           Selling(after[j]) = {}
    PROVE  after[BRIDGES_EXECUTION_MAX_DEPTH][Stable] = after[j][Stable]
  <1> DEFINE M == BRIDGES_EXECUTION_MAX_DEPTH
             Rests(n) == Selling(after[n]) = {} /\ after[n][Stable] = after[j][Stable]
             T == {n \in Nat : n <= M /\ n >= j /\ ~Rests(n)}
  <1>1. M \in Nat /\ Stable \in Tokens
    BY CollectorAssumption
  <1>2. /\ \A k \in 0 .. M : after[k] \in [Tokens -> Nat]
        /\ \A k \in 1 .. M : after[k] = SimulationRound(at, after[k - 1])
    BY SimulatedTypes
  <1>3. ASSUME NEW k \in 1 .. M, Rests(k - 1) PROVE Rests(k)
    <2> DEFINE f == after[k - 1]
    <2>1. f \in [Tokens -> Nat] /\ after[k] = SimulationRound(at, f) /\ Selling(f) = {}
      BY <1>1, <1>2, <1>3
    <2> HIDE DEF f
    <2>2. ASSUME NEW u \in Tokens PROVE Total(Brought(at, f, Selling(f), u)) = 0
      <3>1. Brought(at, f, Selling(f), u) = [t \in Tokens |-> 0]
        BY <2>1 DEF Brought
      <3>2. QED
        BY <3>1, TotalOfZeros
    <2>3. \A u \in Tokens : after[k][u] = IF u = Stable THEN f[Stable] ELSE 0
      <3>1. \A u \in Tokens :
               SimulationRound(at, f)[u] = (IF u = Stable THEN f[Stable] ELSE 0)
                                           + Total(Brought(at, f, Selling(f), u))
        BY <2>1, SimulationRoundIs
      <3>2. f[Stable] \in Nat
        BY <1>1, <2>1
      <3>3. QED
        BY <2>1, <2>2, <3>1, <3>2
    <2>4. Selling(after[k]) = {}
      BY <2>3 DEF Selling
    <2>5. QED
      BY <1>1, <1>3, <2>3, <2>4 DEF f
  <1> HIDE DEF M
  <1>4. ASSUME T # {} PROVE FALSE
    <2>1. PICK m \in T : \A k \in T : m <= k
      BY <1>4, SmallestNumber
    <2>2. m \in 0 .. M /\ m >= j /\ ~Rests(m) /\ m # j
      OBVIOUS
    <2>3. m \in 1 .. M /\ m - 1 \in 0 .. M /\ m - 1 >= j /\ ~(m <= m - 1)
      BY <1>1, <2>2 DEF M
    <2>4. m - 1 \notin T
      BY <2>1, <2>3
    <2>5. Rests(m - 1)
      BY <2>3, <2>4
    <2>6. QED
      BY <1>3, <2>2, <2>3, <2>5
  <1>5. M \in 0 .. M /\ M >= j
    BY <1>1 DEF M
  <1>6. Rests(M)
    BY <1>4, <1>5
  <1>7. QED
    BY <1>6 DEF M
-----------------------------------------------------------------------------
(* The rounds of the execution *)

LEMMA TargetOrBridge ==
    ASSUME Apart, NEW t \in Tokens, CanSwap(t)
    PROVE  SwapTarget(t) = Stable <=> ~ViaBridge(t)
  BY DEF Apart, CanSwap, SwapTarget, ViaBridge

\* A round of the simulation leaves nothing but the stablecoin and what the
\* bridges brought.
LEMMA RoundLeaves ==
    ASSUME ReturnsAreAmounts, NEW at \in MarketStates, NEW amounts \in [Tokens -> Nat], Apart,
           \A t \in Selling(amounts) : CanSwap(t)
    PROVE  /\ Stable \notin BridgesFor(amounts)
           /\ Selling(SimulationRound(at, amounts)) \subseteq BridgesFor(amounts)
  <1>1. \A t \in Selling(amounts) : SwapTarget(t) = Stable <=> ~ViaBridge(t)
    BY TargetOrBridge DEF Selling
  <1>2. ASSUME NEW u \in Selling(SimulationRound(at, amounts)), u \notin BridgesFor(amounts)
        PROVE  FALSE
    <2>1. u \in Tokens /\ u # Stable /\ SimulationRound(at, amounts)[u] > 0
      BY <1>2 DEF Selling
    <2>2. \A t \in Selling(amounts) : SwapTarget(t) # u
      BY <1>1, <1>2, <2>1 DEF BridgesFor
    <2>3. Brought(at, amounts, Selling(amounts), u) = [t \in Tokens |-> 0]
      BY <2>2 DEF Brought
    <2>4. Total(Brought(at, amounts, Selling(amounts), u)) = 0
      BY <2>3, TotalOfZeros
    <2>5. SimulationRound(at, amounts)[u] = 0
      BY <2>1, <2>4, SimulationRoundIs
    <2>6. QED
      BY <2>1, <2>5
  <1>3. QED
    BY <1>1, <1>2 DEF BridgesFor

\* A round begins with all that is there.
LEMMA FreshRound ==
    ASSUME NEW at, held \in [Tokens -> Nat], NEW asked, Sold(asked) = Selling(held),
           \A t \in Sold(asked) : asked[t] = NoLimit
    PROVE  /\ Swaps(asked) = SwapsFor(held, Selling(held))
           /\ BridgeAssets(asked) = BridgesFor(held)
           /\ Halfway(at, held, Selling(held))
  <1>1. \A t \in Selling(held) : Limited(t, asked[t]) = held[t]
    BY DEF Limited
  <1>2. Swaps(asked) = SwapsFor(held, Selling(held))
    BY <1>1 DEF Swaps, SwapsFor
  <1>3. BridgeAssets(asked) = BridgesFor(held)
    BY DEF BridgeAssets, BridgesFor
  <1>4. ASSUME NEW u \in Tokens
        PROVE  held[u] = (IF u \in Selling(held) \cup {Stable} THEN held[u] ELSE 0)
                         + Total(Brought(at, held, Selling(held) \ Selling(held), u))
    <2>1. Brought(at, held, Selling(held) \ Selling(held), u) = [t \in Tokens |-> 0]
      BY DEF Brought
    <2>2. Total(Brought(at, held, Selling(held) \ Selling(held), u)) = 0
      BY <2>1, TotalOfZeros
    <2>3. u \notin Selling(held) \cup {Stable} => held[u] = 0
      BY DEF Selling
    <2>4. held[u] \in Nat
      OBVIOUS
    <2>5. QED
      BY <2>2, <2>3, <2>4
  <1>5. QED
    BY <1>2, <1>3, <1>4 DEF Halfway

\* A round ends with what the simulation has.
LEMMA RoundOver ==
    ASSUME ReturnsAreAmounts, NEW at \in MarketStates, NEW amounts \in [Tokens -> Nat], held \in [Tokens -> Nat],
           Halfway(at, amounts, {})
    PROVE  held = SimulationRound(at, amounts)
  <1>1. Selling(amounts) \ {} = Selling(amounts) /\ {} \cup {Stable} = {Stable}
    OBVIOUS
  <1>2. ASSUME NEW u \in Tokens PROVE held[u] = SimulationRound(at, amounts)[u]
    <2>1. held[u] = (IF u = Stable THEN amounts[Stable] ELSE 0)
                    + Total(Brought(at, amounts, Selling(amounts), u))
      BY <1>1 DEF Halfway
    <2>2. QED
      BY <2>1, SimulationRoundIs
  <1>3. QED
    BY <1>2, SimulationRoundIs

\* One more swap brings what its pair returns.
LEMMA BroughtMore ==
    ASSUME ReturnsAreAmounts, NEW at \in MarketStates, NEW f \in [Tokens -> Nat], NEW D \in SUBSET Tokens,
           NEW t \in Tokens, t \notin D, NEW u \in Tokens
    PROVE  Total(Brought(at, f, D \cup {t}, u))
              = Total(Brought(at, f, D, u)) + (IF SwapTarget(t) = u THEN Returned(at, t, u, f[t]) ELSE 0)
  <1> DEFINE E == D \cup {t}
             gain == IF SwapTarget(t) = u THEN Returned(at, t, u, f[t]) ELSE 0
  <1>1. PICK p, q : p = Brought(at, f, D, u) /\ q = Brought(at, f, E, u)
    OBVIOUS
  <1>2. E \in SUBSET Tokens
    OBVIOUS
  <1>3. p \in [Tokens -> Nat] /\ q \in [Tokens -> Nat] /\ Total(p) \in Nat
    BY <1>1, <1>2, BroughtType
  <1>4. \A x \in Tokens : x # t => q[x] = p[x]
    BY <1>1 DEF Brought
  <1>5. p[t] = 0 /\ q[t] = gain
    BY <1>1 DEF Brought
  <1>6. gain \in Nat
    BY ReturnedType
  <1>7. IsFiniteSet(Tokens)
    BY CollectorAssumption
  <1> HIDE DEF E, gain
  <1>8. Total(q) = Total(p) - p[t] + q[t]
    BY <1>3, <1>4, <1>7, TotalReplaced
  <1>9. QED
    BY <1>1, <1>3, <1>5, <1>6, <1>8 DEF E, gain

Underway(at, f, L) ==
    /\ f \in [Tokens -> Nat] /\ L \in SUBSET Selling(f) /\ Halfway(at, f, L)
    /\ \A t \in Selling(f) : CanSwap(t)

Executed(at, s) ==
    held' = [held EXCEPT ![s.from] = @ - s.amount,
                         ![s.to] = @ + Returned(at, s.from, s.to, s.amount)]

\* The swap `s' is that of `t', which then is not left to be sold.
Done(at, f, L, s, t) ==
    /\ s.from = t /\ s.to = SwapTarget(t)
    /\ SwapsFor(f, L) \ {s} = SwapsFor(f, L \ {t})
    /\ \A u \in Tokens :
          held'[u] = (IF u \in (L \ {t}) \cup {Stable} THEN f[u] ELSE 0)
                     + Total(Brought(at, f, Selling(f) \ (L \ {t}), u))

\* One swap of a round.
LEMMA HalfwayStep ==
    ASSUME ReturnsAreAmounts, NEW at \in MarketStates, held \in [Tokens -> Nat], Config,
           NEW f, NEW L, Underway(at, f, L), NEW s \in SwapsFor(f, L), Executed(at, s)
    PROVE  \E t \in L : Done(at, f, L, s, t)
  <1>0. /\ f \in [Tokens -> Nat] /\ L \in SUBSET Selling(f) /\ Halfway(at, f, L)
        /\ \A t \in Selling(f) : CanSwap(t)
    BY DEF Underway
  <1>1. PICK t \in L : s = [from |-> t, to |-> SwapTarget(t), amount |-> f[t]]
    BY DEF SwapsFor
  <1> DEFINE w == SwapTarget(t)
             gain == Returned(at, t, w, f[t])
             D == Selling(f) \ L
             E == Selling(f) \ (L \ {t})
  <1>2. /\ t \in Selling(f) /\ t \in Tokens /\ t # Stable /\ f[t] \in Nat
        /\ w \in Tokens /\ t # w /\ gain \in Nat
    <2>1. t \in Selling(f) /\ t \in Tokens /\ t # Stable /\ CanSwap(t)
      BY <1>0 DEF Selling
    <2>2. w \in Tokens /\ t # w
      BY <2>1, PairsDiffer DEF CanSwap, Config
    <2>3. f[t] \in Nat
      BY <1>0, <2>1
    <2>4. QED
      BY <2>1, <2>2, <2>3, ReturnedType
  <1>3. SwapsFor(f, L) \ {s} = SwapsFor(f, L \ {t})
    BY <1>1 DEF SwapsFor
  <1>4. /\ D \in SUBSET Tokens /\ E \in SUBSET Tokens
        /\ t \in E /\ t \notin D /\ \A x \in Tokens : x # t => (x \in E <=> x \in D)
    BY <1>0, <1>2 DEF Selling
  <1>5. /\ held'[t] = held[t] - f[t] /\ held'[w] = held[w] + gain
        /\ \A u \in Tokens \ {t, w} : held'[u] = held[u]
    BY <1>1, <1>2 DEF Executed
  <1> HIDE DEF gain, D, E
  <1>6. ASSUME NEW u \in Tokens
        PROVE  Total(Brought(at, f, E, u))
                  = Total(Brought(at, f, D, u)) + (IF u = w THEN gain ELSE 0)
    <2>1. E = D \cup {t}
      BY <1>2 DEF D, E
    <2>2. Total(Brought(at, f, D \cup {t}, u))
             = Total(Brought(at, f, D, u)) + (IF SwapTarget(t) = u THEN Returned(at, t, u, f[t]) ELSE 0)
      BY <1>0, <1>2, <1>4, BroughtMore
    <2>3. QED
      BY <2>1, <2>2 DEF gain
  <1>7. ASSUME NEW u \in Tokens
        PROVE  held'[u] = (IF u \in (L \ {t}) \cup {Stable} THEN f[u] ELSE 0)
                          + Total(Brought(at, f, E, u))
    <2>1. held[u] = (IF u \in L \cup {Stable} THEN f[u] ELSE 0) + Total(Brought(at, f, D, u))
      BY <1>0 DEF Halfway, D
    <2>2. held[u] \in Nat /\ f[u] \in Nat /\ Total(Brought(at, f, D, u)) \in Nat
      BY <1>0, <1>4, BroughtType
    <2>3. CASE u = t
      BY <1>2, <1>5, <1>6, <2>1, <2>2, <2>3
    <2>4. CASE u = w
      BY <1>2, <1>5, <1>6, <2>1, <2>2, <2>4
    <2>5. CASE u # t /\ u # w
      BY <1>2, <1>5, <1>6, <2>1, <2>2, <2>5
    <2>6. QED
      BY <2>3, <2>4, <2>5
  <1>8. QED
    BY <1>1, <1>3, <1>7 DEF E, Done

\* While a transaction runs, what a token is sold for does not change.
LEMMA SameTargets ==
    ASSUME UNCHANGED <<bridges, pairs>>
    PROVE  /\ \A t : SwapTarget(t)' = SwapTarget(t) /\ CanSwap(t)' = CanSwap(t)
                     /\ ViaBridge(t)' = ViaBridge(t)
           /\ \A at, f, D, u : Brought(at, f, D, u)' = Brought(at, f, D, u)
           /\ \A f, D : SwapsFor(f, D)' = SwapsFor(f, D)
           /\ \A f : BridgesFor(f)' = BridgesFor(f)
           /\ \A at, f : SimulationRound(at, f)' = SimulationRound(at, f)
           /\ \A at, after, amounts :
                 IsSimulated(at, after, amounts)' = IsSimulated(at, after, amounts)
           /\ \A after : Ends(after)' = Ends(after) /\ PairsMetOnce(after)' = PairsMetOnce(after)
  <1>1. \A a, b : HasPair(a, b)' = HasPair(a, b)
    BY DEF HasPair
  <1>2. \A t : /\ SwapTarget(t)' = SwapTarget(t) /\ CanSwap(t)' = CanSwap(t)
               /\ ViaBridge(t)' = ViaBridge(t)
    BY <1>1 DEF SwapTarget, CanSwap, ViaBridge
  <1>3. \A at, f, D, u : Brought(at, f, D, u)' = Brought(at, f, D, u)
    BY <1>2 DEF Brought
  <1>4. \A f, D : SwapsFor(f, D)' = SwapsFor(f, D)
    BY <1>2 DEF SwapsFor
  <1>5. \A f : BridgesFor(f)' = BridgesFor(f)
    BY <1>2 DEF BridgesFor
  <1>6. \A at, f : SimulationRound(at, f)' = SimulationRound(at, f)
    BY <1>2 DEF SimulationRound
  <1>7. \A at, after, amounts : IsSimulated(at, after, amounts)' = IsSimulated(at, after, amounts)
    BY <1>6 DEF IsSimulated
  <1>8. \A after : Ends(after)' = Ends(after) /\ PairsMetOnce(after)' = PairsMetOnce(after)
    BY <1>2 DEF Ends, PairsMetOnce
  <1>9. QED
    BY <1>2, <1>3, <1>4, <1>5, <1>6, <1>7, <1>8
-----------------------------------------------------------------------------
(* The execution follows the simulation *)

\* What the properties of a collect speak of, while it is under way.
Follows ==
    tx.simulation.ok /\ AskedForAll /\ PairsMetOnce(tx.simulation.rounds)
    => \E after, k : Following(after, k)

LEMMA UndoType ==
    ASSUME IInv, tx # NoTx
    PROVE  tx.undo \in [Tokens -> Nat] /\ tx.market \in MarketStates
  BY OpenIsCollecting DEF Collecting

LEMMA CollectFollows ==
    ASSUME ReturnsAreAmounts, IInv, NEW sender, NEW asked, Asked(asked), NEW minimum \in Nat,
           Collect(sender, asked, minimum)
    PROVE  Follows'
  <1> DEFINE M == BRIDGES_EXECUTION_MAX_DEPTH
             selling == [t \in DOMAIN asked \ {Stable} |-> asked[t]]
             amounts == [t \in Tokens |-> IF t \in DOMAIN asked THEN Limited(t, asked[t])
                                          ELSE IF t = Stable THEN held[Stable] ELSE 0]
  <1>0. PICK at : at = market
    OBVIOUS
  <1>1. /\ tx'.undo = held /\ tx'.asked = asked /\ tx'.simulation = Simulation(at, amounts)
        /\ UNCHANGED <<bridges, pairs>> /\ held' = held /\ tx'.market = at /\ market' = at
    BY <1>0 DEF Collect, CollectSimulation, config
  <1>2. held \in [Tokens -> Nat] /\ M \in Nat \ {0} /\ at \in MarketStates
    BY <1>0, CollectorAssumption DEF IInv
  <1> SUFFICES ASSUME tx'.simulation.ok, AskedForAll', PairsMetOnce(tx.simulation.rounds)'
               PROVE  \E after, k : Following(after, k)'
    BY DEF Follows
  <1>3. \A t \in Tokens : IF t \in DOMAIN asked THEN asked[t] = NoLimit
                          ELSE t = Stable \/ held[t] = 0
    BY <1>1 DEF AskedForAll
  <1>4. amounts = held
    <2>1. \A t \in Tokens : amounts[t] = held[t]
      BY <1>2, <1>3 DEF Limited
    <2> HIDE DEF amounts
    <2>2. amounts = [t \in Tokens |-> amounts[t]]
      BY DEF amounts
    <2>3. QED
      BY <1>2, <2>1, <2>2
  <1>5. PICK ts \in SUBSET Tokens : asked \in [ts -> Nat \cup {NoLimit}]
    BY DEF Asked
  <1>6. /\ DOMAIN selling = ts \ {Stable}
        /\ \A t \in ts \ {Stable} : selling[t] = NoLimit
    BY <1>3, <1>5
  <1>7. /\ \A t \in Sold(selling) : CanSwap(t)
        /\ \E last : Round(queue', Swaps(selling), BridgeAssets(selling), 0, last)
    BY CollectStep
  <1> HIDE DEF selling, amounts, M
  <1>8. Sold(selling) = Selling(held)
    BY <1>2, <1>3, <1>5, <1>6 DEF Sold, Limited, Selling
  <1>9. PICK f, L, S, B : /\ f = held /\ L = Selling(held) /\ S = SwapsFor(held, L)
                          /\ B = BridgesFor(held)
    OBVIOUS
  <1>10. /\ Swaps(selling) = S /\ BridgeAssets(selling) = B /\ Halfway(at, f, L)
    <2>1. Sold(selling) \subseteq ts \ {Stable}
      BY <1>6 DEF Sold
    <2>2. QED
      BY <1>2, <1>6, <1>8, <1>9, <2>1, FreshRound
  <1>11. PICK after : /\ IsSimulated(at, after, f) /\ Ends(after)
                      /\ tx'.simulation.return_amount = after[M][Stable]
                      /\ tx'.simulation.rounds = after
    <2>1. tx'.simulation = Simulation(at, f) /\ Simulation(at, f).ok
      BY <1>1, <1>4, <1>9
    <2>2. PICK after : /\ IsSimulated(at, after, f)
                       /\ Simulation(at, f).ok = Ends(after)
                       /\ Simulation(at, f).return_amount = after[M][Stable]
                       /\ Simulation(at, f).rounds = after
      BY SimulationMeans DEF M
    <2>3. QED
      BY <2>1, <2>2
  <1>12. after[0] = f
    BY <1>2, <1>9, <1>11, SimulatedTypes
  <1>13. Following(after, 0)'
    <2>1. IsSimulated(tx.market, after, tx.undo)' /\ Ends(after)' /\ PairsMetOnce(after)'
      <3>1. IsSimulated(at, after, f)' /\ Ends(after)'
        BY <1>1, <1>11, SameTargets
      <3>2. QED
        BY <1>1, <1>9, <1>11, <3>1
    <2>2. Halfway(tx.market, f, L)' /\ Unmoved(tx.market, after, 0, L)'
      <3>1. Halfway(at, f, L)'
        BY <1>1, <1>10, SameTargets DEF Halfway
      <3>2. Unmoved(at, after, 0, L)'
        BY <1>1 DEF Unmoved
      <3>3. QED
        BY <1>1, <3>1, <3>2
    <2>3. SwapsFor(f, L)' = S /\ BridgesFor(f)' = B
      BY <1>1, <1>9, SameTargets
    <2>4. \E last : Round(queue', S, B, 0, last)
      BY <1>7, <1>10
    <2>5. 0 \in 0 .. M - 1 /\ L \in SUBSET Selling(f)
      BY <1>2, <1>9
    <2>6. QED
      BY <1>11, <1>12, <2>1, <2>2, <2>3, <2>4, <2>5 DEF Following, M
  <1>14. QED
    BY <1>13

\* What a collect that follows its simulation knows of the round it is in.
LEMMA FollowingMeans ==
    ASSUME ReturnsAreAmounts, IInv, tx # NoTx, NEW after, NEW k, Following(after, k)
    PROVE  /\ k \in 0 .. BRIDGES_EXECUTION_MAX_DEPTH - 1
           /\ k \in 0 .. BRIDGES_EXECUTION_MAX_DEPTH
           /\ k + 1 \in 0 .. BRIDGES_EXECUTION_MAX_DEPTH
           /\ after[k] \in [Tokens -> Nat]
           /\ after[k + 1] = SimulationRound(tx.market, after[k])
           /\ \A t \in Selling(after[k]) : CanSwap(t)
           /\ k = BRIDGES_EXECUTION_MAX_DEPTH - 1
              => \A t \in Selling(after[k]) : SwapTarget(t) = Stable
  <1> DEFINE M == BRIDGES_EXECUTION_MAX_DEPTH
  <1>0. PICK at : at = tx.market
    OBVIOUS
  <1>1. M \in Nat \ {0} /\ tx.undo \in [Tokens -> Nat] /\ at \in MarketStates
    BY <1>0, UndoType, CollectorAssumption
  <1>2. k \in 0 .. M - 1 /\ IsSimulated(at, after, tx.undo) /\ Ends(after)
    BY <1>0 DEF Following
  <1>3. k \in 0 .. M /\ k + 1 \in 0 .. M /\ k + 1 \in 1 .. M /\ (k + 1) - 1 = k
    BY <1>1, <1>2
  <1>4. /\ \A j \in 0 .. M : after[j] \in [Tokens -> Nat]
        /\ \A j \in 1 .. M : after[j] = SimulationRound(at, after[j - 1])
    BY <1>1, <1>2, SimulatedTypes
  <1>5. /\ \A round \in 1 .. M : \A t \in Selling(after[round - 1]) : CanSwap(t)
        /\ \A t \in Selling(after[M - 1]) : SwapTarget(t) = Stable
    BY <1>2 DEF Ends
  <1>6. \A t \in Selling(after[k]) : CanSwap(t)
    BY <1>3, <1>5
  <1>7. after[k + 1] = SimulationRound(at, after[k])
    BY <1>3, <1>4
  <1>8. QED
    BY <1>0, <1>2, <1>3, <1>4, <1>5, <1>6, <1>7

\* The pair that has been sold to is not met again.
LEMMA UnmovedStep ==
    ASSUME IInv, tx # NoTx, NEW after, NEW k, Following(after, k), NEW at,
           NEW L \in SUBSET Selling(after[k]), Unmoved(at, after, k, L), NEW t \in L, NEW new,
           market' = [market EXCEPT ![{t, SwapTarget(t)}] = new], UNCHANGED <<bridges, pairs>>
    PROVE  Unmoved(at, after, k, L \ {t})'
  <1> DEFINE M == BRIDGES_EXECUTION_MAX_DEPTH
             p(u) == {u, SwapTarget(u)}
  <1>1. /\ M \in Nat /\ k \in 0 .. M - 1
        /\ \A i, j \in 1 .. M :
              \A x \in Selling(after[i - 1]), u \in Selling(after[j - 1]) :
                 p(x) = p(u) => i = j /\ x = u
    BY CollectorAssumption DEF Following, PairsMetOnce
  <1>2. /\ k + 1 \in 1 .. M /\ (k + 1) - 1 = k
        /\ \A j \in k + 1 .. M - 1 : j + 1 \in 1 .. M /\ (j + 1) - 1 = j /\ j + 1 # k + 1
    BY <1>1
  <1>3. \A u \in L \ {t} : p(u) # p(t)
    BY <1>1, <1>2
  <1>4. \A j \in k + 1 .. M - 1 : \A u \in Selling(after[j]) : p(u) # p(t)
    BY <1>1, <1>2
  <1>5. market \in MarketStates /\ Config
    BY DEF IInv
  <1>6. ASSUME NEW u \in Tokens, p(u) # p(t) PROVE market'[p(u)] = market[p(u)]
    <2>1. SwapTarget(u) \in Tokens
      BY <1>5, TargetType
    <2>2. p(u) \in {{x, y} : x, y \in Tokens}
      BY <2>1
    <2>3. QED
      BY <1>5, <1>6, <2>2 DEF MarketStates
  <1>7. L \subseteq Tokens /\ \A j \in k + 1 .. M - 1 : Selling(after[j]) \subseteq Tokens
    BY DEF Selling
  <1>8. \A u : SwapTarget(u)' = SwapTarget(u)
    BY SameTargets
  <1>9. /\ \A u \in L \ {t} : market'[p(u)] = at[p(u)]
        /\ \A j \in k + 1 .. M - 1 : \A u \in Selling(after[j]) : market'[p(u)] = at[p(u)]
    BY <1>3, <1>4, <1>6, <1>7 DEF Unmoved
  <1>10. QED
    BY <1>8, <1>9 DEF Unmoved

LEMMA ExecuteSwapFollows ==
    ASSUME ReturnsAreAmounts, IInv, Follows, ExecuteSwap
    PROVE  Follows'
  <1>0. PICK at, rounds : at = tx.market /\ rounds = tx.simulation.rounds
    OBVIOUS
  <1>1. tx # NoTx /\ tx' = tx /\ UNCHANGED <<bridges, pairs>>
    BY DEF ExecuteSwap, config
  <1>2. held \in [Tokens -> Nat] /\ Config /\ at \in MarketStates
    BY <1>0, <1>1, UndoType DEF IInv
  <1>a. PairsMetOnce(tx.simulation.rounds)' => PairsMetOnce(tx.simulation.rounds)
    <2>1. PairsMetOnce(rounds)' = PairsMetOnce(rounds)
      BY <1>1, SameTargets
    <2>2. QED
      BY <1>0, <1>1, <2>1
  <1> SUFFICES ASSUME tx.simulation.ok, AskedForAll, PairsMetOnce(tx.simulation.rounds)
               PROVE  \E after, k : Following(after, k)'
    BY <1>1, <1>a DEF Follows, AskedForAll
  <1>3. PICK after, k : Following(after, k)
    BY DEF Follows
  <1>4. PICK f, B : f = after[k] /\ B = BridgesFor(f)
    OBVIOUS
  <1>5. PICK L, depth, last :
           /\ L \in SUBSET Selling(f) /\ Halfway(at, f, L) /\ Unmoved(at, after, k, L)
           /\ Round(queue, SwapsFor(f, L), B, depth, last)
    BY <1>0, <1>3, <1>4 DEF Following
  <1>6. PICK s \in SwapsFor(f, L) :
           /\ held' = [held EXCEPT ![s.from] = @ - s.amount,
                                   ![s.to] = @ + Returned(market, s.from, s.to, s.amount)]
           /\ market' = [market EXCEPT ![{s.from, s.to}] = Moved(@, s.from, s.to, s.amount)]
           /\ Round(queue', SwapsFor(f, L) \ {s}, B, depth, last)
    BY <1>5, SwapStep
  <1>7. f \in [Tokens -> Nat] /\ \A t \in Selling(f) : CanSwap(t)
    BY <1>1, <1>3, <1>4, FollowingMeans
  <1>8. PICK t \in L : Done(at, f, L, s, t)
    <2>1. Underway(at, f, L)
      BY <1>5, <1>7 DEF Underway
    <2>2. Executed(at, s)
      <3>1. s.from \in L /\ s.to = SwapTarget(s.from)
        BY DEF SwapsFor
      <3>2. market[{s.from, s.to}] = at[{s.from, s.to}]
        BY <1>5, <3>1 DEF Unmoved
      <3>3. QED
        BY <1>6, <3>2 DEF Executed, Returned
    <2>3. /\ at \in MarketStates /\ held \in [Tokens -> Nat] /\ Config /\ ReturnsAreAmounts
          /\ s \in SwapsFor(f, L)
      BY <1>2
    <2>4. QED
      BY <2>1, <2>2, <2>3, HalfwayStep
  <1>9. PICK R, S : R = L \ {t} /\ S = SwapsFor(f, R)
    OBVIOUS
  <1>10. Halfway(at, f, R)'
    <2>1. \A u \in Tokens :
             held'[u] = (IF u \in R \cup {Stable} THEN f[u] ELSE 0)
                        + Total(Brought(at, f, Selling(f) \ R, u))
      BY <1>8, <1>9 DEF Done
    <2>2. QED
      BY <1>1, <2>1, SameTargets DEF Halfway
  <1>11. SwapsFor(f, R)' = S /\ BridgesFor(f)' = B
    BY <1>1, <1>4, <1>9, SameTargets
  <1>12. Round(queue', S, B, depth, last) /\ R \in SUBSET Selling(f)
    BY <1>5, <1>6, <1>8, <1>9 DEF Done
  <1>13. IsSimulated(tx.market, after, tx.undo)' /\ Ends(after)' /\ PairsMetOnce(after)'
    <2>1. PICK amounts : amounts = tx.undo
      OBVIOUS
    <2>2. IsSimulated(at, after, amounts)' /\ Ends(after)' /\ PairsMetOnce(after)'
      BY <1>0, <1>1, <1>3, <2>1, SameTargets DEF Following
    <2>3. QED
      BY <1>0, <1>1, <2>1, <2>2
  <1>b. Unmoved(at, after, k, R)'
    <2>1. PICK new : market' = [market EXCEPT ![{t, SwapTarget(t)}] = new]
      BY <1>6, <1>8 DEF Done
    <2>2. QED
      BY <1>1, <1>3, <1>4, <1>5, <1>9, <2>1, UnmovedStep
  <1>c. Halfway(tx.market, f, R)' /\ Unmoved(tx.market, after, k, R)'
    BY <1>0, <1>1, <1>10, <1>b
  <1>14. Following(after, k)'
    BY <1>1, <1>3, <1>4, <1>c, <1>11, <1>12, <1>13 DEF Following
  <1>15. QED
    BY <1>14

\* The next round: all that the last one brought is sold.
LEMMA SwapBridgeAssetsFollows ==
    ASSUME ReturnsAreAmounts, IInv, Apart, Follows, SwapBridgeAssets
    PROVE  Follows'
  <1> DEFINE M == BRIDGES_EXECUTION_MAX_DEPTH
  <1>0. PICK at, rounds : at = tx.market /\ rounds = tx.simulation.rounds
    OBVIOUS
  <1>1. /\ tx # NoTx /\ tx' = tx /\ held' = held /\ market' = market
        /\ UNCHANGED <<bridges, pairs>>
    BY DEF SwapBridgeAssets, config
  <1>2. held \in [Tokens -> Nat] /\ Config /\ M \in Nat \ {0} /\ at \in MarketStates
    BY <1>0, <1>1, CollectorAssumption, UndoType DEF IInv
  <1>a. PairsMetOnce(tx.simulation.rounds)' => PairsMetOnce(tx.simulation.rounds)
    <2>1. PairsMetOnce(rounds)' = PairsMetOnce(rounds)
      BY <1>1, SameTargets
    <2>2. QED
      BY <1>0, <1>1, <2>1
  <1> SUFFICES ASSUME tx.simulation.ok, AskedForAll, PairsMetOnce(tx.simulation.rounds)
               PROVE  \E after, k : Following(after, k)'
    BY <1>1, <1>a DEF Follows, AskedForAll
  <1>3. PICK after, k : Following(after, k)
    BY DEF Follows
  <1>4. PICK f, B : f = after[k] /\ B = BridgesFor(f)
    OBVIOUS
  <1>5. PICK L, depth, last :
           /\ L \in SUBSET Selling(f) /\ Halfway(at, f, L) /\ Unmoved(at, after, k, L)
           /\ Round(queue, SwapsFor(f, L), B, depth, last)
    BY <1>0, <1>3, <1>4 DEF Following
  <1>6. /\ k \in 0 .. M - 1 /\ f \in [Tokens -> Nat]
        /\ after[k + 1] = SimulationRound(at, f)
        /\ \A t \in Selling(f) : CanSwap(t)
        /\ k = M - 1 => \A t \in Selling(f) : SwapTarget(t) = Stable
    BY <1>0, <1>1, <1>3, <1>4, FollowingMeans
  <1>7. PICK asked : asked = [t \in B |-> NoLimit]
    OBVIOUS
  <1>8. /\ SwapsFor(f, L) = {} /\ B # {} /\ B \in SUBSET Tokens
        /\ Round(queue', Swaps(asked), BridgeAssets(asked), depth + 1, last)
    BY <1>5, <1>7, CallStep
  <1>9. L = {}
    BY <1>8 DEF SwapsFor
  <1>10. held = SimulationRound(at, f)
    BY <1>2, <1>5, <1>6, <1>9, RoundOver
  <1>11. Stable \notin B /\ Selling(held) \subseteq B
    BY <1>2, <1>4, <1>6, <1>10, RoundLeaves
  <1>12. Sold(asked) = Selling(held) /\ \A t \in Sold(asked) : asked[t] = NoLimit
    BY <1>2, <1>7, <1>8, <1>11 DEF Sold, Selling, Limited
  <1>13. PICK g, R, S, A : /\ g = held /\ R = Selling(held) /\ S = SwapsFor(held, R)
                           /\ A = BridgesFor(held)
    OBVIOUS
  <1>14. Swaps(asked) = S /\ BridgeAssets(asked) = A /\ Halfway(at, g, R)
    BY <1>2, <1>12, <1>13, FreshRound
  <1>15. k # M - 1
    <2>1. SUFFICES ASSUME k = M - 1 PROVE FALSE
      OBVIOUS
    <2>2. PICK t \in Selling(f) : ViaBridge(t)
      BY <1>4, <1>8 DEF BridgesFor
    <2>3. SwapTarget(t) = Stable /\ CanSwap(t) /\ t \in Tokens
      BY <1>6, <2>1 DEF Selling
    <2>4. QED
      BY <2>2, <2>3, TargetOrBridge
  <1>16. k + 1 \in 0 .. M - 1
    BY <1>2, <1>6, <1>15
  <1>17. Halfway(tx.market, g, R)' /\ Unmoved(tx.market, after, k + 1, R)'
    <2>1. Halfway(at, g, R)'
      BY <1>1, <1>14, SameTargets DEF Halfway
    <2>2. /\ \A j \in k + 1 .. M - 1 : \A t \in Selling(after[j]) :
                market[{t, SwapTarget(t)}] = at[{t, SwapTarget(t)}]
          /\ R = Selling(after[k + 1]) /\ k + 1 \in k + 1 .. M - 1
          /\ \A j \in (k + 1) + 1 .. M - 1 : j \in k + 1 .. M - 1
      BY <1>5, <1>6, <1>10, <1>13, <1>16 DEF Unmoved
    <2>3. \A t : SwapTarget(t)' = SwapTarget(t)
      BY <1>1, SameTargets
    <2>4. Unmoved(at, after, k + 1, R)'
      BY <1>1, <2>2, <2>3 DEF Unmoved
    <2>5. QED
      BY <1>0, <1>1, <2>1, <2>4
  <1>18. SwapsFor(g, R)' = S /\ BridgesFor(g)' = A
    BY <1>1, <1>13, SameTargets
  <1>19. IsSimulated(tx.market, after, tx.undo)' /\ Ends(after)' /\ PairsMetOnce(after)'
    <2>1. PICK amounts : amounts = tx.undo
      OBVIOUS
    <2>2. IsSimulated(at, after, amounts)' /\ Ends(after)' /\ PairsMetOnce(after)'
      BY <1>0, <1>1, <1>3, <2>1, SameTargets DEF Following
    <2>3. QED
      BY <1>0, <1>1, <2>1, <2>2
  <1>20. Following(after, k + 1)'
    <2>1. after[k + 1] = g /\ R \in SUBSET Selling(g)
      BY <1>6, <1>10, <1>13
    <2>2. Round(queue', S, A, depth + 1, last)
      BY <1>8, <1>14
    <2>3. tx'.simulation.return_amount = after[M][Stable]
      BY <1>1, <1>3 DEF Following
    <2> HIDE DEF M
    <2>4. QED
      BY <1>16, <1>17, <1>18, <1>19, <2>1, <2>2, <2>3 DEF Following, M
  <1>21. QED
    BY <1>20

\* When the distribution is next, all rounds are over.
LEMMA FollowedAgrees ==
    ASSUME ReturnsAreAmounts, IInv, Apart, tx # NoTx => Follows
    PROVE  SimulationAgrees
  <1> DEFINE M == BRIDGES_EXECUTION_MAX_DEPTH
  <1> SUFFICES ASSUME tx # NoTx, Head(queue).type = "DistributeFees", tx.simulation.ok,
                      AskedForAll, PairsMetOnce(tx.simulation.rounds)
               PROVE  held[Stable] = tx.simulation.return_amount
    BY DEF SimulationAgrees
  <1>0. PICK at : at = tx.market
    OBVIOUS
  <1>1. held \in [Tokens -> Nat] /\ tx.undo \in [Tokens -> Nat] /\ at \in MarketStates
    BY <1>0, UndoType DEF IInv
  <1>2. PICK after, k : Following(after, k)
    BY DEF Follows
  <1>3. PICK f : f = after[k]
    OBVIOUS
  <1>4. PICK L, depth, last :
           /\ L \in SUBSET Selling(f) /\ Halfway(at, f, L)
           /\ Round(queue, SwapsFor(f, L), BridgesFor(f), depth, last)
    BY <1>0, <1>2, <1>3 DEF Following
  <1>5. SwapsFor(f, L) = {} /\ BridgesFor(f) = {}
    BY <1>4, MessageForms
  <1>6. L = {}
    BY <1>5 DEF SwapsFor
  <1>7. /\ k + 1 \in 0 .. M /\ f \in [Tokens -> Nat]
        /\ after[k + 1] = SimulationRound(at, f)
        /\ \A t \in Selling(f) : CanSwap(t)
    BY <1>0, <1>2, <1>3, FollowingMeans
  <1>8. held = after[k + 1]
    BY <1>1, <1>4, <1>6, <1>7, RoundOver
  <1>9. Selling(after[k + 1]) = {}
    BY <1>1, <1>5, <1>7, RoundLeaves
  <1>10. IsSimulated(at, after, tx.undo) /\ tx.simulation.return_amount = after[M][Stable]
    BY <1>0, <1>2 DEF Following
  <1>11. after[M][Stable] = after[k + 1][Stable]
    BY <1>1, <1>7, <1>9, <1>10, SimulationRests
  <1>12. QED
    BY <1>8, <1>10, <1>11

\* A bridge to the stablecoin is valid only if the stablecoin has one.
LEMMA UpdateBridgesApart ==
    ASSUME StableHasNoBridge, Config, Apart, NEW sender, NEW add \in Additions, NEW remove,
           UpdateBridges(sender, add, remove)
    PROVE  Apart'
  <1> DEFINE kept == DOMAIN bridges \ remove
  <1>1. PICK map : map = [t \in kept \cup DOMAIN add |-> IF t \in DOMAIN add THEN add[t]
                                                         ELSE bridges[t]]
    OBVIOUS
  <1>2. bridges' = map /\ ValidBridges(map)
    BY <1>1 DEF UpdateBridges
  <1>3. \A t \in DOMAIN add : t # Stable
    <2>1. CASE add = <<>>
      BY <2>1
    <2>2. CASE \E b \in Bridges : add = [t \in {b[1]} |-> b[2]]
      <3>1. PICK b \in Bridges : add = [t \in {b[1]} |-> b[2]]
        BY <2>2
      <3>2. DOMAIN add = {b[1]} /\ b[1] # Stable
        BY <3>1 DEF StableHasNoBridge
      <3>3. QED
        BY <3>2
    <2>3. QED
      BY <2>1, <2>2 DEF Additions
  <1>4. \A t \in DOMAIN map : t # Stable
    BY <1>1, <1>3 DEF Apart
  <1>5. PICK f : IsValid(f, map) /\ f[0] = DOMAIN map
    BY <1>2, ValidMeans
  <1>6. BRIDGES_MAX_DEPTH \in Nat
    BY CollectorAssumption
  <1>7. \A d \in 0 .. BRIDGES_MAX_DEPTH : f[d] = ValidStep(f, map, d)
    BY <1>5 DEF IsValid
  <1>8. \A d \in 0 .. BRIDGES_MAX_DEPTH : f[d] \subseteq DOMAIN map
    BY <1>7 DEF ValidStep
  <1>9. ASSUME NEW t \in DOMAIN map, map[t] = Stable PROVE FALSE
    <2>1. t \in ValidStep(f, map, 0)
      BY <1>5, <1>6, <1>7
    <2>2. ~HasPair(Stable, Stable)
      BY PairsDiffer DEF Config
    <2>3. 0 < BRIDGES_MAX_DEPTH /\ Stable \in f[0 + 1]
      BY <1>9, <2>1, <2>2 DEF ValidStep
    <2>4. 0 + 1 \in 0 .. BRIDGES_MAX_DEPTH
      BY <1>6, <2>3
    <2>5. QED
      BY <1>4, <1>8, <2>3, <2>4
  <1>10. QED
    BY <1>2, <1>4, <1>9 DEF Apart

LEMMA NextFollows ==
    ASSUME ReturnsAreAmounts, StableHasNoBridge, IInv, Apart, tx # NoTx => Follows, [Next]_vars
    PROVE  Apart' /\ (tx' # NoTx => Follows')
  <1>1. ASSUME UNCHANGED bridges PROVE Apart'
    BY <1>1 DEF Apart
  <1>2. ASSUME ExecuteSwap PROVE Apart' /\ Follows'
    BY <1>1, <1>2, ExecuteSwapFollows DEF ExecuteSwap, config
  <1>3. ASSUME SwapBridgeAssets PROVE Apart' /\ Follows'
    BY <1>1, <1>3, SwapBridgeAssetsFollows DEF SwapBridgeAssets, config
  <1>4. ASSUME DistributeFees \/ Revert PROVE Apart' /\ tx' = NoTx
    BY <1>1, <1>4 DEF DistributeFees, Revert, config
  <1>5. ASSUME Handover PROVE Apart' /\ tx' = NoTx
    BY <1>1, <1>5 DEF Handover, config
  <1>6. ASSUME NEW a \in Accounts, NEW asked \in Asks, NEW m \in Minimums, Collect(a, asked, m)
        PROVE  Apart' /\ Follows'
    <2>1. Asked(asked) /\ m \in Nat
      BY AskedTypes, CollectorAssumption
    <2>2. Follows'
      BY <1>6, <2>1, CollectFollows
    <2>3. QED
      BY <1>1, <1>6, <2>2 DEF Collect, config
  <1>7. ASSUME NEW a, NEW o, NEW l, NEW p, UpdateConfig(a, o, l, p)
        PROVE  Apart' /\ tx' = NoTx
    BY <1>1, <1>7 DEF UpdateConfig
  <1>8. ASSUME NEW a, NEW add \in Additions, NEW remove, UpdateBridges(a, add, remove)
        PROVE  Apart' /\ tx' = NoTx
    BY <1>8, UpdateBridgesApart DEF UpdateBridges, IInv
  <1>9. ASSUME NEW p, FactoryChanges(p) PROVE Apart' /\ tx' = NoTx
    BY <1>1, <1>9 DEF FactoryChanges
  <1>10. ASSUME NEW t, ReceiveFee(t) PROVE Apart' /\ tx' = NoTx
    BY <1>1, <1>10 DEF ReceiveFee, config
  <1>13. ASSUME OthersTrade PROVE Apart' /\ tx' = NoTx
    BY <1>1, <1>13 DEF OthersTrade, config
  <1>11. ASSUME UNCHANGED vars PROVE Apart' /\ (tx' # NoTx => Follows')
    <2>1. UNCHANGED <<bridges, pairs, market, held, queue, tx>>
      BY <1>11 DEF vars, config
    <2>2. ASSUME NEW after, NEW k, Following(after, k) PROVE Following(after, k)'
      <3>1. PICK f, at, amounts : f = after[k] /\ at = tx.market /\ amounts = tx.undo
        OBVIOUS
      <3>2. PICK L, depth, last :
               /\ L \in SUBSET Selling(f) /\ Halfway(at, f, L) /\ Unmoved(at, after, k, L)
               /\ Round(queue, SwapsFor(f, L), BridgesFor(f), depth, last)
        BY <2>2, <3>1 DEF Following
      <3>3. Halfway(tx.market, f, L)' /\ Unmoved(tx.market, after, k, L)'
        <4>1. Halfway(at, f, L)'
          BY <2>1, <3>2, SameTargets DEF Halfway
        <4>2. Unmoved(at, after, k, L)'
          BY <2>1, <3>2, SameTargets DEF Unmoved
        <4>3. QED
          BY <2>1, <3>1, <4>1, <4>2
      <3>4. SwapsFor(f, L)' = SwapsFor(f, L) /\ BridgesFor(f)' = BridgesFor(f)
        BY <2>1, SameTargets
      <3>5. IsSimulated(at, after, amounts)' /\ Ends(after)' /\ PairsMetOnce(after)'
        BY <2>1, <2>2, <3>1, SameTargets DEF Following
      <3>6. IsSimulated(tx.market, after, tx.undo)'
        BY <2>1, <3>1, <3>5
      <3>7. Round(queue', SwapsFor(f, L)', BridgesFor(f)', depth, last)
        BY <2>1, <3>2, <3>4
      <3>8. QED
        BY <2>1, <2>2, <3>1, <3>2, <3>3, <3>5, <3>6, <3>7 DEF Following
    <2>3. Follows => Follows'
      <3>1. PICK rounds : rounds = tx.simulation.rounds
        OBVIOUS
      <3>2. PairsMetOnce(rounds)' = PairsMetOnce(rounds)
        BY <2>1, SameTargets
      <3>3. PairsMetOnce(tx.simulation.rounds)' => PairsMetOnce(tx.simulation.rounds)
        BY <2>1, <3>1, <3>2
      <3>4. QED
        BY <2>1, <2>2, <3>3 DEF Follows, AskedForAll
    <2>4. QED
      BY <1>1, <2>1, <2>3
  <1>12. QED
    BY <1>2, <1>3, <1>4, <1>5, <1>6, <1>7, <1>8, <1>9, <1>10, <1>11, <1>13
       DEF Next, NextMessage

\* If the stablecoin itself has no bridge, a collect of all that lies on the
\* contract, none of whose swaps meet the same pair, brings what its simulation
\* told: the execution is, after each round and in whatever order the round's
\* swaps run, where the simulation is, whatever a swap does to the pair it meets.
THEOREM SimulationsAgree ==
    ASSUME ReturnsAreAmounts, StableHasNoBridge
    PROVE  Spec => []SimulationAgrees
  <1>1. Init => Apart /\ (tx # NoTx => Follows)
    <2> SUFFICES ASSUME Init PROVE Apart /\ tx = NoTx
      OBVIOUS
    <2>2. DOMAIN bridges = {}
      BY DEF Init
    <2>3. tx = NoTx
      BY DEF Init
    <2>4. QED
      BY <2>2, <2>3 DEF Apart
  <1>2. IInv /\ (Apart /\ (tx # NoTx => Follows)) /\ [Next]_vars
        => (Apart /\ (tx # NoTx => Follows))'
    BY NextFollows
  <1>3. IInv /\ (Apart /\ (tx # NoTx => Follows)) => SimulationAgrees
    BY FollowedAgrees
  <1>4. QED
    BY <1>1, <1>2, <1>3, Invariance, PTL DEF Spec
=============================================================================
