------------------------- MODULE EvmLiquidityProofs -------------------------
(***************************************************************************)
(* Proofs about EvmLiquidityLayer: for any number of orders, chains and     *)
(* accounts, any fees and any auction parameters the constructors accept.  *)
(***************************************************************************)
EXTENDS EvmLiquidityLayer, TLAPS

\* What the source router checked of the fees of a fast order.
Agreed(o) ==
    order[o].kind = "fast" =>
        /\ order[o].maxFee + order[o].initAuctionFee = MaxFee[o]
        /\ order[o].baseFee < order[o].maxFee
        /\ MaxFee[o] < AmountIn[o]

\* The stages of an order: placed, auctioned, filled, its own USDC received.
Stage(o) ==
    LET a == auction[o]
    IN  /\ a.status = "None" =>
              /\ ~received[o] /\ fast[o] = 0
              /\ a.highestBidder = NoAccount /\ a.securityDeposit = 0
              /\ order[o].kind = "market" => slow[o] = 1
              /\ order[o].kind # "market" => slow[o] = 0 /\ fill[o].type = "none"
              /\ fill[o].type # "FastFill"
        /\ a.status # "None" => order[o].kind = "fast"
        /\ a.status = "Active" =>
              /\ ~received[o] /\ fast[o] = 0 /\ slow[o] = 0
              /\ fill[o].type = "none"
              /\ a.highestBidder \in Accounts /\ a.initialBidder \in Accounts
              /\ a.startBlock <= now
              /\ a.bidPrice <= a.securityDeposit
        /\ a.status = "Completed" =>
              IF received[o] THEN fast[o] + slow[o] = 1
                             ELSE fast[o] = 1 /\ slow[o] = 0
        /\ fast[o] = 1 \/ a.status = "Active" =>
              /\ a.amount = AmountIn[o] /\ a.securityDeposit = order[o].maxFee

\* EngineHoldsWhatItOwes of one order.
Owed(o) ==
    held[o] = (IF auction[o].status = "Active"
               THEN auction[o].amount + auction[o].securityDeposit ELSE 0)
                + Unredeemed(o)

\* What account a has paid for order o and not got back, at most.
AtStake(o, a) ==
    Share(a, auction[o].highestBidder,
          (IF received[o] THEN 0 ELSE auction[o].amount)
              + auction[o].securityDeposit)

\* BiddersAreWhole of one order, and what it needs of the other stages.
Whole(o) ==
    \A a \in Accounts :
        /\ auction[o].status = "None" => net[o][a] = 0
        /\ auction[o].status = "Active" => net[o][a] = -AtStake(o, a)
        /\ auction[o].status = "Completed" => net[o][a] >= -AtStake(o, a)

OrderInv(o) == Agreed(o) /\ Stage(o) /\ Owed(o) /\ Whole(o)

\* The messages of a router have different sequence numbers.
Sequenced ==
    \A o, s \in Orders :
        order[o].kind = "fast" /\ order[s].kind = "fast" =>
            /\ order[o].fastSequence = order[o].sequence + 1
            /\ order[o].sequence < sequence[order[o].source]
            /\ order[o].source = order[s].source
                 /\ order[o].sequence = order[s].sequence => o = s

\* The inductive invariant.
EvmInv == TypeOK /\ Sequenced /\ \A o \in Orders : OrderInv(o)
-----------------------------------------------------------------------------
(* Arithmetic *)

\* A part b / m of a, rounded down, is no more than a.
LEMMA PartBound ==
    ASSUME NEW a \in Nat, NEW b \in Nat, NEW m \in Nat \ {0}, b <= m
    PROVE  (a * b) \div m \in 0 .. a
<1> DEFINE q == (a * b) \div m
<1>1. a * b \in Nat /\ a * b <= a * m
  OBVIOUS
<1>2. q \in Nat /\ q * m <= a * b
  BY <1>1
<1>3. q * m <= a * m
  BY <1>1, <1>2
<1>4. q <= a
  <2>1. SUFFICES ASSUME q >= a + 1 PROVE FALSE
    BY <1>2
  <2>2. q * m >= (a + 1) * m
    BY <2>1, <1>2
  <2>3. (a + 1) * m = a * m + m
    OBVIOUS
  <2> QED BY <2>2, <2>3, <1>3, <1>2
<1> QED BY <1>2, <1>4

LEMMA ProductBound ==
    ASSUME NEW a \in Nat, NEW b \in Nat, NEW c \in Nat, NEW d \in Nat,
           a <= c, b <= d
    PROVE  a * b \in Nat /\ a * b <= c * d
<1>1. a * b <= c * b
  OBVIOUS
<1>2. c * b <= c * d
  OBVIOUS
<1> QED BY <1>1, <1>2

LEMMA ParameterTypes ==
    /\ MAX_BPS_FEE \in Nat \ {0} /\ AuctionPenaltyBlocks \in Nat
    /\ AuctionGracePeriod \in Nat /\ AuctionDuration \in Nat /\ UINT64_MAX \in Nat
    /\ UserPenaltyRewardBps \in 0 .. MAX_BPS_FEE
    /\ InitialPenaltyBps \in 0 .. MAX_BPS_FEE
BY EvmAssumption

LEMMA MulBpsBound ==
    ASSUME NEW amount \in Nat, NEW bps \in 0 .. MAX_BPS_FEE
    PROVE  MulBps(amount, bps) \in 0 .. amount
<1>1. MAX_BPS_FEE \in Nat \ {0} /\ bps \in Nat /\ bps <= MAX_BPS_FEE
  BY ParameterTypes
<1>2. (amount * bps) \div MAX_BPS_FEE \in 0 .. amount
  BY <1>1, PartBound
<1> QED BY <1>2 DEF MulBps

LEMMA LostBound ==
    ASSUME NEW amount \in Nat, NEW late \in Nat
    PROVE  LostDeposit(amount, late) \in 0 .. amount
<1> DEFINE base == MulBps(amount, InitialPenaltyBps)
           rest == ((amount - base) * late) \div AuctionPenaltyBlocks
<1>1. CASE late >= AuctionPenaltyBlocks \/ InitialPenaltyBps = MAX_BPS_FEE
  BY <1>1 DEF LostDeposit
<1>2. CASE ~(late >= AuctionPenaltyBlocks \/ InitialPenaltyBps = MAX_BPS_FEE)
  <2>1. base \in 0 .. amount
    BY MulBpsBound, ParameterTypes
  <2>. HIDE DEF base
  <2>2. AuctionPenaltyBlocks \in Nat \ {0} /\ late <= AuctionPenaltyBlocks
    BY <1>2, ParameterTypes
  <2>3. amount - base \in Nat
    BY <2>1
  <2>4. rest \in 0 .. (amount - base)
    BY <2>2, <2>3, PartBound
  <2>. HIDE DEF rest
  <2>5. LostDeposit(amount, late) = base + rest
    BY <1>2 DEF LostDeposit, base, rest
  <2> QED BY <2>1, <2>4, <2>5
<1> QED BY <1>1, <1>2

\* calculateDynamicPenalty: the caller and the user share what is lost of the
\* deposit, never more than it.
LEMMA PenaltyBound ==
    ASSUME NEW amount \in Nat, NEW elapsed \in Nat
    PROVE  LET p == CalculateDynamicPenalty(amount, elapsed)
           IN  /\ p.penalty \in Nat /\ p.userReward \in Nat
               /\ p.penalty + p.userReward <= amount
<1>1. CASE elapsed <= AuctionGracePeriod
  BY <1>1 DEF CalculateDynamicPenalty
<1>2. CASE ~(elapsed <= AuctionGracePeriod)
  <2> DEFINE lost == LostDeposit(amount, elapsed - AuctionGracePeriod)
             reward == MulBps(lost, UserPenaltyRewardBps)
  <2>1. elapsed - AuctionGracePeriod \in Nat
    BY <1>2, ParameterTypes
  <2>2. lost \in 0 .. amount
    BY <2>1, LostBound
  <2>. HIDE DEF lost
  <2>3. reward \in 0 .. lost
    BY <2>2, MulBpsBound, ParameterTypes
  <2>. HIDE DEF reward
  <2>4. CalculateDynamicPenalty(amount, elapsed)
          = [penalty |-> lost - reward, userReward |-> reward]
    BY <1>2 DEF CalculateDynamicPenalty, lost, reward
  <2> QED BY <2>2, <2>3, <2>4
<1> QED BY <1>1, <1>2

LEMMA PenaltyNeverOverflows ==
    ASSUME NEW o \in Orders, NEW amount \in Nat, NEW elapsed \in Nat,
           amount <= MaxFee[o]
    PROVE  PenaltyFits(amount, elapsed)
<1> DEFINE late == elapsed - AuctionGracePeriod
           lost == LostDeposit(amount, late)
           rest == amount - MulBps(amount, InitialPenaltyBps)
<1>1. SUFFICES ASSUME late > 0
               PROVE  /\ lost * UserPenaltyRewardBps <= UINT64_MAX
                      /\ late < AuctionPenaltyBlocks =>
                           /\ amount * InitialPenaltyBps <= UINT64_MAX
                           /\ rest * late <= UINT64_MAX
  BY DEF PenaltyFits
<1>2. /\ late \in Nat /\ MaxFee[o] \in Nat /\ MAX_BPS_FEE \in Nat
      /\ UserPenaltyRewardBps \in Nat /\ UserPenaltyRewardBps <= MAX_BPS_FEE
      /\ InitialPenaltyBps \in Nat /\ InitialPenaltyBps <= MAX_BPS_FEE
      /\ AuctionPenaltyBlocks \in Nat /\ UINT64_MAX \in Nat
      /\ MaxFee[o] * MAX_BPS_FEE <= UINT64_MAX
      /\ MaxFee[o] * AuctionPenaltyBlocks <= UINT64_MAX
  BY <1>1, ParameterTypes, EvmAssumption
<1>3. lost \in Nat /\ lost <= MaxFee[o]
  <2>1. late \in Nat
    BY <1>2
  <2>2. lost \in 0 .. amount
    BY <2>1, LostBound
  <2>. HIDE DEF lost
  <2> QED BY <2>2, <1>2
<1>4. rest \in Nat /\ rest <= MaxFee[o]
  <2>1. MulBps(amount, InitialPenaltyBps) \in 0 .. amount
    BY MulBpsBound, ParameterTypes
  <2> QED BY <2>1, <1>2
<1>. HIDE DEF lost, rest, late
<1>5. /\ lost * UserPenaltyRewardBps \in Nat
      /\ lost * UserPenaltyRewardBps <= MaxFee[o] * MAX_BPS_FEE
  BY <1>2, <1>3, ProductBound
<1>6. /\ amount * InitialPenaltyBps \in Nat
      /\ amount * InitialPenaltyBps <= MaxFee[o] * MAX_BPS_FEE
  BY <1>2, ProductBound
<1>7. ASSUME late < AuctionPenaltyBlocks
      PROVE  rest * late \in Nat /\ rest * late <= MaxFee[o] * AuctionPenaltyBlocks
  <2>1. late <= AuctionPenaltyBlocks
    BY <1>2, <1>7
  <2> QED BY <1>2, <1>4, <2>1, ProductBound
<1>8. MaxFee[o] * MAX_BPS_FEE \in Int /\ MaxFee[o] * AuctionPenaltyBlocks \in Int
  BY <1>2
<1> QED BY <1>2, <1>5, <1>6, <1>7, <1>8
-----------------------------------------------------------------------------
(* Types and frames *)

LEMMA NoValues ==
    /\ NoOrder \in Messages /\ NoAuction \in LiveAuctionData /\ NoFill \in Fills
    /\ NoEndpoint \in Endpoints /\ Registered \in Endpoints
BY EvmAssumption
   DEF NoOrder, Messages, NoAuction, LiveAuctionData, NoFill, Fills, Contracts,
       NoEndpoint, Registered, Endpoints

LEMMA OrderTypes ==
    ASSUME TypeOK, NEW o \in Orders
    PROVE  /\ order[o] \in Messages /\ auction[o] \in LiveAuctionData
           /\ fill[o] \in Fills /\ held[o] \in Nat /\ received[o] \in BOOLEAN
           /\ net[o] \in [Accounts -> Int]
           /\ fast[o] \in Nat /\ slow[o] \in Nat /\ paid[o] \in Nat
           /\ AmountIn[o] \in Nat /\ MaxFee[o] \in Nat /\ Target[o] \in Chains
BY EvmAssumption DEF TypeOK

LEMMA AmountTypes ==
    ASSUME TypeOK, NEW o \in Orders
    PROVE  /\ order[o].baseFee \in Nat /\ order[o].maxFee \in Nat
           /\ order[o].initAuctionFee \in Nat /\ order[o].source \in Chains
           /\ order[o].sequence \in Nat /\ order[o].fastSequence \in Nat
           /\ auction[o].amount \in Nat /\ auction[o].securityDeposit \in Nat
           /\ auction[o].bidPrice \in Nat /\ auction[o].startBlock \in Nat
           /\ fill[o].amount \in Nat
           /\ auction[o].status \in {"None", "Active", "Completed"}
           /\ order[o].kind \in {"none", "market", "fast"}
BY OrderTypes DEF Messages, LiveAuctionData, Fills

\* Nothing happens to order x.
Same(x) ==
    /\ order'[x] = order[x] /\ auction'[x] = auction[x] /\ held'[x] = held[x]
    /\ received'[x] = received[x] /\ fill'[x] = fill[x] /\ net'[x] = net[x]
    /\ fast'[x] = fast[x] /\ slow'[x] = slow[x]

LEMMA SameInv ==
    ASSUME TypeOK, TypeOK', now <= now', NEW x \in Orders, OrderInv(x), Same(x)
    PROVE  OrderInv(x)'
<1>1. /\ now \in Nat /\ now' \in Nat /\ auction[x].startBlock \in Nat
  BY AmountTypes DEF TypeOK
<1>2. Agreed(x)'
  BY DEF OrderInv, Agreed, Same
<1>3. Stage(x)'
  BY <1>1 DEF OrderInv, Stage, Same
<1>4. Owed(x)'
  BY DEF OrderInv, Owed, Unredeemed, Same
<1>5. Whole(x)'
  BY DEF OrderInv, Whole, AtStake, Share, Same
<1> QED BY <1>2, <1>3, <1>4, <1>5 DEF OrderInv

\* A step that changes one order.
LEMMA ChangeOne ==
    ASSUME EvmInv, NEW o \in Orders, TypeOK', Sequenced', now <= now',
           \A x \in Orders \ {o} : Same(x), OrderInv(o)'
    PROVE  EvmInv'
<1>1. \A x \in Orders : OrderInv(x)'
  <2> TAKE x \in Orders
  <2>1. CASE x = o
    BY <2>1
  <2>2. CASE x # o
    BY <2>2, SameInv DEF EvmInv
  <2> QED BY <2>1, <2>2
<1> QED BY <1>1 DEF EvmInv

\* A step that changes no order.
LEMMA ChangeNone ==
    ASSUME EvmInv, TypeOK', now <= now', UNCHANGED <<order, sequence, engineVars>>
    PROVE  EvmInv'
<1>1. \A x \in Orders : Same(x)
  BY DEF Same, engineVars
<1>2. \A x \in Orders : OrderInv(x)'
  BY <1>1, SameInv DEF EvmInv
<1>3. Sequenced'
  BY DEF EvmInv, Sequenced
<1> QED BY <1>2, <1>3 DEF EvmInv

LEMMA SequencedFrame ==
    ASSUME EvmInv, UNCHANGED <<order, sequence>>
    PROVE  Sequenced'
BY DEF EvmInv, Sequenced

LEMMA InitInv == Init => EvmInv
<1> SUFFICES ASSUME Init PROVE EvmInv
  OBVIOUS
<1>1. TypeOK
  BY NoValues, EvmAssumption DEF Init, TypeOK
<1>2. Sequenced
  BY DEF Init, Sequenced, NoOrder
<1>3. \A o \in Orders : OrderInv(o)
  <2> TAKE o \in Orders
  <2>1. Agreed(o)
    BY DEF Init, Agreed, NoOrder
  <2>2. Stage(o)
    BY DEF Init, Stage, NoOrder, NoAuction, NoFill
  <2>3. Owed(o)
    BY DEF Init, Owed, NoAuction, NoFill, Unredeemed
  <2>4. Whole(o)
    BY DEF Init, Whole, NoAuction
  <2> QED BY <2>1, <2>2, <2>3, <2>4 DEF OrderInv
<1> QED BY <1>1, <1>2, <1>3 DEF EvmInv
-----------------------------------------------------------------------------
(* Placing orders *)

LEMMA PlaceMarketInv ==
    ASSUME EvmInv, NEW o \in Orders, NEW c \in Chains, PlaceMarketOrder(o, c)
    PROVE  EvmInv'
<1> DEFINE m == [NoOrder EXCEPT !.kind = "market", !.source = c,
                                !.sequence = sequence[c], !.timestamp = now]
           f == [type |-> "Fill", emitter |-> c,
                 router |-> endpoint[c][Target[o]].router,
                 amount |-> AmountIn[o], redeemed |-> FALSE]
<1> USE DEF EvmInv
<1>1. /\ order[o].kind = "none"
      /\ order' = [order EXCEPT ![o] = m]
      /\ sequence' = [sequence EXCEPT ![c] = @ + 1]
      /\ fill' = [fill EXCEPT ![o] = f]
      /\ slow' = [slow EXCEPT ![o] = @ + 1]
      /\ paid' = [paid EXCEPT ![o] = @ + AmountIn[o]]
      /\ calls' = calls + 1
      /\ UNCHANGED <<now, paused, params, auction, held, received, net, fast,
                     adminVars>>
  BY DEF PlaceMarketOrder, Call
<1>2. /\ sequence[c] \in Nat /\ now \in Nat /\ AmountIn[o] \in Nat
      /\ endpoint[c][Target[o]] \in Endpoints
  BY OrderTypes DEF TypeOK, Contracts
<1>3. m \in Messages /\ f \in Fills /\ m.kind = "market"
  BY <1>2, NoValues DEF Messages, Fills, Endpoints, Contracts, NoOrder
<1>. HIDE DEF m
<1>4. TypeOK'
  BY <1>1, <1>2, <1>3 DEF TypeOK, adminVars
<1>5. Sequenced'
  BY <1>1, <1>2, <1>3, AmountTypes DEF Sequenced, TypeOK
<1>6. \A x \in Orders \ {o} : Same(x)
  BY <1>1 DEF Same, TypeOK
<1>7. /\ order'[o] = m /\ fill'[o] = f /\ slow'[o] = slow[o] + 1
      /\ auction'[o] = auction[o] /\ held'[o] = held[o] /\ net'[o] = net[o]
      /\ received'[o] = received[o] /\ fast'[o] = fast[o]
  BY <1>1 DEF TypeOK
<1>8. /\ auction[o].status = "None" /\ slow[o] = 0 /\ fill[o].type = "none"
      /\ held[o] = 0
  BY <1>1, AmountTypes DEF OrderInv, Stage, Owed, Unredeemed
<1>9. OrderInv(o)'
  <2>1. Agreed(o)'
    BY <1>7, <1>3 DEF Agreed
  <2>2. Stage(o)'
    BY <1>7, <1>8, <1>3 DEF OrderInv, Stage
  <2>3. Owed(o)'
    BY <1>7, <1>8 DEF Owed, Unredeemed
  <2>4. Whole(o)'
    BY <1>7, <1>8 DEF OrderInv, Whole
  <2> QED BY <2>1, <2>2, <2>3, <2>4 DEF OrderInv
<1>10. now <= now'
  BY <1>1, <1>2
<1> QED BY <1>4, <1>5, <1>6, <1>9, <1>10, ChangeOne

LEMMA PlaceFastInv ==
    ASSUME EvmInv, NEW o \in Orders, NEW c \in Chains, NEW d \in Deadlines[o],
           PlaceFastMarketOrder(o, c, d)
    PROVE  EvmInv'
<1> DEFINE p == params[c]
           m == [kind |-> "fast", source |-> c, sequence |-> sequence[c],
                 fastSequence |-> sequence[c] + 1, timestamp |-> now,
                 baseFee |-> p.baseFee, maxFee |-> MaxFee[o] - p.initAuctionFee,
                 initAuctionFee |-> p.initAuctionFee, deadline |-> d]
<1> USE DEF EvmInv
<1>1. /\ order[o].kind = "none"
      /\ MaxFee[o] >= p.baseFee + p.initAuctionFee + 1
      /\ AmountIn[o] > MaxFee[o]
      /\ order' = [order EXCEPT ![o] = m]
      /\ sequence' = [sequence EXCEPT ![c] = @ + 2]
      /\ calls' = calls + 1
      /\ UNCHANGED <<now, paused, params, engineVars, adminVars>>
  BY DEF PlaceFastMarketOrder, Call, VerifyFees, BidLimit
<1>2. /\ sequence[c] \in Nat /\ now \in Nat /\ d \in Nat
      /\ AmountIn[o] \in Nat /\ MaxFee[o] \in Nat
      /\ p.baseFee \in Nat /\ p.initAuctionFee \in Nat
  BY OrderTypes, EvmAssumption DEF TypeOK, FastTransferParameters
<1>. HIDE DEF p
<1>3. m \in Messages
  BY <1>1, <1>2 DEF Messages
<1>4. /\ m.kind = "fast" /\ m.source = c /\ m.sequence = sequence[c]
      /\ m.fastSequence = sequence[c] + 1
      /\ m.baseFee = p.baseFee /\ m.initAuctionFee = p.initAuctionFee
      /\ m.maxFee = MaxFee[o] - p.initAuctionFee
  OBVIOUS
<1>. HIDE DEF m
<1>5. TypeOK'
  BY <1>1, <1>2, <1>3 DEF TypeOK, adminVars, engineVars
<1>6. Sequenced'
  <2> SUFFICES ASSUME NEW x \in Orders, NEW y \in Orders,
                      order'[x].kind = "fast", order'[y].kind = "fast"
               PROVE  /\ order'[x].fastSequence = order'[x].sequence + 1
                      /\ order'[x].sequence < sequence'[order'[x].source]
                      /\ order'[x].source = order'[y].source
                           /\ order'[x].sequence = order'[y].sequence => x = y
    BY DEF Sequenced
  <2>1. \A z \in Orders : order'[z] = IF z = o THEN m ELSE order[z]
    BY <1>1 DEF TypeOK
  <2>2. \A k \in Chains : sequence'[k] = IF k = c THEN sequence[c] + 2
                                                   ELSE sequence[k]
    BY <1>1 DEF TypeOK
  <2>3. \A z \in Orders : /\ order[z].source \in Chains
                           /\ order[z].sequence \in Nat
    BY AmountTypes
  <2>4. \A k \in Chains : sequence[k] \in Nat
    BY DEF TypeOK
  <2>5. \A z \in Orders : order[z].kind = "fast" =>
            order[z].sequence < sequence[order[z].source]
    BY DEF Sequenced
  <2> QED BY <2>1, <2>2, <2>3, <2>4, <2>5, <1>4 DEF Sequenced
<1>7. \A x \in Orders \ {o} : Same(x)
  BY <1>1 DEF Same, TypeOK, engineVars
<1>8. /\ order'[o] = m
      /\ auction'[o] = auction[o] /\ held'[o] = held[o] /\ net'[o] = net[o]
      /\ received'[o] = received[o] /\ fast'[o] = fast[o] /\ slow'[o] = slow[o]
      /\ fill'[o] = fill[o]
  BY <1>1 DEF TypeOK, engineVars
<1>9. auction[o].status = "None"
  BY <1>1, AmountTypes DEF OrderInv, Stage
<1>10. OrderInv(o)'
  <2>1. Agreed(o)'
    BY <1>8, <1>4, <1>1, <1>2 DEF Agreed
  <2>2. Stage(o)'
    BY <1>8, <1>9, <1>1, <1>4 DEF OrderInv, Stage
  <2>3. Owed(o)'
    BY <1>8 DEF OrderInv, Owed, Unredeemed
  <2>4. Whole(o)'
    BY <1>8, <1>9 DEF OrderInv, Whole
  <2> QED BY <2>1, <2>2, <2>3, <2>4 DEF OrderInv
<1>11. now <= now'
  BY <1>1, <1>2
<1> QED BY <1>5, <1>6, <1>7, <1>10, <1>11, ChangeOne
-----------------------------------------------------------------------------
(* Auctions *)

LEMMA StartAuctionInv ==
    ASSUME EvmInv, NEW o \in Orders, NEW b \in Accounts,
           NEW feeBid \in 0 .. order[o].maxFee,
           order[o].kind = "fast", auction[o].status = "None",
           StartAuction(o, b, feeBid),
           UNCHANGED <<now, routerVars, received, fill, fast, slow, paid, adminVars>>
    PROVE  EvmInv'
<1> DEFINE deposit == AmountIn[o] + order[o].maxFee
           a == [status |-> "Active", startBlock |-> now, highestBidder |-> b,
                 initialBidder |-> b, amount |-> AmountIn[o],
                 securityDeposit |-> order[o].maxFee, bidPrice |-> feeBid]
<1> USE DEF EvmInv
<1>1. /\ auction' = [auction EXCEPT ![o] = a]
      /\ held' = [held EXCEPT ![o] = @ + deposit]
      /\ net' = [net EXCEPT ![o] = [u \in Accounts |-> @[u] - Share(u, b, deposit)]]
      /\ calls' = calls + 1
      /\ UNCHANGED <<now, paused, params, sequence, order, received, fill, fast, slow,
                     paid, feeRecipient, endpoint>>
  BY DEF StartAuction, Call, routerVars, adminVars
<1>2. /\ now \in Nat /\ AmountIn[o] \in Nat /\ order[o].maxFee \in Nat
      /\ held[o] \in Nat /\ net[o] \in [Accounts -> Int] /\ feeBid \in Nat
      /\ calls \in Nat
  BY OrderTypes, AmountTypes DEF TypeOK
<1>3. a \in LiveAuctionData /\ deposit \in Nat
  BY <1>2 DEF LiveAuctionData
<1>4. /\ a.status = "Active" /\ a.startBlock = now /\ a.highestBidder = b
      /\ a.initialBidder = b /\ a.amount = AmountIn[o] /\ a.bidPrice = feeBid
      /\ a.securityDeposit = order[o].maxFee
  OBVIOUS
<1>. HIDE DEF a
<1>5. TypeOK'
  <2>1. [u \in Accounts |-> net[o][u] - Share(u, b, deposit)] \in [Accounts -> Int]
    BY <1>2, <1>3 DEF Share
  <2> QED BY <1>1, <1>2, <1>3, <2>1 DEF TypeOK
<1>6. \A x \in Orders \ {o} : Same(x)
  BY <1>1 DEF Same, TypeOK
<1>7. /\ auction'[o] = a /\ held'[o] = held[o] + deposit
      /\ \A u \in Accounts : net'[o][u] = net[o][u] - Share(u, b, deposit)
      /\ order'[o] = order[o] /\ fill'[o] = fill[o] /\ received'[o] = received[o]
      /\ fast'[o] = fast[o] /\ slow'[o] = slow[o] /\ now' = now
  BY <1>1 DEF TypeOK
<1>8. /\ ~received[o] /\ fast[o] = 0 /\ slow[o] = 0 /\ fill[o].type = "none"
      /\ held[o] = 0 /\ \A u \in Accounts : net[o][u] = 0
  BY DEF OrderInv, Stage, Owed, Unredeemed, Whole
<1>9. OrderInv(o)'
  <2>1. Agreed(o)'
    BY <1>7 DEF OrderInv, Agreed
  <2>2. Stage(o)'
    BY <1>7, <1>8, <1>4, <1>2 DEF Stage
  <2>3. Owed(o)'
    BY <1>7, <1>8, <1>4, <1>2 DEF Owed, Unredeemed
  <2>4. Whole(o)'
    BY <1>7, <1>8, <1>4, <1>2 DEF Whole, AtStake, Share
  <2> QED BY <2>1, <2>2, <2>3, <2>4 DEF OrderInv
<1>10. Sequenced'
  BY <1>1, SequencedFrame
<1> QED BY <1>5, <1>6, <1>7, <1>9, <1>10, <1>2, ChangeOne

LEMMA ImproveInv ==
    ASSUME EvmInv, NEW o \in Orders, NEW b \in Accounts, NEW feeBid \in Nat,
           Improve(o, b, feeBid),
           UNCHANGED <<now, routerVars, received, fill, fast, slow, paid, adminVars>>
    PROVE  EvmInv'
<1> DEFINE a == auction[o]
           n == [a EXCEPT !.highestBidder = b, !.bidPrice = feeBid]
           w == a.amount + a.securityDeposit
<1> USE DEF EvmInv
<1>1. /\ a.status = "Active" /\ feeBid < a.bidPrice
      /\ auction' = [auction EXCEPT ![o] = n]
      /\ net' = [net EXCEPT ![o] = [u \in Accounts |->
                    IF b = a.highestBidder THEN @[u]
                    ELSE @[u] - Share(u, b, w) + Share(u, a.highestBidder, w)]]
      /\ UNCHANGED <<now, paused, params, sequence, order, received, fill, fast, slow,
                     paid, feeRecipient, endpoint, held, calls>>
  BY DEF Improve, BidTransfer, routerVars, adminVars
<1>2. /\ a \in LiveAuctionData /\ a.amount \in Nat /\ a.securityDeposit \in Nat
      /\ a.bidPrice \in Nat /\ net[o] \in [Accounts -> Int] /\ w \in Nat
      /\ now \in Nat
  BY OrderTypes, AmountTypes DEF TypeOK
<1>3. /\ n \in LiveAuctionData /\ n.status = "Active" /\ n.highestBidder = b
      /\ n.initialBidder = a.initialBidder /\ n.startBlock = a.startBlock
      /\ n.amount = a.amount /\ n.securityDeposit = a.securityDeposit
      /\ n.bidPrice = feeBid
  BY <1>1, <1>2 DEF LiveAuctionData
<1>. HIDE DEF n
<1>4. TypeOK'
  <2>1. [u \in Accounts |->
           IF b = a.highestBidder THEN net[o][u]
           ELSE net[o][u] - Share(u, b, w) + Share(u, a.highestBidder, w)]
              \in [Accounts -> Int]
    BY <1>2 DEF Share
  <2> QED BY <1>1, <1>3, <2>1 DEF TypeOK
<1>5. \A x \in Orders \ {o} : Same(x)
  BY <1>1 DEF Same, TypeOK
<1>6. /\ auction'[o] = n /\ held'[o] = held[o]
      /\ \A u \in Accounts : net'[o][u] =
            IF b = a.highestBidder THEN net[o][u]
            ELSE net[o][u] - Share(u, b, w) + Share(u, a.highestBidder, w)
      /\ order'[o] = order[o] /\ fill'[o] = fill[o] /\ received'[o] = received[o]
      /\ fast'[o] = fast[o] /\ slow'[o] = slow[o] /\ now' = now
  BY <1>1 DEF TypeOK
<1>7. /\ a.highestBidder \in Accounts /\ a.bidPrice <= a.securityDeposit
      /\ ~received[o] /\ \A u \in Accounts : net[o][u] = -Share(u, a.highestBidder, w)
  BY <1>1 DEF OrderInv, Stage, Whole, AtStake
<1>8. OrderInv(o)'
  <2>1. Agreed(o)'
    BY <1>6 DEF OrderInv, Agreed
  <2>2. Stage(o)'
    BY <1>1, <1>2, <1>3, <1>6, <1>7 DEF OrderInv, Stage
  <2>3. Owed(o)'
    BY <1>1, <1>3, <1>6 DEF OrderInv, Owed, Unredeemed
  <2>4. Whole(o)'
    <3>1. \A u \in Accounts : net'[o][u] = -Share(u, b, w)
      <4> TAKE u \in Accounts
      <4>1. net[o][u] = -Share(u, a.highestBidder, w) /\ net[o][u] \in Int
        BY <1>2, <1>7
      <4>2. CASE b = a.highestBidder
        BY <4>1, <4>2, <1>6
      <4>3. CASE b # a.highestBidder
        BY <4>1, <4>3, <1>6, <1>2 DEF Share
      <4> QED BY <4>2, <4>3
    <3>2. \A u \in Accounts : AtStake(o, u)' = Share(u, b, w)
      BY <1>3, <1>6, <1>7 DEF AtStake, Share
    <3> QED BY <3>1, <3>2, <1>3, <1>6 DEF Whole
  <2> QED BY <2>1, <2>2, <2>3, <2>4 DEF OrderInv
<1>9. Sequenced'
  BY <1>1, SequencedFrame
<1> QED BY <1>4, <1>5, <1>6, <1>8, <1>9, <1>2, ChangeOne

LEMMA BidInv ==
    ASSUME EvmInv, NEW o \in Orders, Bid(o)
    PROVE  EvmInv'
<1>1. PICK b \in Accounts, feeBid \in 0 .. order[o].maxFee :
          PlaceInitialBid(o, b, feeBid) \/ ImproveBid(o, b, feeBid)
  BY DEF Bid
<1>2. feeBid \in Nat
  BY AmountTypes DEF EvmInv
<1>3. UNCHANGED <<now, routerVars, received, fill, fast, slow, paid, adminVars>>
  BY <1>1 DEF PlaceInitialBid, ImproveBid
<1>4. CASE Improve(o, b, feeBid)
  BY <1>2, <1>3, <1>4, ImproveInv
<1>5. CASE ~Improve(o, b, feeBid)
  <2>1. /\ order[o].kind = "fast" /\ auction[o].status = "None"
        /\ StartAuction(o, b, feeBid)
    BY <1>1, <1>5 DEF PlaceInitialBid, ImproveBid
  <2> QED BY <2>1, <1>3, StartAuctionInv
<1> QED BY <1>4, <1>5
-----------------------------------------------------------------------------
(* Settlement *)

\* The numbers of an active auction.
LEMMA ActiveNumbers ==
    ASSUME EvmInv, NEW o \in Orders, auction[o].status = "Active"
    PROVE  /\ Elapsed(o) \in Nat
           /\ PenaltyOf(o).penalty \in Nat /\ PenaltyOf(o).userReward \in Nat
           /\ PenaltyOf(o).penalty + PenaltyOf(o).userReward
                <= auction[o].securityDeposit
           /\ auction[o].securityDeposit + order[o].initAuctionFee = MaxFee[o]
           /\ MaxFee[o] < auction[o].amount
           /\ auction[o].bidPrice <= auction[o].securityDeposit
           /\ order[o].baseFee < auction[o].securityDeposit
           /\ auction[o].amount = AmountIn[o]
<1>1. /\ now \in Nat /\ auction[o].startBlock \in Nat
      /\ auction[o].securityDeposit \in Nat
  BY AmountTypes DEF EvmInv, TypeOK
<1>2. Agreed(o) /\ Stage(o)
  BY DEF EvmInv, OrderInv
<1>3. Elapsed(o) \in Nat
  BY <1>1, <1>2 DEF Stage, Elapsed
<1>4. /\ PenaltyOf(o).penalty \in Nat /\ PenaltyOf(o).userReward \in Nat
      /\ PenaltyOf(o).penalty + PenaltyOf(o).userReward
           <= auction[o].securityDeposit
  BY <1>1, <1>3, PenaltyBound DEF PenaltyOf
<1> QED BY <1>2, <1>3, <1>4 DEF Agreed, Stage

\* What publishing a fill does.
LEMMA HandleCctpTransferFacts ==
    ASSUME TypeOK, NEW o \in Orders, NEW amount \in Nat,
           HandleCctpTransfer(o, amount)
    PROVE  /\ fill' \in [Orders -> Fills] /\ paid' \in [Orders -> Nat]
           /\ \A x \in Orders \ {o} : fill'[x] = fill[x] /\ paid'[x] = paid[x]
           /\ fill'[o].type # "none" /\ ~fill'[o].redeemed
           /\ fill'[o].amount = amount
           /\ fill'[o].type = "FastFill" <=> Local(o)
           /\ paid'[o] = paid[o] + amount
           /\ Unredeemed(o)' = amount - Burned(o, amount)
<1> DEFINE f == [type |-> IF Local(o) THEN "FastFill" ELSE "Fill",
                 emitter |-> Engine,
                 router |-> endpoint[Engine][Target[o]].router,
                 amount |-> amount, redeemed |-> FALSE]
<1>1. fill' = [fill EXCEPT ![o] = f] /\ paid' = [paid EXCEPT ![o] = @ + amount]
  BY DEF HandleCctpTransfer
<1>2. endpoint[Engine][Target[o]] \in Endpoints
  BY OrderTypes DEF TypeOK, Contracts
<1>3. f \in Fills
  BY <1>2 DEF Fills, Endpoints, Contracts
<1>4. fill'[o] = f
  BY <1>1 DEF TypeOK
<1>5. Unredeemed(o)' = amount - Burned(o, amount)
  BY <1>4 DEF Unredeemed, Burned
<1> QED BY <1>1, <1>3, <1>4, <1>5 DEF TypeOK

LEMMA ExecuteFastInv ==
    ASSUME EvmInv, NEW o \in Orders, NEW caller \in Accounts,
           ExecuteFastOrder(o, caller)
    PROVE  EvmInv'
<1> DEFINE a == auction[o]
           pen == PenaltyOf(o).penalty
           rew == PenaltyOf(o).userReward
           init == order[o].initAuctionFee
           back == a.bidPrice + a.securityDeposit - (pen + rew)
           user == a.amount - a.bidPrice - init + rew
           n == [a EXCEPT !.status = "Completed"]
<1> USE DEF EvmInv
<1>1. /\ a.status = "Active" /\ HandleCctpTransfer(o, user)
      /\ net' = [net EXCEPT ![o] = [u \in Accounts |->
                   @[u] + Share(u, caller, pen) + Share(u, a.highestBidder, back)
                        + Share(u, a.initialBidder, init)]]
      /\ held' = [held EXCEPT ![o] = @ - pen - back - init - Burned(o, user)]
      /\ auction' = [auction EXCEPT ![o] = n]
      /\ fast' = [fast EXCEPT ![o] = @ + 1]
      /\ UNCHANGED <<now, paused, params, sequence, order, received, slow,
                     feeRecipient, endpoint, calls>>
  BY DEF ExecuteFastOrder, routerVars, adminVars
<1>2. /\ pen \in Nat /\ rew \in Nat /\ pen + rew <= a.securityDeposit
      /\ a.securityDeposit + init < a.amount /\ a.bidPrice <= a.securityDeposit
      /\ a.amount = AmountIn[o]
  BY <1>1, ActiveNumbers
<1>3. /\ a \in LiveAuctionData /\ a.amount \in Nat /\ a.securityDeposit \in Nat
      /\ a.bidPrice \in Nat /\ init \in Nat /\ net[o] \in [Accounts -> Int]
      /\ now \in Nat /\ held[o] \in Nat
  BY OrderTypes, AmountTypes DEF TypeOK
<1>. HIDE DEF pen, rew, init
<1>4. /\ back \in Nat /\ user \in Nat
      /\ pen + back + init + user = a.amount + a.securityDeposit
  BY <1>2, <1>3
<1>. HIDE DEF back, user
<1>5. /\ fill' \in [Orders -> Fills] /\ paid' \in [Orders -> Nat]
      /\ \A x \in Orders \ {o} : fill'[x] = fill[x] /\ paid'[x] = paid[x]
      /\ fill'[o].type # "none"
      /\ Unredeemed(o)' = user - Burned(o, user)
  BY <1>1, <1>4, HandleCctpTransferFacts
<1>6. /\ n \in LiveAuctionData /\ n.status = "Completed"
      /\ n.highestBidder = a.highestBidder /\ n.amount = a.amount
      /\ n.securityDeposit = a.securityDeposit
  BY <1>3 DEF LiveAuctionData
<1>. HIDE DEF n
<1>7. Stage(o) /\ Owed(o) /\ Whole(o) /\ Agreed(o)
  BY DEF OrderInv
<1>8. /\ held[o] = a.amount + a.securityDeposit /\ ~received[o]
      /\ fast[o] = 0 /\ slow[o] = 0
      /\ \A u \in Accounts : net[o][u] = -AtStake(o, u)
  BY <1>1, <1>3, <1>7 DEF Stage, Owed, Unredeemed, Whole
<1>9. /\ held'[o] = Unredeemed(o)' /\ held'[o] \in Nat
  <2>1. held'[o] = held[o] - pen - back - init - Burned(o, user)
    BY <1>1 DEF TypeOK
  <2>2. Burned(o, user) \in {0, user}
    BY DEF Burned
  <2> QED BY <2>1, <2>2, <1>2, <1>3, <1>4, <1>5, <1>8
<1>10. TypeOK'
  <2>1. [u \in Accounts |->
           net[o][u] + Share(u, caller, pen) + Share(u, a.highestBidder, back)
             + Share(u, a.initialBidder, init)] \in [Accounts -> Int]
    BY <1>2, <1>3, <1>4 DEF Share
  <2>2. net' \in [Orders -> [Accounts -> Int]]
    BY <1>1, <2>1 DEF TypeOK
  <2>3. held' \in [Orders -> Nat]
    BY <1>1, <1>9 DEF TypeOK
  <2> QED BY <1>1, <1>5, <1>6, <2>2, <2>3 DEF TypeOK
<1>11. \A x \in Orders \ {o} : Same(x)
  BY <1>1, <1>5 DEF Same, TypeOK
<1>12. /\ auction'[o] = n /\ order'[o] = order[o] /\ received'[o] = received[o]
       /\ fast'[o] = 1 /\ slow'[o] = 0 /\ now' = now
       /\ \A u \in Accounts :
             net'[o][u] = net[o][u] + Share(u, caller, pen)
                            + Share(u, a.highestBidder, back)
                            + Share(u, a.initialBidder, init)
  BY <1>1, <1>8 DEF TypeOK
<1>13. OrderInv(o)'
  <2>1. Agreed(o)'
    BY <1>12, <1>7 DEF Agreed
  <2>2. Stage(o)'
    BY <1>1, <1>6, <1>7, <1>8, <1>12 DEF Stage
  <2>3. Owed(o)'
    BY <1>6, <1>9, <1>12 DEF Owed
  <2>4. Whole(o)'
    <3>1. \A u \in Accounts : AtStake(o, u)' = AtStake(o, u)
      BY <1>6, <1>12 DEF AtStake, Share
    <3>2. \A u \in Accounts : net'[o][u] >= net[o][u]
      BY <1>2, <1>3, <1>4, <1>12 DEF Share
    <3> QED BY <3>1, <3>2, <1>3, <1>6, <1>8, <1>12 DEF Whole
  <2> QED BY <2>1, <2>2, <2>3, <2>4 DEF OrderInv
<1>14. Sequenced'
  BY <1>1, SequencedFrame
<1> QED BY <1>10, <1>11, <1>12, <1>13, <1>14, <1>3, ChangeOne

\* The slow message that belongs to a fast one is that of the same order.
LEMMA PairedIsSame ==
    ASSUME EvmInv, NEW o \in Orders, NEW s \in Orders,
           order[o].kind = "fast", order[s].kind = "fast", Paired(o, s)
    PROVE  s = o
<1>1. /\ order[o].sequence \in Nat /\ order[s].sequence \in Nat
  BY AmountTypes DEF EvmInv
<1> QED BY <1>1 DEF EvmInv, Sequenced, Paired

LEMMA MintAndSpendFacts ==
    ASSUME EvmInv, NEW o \in Orders, NEW s \in Orders, NEW out \in Int,
           MintAndSpend(o, s, out)
    PROVE  /\ s = o /\ order[o].kind = "fast" /\ ~received[o]
           /\ received' = [received EXCEPT ![o] = TRUE]
           /\ held'[o] = held[o] + AmountIn[o] - out
           /\ \A x \in Orders \ {o} : held'[x] = held[x]
           /\ DOMAIN held' = Orders /\ held' = [x \in Orders |-> held'[x]]
<1>1. s = o
  BY PairedIsSame DEF MintAndSpend
<1>2. held' = [x \in Orders |-> held[x] + (IF x = o THEN AmountIn[o] ELSE 0)
                                        - (IF x = o THEN out ELSE 0)]
  BY <1>1 DEF MintAndSpend
<1>3. \A x \in Orders : held[x] \in Nat /\ AmountIn[x] \in Nat
  BY OrderTypes DEF EvmInv
<1>4. held'[o] = held[o] + AmountIn[o] - out
  BY <1>2
<1>5. \A x \in Orders \ {o} : held'[x] = held[x]
  BY <1>2, <1>3
<1> QED BY <1>1, <1>2, <1>4, <1>5 DEF MintAndSpend

LEMMA SlowUnauctionedInv ==
    ASSUME EvmInv, NEW o \in Orders, NEW s \in Orders, ExecuteSlowUnauctioned(o, s)
    PROVE  EvmInv'
<1> DEFINE a == auction[o]
           fee == order[s].baseFee
           user == AmountIn[o] - fee
           n == [a EXCEPT !.status = "Completed"]
<1> USE DEF EvmInv
<1>1. /\ a.status = "None" /\ user >= 0
      /\ MintAndSpend(o, s, Burned(o, user) + fee)
      /\ HandleCctpTransfer(o, user)
      /\ net' = [net EXCEPT ![o] = [u \in Accounts |->
                   @[u] + Share(u, feeRecipient, fee)]]
      /\ auction' = [auction EXCEPT ![o] = n]
      /\ slow' = [slow EXCEPT ![o] = @ + 1]
      /\ UNCHANGED <<now, paused, params, sequence, order, fast, feeRecipient,
                     endpoint, calls>>
  BY DEF ExecuteSlowUnauctioned, SettledStatus, routerVars, adminVars
<1>2. /\ a \in LiveAuctionData /\ fee \in Nat /\ AmountIn[o] \in Nat
      /\ net[o] \in [Accounts -> Int] /\ now \in Nat /\ held[o] \in Nat
      /\ a.amount \in Nat /\ a.securityDeposit \in Nat
  BY OrderTypes, AmountTypes DEF TypeOK
<1>3. user \in Nat /\ user + fee = AmountIn[o]
  BY <1>1, <1>2
<1>. HIDE DEF fee, user
<1>4. /\ Burned(o, user) \in {0, user} /\ Burned(o, user) + fee \in Int
  BY <1>2, <1>3 DEF Burned
<1>5. /\ s = o /\ order[o].kind = "fast" /\ ~received[o]
      /\ received' = [received EXCEPT ![o] = TRUE]
      /\ held'[o] = held[o] + AmountIn[o] - (Burned(o, user) + fee)
      /\ \A x \in Orders \ {o} : held'[x] = held[x]
      /\ held' = [x \in Orders |-> held'[x]]
  BY <1>1, <1>4, MintAndSpendFacts
<1>6. /\ fill' \in [Orders -> Fills] /\ paid' \in [Orders -> Nat]
      /\ \A x \in Orders \ {o} : fill'[x] = fill[x] /\ paid'[x] = paid[x]
      /\ fill'[o].type # "none"
      /\ Unredeemed(o)' = user - Burned(o, user)
  BY <1>1, <1>3, HandleCctpTransferFacts
<1>7. /\ n \in LiveAuctionData /\ n.status = "Completed"
      /\ n.highestBidder = a.highestBidder /\ n.amount = a.amount
      /\ n.securityDeposit = a.securityDeposit
  BY <1>2 DEF LiveAuctionData
<1>. HIDE DEF n
<1>8. Stage(o) /\ Owed(o) /\ Whole(o) /\ Agreed(o)
  BY DEF OrderInv
<1>9. /\ held[o] = 0 /\ fast[o] = 0 /\ slow[o] = 0
      /\ a.securityDeposit = 0
      /\ \A u \in Accounts : net[o][u] = 0
  BY <1>1, <1>5, <1>8 DEF Stage, Owed, Unredeemed, Whole
<1>10. held'[o] = Unredeemed(o)' /\ held'[o] \in Nat
  BY <1>2, <1>3, <1>4, <1>5, <1>6, <1>9
<1>11. TypeOK'
  <2>1. [u \in Accounts |-> net[o][u] + Share(u, feeRecipient, fee)]
           \in [Accounts -> Int]
    BY <1>2 DEF Share
  <2>2. net' \in [Orders -> [Accounts -> Int]]
    BY <1>1, <2>1 DEF TypeOK
  <2>3. \A x \in Orders : held'[x] \in Nat
    BY <1>5, <1>10 DEF TypeOK
  <2>4. held' \in [Orders -> Nat]
    BY <1>5, <2>3
  <2> QED BY <1>1, <1>5, <1>6, <1>7, <2>2, <2>4 DEF TypeOK
<1>12. \A x \in Orders \ {o} : Same(x)
  BY <1>1, <1>5, <1>6 DEF Same, TypeOK
<1>13. /\ auction'[o] = n /\ order'[o] = order[o] /\ received'[o]
       /\ fast'[o] = 0 /\ slow'[o] = 1 /\ now' = now
       /\ \A u \in Accounts : net'[o][u] = net[o][u] + Share(u, feeRecipient, fee)
  BY <1>1, <1>5, <1>9 DEF TypeOK
<1>14. OrderInv(o)'
  <2>1. Agreed(o)'
    BY <1>13, <1>8 DEF Agreed
  <2>2. Stage(o)'
    BY <1>5, <1>7, <1>13 DEF Stage
  <2>3. Owed(o)'
    BY <1>7, <1>10, <1>13 DEF Owed
  <2>4. Whole(o)'
    <3>1. \A u \in Accounts : AtStake(o, u)' = 0
      BY <1>7, <1>9, <1>13 DEF AtStake, Share
    <3>2. \A u \in Accounts : net'[o][u] >= 0
      BY <1>2, <1>9, <1>13 DEF Share
    <3> QED BY <3>1, <3>2, <1>7, <1>13 DEF Whole
  <2> QED BY <2>1, <2>2, <2>3, <2>4 DEF OrderInv
<1>15. Sequenced'
  BY <1>1, SequencedFrame
<1> QED BY <1>11, <1>12, <1>13, <1>14, <1>15, <1>2, ChangeOne

LEMMA SlowActiveInv ==
    ASSUME EvmInv, NEW o \in Orders, NEW s \in Orders, NEW caller \in Accounts,
           ExecuteSlowActive(o, s, caller)
    PROVE  EvmInv'
<1> DEFINE a == auction[o]
           pen == PenaltyOf(o).penalty
           rew == PenaltyOf(o).userReward
           fee == order[s].baseFee
           back == a.amount + a.securityDeposit - (pen + rew)
           user == a.amount - fee + rew
           out == pen + fee + back + Burned(o, user)
           n == [a EXCEPT !.status = "Completed"]
<1> USE DEF EvmInv
<1>1. /\ a.status = "Active" /\ MintAndSpend(o, s, out)
      /\ HandleCctpTransfer(o, user)
      /\ net' = [net EXCEPT ![o] = [u \in Accounts |->
                   @[u] + Share(u, caller, pen + fee)
                        + Share(u, a.highestBidder, back)]]
      /\ auction' = [auction EXCEPT ![o] = n]
      /\ slow' = [slow EXCEPT ![o] = @ + 1]
      /\ UNCHANGED <<now, paused, params, sequence, order, fast, feeRecipient,
                     endpoint, calls>>
  BY DEF ExecuteSlowActive, routerVars, adminVars
<1>2. /\ order[o].kind = "fast" /\ order[s].kind = "fast" /\ Paired(o, s)
  BY <1>1 DEF MintAndSpend
<1>3. s = o
  BY <1>2, PairedIsSame
<1>4. /\ pen \in Nat /\ rew \in Nat /\ pen + rew <= a.securityDeposit
      /\ a.amount = AmountIn[o] /\ a.securityDeposit < a.amount
      /\ fee < a.securityDeposit
  <2>1. order[o].initAuctionFee \in Nat /\ a.securityDeposit \in Nat
        /\ a.amount \in Nat
    BY AmountTypes
  <2> QED BY <1>1, <1>3, <2>1, ActiveNumbers
<1>5. /\ a \in LiveAuctionData /\ a.amount \in Nat /\ a.securityDeposit \in Nat
      /\ fee \in Nat /\ net[o] \in [Accounts -> Int] /\ now \in Nat
      /\ held[o] \in Nat /\ AmountIn[o] \in Nat
  BY OrderTypes, AmountTypes DEF TypeOK
<1>. HIDE DEF pen, rew, fee
<1>6. /\ back \in Nat /\ user \in Nat
      /\ pen + fee + back + user = a.amount + a.amount + a.securityDeposit
      /\ back >= a.amount
  BY <1>4, <1>5
<1>. HIDE DEF back, user
<1>7. Burned(o, user) \in {0, user} /\ Burned(o, user) \in Nat /\ out \in Int
  BY <1>4, <1>5, <1>6 DEF Burned
<1>8. /\ ~received[o]
      /\ received' = [received EXCEPT ![o] = TRUE]
      /\ held'[o] = held[o] + AmountIn[o] - out
      /\ \A x \in Orders \ {o} : held'[x] = held[x]
      /\ held' = [x \in Orders |-> held'[x]]
  <2>. HIDE DEF out
  <2> QED BY <1>1, <1>7, MintAndSpendFacts
<1>9. /\ fill' \in [Orders -> Fills] /\ paid' \in [Orders -> Nat]
      /\ \A x \in Orders \ {o} : fill'[x] = fill[x] /\ paid'[x] = paid[x]
      /\ fill'[o].type # "none"
      /\ Unredeemed(o)' = user - Burned(o, user)
  BY <1>1, <1>6, HandleCctpTransferFacts
<1>10. /\ n \in LiveAuctionData /\ n.status = "Completed"
       /\ n.highestBidder = a.highestBidder /\ n.amount = a.amount
       /\ n.securityDeposit = a.securityDeposit
  BY <1>5 DEF LiveAuctionData
<1>. HIDE DEF n
<1>11. Stage(o) /\ Owed(o) /\ Whole(o) /\ Agreed(o)
  BY DEF OrderInv
<1>12. /\ held[o] = a.amount + a.securityDeposit /\ fast[o] = 0 /\ slow[o] = 0
       /\ \A u \in Accounts :
             net[o][u] = -Share(u, a.highestBidder, a.amount + a.securityDeposit)
  BY <1>1, <1>5, <1>8, <1>11 DEF Stage, Owed, Unredeemed, Whole, AtStake
<1>13. held'[o] = Unredeemed(o)' /\ held'[o] \in Nat
  BY <1>4, <1>5, <1>6, <1>7, <1>8, <1>9, <1>12
<1>14. TypeOK'
  <2>1. [u \in Accounts |-> net[o][u] + Share(u, caller, pen + fee)
                                     + Share(u, a.highestBidder, back)]
           \in [Accounts -> Int]
    BY <1>4, <1>5, <1>6 DEF Share
  <2>2. net' \in [Orders -> [Accounts -> Int]]
    BY <1>1, <2>1 DEF TypeOK
  <2>3. \A x \in Orders : held'[x] \in Nat
    BY <1>8, <1>13 DEF TypeOK
  <2>4. held' \in [Orders -> Nat]
    BY <1>8, <2>3
  <2> QED BY <1>1, <1>8, <1>9, <1>10, <2>2, <2>4 DEF TypeOK
<1>15. \A x \in Orders \ {o} : Same(x)
  BY <1>1, <1>8, <1>9 DEF Same, TypeOK
<1>16. /\ auction'[o] = n /\ order'[o] = order[o] /\ received'[o]
       /\ fast'[o] = 0 /\ slow'[o] = 1 /\ now' = now
       /\ \A u \in Accounts :
             net'[o][u] = net[o][u] + Share(u, caller, pen + fee)
                            + Share(u, a.highestBidder, back)
  BY <1>1, <1>8, <1>12 DEF TypeOK
<1>17. OrderInv(o)'
  <2>1. Agreed(o)'
    BY <1>16, <1>11 DEF Agreed
  <2>2. Stage(o)'
    BY <1>2, <1>10, <1>16 DEF Stage
  <2>3. Owed(o)'
    BY <1>10, <1>13, <1>16 DEF Owed
  <2>4. Whole(o)'
    <3>1. \A u \in Accounts :
            AtStake(o, u)' = Share(u, a.highestBidder, a.securityDeposit)
      BY <1>5, <1>10, <1>16 DEF AtStake, Share
    <3>2. \A u \in Accounts :
            net'[o][u] >= -Share(u, a.highestBidder, a.securityDeposit)
      BY <1>4, <1>5, <1>6, <1>12, <1>16 DEF Share
    <3> QED BY <3>1, <3>2, <1>10, <1>16 DEF Whole
  <2> QED BY <2>1, <2>2, <2>3, <2>4 DEF OrderInv
<1>18. Sequenced'
  BY <1>1, SequencedFrame
<1> QED BY <1>14, <1>15, <1>16, <1>17, <1>18, <1>5, ChangeOne

LEMMA SlowCompletedInv ==
    ASSUME EvmInv, NEW o \in Orders, NEW s \in Orders, ExecuteSlowCompleted(o, s)
    PROVE  EvmInv'
<1> DEFINE a == auction[o]
<1> USE DEF EvmInv
<1>1. /\ a.status = "Completed" /\ MintAndSpend(o, s, a.amount)
      /\ net' = [net EXCEPT ![o] = [u \in Accounts |->
                   @[u] + Share(u, a.highestBidder, a.amount)]]
      /\ UNCHANGED <<now, paused, params, sequence, order, auction, fill, fast,
                     slow, paid, feeRecipient, endpoint, calls>>
  BY DEF ExecuteSlowCompleted, RepaidBidder, routerVars, adminVars
<1>2. /\ a.amount \in Nat /\ a.securityDeposit \in Nat /\ AmountIn[o] \in Nat
      /\ held[o] \in Nat /\ net[o] \in [Accounts -> Int] /\ now \in Nat
  BY OrderTypes, AmountTypes DEF TypeOK
<1>3. /\ order[o].kind = "fast" /\ ~received[o]
      /\ received' = [received EXCEPT ![o] = TRUE]
      /\ held'[o] = held[o] + AmountIn[o] - a.amount
      /\ \A x \in Orders \ {o} : held'[x] = held[x]
      /\ held' = [x \in Orders |-> held'[x]]
  <2>1. a.amount \in Int
    BY <1>2
  <2> QED BY <1>1, <2>1, MintAndSpendFacts
<1>4. Stage(o) /\ Owed(o) /\ Whole(o) /\ Agreed(o)
  BY DEF OrderInv
<1>5. fast[o] = 1 /\ slow[o] = 0 /\ a.amount = AmountIn[o]
  BY <1>1, <1>3, <1>4 DEF Stage
<1>6. held'[o] = held[o]
  BY <1>2, <1>3, <1>5
<1>7. TypeOK'
  <2>1. [u \in Accounts |-> net[o][u] + Share(u, a.highestBidder, a.amount)]
           \in [Accounts -> Int]
    BY <1>2 DEF Share
  <2>2. net' \in [Orders -> [Accounts -> Int]]
    BY <1>1, <2>1 DEF TypeOK
  <2>3. \A x \in Orders : held'[x] \in Nat
    BY <1>3, <1>6 DEF TypeOK
  <2>4. held' \in [Orders -> Nat]
    BY <1>3, <2>3
  <2> QED BY <1>1, <1>3, <2>2, <2>4 DEF TypeOK
<1>8. \A x \in Orders \ {o} : Same(x)
  BY <1>1, <1>3 DEF Same, TypeOK
<1>9. /\ received'[o]
      /\ \A u \in Accounts :
            net'[o][u] = net[o][u] + Share(u, a.highestBidder, a.amount)
  BY <1>1, <1>3 DEF TypeOK
<1>10. OrderInv(o)'
  <2>1. Agreed(o)'
    BY <1>1, <1>4 DEF Agreed
  <2>2. Stage(o)'
    BY <1>1, <1>4, <1>5, <1>9 DEF Stage
  <2>3. Owed(o)'
    BY <1>1, <1>4, <1>6 DEF Owed, Unredeemed
  <2>4. Whole(o)'
    <3>1. \A u \in Accounts :
            /\ AtStake(o, u) = Share(u, a.highestBidder, a.amount + a.securityDeposit)
            /\ AtStake(o, u)' = Share(u, a.highestBidder, a.securityDeposit)
      BY <1>1, <1>2, <1>3, <1>9 DEF AtStake, Share
    <3>2. \A u \in Accounts : net[o][u] >= -AtStake(o, u)
      BY <1>1, <1>4 DEF Whole
    <3>3. \A u \in Accounts : net'[o][u] >= -Share(u, a.highestBidder, a.securityDeposit)
      BY <1>2, <1>9, <3>1, <3>2 DEF Share
    <3> QED BY <3>1, <3>3, <1>1 DEF Whole
  <2> QED BY <2>1, <2>2, <2>3, <2>4 DEF OrderInv
<1>11. Sequenced'
  BY <1>1, SequencedFrame
<1>12. now <= now'
  BY <1>1, <1>2
<1> QED BY <1>7, <1>8, <1>10, <1>11, <1>12, ChangeOne
-----------------------------------------------------------------------------
(* Redeeming fills *)

LEMMA RedeemFastFillInv ==
    ASSUME EvmInv, NEW o \in Orders, RedeemFastFill(o)
    PROVE  EvmInv'
<1> DEFINE f == [fill[o] EXCEPT !.redeemed = TRUE]
<1> USE DEF EvmInv
<1>1. /\ fill[o].type = "FastFill" /\ ~fill[o].redeemed
      /\ fill' = [fill EXCEPT ![o] = f]
      /\ held' = [held EXCEPT ![o] = @ - fill[o].amount]
      /\ UNCHANGED <<now, paused, params, sequence, order, auction, received, net,
                     fast, slow, paid, feeRecipient, endpoint, calls>>
  BY DEF RedeemFastFill, NotRedeemed, routerVars, adminVars
<1>2. /\ fill[o] \in Fills /\ fill[o].amount \in Nat /\ held[o] \in Nat /\ now \in Nat
  BY OrderTypes, AmountTypes DEF TypeOK
<1>3. f \in Fills /\ f.redeemed /\ f.type = "FastFill"
  BY <1>1, <1>2 DEF Fills
<1>. HIDE DEF f
<1>4. Stage(o) /\ Owed(o) /\ Whole(o) /\ Agreed(o)
  BY DEF OrderInv
<1>5. /\ fill'[o] = f /\ held'[o] = held[o] - fill[o].amount
  BY <1>1 DEF TypeOK
<1>6. auction[o].status # "Active" /\ auction[o].status # "None"
  BY <1>1, <1>4 DEF Stage
<1>7. held[o] = fill[o].amount
  BY <1>1, <1>2, <1>4, <1>6 DEF Owed, Unredeemed
<1>8. held'[o] = 0
  BY <1>2, <1>5, <1>7
<1>9. TypeOK'
  <2>1. held' \in [Orders -> Nat]
    BY <1>1, <1>5, <1>8 DEF TypeOK
  <2> QED BY <1>1, <1>3, <2>1 DEF TypeOK
<1>10. \A x \in Orders \ {o} : Same(x)
  BY <1>1 DEF Same, TypeOK
<1>11. OrderInv(o)'
  <2>1. Agreed(o)'
    BY <1>1, <1>4 DEF Agreed
  <2>2. Stage(o)'
    BY <1>1, <1>4, <1>6 DEF Stage
  <2>3. Owed(o)'
    BY <1>1, <1>3, <1>5, <1>6, <1>8 DEF Owed, Unredeemed
  <2>4. Whole(o)'
    BY <1>1, <1>4 DEF Whole, AtStake, Share
  <2> QED BY <2>1, <2>2, <2>3, <2>4 DEF OrderInv
<1>12. Sequenced'
  BY <1>1, SequencedFrame
<1>13. now <= now'
  BY <1>1, <1>2
<1> QED BY <1>9, <1>10, <1>11, <1>12, <1>13, ChangeOne

LEMMA RedeemFillInv ==
    ASSUME EvmInv, NEW o \in Orders, RedeemFill(o)
    PROVE  EvmInv'
<1> DEFINE f == [fill[o] EXCEPT !.redeemed = TRUE]
<1> USE DEF EvmInv
<1>1. /\ fill[o].type = "Fill"
      /\ fill' = [fill EXCEPT ![o] = f]
      /\ UNCHANGED <<now, paused, params, sequence, order, auction, held, received,
                     net, fast, slow, paid, feeRecipient, endpoint, calls>>
  BY DEF RedeemFill, routerVars, adminVars
<1>2. fill[o] \in Fills /\ now \in Nat
  BY OrderTypes DEF TypeOK
<1>3. f \in Fills /\ f.type = "Fill"
  BY <1>1, <1>2 DEF Fills
<1>. HIDE DEF f
<1>4. Stage(o) /\ Owed(o) /\ Whole(o) /\ Agreed(o)
  BY DEF OrderInv
<1>5. fill'[o] = f
  BY <1>1 DEF TypeOK
<1>6. TypeOK'
  BY <1>1, <1>3 DEF TypeOK
<1>7. \A x \in Orders \ {o} : Same(x)
  BY <1>1 DEF Same, TypeOK
<1>8. OrderInv(o)'
  <2>1. Agreed(o)'
    BY <1>1, <1>4 DEF Agreed
  <2>2. Stage(o)'
    BY <1>1, <1>3, <1>4, <1>5 DEF Stage
  <2>3. Owed(o)'
    BY <1>1, <1>3, <1>4, <1>5 DEF Owed, Unredeemed
  <2>4. Whole(o)'
    BY <1>1, <1>4 DEF Whole, AtStake, Share
  <2> QED BY <2>1, <2>2, <2>3, <2>4 DEF OrderInv
<1>9. Sequenced'
  BY <1>1, SequencedFrame
<1>10. now <= now'
  BY <1>1, <1>2
<1> QED BY <1>6, <1>7, <1>8, <1>9, <1>10, ChangeOne
-----------------------------------------------------------------------------
(* Administration *)

LEMMA AdminTypes ==
    ASSUME EvmInv, AdminCall, paused' \in [Chains -> BOOLEAN],
           params' \in [Chains -> FastTransferParameters],
           endpoint' \in [Contracts -> [Chains -> Endpoints]],
           feeRecipient' \in Accounts
    PROVE  EvmInv'
<1>1. /\ UNCHANGED <<now, order, sequence, auction, held, received, fill, net, fast,
                     slow, paid>>
      /\ calls' = calls + 1
  BY DEF AdminCall, Call, engineVars
<1>2. TypeOK'
  BY <1>1 DEF EvmInv, TypeOK
<1>3. now \in Nat /\ now <= now'
  BY <1>1 DEF EvmInv, TypeOK
<1> QED BY <1>1, <1>2, <1>3, ChangeNone DEF engineVars

LEMMA EndpointInv ==
    ASSUME EvmInv, NEW k, NEW c, NEW address \in {"router", "other"},
           AddRouterEndpoint(k, c, address) \/ UpdateRouterEndpoint(k, c, address)
    PROVE  EvmInv'
<1> DEFINE e == [router |-> address, added |-> TRUE]
<1>1. /\ AdminCall /\ endpoint' = [endpoint EXCEPT ![k][c] = e]
      /\ UNCHANGED <<paused, params, feeRecipient>>
  BY DEF AddRouterEndpoint, UpdateRouterEndpoint
<1>2. e \in Endpoints
  BY DEF Endpoints
<1>3. endpoint' \in [Contracts -> [Chains -> Endpoints]]
  BY <1>1, <1>2 DEF EvmInv, TypeOK
<1>4. /\ paused' \in [Chains -> BOOLEAN]
      /\ params' \in [Chains -> FastTransferParameters]
      /\ feeRecipient' \in Accounts
  BY <1>1 DEF EvmInv, TypeOK
<1> QED BY <1>1, <1>3, <1>4, AdminTypes

LEMMA DisableInv ==
    ASSUME EvmInv, NEW k, NEW c, DisableRouterEndpoint(k, c)
    PROVE  EvmInv'
<1>1. /\ AdminCall /\ endpoint' = [endpoint EXCEPT ![k][c].router = "zero"]
      /\ UNCHANGED <<paused, params, feeRecipient>>
  BY DEF DisableRouterEndpoint
<1>2. endpoint' \in [Contracts -> [Chains -> Endpoints]]
  <2>1. CASE k \in Contracts /\ c \in Chains
    <3> DEFINE e == [endpoint[k][c] EXCEPT !.router = "zero"]
    <3>1. endpoint[k][c] \in Endpoints /\ endpoint[k] \in [Chains -> Endpoints]
      BY <2>1 DEF EvmInv, TypeOK
    <3>2. e \in Endpoints
      BY <3>1 DEF Endpoints
    <3>3. [endpoint[k] EXCEPT ![c] = e] \in [Chains -> Endpoints]
      BY <3>1, <3>2
    <3> QED BY <1>1, <3>3 DEF EvmInv, TypeOK
  <2>2. CASE ~(k \in Contracts /\ c \in Chains)
    BY <1>1, <2>2 DEF EvmInv, TypeOK
  <2> QED BY <2>1, <2>2
<1>3. /\ paused' \in [Chains -> BOOLEAN]
      /\ params' \in [Chains -> FastTransferParameters]
      /\ feeRecipient' \in Accounts
  BY <1>1 DEF EvmInv, TypeOK
<1> QED BY <1>1, <1>2, <1>3, AdminTypes

LEMMA AdministerInv == EvmInv /\ Administer => EvmInv'
<1> SUFFICES ASSUME EvmInv, Administer PROVE EvmInv'
  OBVIOUS
<1>1. ASSUME NEW a \in Accounts, UpdateFeeRecipient(a) PROVE EvmInv'
  <2>1. /\ AdminCall /\ paused' \in [Chains -> BOOLEAN]
        /\ params' \in [Chains -> FastTransferParameters]
        /\ endpoint' \in [Contracts -> [Chains -> Endpoints]]
        /\ feeRecipient' \in Accounts
    BY <1>1 DEF UpdateFeeRecipient, EvmInv, TypeOK
  <2> QED BY <2>1, AdminTypes
<1>2. ASSUME NEW c \in Chains, NEW p \in Parameters,
             UpdateFastTransferParameters(c, p)
      PROVE  EvmInv'
  <2>1. /\ AdminCall /\ paused' \in [Chains -> BOOLEAN]
        /\ params' \in [Chains -> FastTransferParameters]
        /\ endpoint' \in [Contracts -> [Chains -> Endpoints]]
        /\ feeRecipient' \in Accounts
    BY <1>2, EvmAssumption DEF UpdateFastTransferParameters, EvmInv, TypeOK
  <2> QED BY <2>1, AdminTypes
<1>3. ASSUME NEW c \in Chains, NEW b \in BOOLEAN, EnableFastTransfers(c, b)
      PROVE  EvmInv'
  <2>1. params' \in [Chains -> FastTransferParameters]
    BY <1>3 DEF EnableFastTransfers, EvmInv, TypeOK, FastTransferParameters
  <2>2. /\ AdminCall /\ paused' \in [Chains -> BOOLEAN]
        /\ endpoint' \in [Contracts -> [Chains -> Endpoints]]
        /\ feeRecipient' \in Accounts
    BY <1>3 DEF EnableFastTransfers, EvmInv, TypeOK
  <2> QED BY <2>1, <2>2, AdminTypes
<1>4. ASSUME NEW c \in Chains, NEW b \in BOOLEAN, SetPause(c, b)
      PROVE  EvmInv'
  <2>1. /\ AdminCall /\ paused' \in [Chains -> BOOLEAN]
        /\ params' \in [Chains -> FastTransferParameters]
        /\ endpoint' \in [Contracts -> [Chains -> Endpoints]]
        /\ feeRecipient' \in Accounts
    BY <1>4 DEF SetPause, EvmInv, TypeOK
  <2> QED BY <2>1, AdminTypes
<1> QED BY <1>1, <1>2, <1>3, <1>4, EndpointInv, DisableInv, EvmAssumption DEF Administer

LEMMA TickInv == EvmInv /\ Tick => EvmInv'
<1> SUFFICES ASSUME EvmInv, Tick PROVE EvmInv'
  OBVIOUS
<1>1. /\ now \in Nat /\ now' = now + 1
      /\ UNCHANGED <<paused, params, sequence, order, auction, held, received, fill,
                     net, fast, slow, paid, feeRecipient, endpoint, calls>>
  BY DEF Tick, EvmInv, TypeOK, routerVars, engineVars, adminVars
<1>2. TypeOK' /\ now <= now'
  BY <1>1 DEF EvmInv, TypeOK
<1> QED BY <1>1, <1>2, ChangeNone DEF engineVars
-----------------------------------------------------------------------------
(* Theorems *)

LEMMA NextInv == EvmInv /\ [Next]_vars => EvmInv'
<1> SUFFICES ASSUME EvmInv, [Next]_vars PROVE EvmInv'
  OBVIOUS
<1>1. CASE UNCHANGED vars
  <2>1. TypeOK'
    BY <1>1 DEF EvmInv, TypeOK, vars, routerVars, engineVars, adminVars
  <2>2. now <= now' /\ UNCHANGED <<order, sequence, engineVars>>
    BY <1>1 DEF EvmInv, TypeOK, vars, routerVars
  <2> QED BY <2>1, <2>2, ChangeNone
<1>2. ASSUME NEW o \in Orders, PlaceOrder(o) PROVE EvmInv'
  BY <1>2, PlaceMarketInv, PlaceFastInv DEF PlaceOrder
<1>3. ASSUME NEW o \in Orders, Bid(o) PROVE EvmInv'
  BY <1>3, BidInv
<1>4. ASSUME NEW o \in Orders, NEW caller \in Accounts, ExecuteFastOrder(o, caller)
      PROVE  EvmInv'
  BY <1>4, ExecuteFastInv
<1>5. ASSUME NEW o \in Orders, ExecuteSlowOrderAndRedeem(o) PROVE EvmInv'
  BY <1>5, SlowUnauctionedInv, SlowActiveInv, SlowCompletedInv
     DEF ExecuteSlowOrderAndRedeem
<1>6. ASSUME NEW o \in Orders, Redeem(o) PROVE EvmInv'
  BY <1>6, RedeemFastFillInv, RedeemFillInv DEF Redeem
<1> QED BY <1>1, <1>2, <1>3, <1>4, <1>5, <1>6, AdministerInv, TickInv DEF Next

LEMMA InvHolds == Spec => []EvmInv
BY InitInv, NextInv, PTL DEF Spec

\* No call of the EVM contracts overdraws the USDC the engine holds for an order.
THEOREM EvmTypeCorrect == Spec => []TypeOK
<1>1. EvmInv => TypeOK
  BY DEF EvmInv
<1> QED BY <1>1, InvHolds, PTL

\* The engine holds for every order exactly what it owes on it; every other order
\* keeps its own USDC.
THEOREM EngineSolvent == Spec => []EngineHoldsWhatItOwes
<1>1. EvmInv => EngineHoldsWhatItOwes
  BY DEF EvmInv, OrderInv, Owed, EngineHoldsWhatItOwes
<1> QED BY <1>1, InvHolds, PTL

\* executeFastOrder and executeSlowOrderAndRedeem never revert for arithmetic, at
\* any block and whatever fees the routers asked for.
THEOREM SettlementsGoThrough == Spec => []SettlementNeverReverts
<1>1. EvmInv => SettlementNeverReverts
  <2> SUFFICES ASSUME EvmInv, NEW o \in Orders
               PROVE  /\ auction[o].status = "Active" =>
                           ExecutionFits(o) /\ SlowFits(o, order[o].baseFee)
                      /\ order[o].kind = "fast" => order[o].baseFee <= AmountIn[o]
    BY DEF SettlementNeverReverts
  <2>1. /\ order[o].baseFee \in Nat /\ order[o].maxFee \in Nat
        /\ order[o].initAuctionFee \in Nat /\ auction[o].amount \in Nat
        /\ auction[o].securityDeposit \in Nat /\ auction[o].bidPrice \in Nat
        /\ MaxFee[o] \in Nat /\ AmountIn[o] \in Nat
    BY AmountTypes, OrderTypes DEF EvmInv
  <2>2. order[o].kind = "fast" => order[o].baseFee <= AmountIn[o]
    BY <2>1 DEF EvmInv, OrderInv, Agreed
  <2>3. ASSUME auction[o].status = "Active"
        PROVE  ExecutionFits(o) /\ SlowFits(o, order[o].baseFee)
    <3>1. /\ Elapsed(o) \in Nat
          /\ PenaltyOf(o).penalty \in Nat /\ PenaltyOf(o).userReward \in Nat
          /\ PenaltyOf(o).penalty + PenaltyOf(o).userReward
               <= auction[o].securityDeposit
          /\ auction[o].securityDeposit + order[o].initAuctionFee = MaxFee[o]
          /\ MaxFee[o] < auction[o].amount
          /\ auction[o].bidPrice <= auction[o].securityDeposit
          /\ order[o].baseFee < auction[o].securityDeposit
      BY <2>3, ActiveNumbers
    <3>2. PenaltyFits(auction[o].securityDeposit, Elapsed(o))
      <4>1. auction[o].securityDeposit <= MaxFee[o]
        BY <2>1, <3>1
      <4> QED BY <4>1, <2>1, <3>1, PenaltyNeverOverflows
    <3>3. ExecutionFits(o)
      BY <2>1, <3>1, <3>2 DEF ExecutionFits
    <3>4. SlowFits(o, order[o].baseFee)
      BY <2>1, <3>1, <3>2 DEF SlowFits
    <3> QED BY <3>3, <3>4
  <2> QED BY <2>2, <2>3
<1> QED BY <1>1, InvHolds, PTL

\* Whoever was outbid has everything back, and once the order's own USDC has
\* arrived nobody but the highest bidder can have lost anything, at most the
\* deposit.
THEOREM BiddersMadeWhole == Spec => []BiddersAreWhole
<1>1. EvmInv => BiddersAreWhole
  <2> SUFFICES ASSUME EvmInv, NEW o \in Orders, NEW a \in Accounts
               PROVE  /\ auction[o].status = "Active" =>
                           net[o][a] = -Share(a, auction[o].highestBidder,
                                    auction[o].amount + auction[o].securityDeposit)
                      /\ received[o] =>
                           net[o][a] >= -Share(a, auction[o].highestBidder,
                                               auction[o].securityDeposit)
    BY DEF BiddersAreWhole
  <2>1. /\ Stage(o) /\ Whole(o) /\ auction[o].amount \in Nat
        /\ auction[o].securityDeposit \in Nat /\ received[o] \in BOOLEAN
        /\ auction[o].status \in {"None", "Active", "Completed"}
    BY OrderTypes, AmountTypes DEF EvmInv, OrderInv
  <2>2. CASE received[o]
    <3>1. auction[o].status = "Completed"
      BY <2>1, <2>2 DEF Stage
    <3> QED BY <2>1, <2>2, <3>1 DEF Whole, AtStake
  <2>3. CASE ~received[o]
    BY <2>1, <2>3 DEF Whole, AtStake
  <2> QED BY <2>2, <2>3
<1> QED BY <1>1, InvHolds, PTL
-----------------------------------------------------------------------------
(* Refinement *)

\* A step that neither fills an order nor receives its USDC.
LEMMA LifecycleStutter ==
    ASSUME UNCHANGED <<fast, slow, paid, received>>,
           \A x \in Orders : order'[x].kind = "market" <=> order[x].kind = "market"
    PROVE  UNCHANGED Lifecycle!vars
BY DEF Lifecycle!vars, Funds

LEMMA FundsKept ==
    ASSUME UNCHANGED <<order, received>>
    PROVE  Funds' = Funds
BY DEF Funds

\* A payment to the user of at least the agreed amount.
LEMMA Payment ==
    ASSUME TypeOK, NEW o \in Orders, NEW amount \in Nat,
           amount >= AmountIn[o] - MaxFee[o],
           paid' = [paid EXCEPT ![o] = @ + amount]
    PROVE  Lifecycle!Pay(o)
<1>1. /\ paid[o] \in Nat /\ AmountIn[o] \in Nat /\ MaxFee[o] \in Nat
      /\ paid'[o] = paid[o] + amount
  BY OrderTypes DEF TypeOK
<1>2. LeastAmounts[o] = AmountIn[o] - MaxFee[o]
  BY DEF LeastAmounts
<1>3. paid'[o] >= paid[o] + LeastAmounts[o]
  BY <1>1, <1>2
<1>4. paid' = [paid EXCEPT ![o] = paid'[o]]
  BY <1>1
<1> QED BY <1>3, <1>4 DEF Lifecycle!Pay

LEMMA PlaceMarketLifecycle ==
    ASSUME EvmInv, NEW o \in Orders, NEW c \in Chains, PlaceMarketOrder(o, c)
    PROVE  Lifecycle!Next
<1> USE DEF EvmInv
<1>1. /\ order[o].kind = "none"
      /\ order'[o].kind = "market"
      /\ \A x \in Orders \ {o} : order'[x] = order[x]
      /\ slow' = [slow EXCEPT ![o] = @ + 1]
      /\ paid' = [paid EXCEPT ![o] = @ + AmountIn[o]]
      /\ UNCHANGED <<received, fast>>
  BY DEF PlaceMarketOrder, TypeOK, NoOrder
<1>2. /\ ~received[o] /\ fast[o] = 0 /\ slow[o] = 0
  BY <1>1, AmountTypes DEF OrderInv, Stage
<1>3. Funds[o] = "source" /\ Funds' = [Funds EXCEPT ![o] = "spent"]
  BY <1>1, <1>2 DEF Funds
<1>4. slow' = [slow EXCEPT ![o] = 1]
  BY <1>1, <1>2 DEF TypeOK
<1>5. Lifecycle!Pay(o)
  <2>1. AmountIn[o] \in Nat /\ AmountIn[o] >= AmountIn[o] - MaxFee[o]
    BY OrderTypes
  <2> QED BY <1>1, <2>1, Payment
<1>6. Lifecycle!ReceiveAndFillSlow(o)
  BY <1>1, <1>2, <1>3, <1>4, <1>5
     DEF Lifecycle!ReceiveAndFillSlow, Lifecycle!Unfilled
<1> QED BY <1>6 DEF Lifecycle!Next

LEMMA ExecuteFastLifecycle ==
    ASSUME EvmInv, NEW o \in Orders, NEW caller \in Accounts,
           ExecuteFastOrder(o, caller)
    PROVE  Lifecycle!Next
<1> DEFINE user == auction[o].amount - auction[o].bidPrice
                     - order[o].initAuctionFee + PenaltyOf(o).userReward
<1> USE DEF EvmInv
<1>1. /\ auction[o].status = "Active"
      /\ paid' = [paid EXCEPT ![o] = @ + user]
      /\ fast' = [fast EXCEPT ![o] = @ + 1]
      /\ UNCHANGED <<order, received, slow>>
  BY DEF ExecuteFastOrder, HandleCctpTransfer, routerVars
<1>2. /\ user \in Nat /\ user >= AmountIn[o] - MaxFee[o]
  <2>1. /\ auction[o].bidPrice \in Nat /\ order[o].initAuctionFee \in Nat
        /\ auction[o].securityDeposit \in Nat /\ AmountIn[o] \in Nat
        /\ MaxFee[o] \in Nat
    BY AmountTypes, OrderTypes
  <2>2. /\ PenaltyOf(o).userReward \in Nat
        /\ auction[o].securityDeposit + order[o].initAuctionFee = MaxFee[o]
        /\ MaxFee[o] < auction[o].amount /\ auction[o].amount = AmountIn[o]
        /\ auction[o].bidPrice <= auction[o].securityDeposit
    BY <1>1, ActiveNumbers
  <2> QED BY <2>1, <2>2
<1>. HIDE DEF user
<1>3. ~received[o] /\ fast[o] = 0 /\ slow[o] = 0 /\ order[o].kind = "fast"
  BY <1>1 DEF OrderInv, Stage
<1>4. Funds[o] # "spent" /\ Funds' = Funds
  BY <1>1, <1>3, FundsKept DEF Funds
<1>5. fast' = [fast EXCEPT ![o] = 1]
  BY <1>1, <1>3 DEF TypeOK
<1>6. Lifecycle!Pay(o)
  BY <1>1, <1>2, Payment
<1>7. Lifecycle!FillFast(o)
  BY <1>1, <1>3, <1>4, <1>5, <1>6 DEF Lifecycle!FillFast, Lifecycle!Unfilled
<1> QED BY <1>7 DEF Lifecycle!Next

\* The order's own USDC fills it.
LEMMA FillSlowLifecycle ==
    ASSUME EvmInv, NEW o \in Orders, NEW user \in Nat,
           user >= AmountIn[o] - MaxFee[o],
           order[o].kind = "fast", ~received[o], fast[o] = 0, slow[o] = 0,
           received' = [received EXCEPT ![o] = TRUE],
           paid' = [paid EXCEPT ![o] = @ + user],
           slow' = [slow EXCEPT ![o] = @ + 1],
           UNCHANGED <<order, fast>>
    PROVE  Lifecycle!Next
<1> USE DEF EvmInv
<1>1. Funds[o] = "source" /\ Funds' = [Funds EXCEPT ![o] = "spent"]
  BY DEF Funds, TypeOK
<1>2. slow' = [slow EXCEPT ![o] = 1]
  BY DEF TypeOK
<1>3. Lifecycle!Pay(o)
  BY Payment
<1>4. Lifecycle!ReceiveAndFillSlow(o)
  BY <1>1, <1>2, <1>3 DEF Lifecycle!ReceiveAndFillSlow, Lifecycle!Unfilled
<1> QED BY <1>4 DEF Lifecycle!Next

LEMMA SlowUnauctionedLifecycle ==
    ASSUME EvmInv, NEW o \in Orders, NEW s \in Orders, ExecuteSlowUnauctioned(o, s)
    PROVE  Lifecycle!Next
<1> DEFINE user == AmountIn[o] - order[s].baseFee
<1> USE DEF EvmInv
<1>1. /\ auction[o].status = "None" /\ user >= 0
      /\ order[o].kind = "fast" /\ order[s].kind = "fast" /\ Paired(o, s)
      /\ ~received[s] /\ received' = [received EXCEPT ![s] = TRUE]
      /\ paid' = [paid EXCEPT ![o] = @ + user]
      /\ slow' = [slow EXCEPT ![o] = @ + 1]
      /\ UNCHANGED <<order, fast>>
  BY DEF ExecuteSlowUnauctioned, MintAndSpend, HandleCctpTransfer, routerVars
<1>2. s = o
  BY <1>1, PairedIsSame
<1>3. user \in Nat /\ user >= AmountIn[o] - MaxFee[o]
  <2>1. /\ order[o].baseFee \in Nat /\ AmountIn[o] \in Nat /\ MaxFee[o] \in Nat
        /\ order[o].maxFee \in Nat /\ order[o].initAuctionFee \in Nat
    BY AmountTypes, OrderTypes
  <2>2. /\ order[o].maxFee + order[o].initAuctionFee = MaxFee[o]
        /\ order[o].baseFee < order[o].maxFee
    BY <1>1 DEF OrderInv, Agreed
  <2> QED BY <1>1, <1>2, <2>1, <2>2
<1>. HIDE DEF user
<1>4. fast[o] = 0 /\ slow[o] = 0
  BY <1>1 DEF OrderInv, Stage
<1> QED BY <1>1, <1>2, <1>3, <1>4, FillSlowLifecycle

LEMMA SlowActiveLifecycle ==
    ASSUME EvmInv, NEW o \in Orders, NEW s \in Orders, NEW caller \in Accounts,
           ExecuteSlowActive(o, s, caller)
    PROVE  Lifecycle!Next
<1> DEFINE user == auction[o].amount - order[s].baseFee + PenaltyOf(o).userReward
<1> USE DEF EvmInv
<1>1. /\ auction[o].status = "Active"
      /\ order[o].kind = "fast" /\ order[s].kind = "fast" /\ Paired(o, s)
      /\ ~received[s] /\ received' = [received EXCEPT ![s] = TRUE]
      /\ paid' = [paid EXCEPT ![o] = @ + user]
      /\ slow' = [slow EXCEPT ![o] = @ + 1]
      /\ UNCHANGED <<order, fast>>
  BY DEF ExecuteSlowActive, MintAndSpend, HandleCctpTransfer, routerVars
<1>2. s = o
  BY <1>1, PairedIsSame
<1>3. user \in Nat /\ user >= AmountIn[o] - MaxFee[o]
  <2>1. /\ order[o].baseFee \in Nat /\ AmountIn[o] \in Nat /\ MaxFee[o] \in Nat
        /\ auction[o].securityDeposit \in Nat /\ order[o].initAuctionFee \in Nat
    BY AmountTypes, OrderTypes
  <2>2. /\ PenaltyOf(o).userReward \in Nat
        /\ auction[o].securityDeposit + order[o].initAuctionFee = MaxFee[o]
        /\ MaxFee[o] < auction[o].amount /\ auction[o].amount = AmountIn[o]
        /\ order[o].baseFee < auction[o].securityDeposit
    BY <1>1, ActiveNumbers
  <2> QED BY <1>2, <2>1, <2>2
<1>. HIDE DEF user
<1>4. fast[o] = 0 /\ slow[o] = 0
  BY <1>1 DEF OrderInv, Stage
<1> QED BY <1>1, <1>2, <1>3, <1>4, FillSlowLifecycle

LEMMA SlowCompletedLifecycle ==
    ASSUME EvmInv, NEW o \in Orders, NEW s \in Orders, ExecuteSlowCompleted(o, s)
    PROVE  Lifecycle!Next
<1> USE DEF EvmInv
<1>1. /\ auction[o].status = "Completed"
      /\ order[o].kind = "fast" /\ order[s].kind = "fast" /\ Paired(o, s)
      /\ ~received[s] /\ received' = [received EXCEPT ![s] = TRUE]
      /\ UNCHANGED <<order, fast, slow, paid>>
  BY DEF ExecuteSlowCompleted, MintAndSpend, routerVars
<1>2. s = o
  BY <1>1, PairedIsSame
<1>3. fast[o] = 1
  BY <1>1, <1>2 DEF OrderInv, Stage
<1>4. Funds[o] = "source" /\ Funds' = [Funds EXCEPT ![o] = "spent"]
  BY <1>1, <1>2 DEF Funds, TypeOK
<1>5. Lifecycle!ReceiveAndRepay(o)
  BY <1>1, <1>3, <1>4 DEF Lifecycle!ReceiveAndRepay
<1> QED BY <1>5 DEF Lifecycle!Next

LEMMA LifecycleStep == EvmInv /\ [Next]_vars => [Lifecycle!Next]_Lifecycle!vars
<1> SUFFICES ASSUME EvmInv, [Next]_vars, ~(UNCHANGED Lifecycle!vars)
             PROVE  Lifecycle!Next
  OBVIOUS
<1>1. CASE UNCHANGED vars
  BY <1>1, LifecycleStutter DEF vars, routerVars, engineVars
<1>2. ASSUME NEW o \in Orders, PlaceOrder(o) PROVE Lifecycle!Next
  <2>1. ASSUME NEW c \in Chains, NEW d \in Deadlines[o],
               PlaceFastMarketOrder(o, c, d)
        PROVE  UNCHANGED Lifecycle!vars
    <3>1. /\ order[o].kind = "none" /\ order'[o].kind = "fast"
          /\ \A x \in Orders \ {o} : order'[x] = order[x]
          /\ UNCHANGED <<fast, slow, paid, received>>
      BY <2>1 DEF PlaceFastMarketOrder, engineVars, EvmInv, TypeOK
    <3> QED BY <3>1, LifecycleStutter
  <2> QED BY <1>2, <2>1, PlaceMarketLifecycle DEF PlaceOrder
<1>3. ASSUME NEW o \in Orders, Bid(o) PROVE UNCHANGED Lifecycle!vars
  BY <1>3, LifecycleStutter DEF Bid, PlaceInitialBid, ImproveBid, routerVars
<1>4. ASSUME NEW o \in Orders, NEW caller \in Accounts, ExecuteFastOrder(o, caller)
      PROVE  Lifecycle!Next
  BY <1>4, ExecuteFastLifecycle
<1>5. ASSUME NEW o \in Orders, ExecuteSlowOrderAndRedeem(o) PROVE Lifecycle!Next
  BY <1>5, SlowUnauctionedLifecycle, SlowActiveLifecycle, SlowCompletedLifecycle
     DEF ExecuteSlowOrderAndRedeem
<1>6. ASSUME NEW o \in Orders, Redeem(o) PROVE UNCHANGED Lifecycle!vars
  BY <1>6, LifecycleStutter DEF Redeem, RedeemFastFill, RedeemFill, routerVars
<1>7. CASE Administer
  <2>1. AdminCall
    BY <1>7 DEF Administer, AddRouterEndpoint, UpdateRouterEndpoint,
       DisableRouterEndpoint, UpdateFeeRecipient, UpdateFastTransferParameters,
       EnableFastTransfers, SetPause
  <2> QED BY <2>1, LifecycleStutter DEF AdminCall, engineVars
<1>8. CASE Tick
  BY <1>8, LifecycleStutter DEF Tick, routerVars, engineVars
<1> QED BY <1>1, <1>2, <1>3, <1>4, <1>5, <1>6, <1>7, <1>8 DEF Next

\* The EVM contracts keep the promise of OrderLifecycle for every set of orders,
\* chains and accounts: one fill of at least the amount its user agreed to for
\* every order, and its own USDC spent once.
THEOREM EvmKeepsPromise == Spec => ImplementsLifecycle
<1>1. Init => Lifecycle!Init
  BY DEF Init, Lifecycle!Init, Funds, NoOrder
<1> QED BY <1>1, LifecycleStep, InvHolds, PTL
        DEF Spec, ImplementsLifecycle, Lifecycle!Spec
=============================================================================
