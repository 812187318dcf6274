----------------------- MODULE PenaltyScheduleProofs -----------------------
(***************************************************************************)
(* Proofs that the forfeited part of a security deposit follows the line   *)
(* from the initial penalty to the whole deposit, rounding included, and   *)
(* never falls with time, for every auction configuration and every u64    *)
(* deposit and grace period.                                               *)
(***************************************************************************)
EXTENDS PenaltySchedule, TLAPS

\* What division by m leaves.
LEMMA DivFacts ==
    ASSUME NEW a \in Nat, NEW m \in Nat \ {0}
    PROVE  /\ a \div m \in Nat
           /\ m * (a \div m) <= a
           /\ a < m * (a \div m) + m
OBVIOUS

\* A share of a is no more than a.
LEMMA DivBound ==
    ASSUME NEW a \in Nat, NEW b \in Nat, NEW m \in Nat \ {0}, b <= m
    PROVE  (a * b) \div m \in Nat /\ (a * b) \div m <= a
<1>1. a * b \in Nat /\ a * b <= a * m
  OBVIOUS
<1>2. PICK q \in Nat : q = (a * b) \div m /\ m * q <= a * b
  BY <1>1, DivFacts
<1>3. SUFFICES ASSUME a + 1 <= q PROVE FALSE
  BY <1>2
<1>4. m * (a + 1) <= m * q /\ m * (a + 1) = a * m + m
  BY <1>3
<1>. QED BY <1>1, <1>2, <1>4

LEMMA CastIdentity ==
    ASSUME NEW a \in U64
    PROVE  CastToU64(a) = a
BY LimitsAssumption DEF CastToU64, U64

LEMMA DivRest ==
    ASSUME NEW a \in Nat, NEW m \in Nat \ {0}, NEW q, q = a \div m
    PROVE  \E r \in Nat : a = m * q + r /\ r < m
<1>1. q \in Nat /\ m * q <= a /\ a < m * q + m
  BY DivFacts
<1>2. PICK x \in Nat : x = m * q
  BY <1>1
<1>3. a - x \in Nat /\ a = x + (a - x) /\ a - x < m
  BY <1>1, <1>2
<1>. QED BY <1>2, <1>3

LEMMA DivMonotone ==
    ASSUME NEW a \in Nat, NEW b \in Nat, NEW m \in Nat \ {0}, a <= b
    PROVE  a \div m <= b \div m
<1>1. PICK q \in Nat : q = a \div m /\ m * q <= a
  BY DivFacts
<1>2. PICK r \in Nat : r = b \div m /\ b < m * r + m
  BY DivFacts
<1>3. SUFFICES ASSUME r + 1 <= q PROVE FALSE
  BY <1>1, <1>2
<1>4. m * (r + 1) <= m * q
  BY <1>3
<1>5. m * (r + 1) = m * r + m
  OBVIOUS
<1>. QED BY <1>1, <1>2, <1>4, <1>5

\* Of k more the share is at most k more.
LEMMA ShareGrows ==
    ASSUME NEW a \in Nat, NEW k \in Nat, NEW b \in Nat, NEW m \in Nat \ {0}, b <= m
    PROVE  ((a + k) * b) \div m <= (a * b) \div m + k
<1>1. a * b \in Nat /\ (a + k) * b \in Nat
  OBVIOUS
<1>2. PICK q \in Nat : q = (a * b) \div m /\ a * b < m * q + m
  BY <1>1, DivFacts
<1>3. PICK r \in Nat : r = ((a + k) * b) \div m /\ m * r <= (a + k) * b
  BY <1>1, DivFacts
<1>4. SUFFICES ASSUME q + k + 1 <= r PROVE FALSE
  BY <1>2, <1>3
<1>5. (a + k) * b = a * b + k * b
  OBVIOUS
<1>6. k * b <= k * m
  OBVIOUS
<1>7. m * (q + k + 1) <= m * r
  BY <1>4
<1>8. m * (q + k + 1) = m * q + k * m + m
  OBVIOUS
<1>. QED BY <1>1, <1>2, <1>3, <1>5, <1>6, <1>7, <1>8

\* The two roundings of the forfeit, in units of 1 / (m * p): the first is scaled by
\* what is left of the penalty period, the second by m.
LEMMA LineError ==
    ASSUME NEW whole \in Nat, NEW bps \in Nat, NEW m \in Nat \ {0},
           NEW p \in Nat \ {0}, NEW late \in 0 .. p, bps <= m,
           NEW base \in Nat, base = (whole * bps) \div m, base <= whole,
           NEW scaled \in Nat, scaled = ((whole - base) * late) \div p
    PROVE  LET error == whole * (bps * p + (m - bps) * late) - (base + scaled) * (m * p)
           IN  error >= 0 /\ error < 2 * (m * p)
<1>1. PICK r \in Nat : whole * bps = m * base + r /\ r < m
  <2>1. whole * bps \in Nat
    OBVIOUS
  <2>. QED BY <2>1, DivRest
<1>2. PICK s \in Nat : (whole - base) * late = p * scaled + s /\ s < p
  <2>1. whole - base \in Nat /\ late \in Nat
    OBVIOUS
  <2>2. (whole - base) * late \in Nat
    BY <2>1
  <2>. QED BY <2>2, DivRest
<1>3. whole * (bps * p) = m * base * p + r * p
  <2>1. whole * (bps * p) = (whole * bps) * p
    OBVIOUS
  <2>2. (m * base + r) * p = m * base * p + r * p
    OBVIOUS
  <2>. QED BY <1>1, <2>1, <2>2
<1>4. whole * ((m - bps) * late) = m * (p * scaled + s) - r * late
  <2>1. whole * ((m - bps) * late) = m * (whole * late) - (whole * bps) * late
    OBVIOUS
  <2>2. (whole * bps) * late = m * (base * late) + r * late
    <3>1. (m * base + r) * late = m * (base * late) + r * late
      OBVIOUS
    <3>. QED BY <1>1, <3>1
  <2>3. m * (whole * late) - m * (base * late) = m * ((whole - base) * late)
    OBVIOUS
  <2>4. /\ m * (whole * late) \in Int /\ m * (base * late) \in Int
        /\ r * late \in Int
    OBVIOUS
  <2>5. whole * ((m - bps) * late) = m * ((whole - base) * late) - r * late
    BY <2>1, <2>2, <2>3, <2>4
  <2>. QED BY <1>2, <2>5
<1>5. whole * (bps * p + (m - bps) * late)
         = whole * (bps * p) + whole * ((m - bps) * late)
  OBVIOUS
<1>6. (base + scaled) * (m * p) = m * base * p + m * (p * scaled)
  <2>1. PICK x \in Nat : x = m * p
    OBVIOUS
  <2>2. (base + scaled) * x = base * x + scaled * x
    BY <2>1
  <2>3. base * (m * p) = m * base * p
    OBVIOUS
  <2>4. scaled * (m * p) = m * (p * scaled)
    OBVIOUS
  <2>. QED BY <2>1, <2>2, <2>3, <2>4
<1>7. m * (p * scaled + s) = m * (p * scaled) + m * s
  OBVIOUS
<1>8. whole * (bps * p + (m - bps) * late) - (base + scaled) * (m * p)
         = (r * p - r * late) + m * s
  <2>1. /\ m * base * p \in Int /\ m * (p * scaled) \in Int /\ m * s \in Int
        /\ r * p \in Int /\ r * late \in Int
    OBVIOUS
  <2>. QED BY <1>3, <1>4, <1>5, <1>6, <1>7, <2>1
<1>9. PICK u \in Int, v \in Int, w \in Int, x \in Int :
         u = r * late /\ v = r * p /\ w = m * s /\ x = m * p
  OBVIOUS
<1>10. u >= 0 /\ w >= 0
  BY <1>9
<1>11. u <= v
  <2>1. late \in Nat /\ late <= p
    OBVIOUS
  <2>. QED BY <1>9, <2>1
<1>12. v <= x /\ w < x
  <2>1. r * p <= m * p
    BY <1>1
  <2>2. m * s < m * p
    BY <1>2
  <2>. QED BY <1>9, <2>1, <2>2
<1>13. (v - u) + w >= 0 /\ (v - u) + w < 2 * x
  BY <1>10, <1>11, <1>12
<1>14. (r * p - r * late) + m * s = (v - u) + w /\ 2 * (m * p) = 2 * x
  BY <1>9
<1> DEFINE error == whole * (bps * p + (m - bps) * late) - (base + scaled) * (m * p)
<1>15. error = (v - u) + w
  BY <1>8, <1>14
<1>16. error >= 0 /\ error < 2 * (m * p)
  <2>. HIDE DEF error
  <2>. QED BY <1>13, <1>14, <1>15
<1>. QED BY <1>16

LEMMA MulBpsIs ==
    ASSUME NEW amount \in U64, NEW bps \in 0 .. FEE_PRECISION_MAX
    PROVE  /\ MulBps(amount, bps) = (amount * bps) \div FEE_PRECISION_MAX
           /\ MulBps(amount, bps) \in 0 .. amount
<1> DEFINE q == (amount * bps) \div FEE_PRECISION_MAX
<1>1. q \in Nat /\ q <= amount
  BY DivBound, LimitsAssumption DEF U64
<1>2. q \in U64
  BY <1>1, LimitsAssumption DEF U64
<1>. HIDE DEF q
<1>3. CastToU64(q) = q
  BY <1>2, CastIdentity
<1>. QED BY <1>1, <1>3 DEF MulBps, q

\* Inside the penalty period nothing saturates or is cut off.
LEMMA ScaledForfeitIs ==
    ASSUME NEW parameters \in AuctionParameters, NEW amount \in U64,
           NEW late \in 0 .. parameters.penaltyPeriod
    PROVE  \E base \in 0 .. amount, scaled \in Nat :
              /\ base = (amount * parameters.initialPenaltyBps) \div FEE_PRECISION_MAX
              /\ scaled = ((amount - base) * late) \div parameters.penaltyPeriod
              /\ ScaledForfeit(parameters, amount, late) = base + scaled
              /\ base + scaled <= amount
<1>1. PICK base \in 0 .. amount :
         /\ base = MulBps(amount, parameters.initialPenaltyBps)
         /\ base = (amount * parameters.initialPenaltyBps) \div FEE_PRECISION_MAX
  BY MulBpsIs DEF AuctionParameters
<1>2. amount \in Nat /\ amount <= U64_MAX /\ amount - base \in Nat
      /\ SaturatingSub(amount, base) = amount - base
  BY <1>1, LimitsAssumption DEF U64, SaturatingSub
<1>3. parameters.penaltyPeriod \in Nat \ {0} /\ late \in Nat
      /\ late <= parameters.penaltyPeriod
  BY LimitsAssumption DEF AuctionParameters, U64
<1>4. PICK scaled \in Nat :
         scaled = ((amount - base) * late) \div parameters.penaltyPeriod
         /\ scaled <= amount - base
  BY <1>2, <1>3, DivBound
<1>5. CastToU64(scaled) = scaled
  <2>1. scaled \in U64
    BY <1>1, <1>2, <1>4, LimitsAssumption DEF U64
  <2>. QED BY <2>1, CastIdentity
<1>6. ScaledForfeit(parameters, amount, late) = SaturatingAdd(base, scaled)
  <2> DEFINE q == ((amount - base) * late) \div parameters.penaltyPeriod
  <2>1. CastToU64(q) = scaled
    BY <1>4, <1>5
  <2>2. ScaledForfeit(parameters, amount, late) = SaturatingAdd(base, CastToU64(q))
    BY <1>1, <1>2 DEF ScaledForfeit
  <2>. HIDE DEF q
  <2>. QED BY <2>1, <2>2
<1>7. SaturatingAdd(base, scaled) = base + scaled /\ base + scaled <= amount
  BY <1>1, <1>2, <1>4, LimitsAssumption DEF SaturatingAdd
<1>. QED BY <1>1, <1>4, <1>6, <1>7

\* What compute_deposit_penalty splits.
Forfeited(parameters, startSlot, amount, at, more) ==
    LET grace == GracePeriodEndSlot(parameters, startSlot, more)
    IN  IF at <= grace THEN 0
        ELSE IF \/ at >= PenaltyPeriodEndSlot(parameters, startSlot, more)
                \/ parameters.initialPenaltyBps = FEE_PRECISION_MAX
        THEN amount
        ELSE ScaledForfeit(parameters, amount, at - grace)

\* The ends of the periods, and how late an execution before the second is.
LEMMA Periods ==
    ASSUME NEW parameters \in AuctionParameters, NEW startSlot \in U64, NEW more \in U64
    PROVE  LET grace == GracePeriodEndSlot(parameters, startSlot, more)
               end == PenaltyPeriodEndSlot(parameters, startSlot, more)
           IN  /\ grace \in U64 /\ end \in U64
               /\ grace = IF startSlot + parameters.duration + parameters.gracePeriod
                                + more > U64_MAX
                          THEN U64_MAX
                          ELSE startSlot + parameters.duration + parameters.gracePeriod + more
               /\ end = IF grace + parameters.penaltyPeriod > U64_MAX THEN U64_MAX
                        ELSE grace + parameters.penaltyPeriod
<1>1. /\ parameters.duration \in Nat /\ parameters.gracePeriod \in Nat
      /\ parameters.penaltyPeriod \in Nat /\ startSlot \in Nat /\ more \in Nat
      /\ U64_MAX \in Nat /\ startSlot <= U64_MAX
  BY LimitsAssumption DEF AuctionParameters, U64
<1>2. PICK e \in Nat :
         /\ e = AuctionEndSlot(parameters, startSlot)
         /\ e = IF startSlot + parameters.duration > U64_MAX THEN U64_MAX
                ELSE startSlot + parameters.duration
  BY <1>1 DEF AuctionEndSlot, SaturatingAdd
<1>3. PICK f \in Nat :
         /\ f = SaturatingAdd(e, parameters.gracePeriod)
         /\ f = IF e + parameters.gracePeriod > U64_MAX THEN U64_MAX
                ELSE e + parameters.gracePeriod
  BY <1>1, <1>2 DEF SaturatingAdd
<1>4. PICK grace \in Nat :
         /\ grace = GracePeriodEndSlot(parameters, startSlot, more)
         /\ grace = IF f + more > U64_MAX THEN U64_MAX ELSE f + more
  BY <1>1, <1>2, <1>3 DEF GracePeriodEndSlot, SaturatingAdd
<1>5. PenaltyPeriodEndSlot(parameters, startSlot, more)
         = IF grace + parameters.penaltyPeriod > U64_MAX THEN U64_MAX
           ELSE grace + parameters.penaltyPeriod
  BY <1>4 DEF PenaltyPeriodEndSlot, SaturatingAdd
<1>. QED BY <1>1, <1>2, <1>3, <1>4, <1>5 DEF U64

LEMMA PenaltyIsSplit ==
    ASSUME NEW parameters \in AuctionParameters, NEW startSlot \in U64,
           NEW amount \in U64, NEW at \in U64, NEW more \in U64
    PROVE  LET d == ComputeDepositPenalty(parameters, startSlot, amount, at, more)
               f == Forfeited(parameters, startSlot, amount, at, more)
           IN  /\ f \in 0 .. amount
               /\ d.userReward = (f * parameters.userPenaltyRewardBps)
                                     \div FEE_PRECISION_MAX
               /\ d.userReward \in 0 .. f
               /\ d.penalty = f - d.userReward
<1> SUFFICES ASSUME NEW d, d = ComputeDepositPenalty(parameters, startSlot, amount, at, more),
                    NEW f, f = Forfeited(parameters, startSlot, amount, at, more)
             PROVE  /\ f \in 0 .. amount
                    /\ d.userReward = (f * parameters.userPenaltyRewardBps)
                                          \div FEE_PRECISION_MAX
                    /\ d.userReward \in 0 .. f
                    /\ d.penalty = f - d.userReward
  OBVIOUS
<1> DEFINE grace == GracePeriodEndSlot(parameters, startSlot, more)
           end == PenaltyPeriodEndSlot(parameters, startSlot, more)
<1>1. /\ at \in Nat /\ amount \in Nat /\ amount <= U64_MAX /\ U64_MAX \in Nat
      /\ parameters.penaltyPeriod \in Nat
      /\ parameters.userPenaltyRewardBps \in 0 .. FEE_PRECISION_MAX
      /\ FEE_PRECISION_MAX \in Nat \ {0}
  BY LimitsAssumption DEF U64, AuctionParameters
<1>2. grace \in Nat /\ end \in Nat /\ end <= grace + parameters.penaltyPeriod
  <2>1. /\ grace \in U64 /\ end \in U64
        /\ end = IF grace + parameters.penaltyPeriod > U64_MAX THEN U64_MAX
                 ELSE grace + parameters.penaltyPeriod
    BY Periods
  <2>. HIDE DEF grace, end
  <2>. QED BY <1>1, <2>1 DEF U64
<1>3. ASSUME NEW g \in 0 .. amount, d = SplitUserPenaltyReward(parameters, g), f = g
      PROVE  /\ d.userReward = (f * parameters.userPenaltyRewardBps) \div FEE_PRECISION_MAX
             /\ d.userReward \in 0 .. f
             /\ d.penalty = f - d.userReward
  <2>1. g \in U64
    BY <1>1 DEF U64
  <2>2. PICK reward \in 0 .. g :
           /\ reward = MulBps(g, parameters.userPenaltyRewardBps)
           /\ reward = (g * parameters.userPenaltyRewardBps) \div FEE_PRECISION_MAX
    BY <1>1, <2>1, MulBpsIs
  <2>3. d = [penalty |-> SaturatingSub(g, reward), userReward |-> reward]
    BY <1>3, <2>2 DEF SplitUserPenaltyReward
  <2>4. SaturatingSub(g, reward) = g - reward
    BY <1>1, <2>2 DEF SaturatingSub
  <2>. QED BY <1>3, <2>2, <2>3, <2>4
<1>4. CASE at <= grace
  <2>1. d = NoDepositPenalty /\ f = 0
    BY <1>4 DEF ComputeDepositPenalty, WithinGracePeriod, Forfeited
  <2>2. (0 * parameters.userPenaltyRewardBps) \div FEE_PRECISION_MAX = 0
    BY <1>1
  <2>. QED BY <1>1, <2>1, <2>2 DEF NoDepositPenalty
<1>5. CASE /\ ~(at <= grace)
           /\ at >= end \/ parameters.initialPenaltyBps = FEE_PRECISION_MAX
  <2>1. d = SplitUserPenaltyReward(parameters, amount) /\ f = amount
    BY <1>5 DEF ComputeDepositPenalty, WithinGracePeriod, Forfeited
  <2>. QED BY <1>1, <1>3, <2>1
<1>6. CASE /\ ~(at <= grace)
           /\ ~(at >= end) /\ parameters.initialPenaltyBps # FEE_PRECISION_MAX
  <2>1. at - grace \in 0 .. parameters.penaltyPeriod
        /\ SaturatingSub(at, grace) = at - grace
    <3>. HIDE DEF grace, end
    <3>. QED BY <1>1, <1>2, <1>6 DEF SaturatingSub
  <2>2. d = SplitUserPenaltyReward(parameters, f)
        /\ f = ScaledForfeit(parameters, amount, at - grace)
    BY <1>6, <2>1 DEF ComputeDepositPenalty, WithinGracePeriod, Forfeited
  <2>. HIDE DEF grace, end
  <2>3. f \in 0 .. amount
    BY <1>1, <2>1, <2>2, ScaledForfeitIs
  <2>. QED BY <1>3, <2>2, <2>3
<1>. QED BY <1>4, <1>5, <1>6

\* What is forfeited grows with the slot: from nothing to the initial part, along the
\* line, and to the whole deposit.
LEMMA ForfeitGrows ==
    ASSUME NEW parameters \in AuctionParameters, NEW startSlot \in U64,
           NEW amount \in U64, NEW more \in U64,
           NEW at \in U64, NEW later \in U64, at <= later
    PROVE  Forfeited(parameters, startSlot, amount, at, more)
              <= Forfeited(parameters, startSlot, amount, later, more)
<1>1. PICK f, g :
         /\ f = Forfeited(parameters, startSlot, amount, at, more)
         /\ g = Forfeited(parameters, startSlot, amount, later, more)
         /\ f \in 0 .. amount /\ g \in 0 .. amount
  BY PenaltyIsSplit
<1>2. PICK grace \in Nat, end \in Nat, p \in Nat :
         /\ grace = GracePeriodEndSlot(parameters, startSlot, more)
         /\ end = PenaltyPeriodEndSlot(parameters, startSlot, more)
         /\ p = parameters.penaltyPeriod /\ p # 0
         /\ end <= grace + p
  <2>1. parameters.penaltyPeriod \in Nat \ {0} /\ U64_MAX \in Nat
    BY LimitsAssumption DEF AuctionParameters, U64
  <2> DEFINE gr == GracePeriodEndSlot(parameters, startSlot, more)
             en == PenaltyPeriodEndSlot(parameters, startSlot, more)
  <2>2. /\ gr \in U64 /\ en \in U64
        /\ en = IF gr + parameters.penaltyPeriod > U64_MAX THEN U64_MAX
                ELSE gr + parameters.penaltyPeriod
    BY Periods
  <2>. HIDE DEF gr, en
  <2>3. gr \in Nat /\ en \in Nat /\ en <= gr + parameters.penaltyPeriod
    BY <2>1, <2>2 DEF U64
  <2>. QED BY <2>1, <2>3 DEF gr, en
<1>3. at \in Nat /\ later \in Nat /\ amount \in Nat
  BY LimitsAssumption DEF U64
<1>4. CASE at <= grace
  <2>1. f = 0
    BY <1>1, <1>2, <1>4 DEF Forfeited
  <2>. QED BY <1>1, <1>3, <2>1
<1>5. CASE ~(at <= grace) /\ (later >= end \/ parameters.initialPenaltyBps = FEE_PRECISION_MAX)
  <2>1. ~(later <= grace)
    BY <1>2, <1>3, <1>5
  <2>2. g = amount
    BY <1>1, <1>2, <1>5, <2>1 DEF Forfeited
  <2>. QED BY <1>1, <1>3, <2>2
<1>6. CASE /\ ~(at <= grace) /\ ~(later >= end)
           /\ parameters.initialPenaltyBps # FEE_PRECISION_MAX
  <2>1. /\ ~(later <= grace) /\ ~(at >= end)
        /\ at - grace \in 0 .. p /\ later - grace \in 0 .. p
        /\ at - grace <= later - grace
    BY <1>2, <1>3, <1>6
  <2>2. /\ f = ScaledForfeit(parameters, amount, at - grace)
        /\ g = ScaledForfeit(parameters, amount, later - grace)
    BY <1>1, <1>2, <1>6, <2>1 DEF Forfeited
  <2>3. PICK base \in 0 .. amount, scaled \in Nat :
           /\ base = (amount * parameters.initialPenaltyBps) \div FEE_PRECISION_MAX
           /\ scaled = ((amount - base) * (at - grace)) \div p
           /\ f = base + scaled
    BY <1>2, <2>1, <2>2, ScaledForfeitIs
  <2>4. PICK again \in 0 .. amount, more2 \in Nat :
           /\ again = (amount * parameters.initialPenaltyBps) \div FEE_PRECISION_MAX
           /\ more2 = ((amount - again) * (later - grace)) \div p
           /\ g = again + more2
    BY <1>2, <2>1, <2>2, ScaledForfeitIs
  <2>5. scaled <= more2
    <3>1. PICK rest \in Nat, x \in Nat, y \in Nat :
             rest = amount - base /\ x = at - grace /\ y = later - grace /\ x <= y
      BY <1>3, <2>1, <2>3
    <3>2. rest * x \in Nat /\ rest * y \in Nat /\ rest * x <= rest * y
      BY <3>1
    <3>3. (rest * x) \div p <= (rest * y) \div p
      BY <1>2, <3>2, DivMonotone
    <3>. QED BY <2>3, <2>4, <3>1, <3>3
  <2>. QED BY <1>1, <1>3, <2>3, <2>4, <2>5
<1>. QED BY <1>4, <1>5, <1>6

-----------------------------------------------------------------------------
(* The schedule of one auction *)

ScheduleTypeOK ==
    /\ params \in AuctionParameters
    /\ deposit \in U64 /\ additional \in U64
    /\ slot \in Nat /\ slot <= LastSlot

LEMMA ScheduleType == Spec => []ScheduleTypeOK
<1>1. Init => ScheduleTypeOK
  BY ScheduleAssumption DEF Init, ScheduleTypeOK
<1>2. ScheduleTypeOK /\ [Next]_vars => ScheduleTypeOK'
  BY ScheduleAssumption DEF ScheduleTypeOK, Next, AdvanceSlot, vars
<1>. QED BY <1>1, <1>2, PTL DEF Spec

\* The forfeit is nothing within the grace period, the whole deposit from the end of
\* the penalty period on, and what LineError is about in between.
LEMMA OnTheLine ==
    ASSUME ScheduleTypeOK
    PROVE  ForfeitFollowsLine
<1> DEFINE i == params.initialPenaltyBps
           p == params.penaltyPeriod
           F == FEE_PRECISION_MAX
           S == params.duration + params.gracePeriod + additional
           grace == GracePeriodEndSlot(params, 0, additional)
           end == PenaltyPeriodEndSlot(params, 0, additional)
           f == Forfeited(params, 0, deposit, slot, additional)
<1>1. /\ i \in Nat /\ i <= F /\ p \in Nat \ {0} /\ F \in Nat \ {0}
      /\ S \in Nat /\ deposit \in Nat /\ slot \in Nat
      /\ slot < U64_MAX /\ U64_MAX \in Nat /\ slot \in U64 /\ 0 \in U64
  BY LimitsAssumption, ScheduleAssumption DEF ScheduleTypeOK, AuctionParameters, U64
<1>2. /\ grace = IF S > U64_MAX THEN U64_MAX ELSE S
      /\ end = IF grace + p > U64_MAX THEN U64_MAX ELSE grace + p
  <2>1. 0 + params.duration + params.gracePeriod + additional = S
    BY LimitsAssumption DEF ScheduleTypeOK, AuctionParameters, U64
  <2>. QED BY <1>1, <2>1, Periods DEF ScheduleTypeOK
<1>3. f \in 0 .. deposit /\ Forfeit = f
  <2>1. PICK d, g : /\ d = ComputeDepositPenalty(params, 0, deposit, slot, additional)
                    /\ g = f
    OBVIOUS
  <2>2. g \in 0 .. deposit /\ d.userReward \in 0 .. g /\ d.penalty = g - d.userReward
    <3>1. /\ params \in AuctionParameters /\ 0 \in U64 /\ deposit \in U64
          /\ slot \in U64 /\ additional \in U64
      BY <1>1 DEF ScheduleTypeOK
    <3>2. LET x == ComputeDepositPenalty(params, 0, deposit, slot, additional)
              y == Forfeited(params, 0, deposit, slot, additional)
          IN  y \in 0 .. deposit /\ x.userReward \in 0 .. y
              /\ x.penalty = y - x.userReward
      BY ONLY <3>1, PenaltyIsSplit
    <3>. QED BY <2>1, <3>2
  <2>3. Forfeit = d.penalty + d.userReward
    BY <2>1 DEF Forfeit, Penalty
  <2>. HIDE DEF f
  <2>. QED BY <1>1, <2>1, <2>2, <2>3
<1>4. f = IF slot <= grace THEN 0
          ELSE IF slot >= end \/ i = F THEN deposit
          ELSE ScaledForfeit(params, deposit, slot - grace)
  BY DEF Forfeited
<1>5. Late = IF slot - S < 0 THEN 0 ELSE IF slot - S > p THEN p ELSE slot - S
  BY DEF Late
<1>6. ForfeitFollowsLine <=>
         IF Late = 0 THEN Forfeit = 0
         ELSE /\ deposit * (i * p + (F - i) * Late) - Forfeit * (F * p) >= 0
              /\ deposit * (i * p + (F - i) * Late) - Forfeit * (F * p) < 2 * (F * p)
              /\ Late = p => Forfeit = deposit
  BY DEF ForfeitFollowsLine
<1>. HIDE DEF i, p, F, S, grace, end, f
<1>7. CASE slot <= grace
  <2>1. Late = 0 /\ Forfeit = 0
    BY <1>1, <1>2, <1>3, <1>4, <1>5, <1>7
  <2>. QED BY <1>6, <2>1
<1>8. CASE ~(slot <= grace)
  <2>1. grace = S /\ Late # 0 /\ Late \in 0 .. p
    BY <1>1, <1>2, <1>5, <1>8
  <2>2. CASE slot >= end \/ i = F
    <3>1. Forfeit = deposit
      BY <1>3, <1>4, <1>8, <2>2
    <3>2. i * p + (F - i) * Late = F * p
      <4>1. CASE i = F
        <5>1. F - i = 0 /\ 0 * Late = 0
          BY <1>1, <2>1, <4>1
        <5>2. F * p \in Nat /\ i * p = F * p
          BY <1>1, <4>1
        <5>. QED BY <5>1, <5>2
      <4>2. CASE slot >= end
        <5>1. Late = p
          BY <1>1, <1>2, <1>5, <1>8, <2>1, <4>2
        <5>2. i * p + (F - i) * p = F * p
          BY <1>1
        <5>. QED BY <5>1, <5>2
      <4>. QED BY <2>2, <4>1, <4>2
    <3>3. F * p \in Nat /\ F * p > 0
      BY <1>1
    <3>4. deposit * (F * p) \in Nat
      BY <1>1, <3>3
    <3>. QED BY <1>6, <2>1, <3>1, <3>2, <3>3, <3>4
  <2>3. CASE ~(slot >= end) /\ i # F
    <3>1. Late = slot - grace /\ Late # p /\ Late \in 0 .. p
      BY <1>1, <1>2, <1>5, <1>8, <2>1, <2>3
    <3>2. f = ScaledForfeit(params, deposit, Late)
      BY <1>4, <1>8, <2>3, <3>1
    <3>3. PICK base \in 0 .. deposit, scaled \in Nat :
             /\ base = (deposit * i) \div F
             /\ scaled = ((deposit - base) * Late) \div p
             /\ f = base + scaled
      BY <3>1, <3>2, ScaledForfeitIs DEF ScheduleTypeOK, i, p, F
    <3>4. PICK late \in 0 .. p : late = Late
      BY <3>1
    <3>5. base \in Nat /\ base <= deposit
      BY <1>1, <3>3
    <3>6. /\ deposit * (i * p + (F - i) * late) - (base + scaled) * (F * p) >= 0
          /\ deposit * (i * p + (F - i) * late) - (base + scaled) * (F * p) < 2 * (F * p)
      BY <1>1, <3>3, <3>4, <3>5, LineError
    <3>. QED BY <1>3, <1>6, <2>1, <3>1, <3>3, <3>4, <3>6
  <2>. QED BY <2>2, <2>3
<1>. QED BY <1>7, <1>8

\* compute_deposit_penalty is the straight line from the initial penalty to the whole
\* deposit, rounded down twice, for every valid configuration and every deposit.
THEOREM ForfeitOnLine == Spec => []ForfeitFollowsLine
<1>1. ScheduleTypeOK => ForfeitFollowsLine
  BY OnTheLine
<1>. QED BY <1>1, ScheduleType, PTL

\* Waiting one slot more makes an execution no cheaper for the best offer and no worse
\* for the user (compute_deposit_penalty, split_user_penalty_reward).
THEOREM PenaltyGrows == Spec => PenaltyNeverFalls
<1>1. ASSUME ScheduleTypeOK, ScheduleTypeOK', Next
      PROVE  /\ Penalty'.penalty >= Penalty.penalty
             /\ Penalty'.userReward >= Penalty.userReward
  <2>0. PICK next : next = slot + 1
    OBVIOUS
  <2>1. PICK d, e :
           /\ d = ComputeDepositPenalty(params, 0, deposit, slot, additional)
           /\ e = ComputeDepositPenalty(params, 0, deposit, next, additional)
    OBVIOUS
  <2>2. Penalty = d /\ Penalty' = e
    BY <1>1, <2>0, <2>1 DEF Penalty, Next, AdvanceSlot
  <2>3. /\ slot \in U64 /\ next \in U64 /\ 0 \in U64 /\ slot <= next
        /\ deposit \in U64 /\ additional \in U64 /\ params \in AuctionParameters
    BY <1>1, <2>0, LimitsAssumption, ScheduleAssumption
       DEF ScheduleTypeOK, Next, AdvanceSlot, U64
  <2>4. PICK f, g :
           /\ f = Forfeited(params, 0, deposit, slot, additional)
           /\ g = Forfeited(params, 0, deposit, next, additional)
    OBVIOUS
  <2>5. PICK F \in Nat \ {0}, b \in Nat : /\ F = FEE_PRECISION_MAX /\ b <= F
                                          /\ b = params.userPenaltyRewardBps
    BY <2>3, LimitsAssumption DEF AuctionParameters
  <2>6. /\ f \in 0 .. deposit /\ d.userReward = (f * b) \div F
        /\ d.penalty = f - d.userReward /\ d.userReward \in 0 .. f
    <3>1. LET x == ComputeDepositPenalty(params, 0, deposit, slot, additional)
              y == Forfeited(params, 0, deposit, slot, additional)
          IN  /\ y \in 0 .. deposit
              /\ x.userReward = (y * params.userPenaltyRewardBps) \div FEE_PRECISION_MAX
              /\ x.userReward \in 0 .. y
              /\ x.penalty = y - x.userReward
      BY ONLY <2>3, PenaltyIsSplit
    <3>. QED BY <2>1, <2>4, <2>5, <3>1
  <2>7. /\ g \in 0 .. deposit /\ e.userReward = (g * b) \div F
        /\ e.penalty = g - e.userReward /\ e.userReward \in 0 .. g
    <3>1. LET x == ComputeDepositPenalty(params, 0, deposit, next, additional)
              y == Forfeited(params, 0, deposit, next, additional)
          IN  /\ y \in 0 .. deposit
              /\ x.userReward = (y * params.userPenaltyRewardBps) \div FEE_PRECISION_MAX
              /\ x.userReward \in 0 .. y
              /\ x.penalty = y - x.userReward
      BY ONLY <2>3, PenaltyIsSplit
    <3>. QED BY <2>1, <2>4, <2>5, <3>1
  <2>8. f <= g
    BY <2>3, <2>4, ForfeitGrows
  <2>9. deposit \in Nat
    BY <2>3, LimitsAssumption DEF U64
  <2>10. PICK m \in Nat, k \in Nat : m = f /\ g = m + k
    <3>1. f \in Nat /\ g - f \in Nat /\ g = f + (g - f)
      BY <2>6, <2>7, <2>8, <2>9
    <3>. QED BY <3>1
  <2>11. (m * b) \div F <= ((m + k) * b) \div F
    <3>1. m * b \in Nat /\ (m + k) * b \in Nat /\ m * b <= (m + k) * b
      OBVIOUS
    <3>. QED BY <3>1, DivMonotone
  <2>12. ((m + k) * b) \div F <= (m * b) \div F + k
    BY <2>5, ShareGrows
  <2>. QED BY <2>2, <2>6, <2>7, <2>9, <2>10, <2>11, <2>12
<1>2. ScheduleTypeOK /\ ScheduleTypeOK' /\ [Next]_vars
        => [/\ Penalty'.penalty >= Penalty.penalty
            /\ Penalty'.userReward >= Penalty.userReward]_vars
  BY <1>1
<1>. QED BY <1>2, ScheduleType, PTL DEF Spec, PenaltyNeverFalls
=============================================================================
