-------------------------- MODULE SettlementProofs --------------------------
(***************************************************************************)
(* Facts about the settlement arithmetic, for all amounts and all rates up *)
(* to one hundred percent.                                                 *)
(***************************************************************************)
EXTENDS SettlementMath, SumTheorems

(* A rate in basis points.                                                 *)
Rate == 0 .. BPS_DENOMINATOR

(* Multiplying by a larger number gives a larger product.                  *)
LEMMA MulMonotone ==
  ASSUME NEW a \in Nat, NEW b \in Nat, NEW c \in Nat, b <= c
  PROVE  a * b <= a * c
<1>1. PICK d \in Nat : c = b + d
  <2>1. c - b \in Nat /\ c = b + (c - b)
    OBVIOUS
  <2> QED BY <2>1
<1>2. a * c = a * b + a * d /\ a * d \in Nat /\ a * b \in Nat
  BY <1>1
<1> QED BY <1>2

(* Rounding down: a quotient is bounded as its dividend is.                *)
LEMMA DivBounds ==
  ASSUME NEW x \in Nat, NEW q \in Nat, NEW d \in Nat \ {0}
  PROVE  /\ x \div d \in Nat
         /\ x <= q * d => x \div d <= q
         /\ q * d <= x => q <= x \div d
<1> DEFINE k == x \div d
<1>1. k \in Nat /\ k * d <= x /\ x < k * d + d
  <2>1. k \in Nat /\ d * k <= x /\ x < d * k + d
    OBVIOUS
  <2> QED BY <2>1
<1> HIDE DEF k
<1>2. ASSUME x <= q * d, k > q
      PROVE  FALSE
  <2>1. d * (q + 1) <= d * k
    BY <1>1, <1>2, MulMonotone
  <2>2. d * (q + 1) = q * d + d /\ d * k = k * d
    BY <1>1
  <2> QED BY <1>1, <1>2, <2>1, <2>2
<1>3. ASSUME q * d <= x, k < q
      PROVE  FALSE
  <2>1. d * (k + 1) <= d * q
    BY <1>1, <1>3, MulMonotone
  <2>2. d * (k + 1) = k * d + d /\ d * q = q * d
    BY <1>1
  <2> QED BY <1>1, <1>3, <2>1, <2>2
<1>4. k \in Nat /\ (x <= q * d => k <= q) /\ (q * d <= x => q <= k)
  BY <1>1, <1>2, <1>3
<1> QED BY <1>4 DEF k

(* A fee in basis points never exceeds the amount it is charged on.        *)
LEMMA BpsBounded ==
  ASSUME NEW amount \in Nat, NEW bps \in Rate
  PROVE  BpsOf(amount, bps) \in Nat /\ BpsOf(amount, bps) <= amount
<1>1. bps \in Nat /\ bps <= 10000 /\ 10000 \in Nat \ {0}
  BY DEF Rate, BPS_DENOMINATOR
<1>2. amount * bps \in Nat /\ amount * bps <= amount * 10000
  BY <1>1, MulMonotone
<1> QED BY <1>1, <1>2, DivBounds DEF BpsOf, BPS_DENOMINATOR

(* The fee of an Up/Down round, under either model and at any rate, is     *)
(* taken from the pools and nothing else: what is left of them and the fee *)
(* add up to the pot, and neither pool is overdrawn, even when the fee is  *)
(* larger than the losing pool and spills over into the winning one.       *)
THEOREM UpdownFeeConserves ==
  ASSUME NEW bps \in Rate \cup {None}, NEW model \in {"FeeOnPot", "FeeOnWinnings"},
         NEW winning \in Nat, NEW losing \in Nat
  PROVE  LET net == ProtocolFeeUpdown(bps, model, winning, losing)
         IN  /\ net.winning \in Nat /\ net.losing \in Nat /\ net.fee \in Nat
             /\ net.winning + net.losing + net.fee = winning + losing
             /\ model = "FeeOnWinnings" => net.winning = winning
<1> DEFINE base == IF model = "FeeOnPot" THEN winning + losing ELSE losing
           fee  == UpdownFee(bps, model, winning, losing)
<1>1. base \in Nat
  OBVIOUS
<1>2. fee \in Nat /\ fee <= base
  <2>1. CASE bps = None
    BY <1>1, <2>1 DEF UpdownFee
  <2>2. CASE bps # None
    <3>1. bps \in Rate /\ fee = BpsOf(base, bps)
      BY <2>2 DEF UpdownFee
    <3> HIDE DEF base, fee
    <3> QED BY <1>1, <3>1, BpsBounded
  <2> QED BY <2>1, <2>2
<1>3. CASE model = "FeeOnPot"
  <2>1. fee <= winning + losing
    BY <1>2, <1>3
  <2> HIDE DEF fee
  <2>2. LET l == Lesser(fee, losing) IN
        /\ l \in Nat /\ losing - l \in Nat /\ fee - l \in Nat /\ winning - (fee - l) \in Nat
        /\ winning - (fee - l) + (losing - l) + fee = winning + losing
    BY <1>2, <2>1 DEF Lesser
  <2> QED BY <1>2, <1>3, <2>2 DEF ProtocolFeeUpdown, fee
<1>4. CASE model = "FeeOnWinnings"
  <2>1. fee <= losing
    BY <1>2, <1>4
  <2> HIDE DEF fee
  <2>2. /\ losing - fee \in Nat /\ winning - (fee - fee) = winning
        /\ winning + (losing - fee) + fee = winning + losing
    BY <1>2, <2>1
  <2> QED BY <1>2, <1>4, <2>2 DEF ProtocolFeeUpdown, fee
<1> QED BY <1>3, <1>4

(* Under FeeOnWinnings an Up/Down winner gets back at least the stake:     *)
(* the fee comes out of the losing pool, and rounding down cannot take a   *)
(* share below the stake.                                                  *)
THEOREM WinnerKeepsStake ==
  ASSUME NEW bps \in Rate \cup {None}, NEW winning \in Nat \ {0}, NEW losing \in Nat,
         NEW stake \in Nat
  PROVE  LET net == ProtocolFeeUpdown(bps, "FeeOnWinnings", winning, losing)
         IN  UpdownWinnerPayout(stake, winning, net.winning + net.losing) >= stake
<1> DEFINE net == ProtocolFeeUpdown(bps, "FeeOnWinnings", winning, losing)
           pot == net.winning + net.losing
<1>1. pot \in Nat /\ winning <= pot
  <2>1. net.winning = winning /\ net.losing \in Nat
    <3>1. "FeeOnWinnings" \in {"FeeOnPot", "FeeOnWinnings"}
      OBVIOUS
    <3> QED BY <3>1, UpdownFeeConserves
  <2> HIDE DEF net
  <2> QED BY <2>1
<1> HIDE DEF pot
<1>2. stake * pot \in Nat /\ stake * winning <= stake * pot
  BY <1>1, MulMonotone
<1>3. stake <= (stake * pot) \div winning /\ (stake * pot) \div winning \in Nat
  BY <1>2, DivBounds
<1>4. UpdownWinnerPayout(stake, winning, pot) >= stake
  BY <1>3 DEF UpdownWinnerPayout
<1> QED BY <1>4 DEF pot

(* The fee of a Precision round never exceeds the pot, under either model, *)
(* and what is handed out and the fee add up to the pot.                   *)
THEOREM PrecisionFeeConserves ==
  ASSUME NEW bps \in Rate \cup {None}, NEW model \in {"FeeOnPot", "FeeOnWinnings"},
         NEW pot \in Nat, NEW winner_stakes \in 0 .. pot
  PROVE  LET net == ProtocolFeePrecision(bps, model, pot, winner_stakes)
         IN  /\ net.fee \in Nat /\ net.distributable \in Nat
             /\ net.distributable + net.fee = pot
             /\ model = "FeeOnWinnings" => net.distributable >= winner_stakes
<1> DEFINE base == IF model = "FeeOnPot" THEN pot ELSE pot - winner_stakes
           fee  == IF bps = None \/ pot <= 0 \/ base <= 0 THEN 0 ELSE BpsOf(base, bps)
<1>1. base \in Nat /\ base <= pot /\ (model = "FeeOnWinnings" => base = pot - winner_stakes)
  OBVIOUS
<1>2. fee \in Nat /\ fee <= base
  <2>1. CASE bps = None \/ pot <= 0 \/ base <= 0
    BY <1>1, <2>1
  <2>2. CASE ~ (bps = None \/ pot <= 0 \/ base <= 0)
    <3>1. bps \in Rate /\ fee = BpsOf(base, bps)
      BY <2>2
    <3> HIDE DEF base, fee
    <3> QED BY <1>1, <3>1, BpsBounded
  <2> QED BY <2>1, <2>2
<1>3. ProtocolFeePrecision(bps, model, pot, winner_stakes)
        = [distributable |-> pot - fee, fee |-> fee]
  BY DEF ProtocolFeePrecision
<1> HIDE DEF base, fee
<1> QED BY <1>1, <1>2, <1>3
-----------------------------------------------------------------------------
(* Winner 0 is one of the winners.                                         *)
LEMMA FirstIsWinner ==
  ASSUME NEW S, \A u \in S : u \in Nat, S # {}
  PROVE  FirstAddress(S) \in S
BY LeastNatural DEF FirstAddress

(* The shares of a Precision round once winner 0 is known to be a winner.  *)
LEMMA PrecisionShares ==
  ASSUME NEW policy \in {"Equal", "StakeWeighted"}, NEW winners, IsFiniteSet(winners),
         FirstAddress(winners) \in winners, winners # {},
         NEW stake, \A u \in winners : stake[u] \in Nat,
         SumFunctionOnSet(stake, winners) > 0, NEW pool \in Nat
  PROVE  LET paid == PrecisionPayouts(policy, stake, winners, pool)
         IN  /\ \A u \in winners : paid[u] \in Nat
             /\ DOMAIN paid = winners
             /\ SumFunctionOnSet(paid, winners) = pool
<1> DEFINE W == SumFunctionOnSet(stake, winners)
           n == Cardinality(winners)
           first == FirstAddress(winners)
           share == [u \in winners |->
                       CASE policy = "Equal" -> pool \div n
                         [] policy = "StakeWeighted" /\ W > 0 -> (stake[u] * pool) \div W
                         [] OTHER -> 0]
           rest  == pool - SumFunction(share)
           paid  == [u \in winners |-> share[u] + IF u = first THEN rest ELSE 0]
<1>1. PrecisionPayouts(policy, stake, winners, pool) = paid
  BY DEF PrecisionPayouts
<1>2. n \in Nat \ {0} /\ first \in winners
  BY FS_CardinalityType, FS_EmptySet
<1>3. SumFunction(share) = SumFunctionOnSet(share, winners)
  BY DEF SumFunction
<1>4. (\A u \in winners : share[u] \in Nat) /\ SumFunctionOnSet(share, winners) \in 0 .. pool
  <2>1. CASE policy = "Equal"
    <3> DEFINE q == pool \div n
    <3>1. \A u \in winners : share[u] = q
      BY <2>1
    <3>2. q \in Nat /\ n * q <= pool
      BY <1>2, DivFloor
    <3> HIDE DEF share, q
    <3>3. SumFunctionOnSet(share, winners) = n * q
      <4>1. q \in Int
        BY <3>2
      <4> QED BY <3>1, <4>1, SumConstant, Zenon
    <3>4. n * q \in Nat
      BY <1>2, <3>2
    <3> QED BY <3>1, <3>2, <3>3, <3>4
  <2>2. CASE policy = "StakeWeighted"
    <3>1. \A u \in winners : share[u] = (stake[u] * pool) \div W
      BY <2>2
    <3> HIDE DEF share
    <3>2. /\ \A u \in winners : share[u] \in Nat
          /\ SumFunctionOnSet(share, winners) \in Nat
          /\ SumFunctionOnSet(share, winners) <= pool
      BY <3>1, FloorShares
    <3> QED BY <3>2
  <2> QED BY <2>1, <2>2
<1> HIDE DEF share
<1>5. rest \in Nat
  BY <1>3, <1>4
<1>6. /\ \A u \in winners : paid[u] \in Nat
      /\ \A u \in winners \ {first} : paid[u] = share[u]
      /\ paid[first] = share[first] + rest
  BY <1>2, <1>4, <1>5
<1> HIDE DEF paid, first
<1>7. SumFunctionOnSet(paid, winners) = SumFunctionOnSet(share, winners) - share[first] + paid[first]
  <2>1. \A u \in winners : share[u] \in Int /\ paid[u] \in Int
    BY <1>4, <1>6
  <2>2. \A u \in winners \ {first} : paid[u] = share[u]
    BY <1>6
  <2> QED BY <1>2, <2>1, <2>2, SumChanges
<1>8. SumFunctionOnSet(paid, winners) = pool
  BY <1>2, <1>3, <1>4, <1>6, <1>7
<1>9. DOMAIN paid = winners
  BY DEF paid
<1> QED BY <1>1, <1>6, <1>8, <1>9

(* A Precision round hands its whole pot out, never more: the shares are   *)
(* non-negative and the remainder of the divisions, which goes to winner   *)
(* 0, is what the others were rounded down by.                             *)
THEOREM PrecisionPotHandedOut ==
  ASSUME NEW policy \in {"Equal", "StakeWeighted"}, NEW winners, IsFiniteSet(winners),
         \A u \in winners : u \in Nat, winners # {}, NEW stake, \A u \in winners : stake[u] \in Nat,
         SumFunctionOnSet(stake, winners) > 0, NEW pool \in Nat
  PROVE  LET paid == PrecisionPayouts(policy, stake, winners, pool)
         IN  /\ \A u \in winners : paid[u] \in Nat
             /\ DOMAIN paid = winners
             /\ SumFunctionOnSet(paid, winners) = pool
<1>1. FirstAddress(winners) \in winners
  BY FirstIsWinner
<1> QED BY <1>1, PrecisionShares

(* The winners of an Up/Down round together get what the fee leaves of the *)
(* pot, short of it by less than one unit per winner, never more.          *)
THEOREM UpdownSharesFit ==
  ASSUME NEW winners, IsFiniteSet(winners), NEW stake, \A u \in winners : stake[u] \in Nat,
         NEW winning \in Nat \ {0}, winning = SumFunctionOnSet(stake, winners),
         NEW pot \in Nat, NEW paid,
         \A u \in winners : paid[u] = UpdownWinnerPayout(stake[u], winning, pot)
  PROVE  /\ \A u \in winners : paid[u] \in Nat
         /\ SumFunctionOnSet(paid, winners) \in Nat
         /\ SumFunctionOnSet(paid, winners) <= pot
         /\ pot - SumFunctionOnSet(paid, winners) < Cardinality(winners)
<1>1. \A u \in winners : paid[u] = (stake[u] * pot) \div SumFunctionOnSet(stake, winners)
  BY DEF UpdownWinnerPayout
<1>2. SumFunctionOnSet(stake, winners) > 0
  OBVIOUS
<1> QED BY <1>1, <1>2, FloorShares
=============================================================================
