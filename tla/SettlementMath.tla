--------------------------- MODULE SettlementMath ---------------------------
(***************************************************************************)
(* The arithmetic of a settlement: price direction, protocol fee, the      *)
(* share of a winner.  Amounts are integers (i128 in the code), rates are  *)
(* basis points, and every division rounds down, as the code's `/` does on *)
(* non-negative operands.  An Option<T> of the code is a value or None.    *)
(* Addresses are numbers, because the code settles in address order.       *)
(***************************************************************************)
EXTENDS Integers, FiniteSets, Functions

CONSTANT None

BPS_DENOMINATOR == 10000

BpsOf(amount, bps) == (amount * bps) \div BPS_DENOMINATOR

Lesser(a, b) == IF a <= b THEN a ELSE b

Distance(a, b) == IF a >= b THEN a - b ELSE b - a

PriceDirection(start, final) ==
  CASE final > start -> "Up"
    [] final < start -> "Down"
    [] OTHER         -> "Unchanged"

IsOneSidedPool(pool_up, pool_down) == (pool_up = 0) # (pool_down = 0)

(***************************************************************************)
(* The fee of an Up/Down round, and what it leaves of either pool: charged *)
(* on the whole pot (losing pool first) or on the losing pool alone.       *)
(***************************************************************************)
UpdownFee(bps, model, winning, losing) ==
  IF bps = None THEN 0
  ELSE BpsOf(IF model = "FeeOnPot" THEN winning + losing ELSE losing, bps)

ProtocolFeeUpdown(bps, model, winning, losing) ==
  LET fee         == UpdownFee(bps, model, winning, losing)
      from_losing == IF model = "FeeOnPot" THEN Lesser(fee, losing) ELSE fee
  IN  [winning |-> winning - (fee - from_losing),
       losing  |-> losing - from_losing,
       fee     |-> fee]

(* Fault: the fee is charged and handed out as well. *)
FaultFeePaidTwice(bps, model, pot, winner_stakes) ==
  [distributable |-> pot, fee |-> IF bps = None THEN 0 ELSE BpsOf(pot, bps)]

(* The fee of a Precision round: on the pot, or on what the winners gain. *)
ProtocolFeePrecision(bps, model, pot, winner_stakes) ==
  LET base == IF model = "FeeOnPot" THEN pot ELSE pot - winner_stakes
      fee  == IF bps = None \/ pot <= 0 \/ base <= 0 THEN 0 ELSE BpsOf(base, bps)
  IN  [distributable |-> pot - fee, fee |-> fee]

(* Fault: the share is rounded up. *)
FaultRoundUp(stake, winning_pool, total_distributable) ==
  IF winning_pool = 0 THEN 0
  ELSE (stake * total_distributable + winning_pool - 1) \div winning_pool

(* Fault: the division comes first. *)
FaultDivideFirst(stake, winning_pool, total_distributable) ==
  IF winning_pool = 0 THEN 0
  ELSE (stake \div winning_pool) * total_distributable

(* A winner's share of what an Up/Down round distributes. *)
UpdownWinnerPayout(stake, winning_pool, total_distributable) ==
  IF winning_pool = 0 THEN 0
  ELSE (stake * total_distributable) \div winning_pool

(* The revealed guesses closest to the final price; ties all win. *)
ClosestGuesses(guess, final) ==
  {u \in DOMAIN guess :
     \A v \in DOMAIN guess : Distance(guess[u], final) <= Distance(guess[v], final)}

(* Winner 0 of the code: participants are visited in address order. *)
FirstAddress(S) == CHOOSE u \in S : \A v \in S : u <= v

(***************************************************************************)
(* The shares of the winners of a Precision round.  The remainder of the   *)
(* divisions goes to winner 0.                                             *)
(***************************************************************************)
PrecisionPayouts(policy, stake, winners, payout_pool) ==
  LET winner_stakes == SumFunctionOnSet(stake, winners)
      share == [u \in winners |->
                  CASE policy = "Equal" -> payout_pool \div Cardinality(winners)
                    [] policy = "StakeWeighted" /\ winner_stakes > 0
                         -> (stake[u] * payout_pool) \div winner_stakes
                    [] OTHER -> 0]
      remainder == payout_pool - SumFunction(share)
  IN  [u \in winners |->
         share[u] + IF u = FirstAddress(winners) THEN remainder ELSE 0]

(* The penalty an early exit pays out of its stake. *)
CashoutForfeit(stake, penalty_bps) == BpsOf(stake, penalty_bps)
=============================================================================
