---------------------------- MODULE PayoutEngine ----------------------------
(***************************************************************************)
(* The payout engine of settlement_math.rs, which tools and golden vectors *)
(* replay settlements with, next to the loops of settlement.rs that really *)
(* pay and the preview of queries.rs that shows users what they would get. *)
(* A behaviour picks one input; the properties compare what the three      *)
(* compute from it with each other and with reference definitions.         *)
(***************************************************************************)
EXTENDS SettlementMath, SequencesExt

CONSTANTS
  Stakes,      \* amounts staked
  Guesses,     \* predicted prices
  Finals,      \* settlement prices
  StartPrices, \* start prices of Up/Down rounds
  Rates,       \* protocol fee in basis points, or None
  Bands,       \* confidence bands, or None
  MaxEntries   \* bound: participants of a round

(* Stakes are positive and a fee is at most the whole; prices are unsigned. *)
ASSUME EngineAssumption ==
  /\ Stakes \subseteq Nat \ {0} /\ Guesses \subseteq Nat
  /\ Finals \subseteq Nat /\ StartPrices \subseteq Nat
  /\ Rates \subseteq (0 .. BPS_DENOMINATOR) \cup {None}
  /\ Bands \subseteq Nat \cup {None}
  /\ MaxEntries \in Nat /\ None \notin Nat

VARIABLE input  \* the round to settle, or None

Entry == [predicted_price : Guesses, amount : Stakes, revealed : BOOLEAN]

UpDownPosition == [amount : Stakes, side_up : BOOLEAN]

Total(entries) == SumFunction([i \in DOMAIN entries |-> entries[i].amount])

-----------------------------------------------------------------------------
(* The score of a guess: absolute, or in basis points of the price. *)
Score(scoring, guess, final) ==
  IF scoring = "RelativeDistance" /\ final > 0
  THEN (Distance(guess, final) * BPS_DENOMINATOR) \div final
  ELSE Distance(guess, final)

(* Fault: the band is measured from the price only, not from the best. *)
FaultBandOnly(entries, final, scoring, band) ==
  {i \in DOMAIN entries :
     /\ entries[i].revealed
     /\ Score(scoring, entries[i].predicted_price, final) <= (IF band = None THEN 0 ELSE band)}

(***************************************************************************)
(* find_precision_winners_with_policy: every revealed entry is scored; the *)
(* best score wins, and with it whatever the confidence band lets in.      *)
(***************************************************************************)
FindPrecisionWinners(entries, final, scoring, band) ==
  LET revealed == {i \in DOMAIN entries : entries[i].revealed}
      score(i) == Score(scoring, entries[i].predicted_price, final)
      best     == CHOOSE s \in {score(i) : i \in revealed} :
                    \A i \in revealed : s <= score(i)
  IN  {i \in revealed : IF band = None THEN score(i) = best
                        ELSE score(i) <= band \/ score(i) <= best + band}

SplitPotAmongWinners(distributable, winners) ==
  LET count == Cardinality(winners)
  IN  [i \in winners |-> distributable \div count
                         + IF i = FirstAddress(winners) THEN distributable % count ELSE 0]

SplitPotStakeWeighted(distributable, stake, winners) ==
  LET total     == SumFunctionOnSet(stake, winners)
      share     == [i \in winners |-> (stake[i] * distributable) \div total]
      remainder == distributable - SumFunction(share)
  IN  IF total = 0 THEN SplitPotAmongWinners(distributable, winners)
      ELSE [i \in winners |-> share[i] + IF i = FirstAddress(winners) /\ remainder > 0
                                         THEN remainder ELSE 0]

(* compute_precision_fee knows no fee model: the fee is on the pot. *)
ComputePrecisionFee(pot, bps) ==
  LET fee == IF bps = None \/ pot <= 0 THEN 0 ELSE BpsOf(pot, bps)
  IN  [distributable |-> pot - fee, fee |-> fee]

(* compute_precision_payouts_with_policy *)
ComputePrecisionPayouts(in) ==
  LET entries == in.entries
      stake   == [i \in DOMAIN entries |-> entries[i].amount]
      winners == FindPrecisionWinners(entries, in.final, in.scoring, in.band)
      pool    == ComputePrecisionFee(Total(entries), in.bps).distributable
      won     == IF in.policy = "Equal" THEN SplitPotAmongWinners(pool, winners)
                 ELSE SplitPotStakeWeighted(pool, stake, winners)
  IN  [i \in DOMAIN entries |->
         CASE winners = {}   -> stake[i]
           [] i \in winners  -> won[i]
           [] OTHER          -> 0]

(* compute_updown_fee: the FeeOnPot model of the contract. *)
ComputeUpdownFee(winning, losing, bps) ==
  LET fee == IF bps = None THEN 0 ELSE BpsOf(winning + losing, bps)
  IN  [winning |-> winning - (fee - Lesser(fee, losing)),
       losing  |-> losing - Lesser(fee, losing),
       fee     |-> fee]

PoolOf(positions, up) ==
  SumFunctionOnSet([i \in DOMAIN positions |-> positions[i].amount],
                   {i \in DOMAIN positions : positions[i].side_up = up})

(* compute_updown_payouts *)
ComputeUpdownPayouts(in) ==
  LET positions == in.positions
      direction == PriceDirection(in.start, in.final)
      up        == PoolOf(positions, TRUE)
      down      == PoolOf(positions, FALSE)
      winning   == IF direction = "Up" THEN up ELSE down
      losing    == IF direction = "Up" THEN down ELSE up
      net       == ComputeUpdownFee(winning, losing, in.bps)
  IN  [i \in DOMAIN positions |->
         IF direction = "Unchanged" \/ IsOneSidedPool(up, down) \/ winning = 0
         THEN positions[i].amount
         ELSE IF positions[i].side_up = (direction = "Up")
              THEN UpdownWinnerPayout(positions[i].amount, winning, net.winning + net.losing)
              ELSE 0]
-----------------------------------------------------------------------------
(* Fault: a closer guess joins the winners instead of replacing them. *)
FaultNoReset(entries, final, acc, i) ==
  LET diff == Distance(entries[i].predicted_price, final)
  IN  IF entries[i].revealed /\ (acc.min_diff = None \/ diff <= acc.min_diff)
      THEN [min_diff |-> diff, winners |-> acc.winners \cup {i}]
      ELSE acc

(***************************************************************************)
(* The single pass of _resolve_precision_mode: the winners so far are kept *)
(* with their distance, and dropped when a closer guess turns up.          *)
(***************************************************************************)
ScanStep(entries, final, acc, i) ==
  LET diff == Distance(entries[i].predicted_price, final)
  IN  IF ~ entries[i].revealed THEN acc
      ELSE IF acc.min_diff = None \/ diff < acc.min_diff
           THEN [min_diff |-> diff, winners |-> {i}]
      ELSE IF diff = acc.min_diff THEN [acc EXCEPT !.winners = @ \cup {i}]
      ELSE acc

ScanWinners(entries, final) ==
  FoldLeft(LAMBDA acc, i : ScanStep(entries, final, acc, i),
           [min_diff |-> None, winners |-> {}],
           [i \in DOMAIN entries |-> i]).winners

(* What _resolve_precision_mode credits under a fee model. *)
PrecisionCredits(in, model) ==
  LET stake   == [i \in DOMAIN in.entries |-> in.entries[i].amount]
      winners == ScanWinners(in.entries, in.final)
      net     == ProtocolFeePrecision(in.bps, model, Total(in.entries),
                                      SumFunctionOnSet(stake, winners))
      won     == PrecisionPayouts(in.policy, stake, winners, net.distributable)
  IN  [fee    |-> IF winners = {} THEN 0 ELSE net.fee,
       payout |-> [i \in DOMAIN in.entries |->
                     CASE winners = {}  -> stake[i]
                       [] i \in winners -> won[i]
                       [] OTHER         -> 0]]

(* What _record_winnings_indexed credits for a round with both sides. *)
UpdownCredits(in, model) ==
  LET up      == in.final > in.start
      winning == PoolOf(in.positions, up)
      net     == ProtocolFeeUpdown(in.bps, model, winning, PoolOf(in.positions, ~ up))
  IN  [fee    |-> net.fee,
       payout |-> [i \in DOMAIN in.positions |->
                     IF in.positions[i].side_up = up
                     THEN UpdownWinnerPayout(in.positions[i].amount, winning,
                                             net.winning + net.losing)
                     ELSE 0]]
(* A settled Up/Down round: refunds, or the credits of the winning side. *)
UpdownSettled(in, model) ==
  IF \/ PriceDirection(in.start, in.final) = "Unchanged"
     \/ IsOneSidedPool(PoolOf(in.positions, TRUE), PoolOf(in.positions, FALSE))
  THEN [fee |-> 0, payout |-> [i \in DOMAIN in.positions |-> in.positions[i].amount]]
  ELSE UpdownCredits(in, model)
-----------------------------------------------------------------------------
(* Fault: a closer guess leaves the mask of the earlier winners. *)
FaultMaskKept(entries, final, acc, i) ==
  LET diff == Distance(entries[i].predicted_price, final)
  IN  IF ~ entries[i].revealed \/ (acc.min_diff # None /\ diff > acc.min_diff) THEN acc
      ELSE IF acc.min_diff # None /\ diff < acc.min_diff
           THEN [min_diff |-> diff, winners |-> <<i>>, mask |-> acc.mask \cup {i}]
      ELSE [min_diff |-> diff, winners |-> Append(acc.winners, i), mask |-> acc.mask \cup {i}]

(***************************************************************************)
(* simulate_payout: the preview of queries.rs, which repeats the loops of  *)
(* the settlement over the stored round.  It keeps its winners twice, as a *)
(* list that is paid and as a mask that says which participant is next to  *)
(* be handed an entry of that list.                                        *)
(***************************************************************************)
PreviewStep(entries, final, acc, i) ==
  LET diff == Distance(entries[i].predicted_price, final)
  IN  IF ~ entries[i].revealed \/ (acc.min_diff # None /\ diff > acc.min_diff) THEN acc
      ELSE IF acc.min_diff # None /\ diff < acc.min_diff
           THEN [min_diff |-> diff, winners |-> <<i>>,
                 mask |-> (acc.mask \ (1 .. i - 1)) \cup {i}]
      ELSE [min_diff |-> diff, winners |-> Append(acc.winners, i), mask |-> acc.mask \cup {i}]

(* The shares of the listed winners; the first one gets the remainder. *)
PreviewShares(policy, stakes, pool) ==
  LET total == SumFunction(stakes)
      share == [k \in DOMAIN stakes |->
                  IF policy = "Equal" THEN pool \div Len(stakes)
                  ELSE IF total > 0 THEN (stakes[k] * pool) \div total ELSE 0]
  IN  [share EXCEPT ![1] = @ + (pool - SumFunction(share))]

PreviewPrecision(in, model) ==
  LET scan   == FoldLeft(LAMBDA acc, i : PreviewStep(in.entries, in.final, acc, i),
                         [min_diff |-> None, winners |-> <<>>, mask |-> {}],
                         [i \in DOMAIN in.entries |-> i])
      stakes == [k \in DOMAIN scan.winners |-> in.entries[scan.winners[k]].amount]
      net    == ProtocolFeePrecision(in.bps, model, Total(in.entries), SumFunction(stakes))
      share  == PreviewShares(in.policy, stakes, net.distributable)
      turn(i) == Cardinality({j \in scan.mask : j <= i})
  IN  IF scan.winners = <<>>
      THEN [fee |-> 0, payout |-> [i \in DOMAIN in.entries |-> in.entries[i].amount]]
      ELSE [fee    |-> net.fee,
            payout |-> [i \in DOMAIN in.entries |->
                          IF i \in scan.mask /\ turn(i) <= Len(share) THEN share[turn(i)]
                          ELSE 0]]

PreviewUpdown(in, model) ==
  LET up       == PoolOf(in.positions, TRUE)
      down     == PoolOf(in.positions, FALSE)
      rising   == in.final > in.start
      refunded == in.final = in.start \/ (up = 0) # (down = 0)
      winning  == IF rising THEN up ELSE down
      net      == ProtocolFeeUpdown(in.bps, model, winning, IF rising THEN down ELSE up)
  IN  [fee    |-> IF refunded THEN 0 ELSE net.fee,
       payout |-> [i \in DOMAIN in.positions |->
                     IF refunded THEN in.positions[i].amount
                     ELSE IF in.positions[i].side_up = rising
                          THEN (in.positions[i].amount * (net.winning + net.losing)) \div winning
                          ELSE 0]]
-----------------------------------------------------------------------------
FeeModels == {"FeeOnPot", "FeeOnWinnings"}

PrecisionInput ==
  [entries : BoundedSeq(Entry, MaxEntries) \ {<< >>}, final : Finals, bps : Rates,
   scoring : {"AbsoluteDistance", "RelativeDistance"}, band : Bands,
   policy  : {"Equal", "StakeWeighted"}]

UpdownInput ==
  [positions : BoundedSeq(UpDownPosition, MaxEntries) \ {<< >>},
   start : StartPrices, final : Finals, bps : Rates]

Init == input = None

SettlePrecision == input = None /\ input' \in PrecisionInput

SettleUpdown == input = None /\ input' \in UpdownInput

Next == SettlePrecision \/ SettleUpdown

Spec == Init /\ [][Next]_input

IsPrecision == input # None /\ "entries" \in DOMAIN input
IsUpdown    == input # None /\ "positions" \in DOMAIN input

(* A round with stakes on both sides and a price that moved. *)
IsContest ==
  /\ IsUpdown
  /\ input.start # input.final
  /\ PoolOf(input.positions, TRUE) > 0 /\ PoolOf(input.positions, FALSE) > 0

(* The one-pass scan that pays a Precision round, with its reset when a    *)
(* closer guess turns up, finds exactly the revealed guesses closest to    *)
(* the price, in whatever order the participants come.                     *)
ScanFindsClosest ==
  IsPrecision =>
    ScanWinners(input.entries, input.final)
      = ClosestGuesses([i \in {i \in DOMAIN input.entries : input.entries[i].revealed} |->
                          input.entries[i].predicted_price], input.final)

(* The engine and the contract pay the same: the contract's scan finds the *)
(* winners, and for the default scoring and the FeeOnPot model both agree  *)
(* on every participant's payout, with either payout policy, in refunds    *)
(* and in Up/Down rounds.                                                  *)
EngineAgrees ==
  /\ ScanFindsClosest
  /\ IsPrecision /\ input.scoring = "AbsoluteDistance" /\ input.band = None =>
       ComputePrecisionPayouts(input) = PrecisionCredits(input, "FeeOnPot").payout
  /\ IsContest => ComputeUpdownPayouts(input) = UpdownCredits(input, "FeeOnPot").payout

(* simulate_payout shows every participant what the settlement at that     *)
(* price then pays, and the fee it charges, for both modes, fee models and *)
(* payout policies, with ties, unrevealed commitments and refunds, as long *)
(* as the round has its minimum of participants.                           *)
PreviewAgrees ==
  \A model \in FeeModels :
    /\ IsPrecision => PreviewPrecision(input, model) = PrecisionCredits(input, model)
    /\ IsUpdown => PreviewUpdown(input, model) = UpdownSettled(input, model)

(* A relative score and a confidence band only ever add winners: whoever   *)
(* guessed closest wins under every scoring policy, and the pot is still   *)
(* handed out to the last unit.                                            *)
ScoringKeepsClosest ==
  IsPrecision =>
    /\ ScanWinners(input.entries, input.final)
         \subseteq FindPrecisionWinners(input.entries, input.final, input.scoring, input.band)
    /\ LET winners == FindPrecisionWinners(input.entries, input.final, input.scoring,
                                           input.band)
           fee == IF winners = {} THEN 0
                  ELSE ComputePrecisionFee(Total(input.entries), input.bps).fee
       IN  SumFunction(ComputePrecisionPayouts(input)) + fee = Total(input.entries)

(* Whatever the fee model and policy, a Precision pot is handed out to the *)
(* last unit, and an Up/Down pot except for less than a unit per winner.   *)
PotHandedOut ==
  \A model \in FeeModels :
    /\ IsPrecision =>
         LET c == PrecisionCredits(input, model)
         IN  SumFunction(c.payout) + c.fee = Total(input.entries)
    /\ IsContest =>
         LET c    == UpdownCredits(input, model)
             dust == Total(input.positions) - (SumFunction(c.payout) + c.fee)
             up   == input.final > input.start
         IN  /\ 0 <= dust
             /\ dust < Cardinality({i \in DOMAIN input.positions :
                                      input.positions[i].side_up = up})

(* Under FeeOnWinnings an Up/Down winner never gets back less than the     *)
(* stake: the fee and the rounding together stay within the losing pool.   *)
WinnersKeepStake ==
  IsContest =>
    LET c  == UpdownCredits(input, "FeeOnWinnings")
        up == input.final > input.start
    IN  \A i \in DOMAIN input.positions :
          input.positions[i].side_up = up => c.payout[i] >= input.positions[i].amount
=============================================================================
