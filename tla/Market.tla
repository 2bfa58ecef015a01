------------------------------- MODULE Market -------------------------------
(***************************************************************************)
(* The prediction market: rounds, the stakes in them, and the virtual XLM  *)
(* they move.  An entrypoint of the contract is one transaction, so it is  *)
(* one action; an entrypoint that returns an error reverts every write,    *)
(* so an error is an action that is not enabled.  Between transactions     *)
(* the ledger sequence advances and the callers interleave in any order.   *)
(*                                                                         *)
(* Left to their own modules: which oracle payloads are accepted (any      *)
(* price may be reported once a round can be resolved), who is admitted by *)
(* access control and the mint limits (everybody may be refused or not),   *)
(* the timelock in front of a configuration change, and leaderboards.      *)
(* Of governance, what an approved proposal does to the fee, the treasury, *)
(* the fund and the mode is here, whenever somebody executes it; proposals *)
(* and seats, SetAdmin, SetOracle and SetTreasuryAddress are not.          *)
(***************************************************************************)
EXTENDS SettlementMath, Sequences

CONSTANTS
  Users,        \* addresses
  Admin,        \* the admin's address
  I128Max,      \* the largest amount: sums and payouts are checked against it
  MintAmount,   \* what mint_initial credits
  Configs,      \* the configurations the admin moves between
  RuntimeModes, \* the runtime modes the admin moves between
  RoundModes,   \* the modes rounds are created in
  Reasons,      \* the reason codes given to cancel_round
  Amounts,      \* the amounts callers ask for
  Prices,       \* start prices, guesses and final prices
  MaxRounds,    \* bound: rounds created
  MaxLedger     \* bound: ledger sequence

VARIABLES
  ledger,            \* env.ledger().sequence()
  runtimeMode,       \* Paused
  config,            \* the configuration keys the market reads
  lastRoundId,       \* LastRoundId
  activeRound,       \* ActiveRound, or None
  roundStartLedger,  \* RoundStartLedger(ledger): the round it backs, or None
  pendingDisputes,   \* PendingDisputes[round_id], or None
  position,          \* Position(round_id, user), or None
  prediction,        \* PrecisionPosition(round_id, user), or None
  commitment,        \* PrecisionCommitment(round_id, user), or None
  participants,      \* RoundParticipants(round_id)
  outcome,           \* UserRoundOutcome(round_id, user), or None
  stats,             \* UserStats(user)
  balance,           \* Balance(user), 0 when absent
  hasBalance,        \* the users with a Balance key
  pendingWinnings,   \* PendingWinnings(user), 0 when absent
  pendingUpdatedAt,  \* PendingWinningsUpdatedAt(user), or None
  treasury,          \* ProtocolFeeTreasury
  insuranceFund,     \* the insurance fund's balance
  archivedRound, cancelledRound, recentArchived,
  userRounds         \* UserArchivedRoundIds(user), in the order they ended

clockVars   == <<ledger, runtimeMode, config>>
roundVars   == <<lastRoundId, activeRound, roundStartLedger, pendingDisputes>>
stakeVars   == <<position, prediction, commitment, participants>>
resultVars  == <<outcome, stats>>
walletVars  == <<balance, hasBalance>>
pendingVars == <<pendingWinnings, pendingUpdatedAt>>
feeVars     == <<treasury, insuranceFund>>
archiveVars == <<archivedRound, cancelledRound, recentArchived, userRounds>>

vars == <<clockVars, roundVars, stakeVars, resultVars, walletVars,
          pendingVars, feeVars, archiveVars>>

I128     == (-I128Max - 1) .. I128Max
RoundIds == 1 .. MaxRounds
Ledgers  == 0 .. MaxLedger
Sides    == {"Up", "Down"}

(* The configuration keys the market reads; an unset Option is None. *)
Config ==
  [windows         : [bet : Nat, run : Nat],    \* BetWindowLedgers, RunWindowLedgers
   closeBuffer     : Nat,                       \* CloseBufferLedgers
   minBet          : Nat \cup {None},
   maxStake        : Nat \cup {None},
   maxExposure     : Nat \cup {None},           \* per user and round
   maxPrecision    : Nat,                       \* MaxPrecisionParticipants
   maxPending      : Nat \cup {None},           \* MaxPendingWinnings
   feeBps          : 0 .. BPS_DENOMINATOR \cup {None},
   feeModel        : {"FeeOnPot", "FeeOnWinnings"},
   payoutPolicy    : {"Equal", "StakeWeighted"},
   disputeLedgers  : Nat,
   minParticipants : Nat \cup {None},
   cashoutBps      : 0 .. BPS_DENOMINATOR \cup {None},
   expiry          : Nat,                       \* PendingWinningsExpiry
   splitBps        : 0 .. BPS_DENOMINATOR,      \* the fund's part of a fee
   coverageBps     : 0 .. BPS_DENOMINATOR,
   eligible        : SUBSET Reasons,            \* the insured reasons
   retention       : Nat \ {0},
   template        : [start_price : Prices, mode : RoundModes] \cup {None}]

ASSUME UsersAssumption == Users \subseteq Nat /\ IsFiniteSet(Users) /\ Admin \in Users

ASSUME AmountsAssumption ==
  /\ I128Max \in Nat
  /\ MintAmount \in I128 /\ MintAmount > 0
  /\ Amounts \subseteq I128
  /\ Prices \subseteq Nat

ASSUME BoundsAssumption == MaxRounds \in Nat /\ MaxLedger \in Nat

ASSUME ConfigAssumption ==
  /\ Configs \subseteq Config
  /\ "Normal" \in RuntimeModes
  /\ RuntimeModes \subseteq {"Normal", "ClaimsOnly", "FullyPaused"}
  /\ RoundModes \subseteq {"UpDown", "Precision"}

(* The rounds that can still be settled: the active one and the disputed. *)
Disputed == {r \in RoundIds : pendingDisputes[r] # None}
Live     == Disputed \cup (IF activeRound = None THEN {} ELSE {activeRound.round_id})
Ended    == {r \in RoundIds : r <= lastRoundId} \ Live

Arch == INSTANCE Archive WITH retention <- config.retention, ended <- Ended,
                              Retentions <- {c.retention : c \in Configs}
-----------------------------------------------------------------------------
Round == [round_id : RoundIds, price_start : Prices, start_ledger : Ledgers,
          bet_end_ledger : Nat, end_ledger : Nat,
          pool_up : I128, pool_down : I128, mode : RoundModes]

Dispute == [round : Round, final_price : Prices, deadline : Nat]

UserPosition        == [amount : Amounts, side : Sides]
PrecisionPrediction == [amount : Amounts, price : Prices]
PrecisionCommitment == [amount : Amounts, price : Prices, revealed : BOOLEAN]

OutcomeKinds     == {"Win", "Loss", "Refund", "Void"}
UserRoundOutcome == [kind : OutcomeKinds, stake : I128, payout : I128]
UserStats == [wins : Nat, losses : Nat, streak : Nat, best : Nat]

ASSUME OptionAssumption ==
  None \notin RoundIds \cup Ledgers \cup Round \cup Dispute \cup UserPosition
             \cup PrecisionPrediction \cup PrecisionCommitment \cup UserRoundOutcome

ClockTypeOK ==
  /\ ledger \in Ledgers
  /\ runtimeMode \in RuntimeModes
  /\ config \in Configs

RoundTypeOK ==
  /\ lastRoundId \in 0 .. MaxRounds
  /\ activeRound \in Round \cup {None}
  /\ roundStartLedger \in [Ledgers -> RoundIds \cup {None}]
  /\ pendingDisputes \in [RoundIds -> Dispute \cup {None}]

StakeTypeOK ==
  /\ position \in [RoundIds -> [Users -> UserPosition \cup {None}]]
  /\ prediction \in [RoundIds -> [Users -> PrecisionPrediction \cup {None}]]
  /\ commitment \in [RoundIds -> [Users -> PrecisionCommitment \cup {None}]]
  /\ participants \in [RoundIds -> SUBSET Users]

ResultTypeOK ==
  /\ outcome \in [RoundIds -> [Users -> UserRoundOutcome \cup {None}]]
  /\ stats \in [Users -> UserStats]

WalletTypeOK == balance \in [Users -> I128] /\ hasBalance \subseteq Users

PendingTypeOK ==
  /\ pendingWinnings \in [Users -> I128]
  /\ pendingUpdatedAt \in [Users -> Ledgers \cup {None}]

FeeTypeOK == treasury \in I128 /\ insuranceFund \in I128

ArchiveTypeOK ==
  /\ archivedRound \in [RoundIds -> Arch!Status \cup {None}]
  /\ cancelledRound \subseteq RoundIds
  /\ recentArchived \in Seq(RoundIds)
  /\ userRounds \in [Users -> Seq(RoundIds)]

TypeOK == /\ ClockTypeOK /\ RoundTypeOK /\ StakeTypeOK /\ ResultTypeOK
          /\ WalletTypeOK /\ PendingTypeOK /\ FeeTypeOK /\ ArchiveTypeOK

(* An initialised contract before its first round. *)
Init ==
  /\ ledger = 0
  /\ runtimeMode = "Normal"
  /\ config \in Configs
  /\ lastRoundId = 0
  /\ activeRound = None
  /\ roundStartLedger = [l \in Ledgers |-> None]
  /\ pendingDisputes = [r \in RoundIds |-> None]
  /\ position = [r \in RoundIds |-> [u \in Users |-> None]]
  /\ prediction = [r \in RoundIds |-> [u \in Users |-> None]]
  /\ commitment = [r \in RoundIds |-> [u \in Users |-> None]]
  /\ participants = [r \in RoundIds |-> {}]
  /\ outcome = [r \in RoundIds |-> [u \in Users |-> None]]
  /\ stats = [u \in Users |-> [wins |-> 0, losses |-> 0, streak |-> 0, best |-> 0]]
  /\ balance = [u \in Users |-> 0]
  /\ hasBalance = {}
  /\ pendingWinnings = [u \in Users |-> 0]
  /\ pendingUpdatedAt = [u \in Users |-> None]
  /\ treasury = 0
  /\ insuranceFund = 0
  /\ archivedRound = [r \in RoundIds |-> None]
  /\ cancelledRound = {}
  /\ recentArchived = << >>
  /\ userRounds = [u \in Users |-> << >>]
-----------------------------------------------------------------------------
(* Fault: the gate stops the wrong one of the two restricted modes. *)
FaultStopsClaimsOnly == runtimeMode # "ClaimsOnly"

(* Runtime modes: ClaimsOnly stops new stakes, FullyPaused stops the rest. *)
NotPaused == runtimeMode # "FullyPaused"

NormalMode == runtimeMode = "Normal"

(* What a user has at stake in a round; a revealed commitment counts once. *)
StakeIn(r, u) ==
  IF position[r][u] # None THEN position[r][u].amount
  ELSE IF prediction[r][u] # None THEN prediction[r][u].amount
  ELSE IF commitment[r][u] # None THEN commitment[r][u].amount
  ELSE 0

(* _user_round_exposure adds the three keys up, revealed or not. *)
Exposure(r, u) ==
  (IF position[r][u] = None THEN 0 ELSE position[r][u].amount)
  + (IF prediction[r][u] = None THEN 0 ELSE prediction[r][u].amount)
  + (IF commitment[r][u] = None THEN 0 ELSE commitment[r][u].amount)

(***************************************************************************)
(* _accumulate_pending for every user of a set: the addition is checked    *)
(* and the cap, when there is one, fails the whole transaction.            *)
(***************************************************************************)
AccumulatePending(credited, credit) ==
  LET total == [u \in Users |-> IF u \in credited
                                THEN pendingWinnings[u] + credit[u]
                                ELSE pendingWinnings[u]]
  IN  /\ \A u \in credited :
           /\ total[u] \in I128
           /\ config.maxPending # None => total[u] <= config.maxPending
      /\ pendingWinnings' = total
      /\ pendingUpdatedAt' = [u \in Users |-> IF u \in credited THEN ledger
                                              ELSE pendingUpdatedAt[u]]

(* A fee is split between the insurance fund and the treasury. *)
InsuranceFee(fee) ==
  IF config.splitBps = 0 \/ fee <= 0 THEN 0
  ELSE Lesser(BpsOf(fee, config.splitBps), fee)

CollectProtocolFee(fee) ==
  /\ treasury + (fee - InsuranceFee(fee)) \in I128
  /\ insuranceFund + InsuranceFee(fee) \in I128
  /\ treasury' = treasury + (fee - InsuranceFee(fee))
  /\ insuranceFund' = insuranceFund + InsuranceFee(fee)

(* _persist_user_outcome keeps the first record of a user in a round. *)
PersistUserOutcomes(r, records) ==
  outcome' = [outcome EXCEPT ![r] =
    [u \in Users |-> IF u \in DOMAIN records /\ outcome[r][u] = None
                     THEN records[u] ELSE outcome[r][u]]]

(* _update_stats_win *)
StatsAfterWin(s) ==
  [wins   |-> s.wins + 1,
   losses |-> s.losses,
   streak |-> s.streak + 1,
   best   |-> IF s.streak + 1 > s.best THEN s.streak + 1 ELSE s.best]

(* Fault: a loss shortens the streak instead of ending it. *)
FaultStreakDecrement(s) ==
  [wins |-> s.wins, losses |-> s.losses + 1, streak |-> s.streak - 1, best |-> s.best]

(* _update_stats_loss *)
StatsAfterLoss(s) ==
  [wins |-> s.wins, losses |-> s.losses + 1, streak |-> 0, best |-> s.best]

UpdateStats(winners, losers) ==
  stats' = [u \in Users |-> IF u \in winners THEN StatsAfterWin(stats[u])
                            ELSE IF u \in losers THEN StatsAfterLoss(stats[u])
                            ELSE stats[u]]

(* Fault: the keys of the participants are left behind. *)
FaultKeysKept(keys, r) == keys

(* Every stake key of the listed participants goes, and the list itself. *)
Cleared(keys, r) ==
  [keys EXCEPT ![r] = [u \in Users |-> IF u \in participants[r] THEN None
                                       ELSE keys[r][u]]]

(* Fault: the participant list outlives the round. *)
FaultListKept(r) ==
  /\ position' = Cleared(position, r)
  /\ prediction' = Cleared(prediction, r)
  /\ commitment' = Cleared(commitment, r)
  /\ participants' = participants

ClearRoundStorage(r) ==
  /\ position' = Cleared(position, r)
  /\ prediction' = Cleared(prediction, r)
  /\ commitment' = Cleared(commitment, r)
  /\ participants' = [participants EXCEPT ![r] = {}]

(* Fault: the history of a user is overwritten. *)
FaultHistoryReplaced(r) ==
  [u \in Users |-> IF u \in participants[r] THEN <<r>> ELSE userRounds[u]]

HistoryAfter(r) ==
  [u \in Users |-> IF u \in participants[r] THEN Append(userRounds[u], r) ELSE userRounds[u]]

(* _archive_round also lists the round in the history of its participants. *)
ArchiveAndIndex(r, status) ==
  /\ Arch!ArchiveRound(r, status)
  /\ userRounds' = HistoryAfter(r)
-----------------------------------------------------------------------------
(***************************************************************************)
(* What a settlement decides: a record per participant it reaches and the  *)
(* fee.  A round holds stakes of its own mode only, so StakeIn reads the   *)
(* keys the code reads for that mode.                                      *)
(***************************************************************************)
StakesOf(r) == [u \in participants[r] |-> StakeIn(r, u)]

Refunded(r) == {u \in participants[r] : StakeIn(r, u) > 0}

RefundRecords(r, kind) ==
  [u \in Refunded(r) |->
     [kind |-> kind, stake |-> StakeIn(r, u), payout |-> StakeIn(r, u)]]

(* _record_winnings_indexed: winners share what the fee leaves of the pot. *)
WinningRecords(r, side, winning_pool, losing_pool) ==
  LET net == ProtocolFeeUpdown(config.feeBps, config.feeModel, winning_pool, losing_pool)
      won(u) == position[r][u].side = side
      payout(u) == UpdownWinnerPayout(StakeIn(r, u), winning_pool, net.winning + net.losing)
      paid == IF winning_pool = 0 THEN {} ELSE participants[r]
  IN  [records |-> [u \in paid |-> [kind   |-> IF won(u) THEN "Win" ELSE "Loss",
                                    stake  |-> StakeIn(r, u),
                                    payout |-> IF won(u) THEN payout(u) ELSE 0]],
       fee     |-> IF winning_pool = 0 THEN 0 ELSE net.fee]

UpdownSettlement(round, final_price) ==
  LET r         == round.round_id
      direction == PriceDirection(round.price_start, final_price)
      refunded  == \/ direction = "Unchanged"
                   \/ IsOneSidedPool(round.pool_up, round.pool_down)
  IN  CASE refunded -> [records |-> RefundRecords(r, "Refund"), fee |-> 0]
        [] ~ refunded /\ direction = "Up"
             -> WinningRecords(r, "Up", round.pool_up, round.pool_down)
        [] ~ refunded /\ direction = "Down"
             -> WinningRecords(r, "Down", round.pool_down, round.pool_up)

(* Unrevealed commitments are in the pot and cannot win it. *)
PrecisionSettlement(round, final_price) ==
  LET r        == round.round_id
      stake    == StakesOf(r)
      pot      == SumFunction(stake)
      revealed == {u \in participants[r] : prediction[r][u] # None}
      winners  == ClosestGuesses([u \in revealed |-> prediction[r][u].price], final_price)
      net      == ProtocolFeePrecision(config.feeBps, config.feeModel, pot,
                                       SumFunctionOnSet(stake, winners))
      payout   == PrecisionPayouts(config.payoutPolicy, stake, winners,
                                   net.distributable)
      record(u) ==
        IF u \in winners
        THEN [kind |-> "Win", stake |-> stake[u], payout |-> payout[u]]
        ELSE [kind |-> "Loss", stake |-> stake[u], payout |-> 0]
  IN  IF winners # {} /\ pot > 0
      THEN [records |-> [u \in participants[r] |-> record(u)], fee |-> net.fee]
      ELSE [records |-> RefundRecords(r, "Refund"), fee |-> 0]

Settlement(round, final_price) ==
  IF round.mode = "UpDown" THEN UpdownSettlement(round, final_price)
  ELSE PrecisionSettlement(round, final_price)

(* Amounts are i128 and computed with checked arithmetic. *)
ApplySettlement(r, records, fee) ==
  LET ofKind(k) == {u \in DOMAIN records : records[u].kind = k}
      payout    == [u \in DOMAIN records |-> records[u].payout]
  IN  /\ DOMAIN records \subseteq Users
      /\ \A u \in DOMAIN records : records[u] \in UserRoundOutcome
      /\ AccumulatePending(DOMAIN records \ ofKind("Loss"), payout)
      /\ PersistUserOutcomes(r, records)
      /\ UpdateStats(ofKind("Win"), ofKind("Loss"))
      /\ CollectProtocolFee(fee)

(* Pays a round out and archives it, then removes the ActiveRound key. *)
CompleteSettlement(round, final_price) ==
  LET result == Settlement(round, final_price)
  IN  /\ ApplySettlement(round.round_id, result.records, result.fee)
      /\ ArchiveAndIndex(round.round_id, "Resolved")
      /\ ClearRoundStorage(round.round_id)
      /\ activeRound' = None
-----------------------------------------------------------------------------
(* The ledger closes. *)
Tick ==
  /\ ledger < MaxLedger
  /\ ledger' = ledger + 1
  /\ UNCHANGED <<runtimeMode, config, roundVars, stakeVars, resultVars,
                 walletVars, pendingVars, feeVars, archiveVars>>

(* pause_contract, unpause_contract, set_runtime_mode and two proposals. *)
set_runtime_mode(mode) ==
  /\ mode # runtimeMode
  /\ runtimeMode' = mode
  /\ UNCHANGED <<ledger, config, roundVars, stakeVars, resultVars,
                 walletVars, pendingVars, feeVars, archiveVars>>

(* The keys a scheduled change writes, and only once its delay is over. *)
TimelockedKeys == {"windows", "maxStake", "minBet", "maxExposure", "maxPending",
                   "feeBps", "expiry"}

(***************************************************************************)
(* One key takes another value: by its setter, or for a timelocked key by  *)
(* apply_scheduled_changes, which needs the Normal mode.                   *)
(***************************************************************************)
update_config(c) ==
  /\ c # config
  /\ \E key \in DOMAIN config :
       /\ c = [config EXCEPT ![key] = c[key]]
       /\ IF key \in TimelockedKeys THEN NormalMode ELSE NotPaused
  /\ config' = c
  /\ UNCHANGED <<ledger, runtimeMode, roundVars, stakeVars, resultVars,
                 walletVars, pendingVars, feeVars, archiveVars>>

(* An approved proposal writes the fee at once, in every runtime mode.     *)
execute_set_protocol_fee_bps(bps) ==
  /\ config' = [config EXCEPT !.feeBps = bps]
  /\ config' \in Configs /\ config' # config
  /\ UNCHANGED <<ledger, runtimeMode, roundVars, stakeVars, resultVars,
                 walletVars, pendingVars, feeVars, archiveVars>>

(* Fault: a ledger may back several rounds. *)
FaultLedgerReused == TRUE

(* A start ledger backs one round for ever: the key is never removed. *)
StartLedgerFree == roundStartLedger[ledger] = None

(* Fault: the counter is read but not advanced. *)
FaultIdReused == IF lastRoundId = 0 THEN 1 ELSE lastRoundId

NextRoundId == lastRoundId + 1

create_round(start_price, mode) ==
  /\ start_price >= 1
  /\ NotPaused
  /\ activeRound = None
  /\ StartLedgerFree
  /\ lastRoundId < MaxRounds
  /\ lastRoundId' = NextRoundId
  /\ activeRound' = [round_id       |-> NextRoundId,
                     price_start    |-> start_price,
                     start_ledger   |-> ledger,
                     bet_end_ledger |-> ledger + config.windows.bet,
                     end_ledger     |-> ledger + config.windows.run,
                     pool_up        |-> 0,
                     pool_down      |-> 0,
                     mode           |-> mode]
  /\ roundStartLedger' = [roundStartLedger EXCEPT ![ledger] = NextRoundId]
  /\ UNCHANGED <<clockVars, pendingDisputes, stakeVars, resultVars,
                 walletVars, pendingVars, feeVars, archiveVars>>

create_next_from_template ==
  /\ config.template # None
  /\ create_round(config.template.start_price, config.template.mode)
-----------------------------------------------------------------------------
(* Fault: stakes are taken until the end of the round. *)
FaultBettingTillEnd == ledger < activeRound.end_ledger

(* A stake is taken before the close of betting, less the close buffer. *)
BettingOpen ==
  /\ ledger < activeRound.bet_end_ledger
  /\ config.closeBuffer > 0 =>
       ledger < activeRound.bet_end_ledger - config.closeBuffer

HasFunds(user, amount) == balance[user] >= amount

(* The checks every entrypoint makes before it takes a stake. *)
StakeAllowed(user, amount, mode) ==
  /\ NormalMode
  /\ amount > 0
  /\ config.minBet # None => amount >= config.minBet
  /\ config.maxStake # None => amount <= config.maxStake
  /\ activeRound # None
  /\ config.maxExposure # None =>
       Exposure(activeRound.round_id, user) + amount <= config.maxExposure
  /\ activeRound.mode = mode
  /\ BettingOpen
  /\ HasFunds(user, amount)

(* The stake leaves the wallet and the user joins the participants. *)
TakeStake(user, amount) ==
  /\ balance[user] - amount \in I128
  /\ balance' = [balance EXCEPT ![user] = balance[user] - amount]
  /\ hasBalance' = hasBalance \cup {user}
  /\ participants' = [participants EXCEPT ![activeRound.round_id] =
                        participants[activeRound.round_id] \cup {user}]

(* Fault: the side of a stake is ignored. *)
FaultWrongPool(round, side, delta) == [round EXCEPT !.pool_up = round.pool_up + delta]

PoolAfter(round, side, delta) ==
  IF side = "Up" THEN [round EXCEPT !.pool_up = round.pool_up + delta]
  ELSE [round EXCEPT !.pool_down = round.pool_down + delta]

place_bet(user, amount, side) ==
  LET r == activeRound.round_id
  IN  /\ StakeAllowed(user, amount, "UpDown")
      /\ position[r][user] = None
      /\ PoolAfter(activeRound, side, amount) \in Round
      /\ TakeStake(user, amount)
      /\ position' = [position EXCEPT ![r][user] = [amount |-> amount, side |-> side]]
      /\ activeRound' = PoolAfter(activeRound, side, amount)
      /\ UNCHANGED <<clockVars, lastRoundId, roundStartLedger, pendingDisputes,
                     prediction, commitment, resultVars, pendingVars, feeVars,
                     archiveVars>>

(* Also predict_price, which only swaps the arguments. *)
place_precision_prediction(user, amount, price) ==
  LET r == activeRound.round_id
  IN  /\ StakeAllowed(user, amount, "Precision")
      /\ prediction[r][user] = None /\ commitment[r][user] = None
      /\ Cardinality(participants[r]) < config.maxPrecision
      /\ TakeStake(user, amount)
      /\ prediction' = [prediction EXCEPT ![r][user] =
                          [amount |-> amount, price |-> price]]
      /\ UNCHANGED <<clockVars, roundVars, position, commitment, resultVars,
                     pendingVars, feeVars, archiveVars>>

(* The hash binds the price; its preimage is known to the user alone. *)
commit_prediction(user, amount, price) ==
  LET r == activeRound.round_id
  IN  /\ StakeAllowed(user, amount, "Precision")
      /\ prediction[r][user] = None /\ commitment[r][user] = None
      /\ TakeStake(user, amount)
      /\ commitment' = [commitment EXCEPT ![r][user] =
                          [amount |-> amount, price |-> price, revealed |-> FALSE]]
      /\ UNCHANGED <<clockVars, roundVars, position, prediction, resultVars,
                     pendingVars, feeVars, archiveVars>>

reveal_prediction(user, price) ==
  LET r == activeRound.round_id
      c == commitment[r][user]
  IN  /\ NormalMode
      /\ activeRound # None
      /\ activeRound.mode = "Precision"
      /\ activeRound.bet_end_ledger <= ledger /\ ledger < activeRound.end_ledger
      /\ c # None
      /\ ~ c.revealed
      /\ c.price = price
      /\ commitment' = [commitment EXCEPT ![r][user] =
                          [amount |-> c.amount, price |-> c.price, revealed |-> TRUE]]
      /\ prediction' = [prediction EXCEPT ![r][user] =
                          [amount |-> c.amount, price |-> price]]
      /\ UNCHANGED <<clockVars, roundVars, position, participants, resultVars,
                     walletVars, pendingVars, feeVars, archiveVars>>

(* Fault: an early exit pays but leaves the position in place. *)
FaultExitKeepsStake(r, user) == UNCHANGED <<position, participants>>

RemovePosition(r, user) ==
  /\ position' = [position EXCEPT ![r][user] = None]
  /\ participants' = [participants EXCEPT ![r] = participants[r] \ {user}]

cash_out_early(user) ==
  LET r       == activeRound.round_id
      stake   == position[r][user].amount
      forfeit == CashoutForfeit(stake, config.cashoutBps)
      record  == [kind |-> "Refund", stake |-> stake, payout |-> stake - forfeit]
      closed  == PoolAfter(activeRound, position[r][user].side, -stake)
  IN  /\ NormalMode
      /\ config.cashoutBps # None
      /\ config.cashoutBps \in 1 .. BPS_DENOMINATOR
      /\ activeRound # None
      /\ activeRound.mode = "UpDown"
      /\ activeRound.bet_end_ledger <= ledger /\ ledger < activeRound.end_ledger
      /\ position[r][user] # None
      /\ record \in UserRoundOutcome
      /\ closed \in Round
      /\ activeRound' = closed
      /\ AccumulatePending(IF stake > forfeit THEN {user} ELSE {},
                           [u \in {user} |-> stake - forfeit])
      /\ CollectProtocolFee(forfeit)
      /\ PersistUserOutcomes(r, [u \in {user} |-> record])
      /\ RemovePosition(r, user)
      /\ UNCHANGED <<clockVars, lastRoundId, roundStartLedger, pendingDisputes,
                     prediction, commitment, stats, walletVars, archiveVars>>
-----------------------------------------------------------------------------
(***************************************************************************)
(* The end of a round.  An accepted oracle price, from resolve_round or    *)
(* resolve_round_multi, either refunds a round with too few participants,  *)
(* or stages the result for a dispute window, or pays it out at once.      *)
(***************************************************************************)
TooFewParticipants(r) ==
  config.minParticipants # None /\ Cardinality(participants[r]) < config.minParticipants

RefundUnderThreshold(round) ==
  /\ ArchiveAndIndex(round.round_id, "FallbackRefund")
  /\ ApplySettlement(round.round_id, RefundRecords(round.round_id, "Refund"), 0)
  /\ ClearRoundStorage(round.round_id)
  /\ activeRound' = None
  /\ UNCHANGED pendingDisputes

StageDispute(round, final_price) ==
  /\ pendingDisputes' = [pendingDisputes EXCEPT ![round.round_id] =
                           [round       |-> round,
                            final_price |-> final_price,
                            deadline    |-> ledger + config.disputeLedgers]]
  /\ activeRound' = None
  /\ UNCHANGED <<stakeVars, resultVars, pendingVars, feeVars, archiveVars>>

SettleRoundWithPrice(round, final_price) ==
  \/ /\ TooFewParticipants(round.round_id)
     /\ RefundUnderThreshold(round)
  \/ /\ ~ TooFewParticipants(round.round_id)
     /\ config.disputeLedgers > 0
     /\ StageDispute(round, final_price)
  \/ /\ ~ TooFewParticipants(round.round_id)
     /\ config.disputeLedgers = 0
     /\ CompleteSettlement(round, final_price)
     /\ UNCHANGED pendingDisputes

(* Fault: the end is missed when no report arrives at that very ledger. *)
FaultExactEnd == ledger = activeRound.end_ledger

RoundOver == ledger >= activeRound.end_ledger

resolve_round(final_price) ==
  /\ final_price # 0
  /\ NotPaused
  /\ activeRound # None
  /\ RoundOver
  /\ SettleRoundWithPrice(activeRound, final_price)
  /\ UNCHANGED <<clockVars, lastRoundId, roundStartLedger, walletVars>>

(* Fault: the window includes its deadline. *)
FaultWindowInclusive(r) == ledger <= pendingDisputes[r].deadline

WindowOpen(r) == ledger < pendingDisputes[r].deadline

(* Anybody may void a staged result before its deadline... *)
void_round(r) ==
  /\ NotPaused
  /\ pendingDisputes[r] # None
  /\ WindowOpen(r)
  /\ ApplySettlement(r, RefundRecords(r, "Void"), 0)
  /\ ArchiveAndIndex(r, "Voided")
  /\ ClearRoundStorage(r)
  /\ pendingDisputes' = [pendingDisputes EXCEPT ![r] = None]
  /\ UNCHANGED <<clockVars, lastRoundId, activeRound, roundStartLedger, walletVars>>

(* ...and anybody may finalize it from the deadline on. *)
finalize_round(r) ==
  /\ NotPaused
  /\ pendingDisputes[r] # None
  /\ ~ WindowOpen(r)
  /\ CompleteSettlement(pendingDisputes[r].round, pendingDisputes[r].final_price)
  /\ pendingDisputes' = [pendingDisputes EXCEPT ![r] = None]
  /\ UNCHANGED <<clockVars, lastRoundId, roundStartLedger, walletVars>>

(* What the insurance promises on a stake. *)
CoverageFor(stake) ==
  IF config.coverageBps = 0 \/ stake <= 0 THEN 0 ELSE BpsOf(stake, config.coverageBps)

(* Fault: the promise is paid whatever the fund holds. *)
FaultUncapped(r, reason) ==
  IF reason \in config.eligible
  THEN SumFunction([u \in Refunded(r) |-> CoverageFor(StakeIn(r, u))]) ELSE 0

(* What the fund pays in all: the promise, as far as the fund reaches. *)
CoveragePaid(r, reason) ==
  LET promised == SumFunction([u \in Refunded(r) |-> CoverageFor(StakeIn(r, u))])
  IN  IF reason \in config.eligible /\ promised > 0 /\ insuranceFund > 0
      THEN Lesser(promised, insuranceFund) ELSE 0

(* Fault: every user is paid the whole coverage. *)
FaultWholeCoverage(r, paid, user) == paid

(* A user's part of it, in proportion to the stakes, rounded down. *)
CoverageShare(r, paid, user) ==
  IF paid = 0 THEN 0
  ELSE (paid * StakeIn(r, user)) \div SumFunction(StakesOf(r))

(***************************************************************************)
(* Cancellation refunds every stake and, when the reason is insured, adds  *)
(* coverage from the fund.  It is open in every runtime mode.              *)
(***************************************************************************)
cancel_round(reason) ==
  LET r       == activeRound.round_id
      records == RefundRecords(r, "Void")
      paid    == CoveragePaid(r, reason)
  IN  /\ activeRound # None
      /\ \A u \in DOMAIN records : records[u] \in UserRoundOutcome
      /\ insuranceFund - paid \in I128
      /\ AccumulatePending(DOMAIN records,
                           [u \in DOMAIN records |->
                              records[u].payout + CoverageShare(r, paid, u)])
      /\ PersistUserOutcomes(r, records)
      /\ insuranceFund' = insuranceFund - paid
      /\ ArchiveAndIndex(r, "Cancelled")
      /\ ClearRoundStorage(r)
      /\ activeRound' = None
      /\ UNCHANGED <<clockVars, lastRoundId, roundStartLedger, pendingDisputes,
                     stats, walletVars, treasury>>
-----------------------------------------------------------------------------
(***************************************************************************)
(* Wallets.  Moving pending winnings to the balance clears both keys of    *)
(* the pending entry; a user with nothing pending is skipped.              *)
(***************************************************************************)
MAX_CLAIM_BATCH_SIZE == 50

Credit(user, amount) ==
  /\ balance[user] + amount \in I128
  /\ balance' = [balance EXCEPT ![user] = balance[user] + amount]
  /\ hasBalance' = hasBalance \cup {user}

MovePending(users) ==
  LET paid == {u \in users : pendingWinnings[u] # 0}
  IN  /\ paid # {}
      /\ \A u \in paid : balance[u] + pendingWinnings[u] \in I128
      /\ balance' = [u \in Users |-> IF u \in paid THEN balance[u] + pendingWinnings[u]
                                     ELSE balance[u]]
      /\ hasBalance' = hasBalance \cup paid
      /\ pendingWinnings' = [u \in Users |-> IF u \in paid THEN 0 ELSE pendingWinnings[u]]
      /\ pendingUpdatedAt' = [u \in Users |-> IF u \in paid THEN None
                                              ELSE pendingUpdatedAt[u]]

(* Fault: claiming needs the Normal mode. *)
FaultClaimNeedsNormal(user) ==
  /\ NormalMode
  /\ MovePending({user})
  /\ UNCHANGED <<clockVars, roundVars, stakeVars, resultVars, feeVars, archiveVars>>

(* A user claims for themself, also in ClaimsOnly. *)
claim_winnings(user) ==
  /\ NotPaused
  /\ MovePending({user})
  /\ UNCHANGED <<clockVars, roundVars, stakeVars, resultVars, feeVars, archiveVars>>

claim_many(users) ==
  /\ NotPaused
  /\ Cardinality(users) <= MAX_CLAIM_BATCH_SIZE
  /\ MovePending(users)
  /\ UNCHANGED <<clockVars, roundVars, stakeVars, resultVars, feeVars, archiveVars>>

(* Fault: an entry expires one ledger early. *)
FaultExpiresEarly(user) == ledger - pendingUpdatedAt[user] >= config.expiry - 1

Expired(user) == ledger - pendingUpdatedAt[user] >= config.expiry

(* The admin takes over an entry nobody claimed for `expiry` ledgers. *)
reclaim_expired_pending_winnings(user) ==
  /\ NotPaused
  /\ config.expiry > 0
  /\ pendingWinnings[user] # 0
  /\ pendingUpdatedAt[user] # None
  /\ Expired(user)
  /\ pendingWinnings' = [pendingWinnings EXCEPT ![user] = 0]
  /\ pendingUpdatedAt' = [pendingUpdatedAt EXCEPT ![user] = None]
  /\ Credit(Admin, pendingWinnings[user])
  /\ UNCHANGED <<clockVars, roundVars, stakeVars, resultVars, feeVars, archiveVars>>

(* Once per user: a Balance key of any origin counts as minted. *)
mint_initial(user) ==
  /\ NormalMode
  /\ user \notin hasBalance
  /\ Credit(user, MintAmount)
  /\ UNCHANGED <<clockVars, roundVars, stakeVars, resultVars, pendingVars,
                 feeVars, archiveVars>>

(***************************************************************************)
(* Fees and the fund are paid out by the admin's call, not while paused,   *)
(* or by governance::execute of an approved proposal, in every mode.       *)
(***************************************************************************)
execute_withdraw_fee(recipient, amount) ==
  /\ 0 < amount /\ amount <= treasury
  /\ treasury - amount \in I128
  /\ treasury' = treasury - amount
  /\ Credit(recipient, amount)
  /\ UNCHANGED <<clockVars, roundVars, stakeVars, resultVars, pendingVars,
                 insuranceFund, archiveVars>>

execute_withdraw_insurance_fund(recipient, amount) ==
  /\ 0 < amount /\ amount <= insuranceFund
  /\ insuranceFund - amount \in I128
  /\ insuranceFund' = insuranceFund - amount
  /\ Credit(recipient, amount)
  /\ UNCHANGED <<clockVars, roundVars, stakeVars, resultVars, pendingVars,
                 treasury, archiveVars>>

withdraw_protocol_fee(recipient, amount) ==
  NotPaused /\ execute_withdraw_fee(recipient, amount)

withdraw_insurance_fund(recipient, amount) ==
  NotPaused /\ execute_withdraw_insurance_fund(recipient, amount)

top_up_insurance_fund(amount) ==
  /\ NotPaused
  /\ 0 < amount /\ amount <= balance[Admin]
  /\ insuranceFund + amount \in I128
  /\ insuranceFund' = insuranceFund + amount
  /\ Credit(Admin, -amount)
  /\ UNCHANGED <<clockVars, roundVars, stakeVars, resultVars, pendingVars,
                 treasury, archiveVars>>
-----------------------------------------------------------------------------
Stake ==
  \E user \in Users :
    \/ \E amount \in Amounts :
         \/ \E side \in Sides : place_bet(user, amount, side)
         \/ \E price \in Prices : place_precision_prediction(user, amount, price)
         \/ \E price \in Prices : commit_prediction(user, amount, price)
    \/ \E price \in Prices : reveal_prediction(user, price)
    \/ cash_out_early(user)

EndOfRound ==
  \/ \E price \in Prices : resolve_round(price)
  \/ \E reason \in Reasons : cancel_round(reason)
  \/ \E r \in RoundIds : void_round(r) \/ finalize_round(r)

Wallet ==
  \/ \E user \in Users : \/ mint_initial(user)
                         \/ claim_winnings(user)
                         \/ reclaim_expired_pending_winnings(user)
  \/ \E users \in SUBSET Users : claim_many(users)
  \/ \E amount \in Amounts :
       \/ \E to \in Users : \/ withdraw_protocol_fee(to, amount)
                          \/ withdraw_insurance_fund(to, amount)
                          \/ execute_withdraw_fee(to, amount)
                          \/ execute_withdraw_insurance_fund(to, amount)
       \/ top_up_insurance_fund(amount)

Administration ==
  \/ \E mode \in RuntimeModes : set_runtime_mode(mode)
  \/ \E c \in Configs : update_config(c) \/ execute_set_protocol_fee_bps(c.feeBps)
  \/ \E price \in Prices, mode \in RoundModes : create_round(price, mode)
  \/ create_next_from_template

Next == Tick \/ Stake \/ EndOfRound \/ Wallet \/ Administration

Spec == Init /\ [][Next]_vars

(***************************************************************************)
(* Ledgers keep closing, the oracle operator keeps reporting (the runbook  *)
(* makes it a duty), somebody finalizes what is due (anybody may) and      *)
(* users claim.  Nothing obliges anyone to stake, cancel, void or pause.   *)
(***************************************************************************)
Fairness ==
  /\ WF_vars(Tick)
  /\ WF_vars(\E price \in Prices : resolve_round(price))
  /\ \A r \in RoundIds : WF_vars(finalize_round(r))
  /\ \A user \in Users : WF_vars(claim_winnings(user))

LiveSpec == Spec /\ Fairness
-----------------------------------------------------------------------------
(***************************************************************************)
(* Properties.  The value in the system is what the wallets hold, what is  *)
(* pending, what the contract keeps, and what is staked in any round.  The *)
(* formula of a step stands before the property that it always holds.      *)
(***************************************************************************)
StakedIn(r) == SumFunction([u \in Users |-> StakeIn(r, u)])

TotalValue ==
  SumFunction(balance) + SumFunction(pendingWinnings) + treasury + insuranceFund
  + SumFunction([r \in RoundIds |-> StakedIn(r)])

(* The record a live round settles from. *)
RoundRecord(r) == IF r \in Disputed THEN pendingDisputes[r].round ELSE activeRound

(* Whether the step records an outcome of the user in the round. *)
Reached(r, u) == outcome[r][u] = None /\ outcome'[r][u] # None

(* The two pools a live Up/Down round pays from are the sums of the        *)
(* positions on either side, through bets, early exits and the copy that a *)
(* dispute window keeps: a share of the pool is a share of real stakes.    *)
PoolsMatchPositions ==
  \A r \in Live :
    LET on(side) == {u \in Users : position[r][u] # None /\ position[r][u].side = side}
        sum(side) == SumFunction([u \in on(side) |-> position[r][u].amount])
    IN  RoundRecord(r).mode = "UpDown" =>
          RoundRecord(r).pool_up = sum("Up") /\ RoundRecord(r).pool_down = sum("Down")

(* The participant list of a round names exactly the users with a stake    *)
(* key in it, and a live round holds keys of its own mode only: settlement *)
(* and cleanup walk that list, so a key it misses is never paid nor freed. *)
ParticipantsMatchStakes ==
  \A r \in RoundIds, u \in Users :
    /\ u \in participants[r] <=>
         \/ position[r][u] # None
         \/ prediction[r][u] # None
         \/ commitment[r][u] # None
    /\ r \in Live => IF RoundRecord(r).mode = "UpDown"
                     THEN prediction[r][u] = None /\ commitment[r][u] = None
                     ELSE position[r][u] = None

(* A start ledger, which the oracle's payload names a round by, identifies *)
(* one round for ever: every round there has been still owns the key of    *)
(* its own start, also when rounds are created, cancelled and replaced     *)
(* within a ledger, and a live round settles under its own id.             *)
StartLedgerUnique ==
  /\ \A r \in RoundIds : r <= lastRoundId =>
       \E l \in Ledgers : roundStartLedger[l] = r
  /\ \A r \in Live : /\ RoundRecord(r).round_id = r
                     /\ roundStartLedger[RoundRecord(r).start_ledger] = r

(* A user's win and loss counters agree with the outcomes on record: no    *)
(* settlement, refund, early exit or void counts twice or is missed.       *)
StatsMatchOutcomes ==
  \A u \in Users :
    LET with(kind) == {r \in RoundIds : outcome[r][u] # None /\ outcome[r][u].kind = kind}
    IN  /\ stats[u].wins = Cardinality(with("Win"))
        /\ stats[u].losses = Cardinality(with("Loss"))

(* A user's history lists, once each, the finished rounds the user had a   *)
(* stake in to the end: every round with a win, a loss or a void on record *)
(* is there, and nothing the user did not take part in.                    *)
HistoryMatchesOutcomes ==
  \A u \in Users :
    LET listed == {userRounds[u][i] : i \in DOMAIN userRounds[u]}
    IN  /\ Cardinality(listed) = Len(userRounds[u])
        /\ \A r \in listed : r \in Ended /\ outcome[r][u] # None
        /\ \A r \in RoundIds :
             outcome[r][u] # None /\ outcome[r][u].kind # "Refund" => r \in listed

(* What the contract tells a user about the past agrees with what it did.  *)
RecordsMatchOutcomes == StatsMatchOutcomes /\ HistoryMatchesOutcomes

(* No wallet, pending entry, pool, treasury or fund is ever overdrawn.     *)
BooksNonNegative ==
  /\ \A u \in Users : balance[u] >= 0 /\ pendingWinnings[u] >= 0
  /\ treasury >= 0 /\ insuranceFund >= 0
  /\ activeRound # None => activeRound.pool_up >= 0 /\ activeRound.pool_down >= 0

(* A stake sits only in a round that can still be settled, so its owner    *)
(* can get it back.                                                        *)
StakesRecoverable == \A r \in RoundIds : participants[r] # {} => r \in Live

ConservesValue ==
  LET lost    == TotalValue - TotalValue'
      reached == {p \in RoundIds \X Users : Reached(p[1], p[2])}
      rounded == \/ insuranceFund' < insuranceFund
                 \/ \E p \in reached : /\ RoundRecord(p[1]).mode = "UpDown"
                                       /\ outcome'[p[1]][p[2]].kind = "Win"
  IN  \/ lost = 0
      \/ 0 < lost /\ lost < Cardinality(reached) /\ rounded
      \/ lost = -MintAmount /\ hasBalance' # hasBalance /\ UNCHANGED feeVars

(* Value enters the system through mint_initial only, and leaves it only   *)
(* as the dust of rounding down the shares of an Up/Down pot or of a       *)
(* coverage payment: less than one unit per user reached.  A Precision     *)
(* settlement, a refund, a claim, a withdrawal loses nothing.              *)
ValueConserved == [][ConservesValue]_vars

CreditsOnce ==
  \A u \in Users :
    LET gain == pendingWinnings'[u] - pendingWinnings[u]
        in   == {r \in RoundIds : Reached(r, u)}
    IN  /\ \A r \in RoundIds : outcome[r][u] # None => outcome'[r][u] = outcome[r][u]
        /\ Cardinality(in) <= 1
        /\ gain > 0 => in # {}
        /\ \A r \in in : \/ gain = outcome'[r][u].payout
                         \/ /\ gain > outcome'[r][u].payout
                            /\ insuranceFund' < insuranceFund

(* A round credits a user once.  An outcome on record never changes, and   *)
(* pending winnings grow only in a step that records the outcome of one    *)
(* round, by its payout; only coverage taken from the fund comes on top.   *)
CreditedOnce == [][CreditsOnce]_vars

EndedStayEnded ==
  \A r \in Ended : /\ r \notin Live'
                   /\ \A u \in Users : ~ Reached(r, u)

(* A round that is over stays over: it is neither reopened nor settled     *)
(* again, whatever order the disputed rounds are closed in.                *)
NeverRevived == [][EndedStayEnded]_vars

TakesNoLateStake ==
  \A r \in Live :
    ledger >= RoundRecord(r).bet_end_ledger =>
      \A u \in Users :
        /\ u \notin participants[r] => u \notin participants'[r]
        /\ prediction[r][u] = None /\ prediction'[r][u] # None =>
             /\ commitment[r][u] # None
             /\ prediction'[r][u] = [amount |-> commitment[r][u].amount,
                                     price  |-> commitment[r][u].price]

(* From the close of betting on, a live round takes no new participant,    *)
(* and the guesses that appear are the ones committed to before.           *)
NoLateStakes == [][TakesNoLateStake]_vars

FreezesDisputes ==
  \A r \in Disputed :
    IF r \in Disputed'
    THEN UNCHANGED <<pendingDisputes[r], position[r], prediction[r],
                     commitment[r], participants[r], outcome[r]>>
    ELSE \A u \in Users :
           Reached(r, u) => (outcome'[r][u].kind = "Void"
                               <=> ledger < pendingDisputes[r].deadline)

(* The result of a disputed round is frozen: until it is voided before the *)
(* deadline, or finalized from the deadline on, neither the staged price   *)
(* nor any stake under it changes, whatever the newer round does.          *)
DisputeFrozen == [][FreezesDisputes]_vars

(* The step pays one wallet, out of the treasury and the fund, and changes *)
(* nothing else but the clock.                                             *)
PaidByProposal(u) ==
  LET paid == (treasury + insuranceFund) - (treasury' + insuranceFund')
  IN  /\ paid > 0 /\ treasury' <= treasury /\ insuranceFund' <= insuranceFund
      /\ balance' = [balance EXCEPT ![u] = balance[u] + paid]
      /\ UNCHANGED <<config, roundVars, stakeVars, resultVars, pendingVars, archiveVars>>

StoppedByPause ==
  /\ UNCHANGED <<lastRoundId, pendingDisputes>>
  /\ config' = [config EXCEPT !.feeBps = config'.feeBps]
  /\ \A u \in Users :
       /\ pendingWinnings'[u] >= pendingWinnings[u]
       /\ \A r \in RoundIds : Reached(r, u) => outcome'[r][u].kind = "Void"
  /\ UNCHANGED <<walletVars, treasury>> \/ \E u \in Users : PaidByProposal(u)

HoldsInPause ==
  /\ runtimeMode = "FullyPaused" => StoppedByPause
  /\ runtimeMode # "Normal" =>
       \A r \in RoundIds : participants'[r] \subseteq participants[r]

(* While the contract is fully paused no round opens, nothing staged for   *)
(* dispute moves, nobody claims or has an entry reclaimed, and a round can *)
(* end in one way only, cancelled, with every stake refunded.  Wallets and *)
(* treasury change in one case only, the withdrawal that an approved       *)
(* proposal makes; and of the configuration only the fee can change, by a  *)
(* proposal as well: governance::execute and cancel_round ask for no mode. *)
(* Outside Normal no stake is added to a round, though what was staked     *)
(* before can still be settled.                                            *)
PauseHolds == [][HoldsInPause]_vars

SendsPendingHome ==
  \A u \in Users :
    /\ pendingWinnings'[u] # 0 => pendingUpdatedAt'[u] # None
    /\ pendingWinnings'[u] > pendingWinnings[u] => pendingUpdatedAt'[u] = ledger
    /\ pendingWinnings'[u] < pendingWinnings[u] =>
         /\ pendingWinnings'[u] = 0
         /\ \/ balance'[u] = balance[u] + pendingWinnings[u]
            \/ /\ balance'[Admin] = balance[Admin] + pendingWinnings[u]
               /\ config.expiry # 0
               /\ ledger >= pendingUpdatedAt[u] + config.expiry

(* Pending winnings never disappear: an entry empties at once and whole,   *)
(* into its owner's wallet or, when no credit has touched it for the       *)
(* configured number of ledgers, into the admin's; and an entry that holds *)
(* something always carries the ledger of its last credit.                 *)
PendingGoesHome == [][SendsPendingHome]_vars

(* Within the ledgers of the model: the next end or deadline is reached.   *)
EndsInModel(r) ==
  /\ r \in Live => RoundRecord(r).end_ledger <= MaxLedger
  /\ r \in Disputed => pendingDisputes[r].deadline <= MaxLedger

(* A stake does not stay in its round for ever: with an oracle that keeps  *)
(* reporting the round is settled and its outcome recorded, also when the  *)
(* contract goes to ClaimsOnly or the dispute window is reconfigured.      *)
StakesSettle ==
  \A r \in RoundIds, u \in Users :
    u \in participants[r] ~>
      (u \notin participants[r] /\ outcome[r][u] # None) \/ ~ EndsInModel(r)

(* Winnings reach the wallet: a pending entry is emptied again and again.  *)
WinningsArrive == \A u \in Users : pendingWinnings[u] > 0 ~> pendingWinnings[u] = 0
=============================================================================
