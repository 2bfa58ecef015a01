---------------------------- MODULE MarketProofs ----------------------------
(***************************************************************************)
(* The market for any users, amounts, configurations and bounds.           *)
(*                                                                         *)
(* First the helpers the entrypoints share, one lemma each; then type      *)
(* correctness; then the identity of rounds and the place of stakes; then  *)
(* stakes and money: the participants of a round are its stakers, the      *)
(* pools are the sums of the positions, and no account is overdrawn.  The  *)
(* last come in three layers of invariant, each inductive with the ones    *)
(* below it: the stakes (StakeInv), the pools (PoolsSum), the books        *)
(* (BooksSound).                                                           *)
(***************************************************************************)
EXTENDS Market, SettlementProofs, SumTheorems, SequenceTheorems, TLAPS

(* A configuration field has the type its key has in the contract.         *)
LEMMA ConfigTyped ==
  ASSUME ClockTypeOK
  PROVE  /\ ledger \in Nat
         /\ config \in Config
         /\ config.windows.bet \in Nat /\ config.windows.run \in Nat
         /\ config.disputeLedgers \in Nat
         /\ config.retention \in Nat \ {0}
         /\ config.template \in [start_price : Prices, mode : RoundModes] \cup {None}
<1>1. config \in Config
  BY ConfigAssumption DEF ClockTypeOK
<1>2. ledger \in Nat
  BY BoundsAssumption DEF ClockTypeOK, Ledgers
<1> QED BY <1>1, <1>2 DEF Config

(* Zero and every caller's amount are amounts.                             *)
LEMMA ZeroIsAmount == 0 \in I128
BY AmountsAssumption DEF I128

(* Crediting pending winnings keeps entries typed: sums are checked.       *)
LEMMA AccumulateTyped ==
  ASSUME ClockTypeOK, PendingTypeOK, NEW S, NEW credit, AccumulatePending(S, credit)
  PROVE  PendingTypeOK'
BY DEF ClockTypeOK, PendingTypeOK, AccumulatePending

(* Splitting a fee keeps treasury and fund typed.                          *)
LEMMA CollectTyped ==
  ASSUME NEW fee, CollectProtocolFee(fee)
  PROVE  FeeTypeOK'
BY DEF CollectProtocolFee, FeeTypeOK

(* Recording outcomes and counting wins and losses keeps results typed.    *)
LEMMA PersistTyped ==
  ASSUME outcome \in [RoundIds -> [Users -> UserRoundOutcome \cup {None}]],
         NEW r \in RoundIds, NEW records,
         \A u \in DOMAIN records : records[u] \in UserRoundOutcome,
         PersistUserOutcomes(r, records)
  PROVE  outcome' \in [RoundIds -> [Users -> UserRoundOutcome \cup {None}]]
<1> DEFINE row == [u \in Users |-> IF u \in DOMAIN records /\ outcome[r][u] = None
                                  THEN records[u] ELSE outcome[r][u]]
<1>1. row \in [Users -> UserRoundOutcome \cup {None}]
  OBVIOUS
<1>2. outcome' = [outcome EXCEPT ![r] = row]
  BY DEF PersistUserOutcomes
<1> HIDE DEF row
<1> QED BY <1>1, <1>2

(* Counting wins and losses keeps the statistics well typed.               *)
LEMMA StatsTyped ==
  ASSUME stats \in [Users -> UserStats], NEW W, NEW L, UpdateStats(W, L)
  PROVE  stats' \in [Users -> UserStats]
<1>1. \A s \in UserStats : StatsAfterWin(s) \in UserStats /\ StatsAfterLoss(s) \in UserStats
  BY DEF UserStats, StatsAfterWin, StatsAfterLoss
<1> QED BY <1>1 DEF UpdateStats

(* Clearing a round removes keys and the participant list.                 *)
LEMMA ClearTyped ==
  ASSUME StakeTypeOK, NEW r \in RoundIds, ClearRoundStorage(r)
  PROVE  StakeTypeOK'
BY DEF StakeTypeOK, ClearRoundStorage, Cleared

(* Archiving a round keeps summaries, markers, index and history typed.    *)
LEMMA ArchiveTyped ==
  ASSUME ClockTypeOK, ArchiveTypeOK, NEW r \in RoundIds, NEW status \in Arch!Status,
         ArchiveAndIndex(r, status)
  PROVE  ArchiveTypeOK'
<1> DEFINE index == Append(recentArchived, r)
           limit == config.retention
           p     == Arch!PrunePasses(Len(index), limit)
<1>1. index \in Seq(RoundIds) /\ Len(index) \in Nat /\ limit \in Nat \ {0}
  BY ConfigTyped DEF ArchiveTypeOK
<1>2. archivedRound' \in [RoundIds -> Arch!Status \cup {None}] /\ cancelledRound' \subseteq RoundIds
  BY DEF ArchiveTypeOK, ArchiveAndIndex, Arch!ArchiveRound, Arch!MarkersAfter
<1>3. recentArchived' = SubSeq(index, 2 * p + 1, Len(index))
  BY DEF ArchiveAndIndex, Arch!ArchiveRound, Arch!Kept
<1>4. p \in Nat
  <2> HIDE DEF index, limit
  <2> QED BY <1>1 DEF Arch!PrunePasses
<1> HIDE DEF index, limit, p
<1>5. 2 * p + 1 \in Int /\ Len(index) \in Int
  BY <1>1, <1>4
<1>6. \A i \in 2 * p + 1 .. Len(index) : index[i] \in RoundIds
  BY <1>1, <1>4
<1>7. recentArchived' \in Seq(RoundIds)
  BY <1>3, <1>5, <1>6, SubSeqProperties
<1>8. userRounds' \in [Users -> Seq(RoundIds)]
  <2>1. \A u \in Users : Append(userRounds[u], r) \in Seq(RoundIds)
    BY DEF ArchiveTypeOK
  <2> QED BY <2>1 DEF ArchiveTypeOK, ArchiveAndIndex, HistoryAfter
<1> QED BY <1>2, <1>7, <1>8 DEF ArchiveTypeOK

(* Paying a settlement out, whoever it pays.                               *)
LEMMA ApplyTyped ==
  ASSUME TypeOK, NEW r \in RoundIds, NEW records, NEW fee,
         ApplySettlement(r, records, fee)
  PROVE  ResultTypeOK' /\ PendingTypeOK' /\ FeeTypeOK'
<1>1. ResultTypeOK'
  <2>1. outcome' \in [RoundIds -> [Users -> UserRoundOutcome \cup {None}]]
    BY PersistTyped DEF TypeOK, ResultTypeOK, ApplySettlement
  <2>2. stats' \in [Users -> UserStats]
    BY StatsTyped DEF TypeOK, ResultTypeOK, ApplySettlement
  <2> QED BY <2>1, <2>2 DEF ResultTypeOK
<1>2. PendingTypeOK'
  BY AccumulateTyped DEF TypeOK, ApplySettlement
<1>3. FeeTypeOK'
  BY CollectTyped DEF ApplySettlement
<1> QED BY <1>1, <1>2, <1>3

(* Paying, archiving and clearing a round.                                 *)
LEMMA CompleteTyped ==
  ASSUME TypeOK, NEW round \in Round, NEW price, CompleteSettlement(round, price)
  PROVE  /\ ResultTypeOK' /\ PendingTypeOK' /\ FeeTypeOK'
         /\ ArchiveTypeOK' /\ StakeTypeOK' /\ activeRound' = None
<1>1. round.round_id \in RoundIds /\ "Resolved" \in Arch!Status
  BY DEF Round, Arch!Status
<1>2. ResultTypeOK' /\ PendingTypeOK' /\ FeeTypeOK'
  BY <1>1, ApplyTyped DEF CompleteSettlement
<1>3. ArchiveTypeOK' /\ StakeTypeOK'
  BY <1>1, ArchiveTyped, ClearTyped DEF CompleteSettlement, TypeOK
<1> QED BY <1>2, <1>3 DEF CompleteSettlement
-----------------------------------------------------------------------------
(* What a step leaves alone keeps its type.                                *)
LEMMA SameTyped ==
  ASSUME TypeOK
  PROVE  /\ UNCHANGED clockVars => ClockTypeOK'
         /\ UNCHANGED roundVars => RoundTypeOK'
         /\ UNCHANGED stakeVars => StakeTypeOK'
         /\ UNCHANGED resultVars => ResultTypeOK'
         /\ UNCHANGED walletVars => WalletTypeOK'
         /\ UNCHANGED pendingVars => PendingTypeOK'
         /\ UNCHANGED feeVars => FeeTypeOK'
         /\ UNCHANGED archiveVars => ArchiveTypeOK'
<1> USE DEF TypeOK
<1>1. UNCHANGED clockVars => ClockTypeOK'
  BY DEF clockVars, ClockTypeOK
<1>2. UNCHANGED roundVars => RoundTypeOK'
  BY DEF roundVars, RoundTypeOK
<1>3. UNCHANGED stakeVars => StakeTypeOK'
  BY DEF stakeVars, StakeTypeOK
<1>4. UNCHANGED resultVars => ResultTypeOK'
  BY DEF resultVars, ResultTypeOK
<1>5. UNCHANGED walletVars => WalletTypeOK'
  BY DEF walletVars, WalletTypeOK
<1>6. UNCHANGED pendingVars => PendingTypeOK'
  BY DEF pendingVars, PendingTypeOK
<1>7. UNCHANGED feeVars => FeeTypeOK'
  BY DEF feeVars, FeeTypeOK
<1>8. UNCHANGED archiveVars => ArchiveTypeOK'
  BY DEF archiveVars, ArchiveTypeOK
<1> QED BY <1>1, <1>2, <1>3, <1>4, <1>5, <1>6, <1>7, <1>8

(* Crediting a wallet is checked arithmetic too.                           *)
LEMMA CreditTyped ==
  ASSUME WalletTypeOK, NEW user \in Users, NEW amount, Credit(user, amount)
  PROVE  WalletTypeOK'
BY DEF WalletTypeOK, Credit

(* Moving pending winnings to balances keeps wallets well typed.           *)
LEMMA MoveTyped ==
  ASSUME WalletTypeOK, PendingTypeOK, NEW users \in SUBSET Users, MovePending(users)
  PROVE  WalletTypeOK' /\ PendingTypeOK'
<1> DEFINE paid == {u \in users : pendingWinnings[u] # 0}
<1>1. /\ paid \subseteq Users
      /\ \A u \in paid : balance[u] + pendingWinnings[u] \in I128
      /\ balance' = [u \in Users |-> IF u \in paid THEN balance[u] + pendingWinnings[u]
                                     ELSE balance[u]]
      /\ hasBalance' = hasBalance \cup paid
      /\ pendingWinnings' = [u \in Users |-> IF u \in paid THEN 0 ELSE pendingWinnings[u]]
      /\ pendingUpdatedAt' = [u \in Users |-> IF u \in paid THEN None
                                              ELSE pendingUpdatedAt[u]]
  BY DEF MovePending
<1> HIDE DEF paid
<1> QED BY <1>1, ZeroIsAmount DEF WalletTypeOK, PendingTypeOK

(* Taking a stake: the wallet stays typed and a user joins the round.      *)
LEMMA TakeStakeTyped ==
  ASSUME TypeOK, activeRound # None, NEW user \in Users, NEW amount, TakeStake(user, amount)
  PROVE  /\ activeRound \in Round /\ activeRound.round_id \in RoundIds
         /\ WalletTypeOK'
         /\ participants' \in [RoundIds -> SUBSET Users]
<1>1. activeRound \in Round /\ activeRound.round_id \in RoundIds
  BY DEF TypeOK, RoundTypeOK, Round
<1> QED BY <1>1 DEF TypeOK, WalletTypeOK, StakeTypeOK, TakeStake

(* Writing one user's key in one round.                                    *)
LEMMA KeyTyped ==
  ASSUME NEW S, NEW f \in [RoundIds -> [Users -> S]], NEW r \in RoundIds,
         NEW user \in Users, NEW e \in S
  PROVE  [f EXCEPT ![r][user] = e] \in [RoundIds -> [Users -> S]]
OBVIOUS

(* Staking operations keep the type invariant.                             *)
LEMMA StakeTyped == TypeOK /\ Stake => TypeOK'
<1> SUFFICES ASSUME TypeOK, Stake
             PROVE  TypeOK'
  OBVIOUS
<1>1. ASSUME NEW user \in Users, NEW amount \in Amounts, NEW side \in Sides,
             place_bet(user, amount, side)
      PROVE  TypeOK'
  <2>1. activeRound # None
    BY <1>1 DEF place_bet, StakeAllowed
  <2>2. /\ activeRound.round_id \in RoundIds
        /\ WalletTypeOK' /\ participants' \in [RoundIds -> SUBSET Users]
    BY <1>1, <2>1, TakeStakeTyped DEF place_bet
  <2>3. [amount |-> amount, side |-> side] \in UserPosition \cup {None}
    BY DEF UserPosition
  <2>4. StakeTypeOK'
    BY <1>1, <2>2, <2>3, KeyTyped DEF place_bet, TypeOK, StakeTypeOK
  <2>5. RoundTypeOK'
    BY <1>1 DEF place_bet, TypeOK, RoundTypeOK
  <2> QED BY <1>1, <2>2, <2>4, <2>5, SameTyped DEF place_bet, TypeOK
<1>2. ASSUME NEW user \in Users, NEW amount \in Amounts, NEW price \in Prices,
             place_precision_prediction(user, amount, price)
      PROVE  TypeOK'
  <2>1. activeRound # None
    BY <1>2 DEF place_precision_prediction, StakeAllowed
  <2>2. /\ activeRound.round_id \in RoundIds
        /\ WalletTypeOK' /\ participants' \in [RoundIds -> SUBSET Users]
    BY <1>2, <2>1, TakeStakeTyped DEF place_precision_prediction
  <2>3. [amount |-> amount, price |-> price] \in PrecisionPrediction \cup {None}
    BY DEF PrecisionPrediction
  <2>4. StakeTypeOK'
    BY <1>2, <2>2, <2>3, KeyTyped DEF place_precision_prediction, TypeOK, StakeTypeOK
  <2> QED BY <1>2, <2>2, <2>4, SameTyped DEF place_precision_prediction, TypeOK
<1>3. ASSUME NEW user \in Users, NEW amount \in Amounts, NEW price \in Prices,
             commit_prediction(user, amount, price)
      PROVE  TypeOK'
  <2>1. activeRound # None
    BY <1>3 DEF commit_prediction, StakeAllowed
  <2>2. /\ activeRound.round_id \in RoundIds
        /\ WalletTypeOK' /\ participants' \in [RoundIds -> SUBSET Users]
    BY <1>3, <2>1, TakeStakeTyped DEF commit_prediction
  <2>3. [amount |-> amount, price |-> price, revealed |-> FALSE]
          \in PrecisionCommitment \cup {None}
    BY DEF PrecisionCommitment
  <2>4. StakeTypeOK'
    BY <1>3, <2>2, <2>3, KeyTyped DEF commit_prediction, TypeOK, StakeTypeOK
  <2> QED BY <1>3, <2>2, <2>4, SameTyped DEF commit_prediction, TypeOK
<1>4. ASSUME NEW user \in Users, NEW price \in Prices, reveal_prediction(user, price)
      PROVE  TypeOK'
  <2>1. activeRound.round_id \in RoundIds
    BY <1>4 DEF reveal_prediction, TypeOK, RoundTypeOK, Round
  <2> DEFINE c == commitment[activeRound.round_id][user]
  <2>2. c \in PrecisionCommitment
    BY <1>4, <2>1 DEF reveal_prediction, TypeOK, StakeTypeOK
  <2>3. /\ [amount |-> c.amount, price |-> c.price, revealed |-> TRUE]
            \in PrecisionCommitment \cup {None}
        /\ [amount |-> c.amount, price |-> price] \in PrecisionPrediction \cup {None}
    BY <2>2 DEF PrecisionCommitment, PrecisionPrediction
  <2>4. StakeTypeOK'
    BY <1>4, <2>1, <2>3, KeyTyped DEF reveal_prediction, TypeOK, StakeTypeOK
  <2> QED BY <1>4, <2>4, SameTyped DEF reveal_prediction, TypeOK
<1>5. ASSUME NEW user \in Users, cash_out_early(user)
      PROVE  TypeOK'
  <2> DEFINE r       == activeRound.round_id
             forfeit == CashoutForfeit(position[r][user].amount, config.cashoutBps)
             record  == [kind   |-> "Refund", stake |-> position[r][user].amount,
                         payout |-> position[r][user].amount - forfeit]
  <2>1. r \in RoundIds
    BY <1>5 DEF cash_out_early, TypeOK, RoundTypeOK, Round
  <2>2. RoundTypeOK'
    BY <1>5 DEF cash_out_early, TypeOK, RoundTypeOK
  <2>3. PendingTypeOK' /\ FeeTypeOK'
    BY <1>5, AccumulateTyped, CollectTyped DEF cash_out_early, TypeOK
  <2>4. ResultTypeOK'
    <3>1. record \in UserRoundOutcome /\ PersistUserOutcomes(r, [u \in {user} |-> record])
      BY <1>5 DEF cash_out_early
    <3>2. \A u \in DOMAIN [u \in {user} |-> record] :
            [v \in {user} |-> record][u] \in UserRoundOutcome
      BY <3>1
    <3> HIDE DEF record
    <3>3. outcome' \in [RoundIds -> [Users -> UserRoundOutcome \cup {None}]]
      BY <2>1, <3>1, <3>2, PersistTyped DEF TypeOK, ResultTypeOK
    <3>4. stats' = stats
      BY <1>5 DEF cash_out_early
    <3> QED BY <3>3, <3>4 DEF TypeOK, ResultTypeOK
  <2>5. StakeTypeOK'
    BY <1>5, <2>1, KeyTyped DEF cash_out_early, RemovePosition, TypeOK, StakeTypeOK
  <2> QED BY <1>5, <2>2, <2>3, <2>4, <2>5, SameTyped DEF cash_out_early, TypeOK
<1> QED BY <1>1, <1>2, <1>3, <1>4, <1>5 DEF Stake

(* An accepted price refunds, stages or pays out the active round.         *)
LEMMA SettleTyped ==
  ASSUME TypeOK, activeRound # None, NEW price \in Prices,
         SettleRoundWithPrice(activeRound, price),
         lastRoundId' = lastRoundId, roundStartLedger' = roundStartLedger
  PROVE  /\ RoundTypeOK' /\ StakeTypeOK' /\ ResultTypeOK'
         /\ PendingTypeOK' /\ FeeTypeOK' /\ ArchiveTypeOK'
<1>1. activeRound \in Round /\ activeRound.round_id \in RoundIds
  BY DEF TypeOK, RoundTypeOK, Round
<1>2. CASE RefundUnderThreshold(activeRound)
  <2>1. "FallbackRefund" \in Arch!Status
    BY DEF Arch!Status
  <2>2. ResultTypeOK' /\ PendingTypeOK' /\ FeeTypeOK'
    BY <1>1, <1>2, ApplyTyped DEF RefundUnderThreshold
  <2>3. ArchiveTypeOK' /\ StakeTypeOK'
    BY <1>1, <1>2, <2>1, ArchiveTyped, ClearTyped DEF RefundUnderThreshold, TypeOK
  <2>4. RoundTypeOK'
    BY <1>2 DEF RefundUnderThreshold, TypeOK, RoundTypeOK
  <2> QED BY <2>2, <2>3, <2>4
<1>3. CASE StageDispute(activeRound, price)
  <2>1. [round |-> activeRound, final_price |-> price,
         deadline |-> ledger + config.disputeLedgers] \in Dispute
    BY <1>1, ConfigTyped DEF Dispute, TypeOK
  <2>2. RoundTypeOK'
    BY <1>1, <1>3, <2>1 DEF StageDispute, TypeOK, RoundTypeOK
  <2> QED BY <1>3, <2>2, SameTyped DEF StageDispute
<1>4. CASE CompleteSettlement(activeRound, price) /\ UNCHANGED pendingDisputes
  <2>1. RoundTypeOK'
    BY <1>4 DEF CompleteSettlement, TypeOK, RoundTypeOK
  <2> QED BY <1>1, <1>4, <2>1, CompleteTyped
<1> QED BY <1>2, <1>3, <1>4 DEF SettleRoundWithPrice

(* Resolution, cancellation, voiding and finalization keep the type        *)
(* invariant.                                                              *)
LEMMA EndOfRoundTyped == TypeOK /\ EndOfRound => TypeOK'
<1> SUFFICES ASSUME TypeOK, EndOfRound
             PROVE  TypeOK'
  OBVIOUS
<1>1. ASSUME NEW price \in Prices, resolve_round(price)
      PROVE  TypeOK'
  <2>1. /\ RoundTypeOK' /\ StakeTypeOK' /\ ResultTypeOK'
        /\ PendingTypeOK' /\ FeeTypeOK' /\ ArchiveTypeOK'
    BY <1>1, SettleTyped DEF resolve_round
  <2> QED BY <1>1, <2>1, SameTyped DEF resolve_round, TypeOK
<1>2. ASSUME NEW reason \in Reasons, cancel_round(reason)
      PROVE  TypeOK'
  <2> DEFINE r == activeRound.round_id
  <2>1. r \in RoundIds /\ "Cancelled" \in Arch!Status
    BY <1>2 DEF cancel_round, TypeOK, RoundTypeOK, Round, Arch!Status
  <2>2. PendingTypeOK'
    BY <1>2, AccumulateTyped DEF cancel_round, TypeOK
  <2>3. ArchiveTypeOK' /\ StakeTypeOK'
    BY <1>2, <2>1, ArchiveTyped, ClearTyped DEF cancel_round, TypeOK
  <2>4. FeeTypeOK' /\ RoundTypeOK'
    BY <1>2 DEF cancel_round, TypeOK, FeeTypeOK, RoundTypeOK
  <2>5. ResultTypeOK'
    <3>1. outcome' \in [RoundIds -> [Users -> UserRoundOutcome \cup {None}]]
      BY <1>2, <2>1, PersistTyped DEF cancel_round, TypeOK, ResultTypeOK
    <3> QED BY <1>2, <3>1 DEF cancel_round, TypeOK, ResultTypeOK
  <2> QED BY <1>2, <2>2, <2>3, <2>4, <2>5, SameTyped DEF cancel_round, TypeOK
<1>3. ASSUME NEW r \in RoundIds, void_round(r)
      PROVE  TypeOK'
  <2>1. "Voided" \in Arch!Status
    BY DEF Arch!Status
  <2>2. ResultTypeOK' /\ PendingTypeOK' /\ FeeTypeOK'
    BY <1>3, ApplyTyped DEF void_round
  <2>3. ArchiveTypeOK' /\ StakeTypeOK'
    BY <1>3, <2>1, ArchiveTyped, ClearTyped DEF void_round, TypeOK
  <2>4. RoundTypeOK'
    BY <1>3 DEF void_round, TypeOK, RoundTypeOK
  <2> QED BY <1>3, <2>2, <2>3, <2>4, SameTyped DEF void_round, TypeOK
<1>4. ASSUME NEW r \in RoundIds, finalize_round(r)
      PROVE  TypeOK'
  <2>1. pendingDisputes[r].round \in Round
    BY <1>4 DEF finalize_round, TypeOK, RoundTypeOK, Dispute
  <2>2. /\ ResultTypeOK' /\ PendingTypeOK' /\ FeeTypeOK'
        /\ ArchiveTypeOK' /\ StakeTypeOK' /\ activeRound' = None
    BY <1>4, <2>1, CompleteTyped DEF finalize_round
  <2>3. RoundTypeOK'
    BY <1>4, <2>2 DEF finalize_round, TypeOK, RoundTypeOK
  <2> QED BY <1>4, <2>2, <2>3, SameTyped DEF finalize_round, TypeOK
<1> QED BY <1>1, <1>2, <1>3, <1>4 DEF EndOfRound

(* Mints, claims, withdrawals and top-ups keep the type invariant.         *)
LEMMA WalletTyped == TypeOK /\ Wallet => TypeOK'
<1> SUFFICES ASSUME TypeOK, Wallet
             PROVE  TypeOK'
  OBVIOUS
<1>1. ASSUME NEW user \in Users, mint_initial(user)
      PROVE  TypeOK'
  BY <1>1, CreditTyped, SameTyped DEF mint_initial, TypeOK
<1>2. ASSUME NEW user \in Users, claim_winnings(user)
      PROVE  TypeOK'
  <2>1. WalletTypeOK' /\ PendingTypeOK'
    BY <1>2, MoveTyped DEF claim_winnings, TypeOK
  <2> QED BY <1>2, <2>1, SameTyped DEF claim_winnings, TypeOK
<1>3. ASSUME NEW user \in Users, reclaim_expired_pending_winnings(user)
      PROVE  TypeOK'
  <2>1. WalletTypeOK'
    BY <1>3, CreditTyped, UsersAssumption DEF reclaim_expired_pending_winnings, TypeOK
  <2>2. PendingTypeOK'
    BY <1>3, ZeroIsAmount DEF reclaim_expired_pending_winnings, TypeOK, PendingTypeOK
  <2> QED BY <1>3, <2>1, <2>2, SameTyped DEF reclaim_expired_pending_winnings, TypeOK
<1>4. ASSUME NEW users \in SUBSET Users, claim_many(users)
      PROVE  TypeOK'
  <2>1. WalletTypeOK' /\ PendingTypeOK'
    BY <1>4, MoveTyped DEF claim_many, TypeOK
  <2> QED BY <1>4, <2>1, SameTyped DEF claim_many, TypeOK
<1>5. ASSUME NEW to \in Users, NEW amount \in Amounts, execute_withdraw_fee(to, amount)
      PROVE  TypeOK'
  <2>1. WalletTypeOK' /\ FeeTypeOK'
    BY <1>5, CreditTyped DEF execute_withdraw_fee, TypeOK, FeeTypeOK
  <2> QED BY <1>5, <2>1, SameTyped DEF execute_withdraw_fee, TypeOK
<1>6. ASSUME NEW to \in Users, NEW amount \in Amounts, execute_withdraw_insurance_fund(to, amount)
      PROVE  TypeOK'
  <2>1. WalletTypeOK' /\ FeeTypeOK'
    BY <1>6, CreditTyped DEF execute_withdraw_insurance_fund, TypeOK, FeeTypeOK
  <2> QED BY <1>6, <2>1, SameTyped DEF execute_withdraw_insurance_fund, TypeOK
<1>7. ASSUME NEW amount \in Amounts, top_up_insurance_fund(amount)
      PROVE  TypeOK'
  <2>1. WalletTypeOK' /\ FeeTypeOK'
    BY <1>7, CreditTyped, UsersAssumption DEF top_up_insurance_fund, TypeOK, FeeTypeOK
  <2> QED BY <1>7, <2>1, SameTyped DEF top_up_insurance_fund, TypeOK
<1> QED BY <1>1, <1>2, <1>3, <1>4, <1>5, <1>6, <1>7
        DEF Wallet, withdraw_protocol_fee, withdraw_insurance_fund

(* A new round is a Round, on a configured window or from the template.    *)
LEMMA CreateTyped ==
  ASSUME TypeOK, NEW price \in Prices, NEW mode \in RoundModes, create_round(price, mode)
  PROVE  TypeOK' /\ activeRound' \in Round
<1>1. lastRoundId + 1 \in RoundIds /\ lastRoundId + 1 \in 0 .. MaxRounds
  BY BoundsAssumption DEF create_round, TypeOK, RoundTypeOK, RoundIds
<1>2. activeRound' \in Round
  BY <1>1, ConfigTyped, ZeroIsAmount DEF create_round, NextRoundId, Round, TypeOK, ClockTypeOK
<1>3. RoundTypeOK'
  BY <1>1, <1>2 DEF create_round, NextRoundId, TypeOK, ClockTypeOK, RoundTypeOK
<1> QED BY <1>2, <1>3, SameTyped DEF create_round, TypeOK

(* Mode, configuration and round creation keep the type invariant.         *)
LEMMA AdministrationTyped == TypeOK /\ Administration => TypeOK'
<1> SUFFICES ASSUME TypeOK, Administration
             PROVE  TypeOK'
  OBVIOUS
<1>1. ASSUME NEW mode \in RuntimeModes, set_runtime_mode(mode)
      PROVE  TypeOK'
  <2>1. ClockTypeOK'
    BY <1>1 DEF set_runtime_mode, TypeOK, ClockTypeOK
  <2> QED BY <1>1, <2>1, SameTyped DEF set_runtime_mode, TypeOK
<1>2. ASSUME NEW c \in Configs, update_config(c)
      PROVE  TypeOK'
  <2>1. ClockTypeOK'
    BY <1>2 DEF update_config, TypeOK, ClockTypeOK
  <2> QED BY <1>2, <2>1, SameTyped DEF update_config, TypeOK
<1>3. ASSUME create_next_from_template
      PROVE  TypeOK'
  <2>1. config.template.start_price \in Prices /\ config.template.mode \in RoundModes
    BY <1>3, ConfigTyped DEF create_next_from_template, TypeOK
  <2> QED BY <1>3, <2>1, CreateTyped DEF create_next_from_template
<1>4. ASSUME NEW c \in Configs, execute_set_protocol_fee_bps(c.feeBps)
      PROVE  TypeOK'
  <2>1. ClockTypeOK'
    BY <1>4 DEF execute_set_protocol_fee_bps, TypeOK, ClockTypeOK
  <2> QED BY <1>4, <2>1, SameTyped DEF execute_set_protocol_fee_bps, TypeOK
<1> QED BY <1>1, <1>2, <1>3, <1>4, CreateTyped DEF Administration

(* The passage of a ledger keeps the type invariant.                       *)
LEMMA TickTyped == TypeOK /\ Tick => TypeOK'
<1> SUFFICES ASSUME TypeOK, Tick
             PROVE  TypeOK'
  OBVIOUS
<1>1. ClockTypeOK'
  BY BoundsAssumption DEF Tick, TypeOK, ClockTypeOK, Ledgers
<1> QED BY <1>1, SameTyped DEF Tick, TypeOK

(* A fresh contract is well typed.                                         *)
LEMMA InitTyped == Init => TypeOK
<1> SUFFICES ASSUME Init
             PROVE  TypeOK
  OBVIOUS
<1>1. ClockTypeOK /\ RoundTypeOK
  BY BoundsAssumption, ConfigAssumption DEF Init, ClockTypeOK, RoundTypeOK, Ledgers
<1>2. StakeTypeOK /\ WalletTypeOK /\ PendingTypeOK /\ FeeTypeOK
  BY ZeroIsAmount DEF Init, StakeTypeOK, WalletTypeOK, PendingTypeOK, FeeTypeOK
<1>3. ResultTypeOK
  BY DEF Init, ResultTypeOK, UserStats
<1>4. ArchiveTypeOK
  BY DEF Init, ArchiveTypeOK
<1> QED BY <1>1, <1>2, <1>3, <1>4 DEF TypeOK

(* One step, of anybody.                                                   *)
LEMMA NextTyped == TypeOK /\ [Next]_vars => TypeOK'
<1>1. TypeOK /\ UNCHANGED vars => TypeOK'
  BY SameTyped DEF vars, TypeOK
<1> QED BY <1>1, StakeTyped, EndOfRoundTyped, WalletTyped, AdministrationTyped,
           TickTyped DEF Next

(* Every state of every market is well typed: in particular no sum a       *)
(* transaction writes leaves the range of an i128, no round id is reused   *)
(* for another kind of record, and the archive index holds round ids only. *)
THEOREM MarketTyped == Spec => []TypeOK
BY InitTyped, NextTyped, PTL DEF Spec
-----------------------------------------------------------------------------
(***************************************************************************)
(* The identity of rounds.  Each step does one of five things to the       *)
(* round keys, or nothing.                                                 *)
(***************************************************************************)
KeepsIds == UNCHANGED <<lastRoundId, roundStartLedger>>

(* create_round, as the round's own variables see it.                      *)
OpensRound ==
  /\ activeRound = None
  /\ roundStartLedger[ledger] = None
  /\ lastRoundId' = lastRoundId + 1
  /\ activeRound' \in Round
  /\ activeRound'.round_id = lastRoundId + 1
  /\ activeRound'.start_ledger = ledger
  /\ activeRound'.pool_up = 0 /\ activeRound'.pool_down = 0
  /\ roundStartLedger' = [roundStartLedger EXCEPT ![ledger] = lastRoundId + 1]
  /\ UNCHANGED <<pendingDisputes, stakeVars, outcome>>

(* A bet or an early exit: the active round with other pools.              *)
ChangesPools ==
  /\ KeepsIds
  /\ activeRound \in Round
  /\ activeRound' \in Round
  /\ activeRound'.round_id = activeRound.round_id
  /\ activeRound'.start_ledger = activeRound.start_ledger
  /\ activeRound'.mode = activeRound.mode
  /\ activeRound'.bet_end_ledger = activeRound.bet_end_ledger
  /\ UNCHANGED pendingDisputes

(* The active round ends without a dispute window.                         *)
ClosesActive ==
  /\ KeepsIds
  /\ activeRound \in Round
  /\ activeRound' = None
  /\ UNCHANGED pendingDisputes
  /\ ClearRoundStorage(activeRound.round_id)

(* The active round is staged for its dispute window.                      *)
StagesActive ==
  /\ KeepsIds
  /\ activeRound \in Round
  /\ activeRound' = None
  /\ config.disputeLedgers > 0
  /\ \E d \in Dispute :
       /\ d.round = activeRound
       /\ pendingDisputes' = [pendingDisputes EXCEPT ![activeRound.round_id] = d]
  /\ UNCHANGED <<stakeVars, outcome>>

(* A staged round is finalized or voided.                                  *)
ClosesDisputed ==
  /\ KeepsIds
  /\ activeRound' \in {activeRound, None}
  /\ \E r \in Disputed : /\ pendingDisputes' = [pendingDisputes EXCEPT ![r] = None]
                         /\ \/ ClearRoundStorage(r)
                            \/ ClearRoundStorage(pendingDisputes[r].round.round_id)

(* The pools of a round change, its identity does not.                     *)
LEMMA PoolAfterKeepsId ==
  ASSUME NEW round \in Round, NEW side, NEW delta
  PROVE  /\ PoolAfter(round, side, delta).round_id = round.round_id
         /\ PoolAfter(round, side, delta).start_ledger = round.start_ledger
         /\ PoolAfter(round, side, delta).mode = round.mode
         /\ PoolAfter(round, side, delta).bet_end_ledger = round.bet_end_ledger
BY DEF PoolAfter, Round

(* Every step leaves the rounds alone or is of one of these five kinds.    *)
LEMMA RoundSteps ==
  ASSUME TypeOK, [Next]_vars
  PROVE  \/ UNCHANGED roundVars
         \/ OpensRound \/ ChangesPools \/ ClosesActive \/ StagesActive \/ ClosesDisputed
<1> USE DEF KeepsIds
<1>1. activeRound # None => activeRound \in Round
  BY DEF TypeOK, RoundTypeOK
<1>2. ASSUME Stake
      PROVE  UNCHANGED roundVars \/ ChangesPools
  <2>1. ASSUME NEW user \in Users, NEW amount \in Amounts, NEW side \in Sides,
               place_bet(user, amount, side)
        PROVE  ChangesPools
    BY <1>1, <2>1, PoolAfterKeepsId DEF place_bet, StakeAllowed, ChangesPools
  <2>2. ASSUME NEW user \in Users, NEW amount \in Amounts, NEW price \in Prices,
               \/ place_precision_prediction(user, amount, price)
               \/ commit_prediction(user, amount, price)
        PROVE  UNCHANGED roundVars
    BY <2>2 DEF place_precision_prediction, commit_prediction
  <2>3. ASSUME NEW user \in Users, NEW price \in Prices, reveal_prediction(user, price)
        PROVE  UNCHANGED roundVars
    BY <2>3 DEF reveal_prediction
  <2>4. ASSUME NEW user \in Users, cash_out_early(user)
        PROVE  ChangesPools
    BY <1>1, <2>4, PoolAfterKeepsId DEF cash_out_early, ChangesPools
  <2> QED BY <1>2, <2>1, <2>2, <2>3, <2>4 DEF Stake
<1>3. ASSUME EndOfRound
      PROVE  ClosesActive \/ StagesActive \/ ClosesDisputed
  <2>1. ASSUME NEW price \in Prices, resolve_round(price)
        PROVE  ClosesActive \/ StagesActive
    <3>1. activeRound \in Round /\ activeRound.round_id \in RoundIds /\ KeepsIds
      BY <1>1, <2>1 DEF resolve_round, Round
    <3>2. CASE RefundUnderThreshold(activeRound)
      BY <3>1, <3>2 DEF RefundUnderThreshold, ClosesActive
    <3>3. CASE config.disputeLedgers > 0 /\ StageDispute(activeRound, price)
      <4>1. [round |-> activeRound, final_price |-> price,
             deadline |-> ledger + config.disputeLedgers] \in Dispute
        BY <3>1, ConfigTyped DEF Dispute, TypeOK
      <4> QED BY <3>1, <3>3, <4>1 DEF StageDispute, StagesActive, resultVars
    <3>4. CASE CompleteSettlement(activeRound, price) /\ UNCHANGED pendingDisputes
      BY <3>1, <3>4 DEF CompleteSettlement, ClosesActive
    <3> QED BY <2>1, <3>2, <3>3, <3>4 DEF resolve_round, SettleRoundWithPrice
  <2>2. ASSUME NEW reason \in Reasons, cancel_round(reason)
        PROVE  ClosesActive
    BY <1>1, <2>2 DEF cancel_round, ClosesActive
  <2>3. ASSUME NEW r \in RoundIds, void_round(r)
        PROVE  ClosesDisputed
    BY <2>3 DEF void_round, ClosesDisputed, Disputed
  <2>4. ASSUME NEW r \in RoundIds, finalize_round(r)
        PROVE  ClosesDisputed
    BY <2>4 DEF finalize_round, CompleteSettlement, ClosesDisputed, Disputed
  <2> QED BY <1>3, <2>1, <2>2, <2>3, <2>4 DEF EndOfRound
<1>4. ASSUME Wallet
      PROVE  UNCHANGED roundVars
  BY <1>4 DEF Wallet, mint_initial, claim_winnings, reclaim_expired_pending_winnings,
              claim_many, withdraw_protocol_fee, withdraw_insurance_fund,
              execute_withdraw_fee, execute_withdraw_insurance_fund,
              top_up_insurance_fund
<1>5. ASSUME Administration
      PROVE  UNCHANGED roundVars \/ OpensRound
  <2>1. ASSUME NEW price \in Prices, NEW mode \in RoundModes, create_round(price, mode)
        PROVE  OpensRound
    <3>1. activeRound' \in Round
      BY <2>1, CreateTyped
    <3> QED BY <2>1, <3>1 DEF create_round, StartLedgerFree, NextRoundId, OpensRound, resultVars
  <2>2. ASSUME create_next_from_template
        PROVE  OpensRound
    <3>1. config.template.start_price \in Prices /\ config.template.mode \in RoundModes
      BY <2>2, ConfigTyped DEF create_next_from_template, TypeOK
    <3> QED BY <2>1, <2>2, <3>1 DEF create_next_from_template
  <2>3. ASSUME \/ \E mode \in RuntimeModes : set_runtime_mode(mode)
               \/ \E c \in Configs : update_config(c) \/ execute_set_protocol_fee_bps(c.feeBps)
        PROVE  UNCHANGED roundVars
    BY <2>3 DEF set_runtime_mode, update_config, execute_set_protocol_fee_bps
  <2> QED BY <1>5, <2>1, <2>2, <2>3 DEF Administration
<1>6. Tick \/ UNCHANGED vars => UNCHANGED roundVars
  BY DEF Tick, vars
<1> QED BY <1>2, <1>3, <1>4, <1>5, <1>6 DEF Next

(***************************************************************************)
(* Ids are handed out in order, a round is active or disputed but not      *)
(* both, a dispute is filed under the id of the round it holds, the start  *)
(* ledger of a live round leads back to it, and every id handed out keeps  *)
(* its start ledger.  Uniqueness of start ledgers alone is not inductive:  *)
(* a dispute filed under a foreign id would be finalized into another      *)
(* round's storage.                                                        *)
(***************************************************************************)
RoundIdentity ==
  /\ activeRound # None =>
       /\ activeRound.round_id <= lastRoundId
       /\ pendingDisputes[activeRound.round_id] = None
       /\ roundStartLedger[activeRound.start_ledger] = activeRound.round_id
  /\ \A r \in RoundIds :
       pendingDisputes[r] # None =>
         /\ r <= lastRoundId
         /\ pendingDisputes[r].round.round_id = r
         /\ roundStartLedger[pendingDisputes[r].round.start_ledger] = r
  /\ \A r \in RoundIds : r <= lastRoundId =>
       \E l \in Ledgers : roundStartLedger[l] = r

(* A fresh contract has no rounds to confuse.                              *)
LEMMA InitIdentity == Init => RoundIdentity
BY BoundsAssumption DEF Init, RoundIdentity, RoundIds

(* Every step keeps each live round's record under its own id.             *)
LEMMA NextIdentity == TypeOK /\ RoundIdentity /\ [Next]_vars => RoundIdentity'
<1> SUFFICES ASSUME TypeOK, RoundIdentity, [Next]_vars
             PROVE  RoundIdentity'
  OBVIOUS
<1>1. /\ \A x \in Round : /\ x.round_id \in RoundIds /\ x.round_id \in Nat
                          /\ x.start_ledger \in Ledgers /\ x # None
      /\ \A d \in Dispute : d.round \in Round /\ d # None
      /\ lastRoundId \in Nat /\ None \notin RoundIds
  BY OptionAssumption, BoundsAssumption DEF Round, Dispute, RoundIds, TypeOK, RoundTypeOK
<1>2. /\ pendingDisputes \in [RoundIds -> Dispute \cup {None}]
      /\ roundStartLedger \in [Ledgers -> RoundIds \cup {None}]
      /\ activeRound \in Round \cup {None}
      /\ ledger \in Ledgers
  BY DEF TypeOK, RoundTypeOK, ClockTypeOK
<1>3. CASE UNCHANGED roundVars
  BY <1>3 DEF RoundIdentity, roundVars
<1>4. CASE OpensRound
  <2>1. lastRoundId + 1 \in RoundIds
    BY <1>1, <1>4 DEF OpensRound
  <2>2. roundStartLedger'[ledger] = lastRoundId + 1
    BY <1>2, <1>4 DEF OpensRound
  <2>3. pendingDisputes'[lastRoundId + 1] = None
    BY <1>1, <1>4, <2>1 DEF OpensRound, RoundIdentity
  <2>4. ASSUME NEW r \in RoundIds, pendingDisputes'[r] # None
        PROVE  /\ r <= lastRoundId'
               /\ pendingDisputes'[r].round.round_id = r
               /\ roundStartLedger'[pendingDisputes'[r].round.start_ledger] = r
    <3>1. pendingDisputes'[r] = pendingDisputes[r] /\ pendingDisputes[r] \in Dispute
      BY <1>2, <1>4, <2>4 DEF OpensRound
    <3>2. /\ r <= lastRoundId /\ r \in Nat
          /\ pendingDisputes[r].round.round_id = r
          /\ roundStartLedger[pendingDisputes[r].round.start_ledger] = r
      BY <1>1, <3>1 DEF RoundIdentity, RoundIds
    <3>3. /\ pendingDisputes[r].round.start_ledger \in Ledgers
          /\ pendingDisputes[r].round.start_ledger # ledger
      BY <1>1, <1>4, <3>1, <3>2 DEF OpensRound
    <3>4. r <= lastRoundId'
      BY <1>1, <1>4, <3>2 DEF OpensRound
    <3> QED BY <1>2, <1>4, <3>1, <3>2, <3>3, <3>4 DEF OpensRound
  <2>5. activeRound'.round_id <= lastRoundId'
    BY <1>1, <1>4 DEF OpensRound
  <2>6. ASSUME NEW r \in RoundIds, r <= lastRoundId'
        PROVE  \E l \in Ledgers : roundStartLedger'[l] = r
    <3>1. CASE r = lastRoundId + 1
      BY <1>2, <2>2, <3>1
    <3>2. CASE r # lastRoundId + 1
      <4>1. r <= lastRoundId
        BY <1>1, <1>4, <2>6, <3>2, BoundsAssumption DEF OpensRound, RoundIds
      <4>2. PICK l \in Ledgers : roundStartLedger[l] = r
        BY <4>1 DEF RoundIdentity
      <4>3. l # ledger
        BY <1>1, <1>4, <4>2 DEF OpensRound
      <4> QED BY <1>2, <1>4, <4>2, <4>3 DEF OpensRound
    <3> QED BY <3>1, <3>2
  <2> QED BY <1>4, <2>2, <2>3, <2>4, <2>5, <2>6 DEF OpensRound, RoundIdentity
<1>5. CASE ChangesPools
  BY <1>1, <1>5 DEF ChangesPools, KeepsIds, RoundIdentity
<1>6. CASE ClosesActive
  BY <1>6 DEF ClosesActive, KeepsIds, RoundIdentity
<1>7. CASE StagesActive
  <2>1. PICK d \in Dispute :
          /\ d.round = activeRound
          /\ pendingDisputes' = [pendingDisputes EXCEPT ![activeRound.round_id] = d]
    BY <1>7 DEF StagesActive
  <2>2. activeRound \in Round /\ activeRound # None /\ activeRound.round_id \in RoundIds
    BY <1>1, <1>7 DEF StagesActive
  <2>3. ASSUME NEW r \in RoundIds, pendingDisputes'[r] # None
        PROVE  /\ r <= lastRoundId'
               /\ pendingDisputes'[r].round.round_id = r
               /\ roundStartLedger'[pendingDisputes'[r].round.start_ledger] = r
    <3>1. CASE r = activeRound.round_id
      BY <1>2, <1>7, <2>1, <2>2, <3>1 DEF StagesActive, KeepsIds, RoundIdentity
    <3>2. CASE r # activeRound.round_id
      BY <1>2, <1>7, <2>1, <2>2, <2>3, <3>2 DEF StagesActive, KeepsIds, RoundIdentity
    <3> QED BY <3>1, <3>2
  <2>4. \A r \in RoundIds : r <= lastRoundId' => \E l \in Ledgers : roundStartLedger'[l] = r
    BY <1>7 DEF StagesActive, KeepsIds, RoundIdentity
  <2>5. activeRound' = None
    BY <1>7 DEF StagesActive
  <2> QED BY <2>3, <2>4, <2>5 DEF RoundIdentity
<1>8. CASE ClosesDisputed
  <2>1. PICK r \in RoundIds : pendingDisputes' = [pendingDisputes EXCEPT ![r] = None]
    BY <1>8 DEF ClosesDisputed, Disputed
  <2>2. ASSUME NEW q \in RoundIds
        PROVE  pendingDisputes'[q] = None \/ pendingDisputes'[q] = pendingDisputes[q]
    BY <1>2, <2>1
  <2>3. activeRound # None => activeRound.round_id \in RoundIds
    BY <1>1, <1>2
  <2> QED BY <1>8, <2>2, <2>3 DEF ClosesDisputed, KeepsIds, RoundIdentity
<1> QED BY <1>3, <1>4, <1>5, <1>6, <1>7, <1>8, RoundSteps

(* What the invariant says in terms of the live rounds.                    *)
LEMMA LiveRecords ==
  ASSUME TypeOK, RoundIdentity
  PROVE  \A r \in Live : /\ r \in RoundIds
                         /\ RoundRecord(r) \in Round
                         /\ RoundRecord(r).round_id = r
                         /\ roundStartLedger[RoundRecord(r).start_ledger] = r
<1> SUFFICES ASSUME NEW r \in Live
             PROVE  /\ r \in RoundIds
                    /\ RoundRecord(r) \in Round
                    /\ RoundRecord(r).round_id = r
                    /\ roundStartLedger[RoundRecord(r).start_ledger] = r
  OBVIOUS
<1>1. CASE r \in Disputed
  BY <1>1 DEF Disputed, RoundRecord, RoundIdentity, TypeOK, RoundTypeOK, Dispute
<1>2. CASE r \notin Disputed
  <2>1. activeRound # None /\ r = activeRound.round_id
    BY <1>2 DEF Live
  <2>2. activeRound \in Round /\ activeRound.round_id \in RoundIds
    BY <2>1 DEF TypeOK, RoundTypeOK, Round
  <2> QED BY <1>2, <2>1, <2>2 DEF RoundRecord, RoundIdentity
<1> QED BY <1>1, <1>2

(* A start ledger names one round, in every market: the replay protection  *)
(* of the oracle payload, which carries the start ledger as its round id,  *)
(* cannot be sidestepped by replacing a round within a ledger or by        *)
(* keeping several results in their dispute windows.                       *)
THEOREM StartLedgersUnique == Spec => []StartLedgerUnique
<1>1. TypeOK /\ RoundIdentity => StartLedgerUnique
  BY LiveRecords DEF StartLedgerUnique, RoundIdentity
<1> QED BY <1>1, InitTyped, NextTyped, InitIdentity, NextIdentity, PTL DEF Spec

(***************************************************************************)
(* Outcomes are recorded for live rounds only.                             *)
(***************************************************************************)
LEMMA PersistReaches ==
  ASSUME TypeOK, NEW r0 \in RoundIds, NEW records, PersistUserOutcomes(r0, records)
  PROVE  \A r \in RoundIds, u \in Users : Reached(r, u) => r = r0
BY DEF TypeOK, ResultTypeOK, PersistUserOutcomes, Reached

(* A user reaches an outcome only in a round that was live before the      *)
(* step.                                                                   *)
LEMMA ReachedIsLive ==
  ASSUME TypeOK, RoundIdentity, [Next]_vars
  PROVE  \A r \in RoundIds, u \in Users : Reached(r, u) => r \in Live
<1> DEFINE Goal == \A r \in RoundIds, u \in Users : Reached(r, u) => r \in Live
<1>1. activeRound # None =>
        /\ activeRound \in Round /\ activeRound.round_id \in RoundIds
        /\ activeRound.round_id \in Live
  BY DEF TypeOK, RoundTypeOK, Round, Live
<1>2. outcome' = outcome => Goal
  BY DEF Reached
<1>3. ASSUME NEW r0 \in RoundIds, r0 \in Live, NEW records, PersistUserOutcomes(r0, records)
      PROVE  Goal
  BY <1>3, PersistReaches
<1> HIDE DEF Goal
<1>4. ASSUME Stake
      PROVE  Goal
  <2>1. ASSUME NEW user \in Users, cash_out_early(user)
        PROVE  Goal
    BY <1>1, <1>3, <2>1 DEF cash_out_early
  <2>2. ASSUME NEW user \in Users, NEW amount \in Amounts, NEW side \in Sides,
               place_bet(user, amount, side)
        PROVE  Goal
    BY <1>2, <2>2 DEF place_bet, resultVars
  <2>3. ASSUME NEW user \in Users, NEW amount \in Amounts, NEW price \in Prices,
               \/ place_precision_prediction(user, amount, price)
               \/ commit_prediction(user, amount, price)
        PROVE  Goal
    BY <1>2, <2>3 DEF place_precision_prediction, commit_prediction, resultVars
  <2>4. ASSUME NEW user \in Users, NEW price \in Prices, reveal_prediction(user, price)
        PROVE  Goal
    BY <1>2, <2>4 DEF reveal_prediction, resultVars
  <2> QED BY <1>4, <2>1, <2>2, <2>3, <2>4 DEF Stake
<1>5. ASSUME EndOfRound
      PROVE  Goal
  <2>1. ASSUME NEW price \in Prices, resolve_round(price)
        PROVE  Goal
    <3>1. activeRound # None
      BY <2>1 DEF resolve_round
    <3>2. CASE StageDispute(activeRound, price)
      BY <1>2, <3>2 DEF StageDispute, resultVars
    <3>3. CASE RefundUnderThreshold(activeRound)
      BY <1>1, <1>3, <3>1, <3>3 DEF RefundUnderThreshold, ApplySettlement
    <3>4. CASE CompleteSettlement(activeRound, price)
      BY <1>1, <1>3, <3>1, <3>4 DEF CompleteSettlement, ApplySettlement
    <3> QED BY <2>1, <3>2, <3>3, <3>4 DEF resolve_round, SettleRoundWithPrice
  <2>2. ASSUME NEW reason \in Reasons, cancel_round(reason)
        PROVE  Goal
    BY <1>1, <1>3, <2>2 DEF cancel_round
  <2>3. ASSUME NEW r \in RoundIds, void_round(r)
        PROVE  Goal
    BY <1>3, <2>3 DEF void_round, ApplySettlement, Live, Disputed
  <2>4. ASSUME NEW r \in RoundIds, finalize_round(r)
        PROVE  Goal
    <3>0. pendingDisputes[r] # None
      BY <2>4 DEF finalize_round
    <3>1. pendingDisputes[r].round.round_id = r /\ r \in Live
      BY <3>0 DEF RoundIdentity, Live, Disputed
    <3>2. PICK records : PersistUserOutcomes(r, records)
      BY <2>4, <3>1 DEF finalize_round, CompleteSettlement, ApplySettlement
    <3> QED BY <1>3, <3>1, <3>2
  <2> QED BY <1>5, <2>1, <2>2, <2>3, <2>4 DEF EndOfRound
<1>6. ASSUME Wallet
      PROVE  Goal
  <2>1. outcome' = outcome
    BY <1>6 DEF Wallet, mint_initial, claim_winnings, reclaim_expired_pending_winnings,
                claim_many, withdraw_protocol_fee, withdraw_insurance_fund,
                execute_withdraw_fee, execute_withdraw_insurance_fund,
                top_up_insurance_fund, resultVars
  <2> QED BY <1>2, <2>1
<1>7. ASSUME Administration
      PROVE  Goal
  <2>1. outcome' = outcome
    BY <1>7 DEF Administration, set_runtime_mode, update_config, execute_set_protocol_fee_bps,
                create_round, create_next_from_template, resultVars
  <2> QED BY <1>2, <2>1
<1>8. Tick \/ UNCHANGED vars => Goal
  BY <1>2 DEF Tick, vars, resultVars
<1>9. Goal
  BY <1>4, <1>5, <1>6, <1>7, <1>8 DEF Next
<1> QED BY <1>9 DEF Goal

(* No step brings a round back that was over.                              *)
LEMMA EndedStaysEnded ==
  ASSUME TypeOK, RoundIdentity, [Next]_vars, NEW r \in Ended
  PROVE  r \notin Live'
<1>1. /\ r \in RoundIds /\ r \in Nat /\ r <= lastRoundId
      /\ pendingDisputes[r] = None
      /\ activeRound # None => activeRound.round_id # r
      /\ lastRoundId \in Nat
  BY BoundsAssumption DEF Ended, Live, Disputed, RoundIds, TypeOK, RoundTypeOK
<1>2. pendingDisputes \in [RoundIds -> Dispute \cup {None}]
  BY DEF TypeOK, RoundTypeOK
<1>3. \A x \in Round : x # None /\ x.round_id \in RoundIds
  BY OptionAssumption DEF Round
<1>4. SUFFICES /\ pendingDisputes'[r] = None
               /\ activeRound' # None => activeRound'.round_id # r
  BY DEF Live, Disputed
<1>5. CASE UNCHANGED roundVars
  BY <1>1, <1>5 DEF roundVars
<1>6. CASE OpensRound
  BY <1>1, <1>6 DEF OpensRound
<1>7. CASE ChangesPools
  BY <1>1, <1>3, <1>7 DEF ChangesPools
<1>8. CASE ClosesActive
  BY <1>1, <1>8 DEF ClosesActive
<1>9. CASE StagesActive
  BY <1>1, <1>2, <1>3, <1>9 DEF StagesActive
<1>10. CASE ClosesDisputed
  BY <1>1, <1>2, <1>10 DEF ClosesDisputed, Disputed
<1> QED BY <1>5, <1>6, <1>7, <1>8, <1>9, <1>10, RoundSteps

(* In every market a round that is over stays over: it is never the active *)
(* round or in dispute again, and nobody's outcome is recorded in it       *)
(* later, in whatever order disputed rounds are voided and finalized.      *)
THEOREM RoundsNeverRevive == Spec => NeverRevived
<1>1. TypeOK /\ RoundIdentity /\ [Next]_vars => [EndedStayEnded]_vars
  <2>1. \A r \in Ended : r \in RoundIds /\ r \notin Live
    BY DEF Ended
  <2> QED BY <2>1, EndedStaysEnded, ReachedIsLive DEF EndedStayEnded
<1> QED BY <1>1, InitTyped, NextTyped, InitIdentity, NextIdentity, PTL
        DEF Spec, NeverRevived
-----------------------------------------------------------------------------
(***************************************************************************)
(* Where stakes are.  Users join the active round and no other.            *)
(***************************************************************************)
LEMMA JoinsActive ==
  ASSUME TypeOK, [Next]_vars, NEW r \in RoundIds, participants'[r] # {}
  PROVE  participants[r] # {} \/ (activeRound # None /\ r = activeRound.round_id)
<1> DEFINE Goal == participants[r] # {} \/ (activeRound # None /\ r = activeRound.round_id)
<1>1. participants \in [RoundIds -> SUBSET Users]
  BY DEF TypeOK, StakeTypeOK
<1>2. activeRound # None => activeRound.round_id \in RoundIds
  BY DEF TypeOK, RoundTypeOK, Round
<1>3. participants' = participants => Goal
  OBVIOUS
<1>4. ASSUME NEW q, ClearRoundStorage(q)
      PROVE  Goal
  BY <1>1, <1>4 DEF ClearRoundStorage
<1> USE DEF stakeVars
<1>5. ASSUME Stake
      PROVE  Goal
  <2>1. ASSUME NEW user \in Users, NEW amount, TakeStake(user, amount), activeRound # None
        PROVE  Goal
    BY <1>1, <1>2, <2>1 DEF TakeStake
  <2>2. ASSUME NEW user \in Users, NEW amount \in Amounts, NEW side \in Sides,
               place_bet(user, amount, side)
        PROVE  Goal
    BY <2>1, <2>2 DEF place_bet, StakeAllowed
  <2>3. ASSUME NEW user \in Users, NEW amount \in Amounts, NEW price \in Prices,
               \/ place_precision_prediction(user, amount, price)
               \/ commit_prediction(user, amount, price)
        PROVE  Goal
    BY <2>1, <2>3 DEF place_precision_prediction, commit_prediction, StakeAllowed
  <2>4. ASSUME NEW user \in Users, NEW price \in Prices, reveal_prediction(user, price)
        PROVE  Goal
    BY <1>3, <2>4 DEF reveal_prediction
  <2>5. ASSUME NEW user \in Users, cash_out_early(user)
        PROVE  Goal
    BY <1>1, <1>2, <2>5 DEF cash_out_early, RemovePosition
  <2> QED BY <1>5, <2>2, <2>3, <2>4, <2>5 DEF Stake
<1>6. ASSUME EndOfRound
      PROVE  Goal
  <2>1. ASSUME NEW price \in Prices, resolve_round(price)
        PROVE  Goal
    BY <1>3, <1>4, <2>1 DEF resolve_round, SettleRoundWithPrice, RefundUnderThreshold,
                            StageDispute, CompleteSettlement
  <2>2. ASSUME NEW reason \in Reasons, cancel_round(reason)
        PROVE  Goal
    BY <1>4, <2>2 DEF cancel_round
  <2>3. ASSUME NEW q \in RoundIds, void_round(q) \/ finalize_round(q)
        PROVE  Goal
    BY <1>4, <2>3 DEF void_round, finalize_round, CompleteSettlement
  <2> QED BY <1>6, <2>1, <2>2, <2>3 DEF EndOfRound
<1>7. ASSUME Wallet
      PROVE  Goal
  BY <1>3, <1>7 DEF Wallet, mint_initial, claim_winnings, reclaim_expired_pending_winnings,
                    claim_many, withdraw_protocol_fee, withdraw_insurance_fund,
                    execute_withdraw_fee, execute_withdraw_insurance_fund,
                    top_up_insurance_fund
<1>8. ASSUME Administration
      PROVE  Goal
  BY <1>3, <1>8 DEF Administration, set_runtime_mode, update_config, execute_set_protocol_fee_bps,
                    create_round, create_next_from_template
<1>9. Tick \/ UNCHANGED vars => Goal
  BY <1>3 DEF Tick, vars
<1> QED BY <1>5, <1>6, <1>7, <1>8, <1>9 DEF Next

(* No configuration of the market has a dispute window.                    *)
NoDisputeWindow == \A c \in Configs : c.disputeLedgers = 0

(* Without dispute windows the active round is the only live one, and it   *)
(* holds every stake.  The theorem below needs all three: a stake outside  *)
(* the active round would be lost at the next create_round.                *)
StakesInActive ==
  /\ \A r \in RoundIds : pendingDisputes[r] = None
  /\ \A r \in RoundIds : participants[r] # {} =>
                           activeRound # None /\ r = activeRound.round_id

(* Without a dispute window every step keeps stakes in the active round    *)
(* only.                                                                   *)
LEMMA NextStakesInActive ==
  ASSUME NoDisputeWindow, TypeOK, StakesInActive, [Next]_vars
  PROVE  StakesInActive'
<1>1. /\ participants \in [RoundIds -> SUBSET Users]
      /\ config \in Configs
      /\ \A x \in Round : x # None /\ x.round_id \in RoundIds
  BY OptionAssumption DEF TypeOK, StakeTypeOK, ClockTypeOK, Round
<1>2. \A r \in RoundIds :
        participants'[r] # {} => activeRound # None /\ r = activeRound.round_id
  BY JoinsActive DEF StakesInActive
<1>3. CASE UNCHANGED roundVars
  BY <1>2, <1>3 DEF StakesInActive, roundVars
<1>4. CASE OpensRound
  BY <1>4 DEF OpensRound, StakesInActive, stakeVars
<1>5. CASE ChangesPools
  BY <1>1, <1>2, <1>5 DEF ChangesPools, StakesInActive
<1>6. CASE ClosesActive
  <2>1. participants'[activeRound.round_id] = {}
    BY <1>1, <1>6 DEF ClosesActive, ClearRoundStorage
  <2> QED BY <1>2, <1>6, <2>1 DEF ClosesActive, StakesInActive
<1>7. CASE StagesActive
  BY <1>1, <1>7 DEF StagesActive, NoDisputeWindow
<1>8. CASE ClosesDisputed
  BY <1>8 DEF ClosesDisputed, StakesInActive, Disputed
<1> QED BY <1>3, <1>4, <1>5, <1>6, <1>7, <1>8, RoundSteps

(* As long as no dispute window is configured, no order of bets, commits,  *)
(* exits, cancellations, resolutions, pauses and configuration changes     *)
(* leaves a stake in a round that can no longer be settled.  (With a       *)
(* window it does not hold: finalize_round removes the active round.)      *)
THEOREM StakesNeverStranded ==
  ASSUME NoDisputeWindow
  PROVE  Spec => []StakesRecoverable
<1>1. Init => StakesInActive
  BY DEF Init, StakesInActive
<1>2. TypeOK /\ StakesInActive /\ [Next]_vars => StakesInActive'
  BY NextStakesInActive
<1>3. StakesInActive => StakesRecoverable
  BY DEF StakesInActive, StakesRecoverable, Live
<1> QED BY <1>1, <1>2, <1>3, InitTyped, NextTyped, PTL DEF Spec

-----------------------------------------------------------------------------
(* Amounts are integers.                                                   *)
LEMMA AmountsInt == Amounts \subseteq Int /\ I128 \subseteq Int
BY AmountsAssumption DEF I128

(* The records a live round settles from: a step keeps the round's mode    *)
(* and its close of betting, and only a bet or an early exit touches its   *)
(* pools; a round that becomes live is the one just created.               *)
LEMMA RecordSteps ==
  ASSUME TypeOK, RoundIdentity, [Next]_vars, NEW r \in Live'
  PROVE  \/ /\ OpensRound /\ r = lastRoundId + 1 /\ r \notin Live
            /\ RoundRecord(r)' = activeRound'
         \/ /\ r \in Live
            /\ RoundRecord(r)'.mode = RoundRecord(r).mode
            /\ RoundRecord(r)'.bet_end_ledger = RoundRecord(r).bet_end_ledger
            /\ \/ RoundRecord(r)' = RoundRecord(r)
               \/ /\ ChangesPools /\ r = activeRound.round_id
                  /\ RoundRecord(r) = activeRound /\ RoundRecord(r)' = activeRound'
<1> DEFINE Same == r \in Live /\ RoundRecord(r)' = RoundRecord(r)
<1>1. /\ \A x \in Round : x # None /\ x.round_id \in RoundIds /\ x.round_id \in Nat
      /\ \A d \in Dispute : d # None
      /\ pendingDisputes \in [RoundIds -> Dispute \cup {None}]
      /\ activeRound \in Round \cup {None}
      /\ lastRoundId \in Nat
  BY OptionAssumption, BoundsAssumption DEF Round, RoundIds, TypeOK, RoundTypeOK
<1>2. /\ r \in RoundIds
      /\ pendingDisputes'[r] = None => activeRound' # None /\ r = activeRound'.round_id
      /\ RoundRecord(r)' = IF pendingDisputes'[r] # None THEN pendingDisputes'[r].round
                           ELSE activeRound'
  <2>1. TypeOK' /\ RoundIdentity'
    BY NextTyped, NextIdentity
  <2>2. activeRound' # None => activeRound'.round_id \in RoundIds
    BY <2>1 DEF TypeOK, RoundTypeOK, Round
  <2> QED BY <2>2 DEF Live, Disputed, RoundRecord
<1>3. /\ pendingDisputes[r] # None => r \in Live /\ RoundRecord(r) = pendingDisputes[r].round
      /\ pendingDisputes[r] = None => RoundRecord(r) = activeRound
      /\ activeRound # None /\ r = activeRound.round_id => r \in Live
      /\ activeRound # None /\ r = activeRound.round_id => pendingDisputes[r] = None
  BY <1>2 DEF Live, Disputed, RoundRecord, RoundIdentity
<1>4. CASE UNCHANGED roundVars
  <2>1. Same
    BY <1>2, <1>3, <1>4 DEF roundVars
  <2> QED BY <2>1
<1>5. CASE OpensRound
  <2>1. CASE pendingDisputes'[r] # None
    BY <1>2, <1>3, <1>5, <2>1 DEF OpensRound
  <2>2. CASE pendingDisputes'[r] = None
    <3>1. r = lastRoundId + 1
      BY <1>2, <1>5, <2>2 DEF OpensRound
    <3>2. r \notin Live
      BY <1>1, <1>2, <1>5, <3>1 DEF OpensRound, Live, Disputed, RoundIdentity
    <3> QED BY <1>2, <1>5, <2>2, <3>1, <3>2
  <2> QED BY <2>1, <2>2
<1>6. CASE ChangesPools
  <2>1. CASE pendingDisputes'[r] # None
    BY <1>2, <1>3, <1>6, <2>1 DEF ChangesPools
  <2>2. CASE pendingDisputes'[r] = None
    BY <1>1, <1>2, <1>3, <1>6, <2>2 DEF ChangesPools
  <2> QED BY <2>1, <2>2
<1>7. CASE ClosesActive
  <2>1. Same
    BY <1>2, <1>3, <1>7 DEF ClosesActive
  <2> QED BY <2>1
<1>8. CASE StagesActive
  <2>1. PICK d \in Dispute :
          /\ d.round = activeRound
          /\ pendingDisputes' = [pendingDisputes EXCEPT ![activeRound.round_id] = d]
    BY <1>8 DEF StagesActive
  <2>2. activeRound \in Round /\ activeRound # None /\ activeRound' = None
    BY <1>1, <1>8 DEF StagesActive
  <2>3. Same
    BY <1>1, <1>2, <1>3, <2>1, <2>2
  <2> QED BY <2>3
<1>9. CASE ClosesDisputed
  <2>1. PICK q \in RoundIds : pendingDisputes' = [pendingDisputes EXCEPT ![q] = None]
    BY <1>9 DEF ClosesDisputed, Disputed
  <2>2. activeRound' \in {activeRound, None}
    BY <1>9 DEF ClosesDisputed
  <2>3. Same
    <3>1. CASE pendingDisputes'[r] # None
      BY <1>1, <1>2, <1>3, <2>1, <3>1
    <3>2. CASE pendingDisputes'[r] = None
      BY <1>2, <1>3, <2>2, <3>2
    <3> QED BY <3>1, <3>2
  <2> QED BY <2>3
<1> QED BY <1>4, <1>5, <1>6, <1>7, <1>8, <1>9, RoundSteps

(* The ledger sequence never goes back.                                    *)
LEMMA LedgerGrows ==
  ASSUME TypeOK, [Next]_vars
  PROVE  ledger \in Nat /\ ledger' \in Nat /\ ledger <= ledger'
<1>1. ledger \in Nat /\ ledger' \in Nat
  BY NextTyped, BoundsAssumption DEF TypeOK, ClockTypeOK, Ledgers
<1>2. ledger' = ledger \/ ledger' = ledger + 1
  <2> USE DEF clockVars
  <2>1. Stake => ledger' = ledger
    BY DEF Stake, place_bet, place_precision_prediction, commit_prediction,
           reveal_prediction, cash_out_early
  <2>2. EndOfRound => ledger' = ledger
    BY DEF EndOfRound, resolve_round, cancel_round, void_round, finalize_round
  <2>3. Wallet => ledger' = ledger
    BY DEF Wallet, mint_initial, claim_winnings, reclaim_expired_pending_winnings,
           claim_many, withdraw_protocol_fee, withdraw_insurance_fund,
           execute_withdraw_fee, execute_withdraw_insurance_fund,
           top_up_insurance_fund
  <2>4. Administration => ledger' = ledger
    BY DEF Administration, set_runtime_mode, update_config, execute_set_protocol_fee_bps,
           create_round, create_next_from_template
  <2>5. Tick \/ UNCHANGED vars => ledger' = ledger \/ ledger' = ledger + 1
    BY DEF Tick, vars
  <2> QED BY <2>1, <2>2, <2>3, <2>4, <2>5 DEF Next
<1> QED BY <1>1, <1>2

(* A settlement records outcomes of participants only.                     *)
LEMMA SettledAreParticipants ==
  ASSUME NEW round \in Round, NEW price \in Prices
  PROVE  DOMAIN Settlement(round, price).records \subseteq participants[round.round_id]
<1> DEFINE r == round.round_id
<1>1. \A kind : DOMAIN RefundRecords(r, kind) \subseteq participants[r]
  BY DEF RefundRecords, Refunded
<1>2. \A side, w, l : DOMAIN WinningRecords(r, side, w, l).records \subseteq participants[r]
  BY DEF WinningRecords
<1>3. PriceDirection(round.price_start, price) \in {"Up", "Down", "Unchanged"}
  BY DEF PriceDirection
<1>4. DOMAIN UpdownSettlement(round, price).records \subseteq participants[r]
  <2> DEFINE direction == PriceDirection(round.price_start, price)
             refunded  == \/ direction = "Unchanged"
                          \/ IsOneSidedPool(round.pool_up, round.pool_down)
  <2>1. CASE refunded
    <3>1. UpdownSettlement(round, price) = [records |-> RefundRecords(r, "Refund"), fee |-> 0]
      BY <2>1 DEF UpdownSettlement
    <3> QED BY <1>1, <3>1
  <2>2. CASE ~ refunded /\ direction = "Up"
    <3>1. UpdownSettlement(round, price) = WinningRecords(r, "Up", round.pool_up, round.pool_down)
      BY <2>2 DEF UpdownSettlement
    <3> QED BY <1>2, <3>1
  <2>3. CASE ~ refunded /\ direction = "Down"
    <3>1. UpdownSettlement(round, price) = WinningRecords(r, "Down", round.pool_down, round.pool_up)
      BY <2>3 DEF UpdownSettlement
    <3> QED BY <1>2, <3>1
  <2> QED BY <1>3, <2>1, <2>2, <2>3
<1>5. DOMAIN PrecisionSettlement(round, price).records \subseteq participants[r]
  BY <1>1 DEF PrecisionSettlement
<1> QED BY <1>4, <1>5 DEF Settlement

(***************************************************************************)
(* What a step does to the stakes and to the outcomes on record: nothing,  *)
(* one of the five calls on the active round, or the end of one live       *)
(* round, which records outcomes of its participants and clears its keys.  *)
(***************************************************************************)
LeavesStakes ==
  /\ UNCHANGED <<stakeVars, outcome>>
  /\ OpensRound \/ activeRound' \in {activeRound, None}

(* What ends a live round: outcomes for stakers, the round's keys cleared, *)
(* the round no longer live.                                               *)
EndsRound(r, records) ==
  /\ r \in Live /\ r \in RoundIds
  /\ DOMAIN records \subseteq participants[r]
  /\ PersistUserOutcomes(r, records)
  /\ ClearRoundStorage(r)
  /\ activeRound' \in {activeRound, None}
  /\ r \notin Live'

(* The active round ends when it is closed and its storage is cleared.     *)
LEMMA EndsActive ==
  ASSUME TypeOK, RoundIdentity, activeRound # None, activeRound' = None,
         pendingDisputes' = pendingDisputes, NEW records,
         DOMAIN records \subseteq participants[activeRound.round_id],
         PersistUserOutcomes(activeRound.round_id, records),
         ClearRoundStorage(activeRound.round_id)
  PROVE  EndsRound(activeRound.round_id, records)
BY DEF EndsRound, Live, Disputed, TypeOK, RoundTypeOK, Round, RoundIdentity

(* A round is settled: outcomes, pending winnings, statistics, fee and the *)
(* histories at once, and no wallet is touched.                            *)
Settles(r, records, fee) ==
  /\ EndsRound(r, records) /\ ApplySettlement(r, records, fee)
  /\ userRounds' = HistoryAfter(r)
  /\ UNCHANGED walletVars

(* Nothing ends: neither money nor stakes nor what is on record changes.   *)
LeavesAll ==
  LeavesStakes /\ UNCHANGED <<pendingVars, feeVars, walletVars, stats, userRounds>>

(* The four ways a round ends: its result is staged, its stakes are        *)
(* refunded, it is paid out at a price from its own record, or it is       *)
(* cancelled.                                                              *)
LEMMA EndingShapes ==
  ASSUME TypeOK, RoundIdentity, EndOfRound
  PROVE  \/ LeavesAll
         \/ \E r \in RoundIds, kind \in {"Refund", "Void"} :
              Settles(r, RefundRecords(r, kind), 0)
         \/ \E r \in Live, price \in Prices :
              LET s == Settlement(RoundRecord(r), price) IN Settles(r, s.records, s.fee)
         \/ \E reason \in Reasons :
              /\ cancel_round(reason)
              /\ EndsRound(activeRound.round_id, RefundRecords(activeRound.round_id, "Void"))
<1> DEFINE Refunds == \E r \in RoundIds, kind \in {"Refund", "Void"} :
                        Settles(r, RefundRecords(r, kind), 0)
           Pays    == \E r \in Live, price \in Prices :
                        LET s == Settlement(RoundRecord(r), price)
                        IN  Settles(r, s.records, s.fee)
<1>1. activeRound # None => /\ activeRound \in Round /\ activeRound.round_id \in RoundIds
                            /\ activeRound.round_id \in Live
                            /\ RoundRecord(activeRound.round_id) = activeRound
  BY DEF TypeOK, RoundTypeOK, Round, Live, Disputed, RoundRecord, RoundIdentity
<1>2. \A r, kind : DOMAIN RefundRecords(r, kind) \subseteq participants[r]
  BY DEF RefundRecords, Refunded
<1>3. ASSUME NEW price \in Prices, resolve_round(price)
      PROVE  LeavesAll \/ Refunds \/ Pays
  <2> DEFINE a == activeRound.round_id
  <2>1. activeRound # None /\ UNCHANGED walletVars
    BY <1>3 DEF resolve_round
  <2>2. CASE RefundUnderThreshold(activeRound)
    <3>1. /\ ApplySettlement(a, RefundRecords(a, "Refund"), 0) /\ ClearRoundStorage(a)
          /\ activeRound' = None /\ pendingDisputes' = pendingDisputes
          /\ userRounds' = HistoryAfter(a)
      BY <2>2 DEF RefundUnderThreshold, ArchiveAndIndex
    <3>2. EndsRound(a, RefundRecords(a, "Refund"))
      BY <1>2, <2>1, <3>1, EndsActive DEF ApplySettlement
    <3> QED BY <1>1, <2>1, <3>1, <3>2 DEF Settles
  <2>3. CASE StageDispute(activeRound, price)
    BY <2>1, <2>3 DEF StageDispute, LeavesAll, LeavesStakes, resultVars, archiveVars
  <2>4. CASE CompleteSettlement(activeRound, price) /\ UNCHANGED pendingDisputes
    <3> DEFINE s == Settlement(activeRound, price)
    <3>1. /\ ApplySettlement(a, s.records, s.fee) /\ ClearRoundStorage(a)
          /\ activeRound' = None /\ userRounds' = HistoryAfter(a)
      BY <2>4 DEF CompleteSettlement, ArchiveAndIndex
    <3>2. DOMAIN s.records \subseteq participants[a]
      BY <1>1, <2>1, SettledAreParticipants
    <3> HIDE DEF s
    <3>3. EndsRound(a, s.records)
      BY <2>1, <2>4, <3>1, <3>2, EndsActive DEF ApplySettlement
    <3>4. Settles(a, s.records, s.fee)
      BY <2>1, <3>1, <3>3 DEF Settles
    <3> QED BY <1>1, <2>1, <3>4 DEF s
  <2> QED BY <1>3, <2>2, <2>3, <2>4 DEF resolve_round, SettleRoundWithPrice
<1>4. ASSUME NEW reason \in Reasons, cancel_round(reason)
      PROVE  EndsRound(activeRound.round_id, RefundRecords(activeRound.round_id, "Void"))
  BY <1>1, <1>2, <1>4, EndsActive DEF cancel_round
<1>5. ASSUME NEW r \in RoundIds, void_round(r)
      PROVE  Refunds
  <2>1. /\ pendingDisputes[r] # None /\ activeRound' = activeRound
        /\ pendingDisputes' = [pendingDisputes EXCEPT ![r] = None]
        /\ ApplySettlement(r, RefundRecords(r, "Void"), 0) /\ ClearRoundStorage(r)
        /\ UNCHANGED walletVars /\ userRounds' = HistoryAfter(r)
    BY <1>5 DEF void_round, ArchiveAndIndex
  <2>2. r \in Live
    BY <2>1 DEF Live, Disputed
  <2>3. r \notin Live'
    BY <2>1 DEF Live, Disputed, RoundIdentity, TypeOK, RoundTypeOK
  <2>4. Settles(r, RefundRecords(r, "Void"), 0)
    BY <1>2, <2>1, <2>2, <2>3 DEF Settles, EndsRound, ApplySettlement
  <2> QED BY <2>4
<1>6. ASSUME NEW r \in RoundIds, finalize_round(r)
      PROVE  Pays
  <2> DEFINE d == pendingDisputes[r]
             s == Settlement(d.round, d.final_price)
  <2>1. d # None /\ r \in Live /\ activeRound' = None
        /\ pendingDisputes' = [pendingDisputes EXCEPT ![r] = None]
        /\ CompleteSettlement(d.round, d.final_price) /\ UNCHANGED walletVars
    BY <1>6 DEF finalize_round, CompleteSettlement, Live, Disputed
  <2>2. d.round \in Round /\ d.final_price \in Prices /\ d.round.round_id = r
        /\ RoundRecord(r) = d.round
    BY <2>1 DEF TypeOK, RoundTypeOK, Dispute, RoundIdentity, RoundRecord, Disputed
  <2>3. /\ ApplySettlement(r, s.records, s.fee) /\ ClearRoundStorage(r)
        /\ userRounds' = HistoryAfter(r)
    BY <2>1, <2>2 DEF CompleteSettlement, ArchiveAndIndex
  <2>4. DOMAIN s.records \subseteq participants[r]
    BY <2>2, SettledAreParticipants
  <2> HIDE DEF d, s
  <2>5. r \notin Live'
    BY <2>1 DEF Live, Disputed, TypeOK, RoundTypeOK
  <2>6. Settles(r, s.records, s.fee)
    BY <2>1, <2>3, <2>4, <2>5 DEF Settles, EndsRound, ApplySettlement
  <2> QED BY <2>1, <2>2, <2>6 DEF s
<1> QED BY <1>3, <1>4, <1>5, <1>6 DEF EndOfRound

(* Every step of the market is one of the seven kinds.                     *)
LEMMA StakeSteps ==
  ASSUME TypeOK, RoundIdentity, [Next]_vars
  PROVE  \/ LeavesStakes
         \/ \E user \in Users, amount \in Amounts, side \in Sides : place_bet(user, amount, side)
         \/ \E user \in Users, amount \in Amounts, price \in Prices :
              \/ place_precision_prediction(user, amount, price)
              \/ commit_prediction(user, amount, price)
         \/ \E user \in Users, price \in Prices : reveal_prediction(user, price)
         \/ \E user \in Users : cash_out_early(user)
         \/ \E r \in RoundIds : \E records : EndsRound(r, records)
<1> DEFINE Ends == \E r \in RoundIds : \E records : EndsRound(r, records)
<1>1. ASSUME EndOfRound
      PROVE  LeavesStakes \/ Ends
  <2>1. \A r \in Live : r \in RoundIds
    BY LiveRecords
  <2>2. activeRound # None => activeRound.round_id \in RoundIds
    BY DEF TypeOK, RoundTypeOK, Round
  <2>3. \A reason \in Reasons : cancel_round(reason) => activeRound # None
    BY DEF cancel_round
  <2> QED BY <1>1, <2>1, <2>2, <2>3, EndingShapes DEF Settles, LeavesAll
<1>2. Wallet => LeavesStakes
  BY DEF Wallet, mint_initial, claim_winnings, reclaim_expired_pending_winnings,
         claim_many, withdraw_protocol_fee, withdraw_insurance_fund,
         execute_withdraw_fee, execute_withdraw_insurance_fund,
         top_up_insurance_fund, LeavesStakes, roundVars, resultVars
<1>3. Administration => LeavesStakes
  <2>1. ASSUME NEW price \in Prices, NEW mode \in RoundModes, create_round(price, mode)
        PROVE  LeavesStakes
    <3>1. OpensRound
      <4>1. activeRound' \in Round
        BY <2>1, CreateTyped
      <4> QED BY <2>1, <4>1 DEF create_round, StartLedgerFree, NextRoundId, OpensRound, resultVars
    <3> QED BY <2>1, <3>1 DEF create_round, LeavesStakes, resultVars
  <2>2. create_next_from_template => LeavesStakes
    <3>1. create_next_from_template =>
            config.template.start_price \in Prices /\ config.template.mode \in RoundModes
      BY ConfigTyped DEF create_next_from_template, TypeOK
    <3> QED BY <2>1, <3>1 DEF create_next_from_template
  <2>3. \/ \E mode \in RuntimeModes : set_runtime_mode(mode)
        \/ \E c \in Configs : update_config(c) \/ execute_set_protocol_fee_bps(c.feeBps)
        => LeavesStakes
    BY DEF set_runtime_mode, update_config, execute_set_protocol_fee_bps,
           LeavesStakes, roundVars, resultVars
  <2> QED BY <2>1, <2>2, <2>3 DEF Administration
<1>4. Tick \/ UNCHANGED vars => LeavesStakes
  BY DEF Tick, vars, LeavesStakes, roundVars, resultVars
<1> QED BY <1>1, <1>2, <1>3, <1>4 DEF Next, Stake
-----------------------------------------------------------------------------
(***************************************************************************)
(* The place of stakes.  ParticipantsMatchStakes alone is not inductive:   *)
(* a new round must find its id unused, and a bet must not meet a user who *)
(* already left the round with an outcome.                                 *)
(***************************************************************************)

(* A round that does not exist yet has neither participants nor outcomes.  *)
FreshRounds ==
  \A r \in RoundIds : r > lastRoundId =>
    participants[r] = {} /\ \A u \in Users : outcome[r][u] = None

(* Every stake key holds a positive amount.                                *)
StakesPositive ==
  \A r \in RoundIds, u \in Users :
    /\ position[r][u] # None => position[r][u].amount > 0
    /\ prediction[r][u] # None => prediction[r][u].amount > 0
    /\ commitment[r][u] # None => commitment[r][u].amount > 0

(* A commitment that was not revealed has no prediction beside it.         *)
HiddenUntilRevealed ==
  \A r \in RoundIds, u \in Users :
    commitment[r][u] # None /\ ~ commitment[r][u].revealed => prediction[r][u] = None

(* Who has an outcome has left the round, and left it after betting.       *)
RecordedHaveLeft ==
  \A r \in RoundIds, u \in Users : outcome[r][u] # None =>
    /\ u \notin participants[r]
    /\ r \in Live => ledger >= RoundRecord(r).bet_end_ledger

(* The inductive invariant about stakes: types, round identity and the     *)
(* facts above.                                                            *)
StakeInv ==
  /\ TypeOK /\ RoundIdentity /\ FreshRounds /\ ParticipantsMatchStakes
  /\ StakesPositive /\ HiddenUntilRevealed /\ RecordedHaveLeft

(* Nothing is staked in a fresh contract.                                  *)
LEMMA InitStakeInv == Init => StakeInv
<1> SUFFICES ASSUME Init
             PROVE  StakeInv
  OBVIOUS
<1>1. TypeOK /\ RoundIdentity
  BY InitTyped, InitIdentity
<1>2. Live = {}
  BY DEF Init, Live, Disputed
<1>3. ParticipantsMatchStakes
  BY <1>2 DEF Init, ParticipantsMatchStakes
<1>4. FreshRounds /\ StakesPositive /\ HiddenUntilRevealed /\ RecordedHaveLeft
  BY DEF Init, FreshRounds, StakesPositive, HiddenUntilRevealed, RecordedHaveLeft
<1> QED BY <1>1, <1>3, <1>4 DEF StakeInv

(* The parts of the invariant that speak about one user in one round.      *)
KeysListed(r, u) ==
  u \in participants[r] <=> \/ position[r][u] # None
                            \/ prediction[r][u] # None
                            \/ commitment[r][u] # None

(* A user's keys in a round of a given mode: no precision keys in an       *)
(* up/down round, no position in a precision round.                        *)
KeysOfMode(r, u, mode) ==
  IF mode = "UpDown" THEN prediction[r][u] = None /\ commitment[r][u] = None
  ELSE position[r][u] = None

(* The part of the stake invariant that one user's keys in one round       *)
(* carry.                                                                  *)
KeysSound(r, u) ==
  /\ KeysListed(r, u)
  /\ position[r][u] # None => position[r][u].amount > 0
  /\ prediction[r][u] # None => prediction[r][u].amount > 0
  /\ commitment[r][u] # None => commitment[r][u].amount > 0
  /\ commitment[r][u] # None /\ ~ commitment[r][u].revealed => prediction[r][u] = None
  /\ outcome[r][u] # None => u \notin participants[r]

(* The stake invariant, for one round and one user.                        *)
LEMMA KeysFromInv ==
  ASSUME StakeInv, NEW r \in RoundIds, NEW u \in Users
  PROVE  /\ KeysSound(r, u)
         /\ r \in Live => KeysOfMode(r, u, RoundRecord(r).mode)
BY DEF StakeInv, ParticipantsMatchStakes, StakesPositive, HiddenUntilRevealed,
       RecordedHaveLeft, KeysSound, KeysListed, KeysOfMode

(* The keys of one user in one round after a step.                         *)
SameKeys(r, u) ==
  /\ position'[r][u] = position[r][u] /\ prediction'[r][u] = prediction[r][u]
  /\ commitment'[r][u] = commitment[r][u] /\ outcome'[r][u] = outcome[r][u]
  /\ u \in participants'[r] <=> u \in participants[r]

(* A step that leaves a user no key in a round.                            *)
NoKeys(r, u) ==
  /\ position'[r][u] = None /\ prediction'[r][u] = None /\ commitment'[r][u] = None
  /\ u \notin participants'[r]

(* A step that keeps a user's keys in a round, or removes them all, keeps  *)
(* them sound.                                                             *)
LEMMA SameKeysSound ==
  ASSUME StakeInv, NEW r \in RoundIds, NEW u \in Users, SameKeys(r, u) \/ NoKeys(r, u)
  PROVE  /\ KeysSound(r, u)'
         /\ \A mode : KeysOfMode(r, u, mode) => KeysOfMode(r, u, mode)'
BY KeysFromInv DEF SameKeys, NoKeys, KeysSound, KeysListed, KeysOfMode

(* The active round is live and settles from its own record.               *)
LEMMA ActiveIsLive ==
  ASSUME TypeOK, RoundIdentity, activeRound # None
  PROVE  /\ activeRound \in Round /\ activeRound.round_id \in RoundIds
         /\ activeRound.round_id \in Live
         /\ RoundRecord(activeRound.round_id) = activeRound
BY DEF TypeOK, RoundTypeOK, Round, Live, Disputed, RoundRecord, RoundIdentity

(* Who may still bet has no outcome yet in the active round.               *)
LEMMA BettorsUnrecorded ==
  ASSUME StakeInv, activeRound # None, BettingOpen, NEW u \in Users
  PROVE  outcome[activeRound.round_id][u] = None
<1>1. activeRound \in Round /\ activeRound.round_id \in RoundIds
  BY ActiveIsLive DEF StakeInv
<1>2. ledger \in Nat /\ activeRound.bet_end_ledger \in Nat
  BY <1>1, ConfigTyped DEF Round, StakeInv, TypeOK
<1>3. activeRound.round_id \in Live /\ RoundRecord(activeRound.round_id) = activeRound
  BY ActiveIsLive DEF StakeInv
<1> QED BY <1>1, <1>2, <1>3 DEF StakeInv, RecordedHaveLeft, BettingOpen

(* Every step keeps every user's keys sound, and of the round's mode: a    *)
(* bet, a commit, a reveal and an early exit are the ones that change      *)
(* them.                                                                   *)
LEMMA NextKeys ==
  ASSUME StakeInv, [Next]_vars, NEW r \in RoundIds, NEW u \in Users
  PROVE  /\ KeysSound(r, u)'
         /\ r \in Live => \A mode : mode = RoundRecord(r).mode => KeysOfMode(r, u, mode)'
<1> DEFINE a == activeRound.round_id
           Goal == /\ KeysSound(r, u)'
                   /\ r \in Live => \A mode : mode = RoundRecord(r).mode => KeysOfMode(r, u, mode)'
<1>1. /\ position \in [RoundIds -> [Users -> UserPosition \cup {None}]]
      /\ prediction \in [RoundIds -> [Users -> PrecisionPrediction \cup {None}]]
      /\ commitment \in [RoundIds -> [Users -> PrecisionCommitment \cup {None}]]
      /\ participants \in [RoundIds -> SUBSET Users]
      /\ outcome \in [RoundIds -> [Users -> UserRoundOutcome \cup {None}]]
      /\ TypeOK /\ RoundIdentity
  BY DEF StakeInv, TypeOK, StakeTypeOK, ResultTypeOK
<1>2. KeysSound(r, u) /\ (r \in Live => KeysOfMode(r, u, RoundRecord(r).mode))
  BY KeysFromInv
<1>3. ASSUME SameKeys(r, u) \/ NoKeys(r, u)
      PROVE  Goal
  BY <1>2, <1>3, SameKeysSound
<1>4. activeRound # None => a \in RoundIds /\ a \in Live /\ RoundRecord(a) = activeRound
  BY <1>1, ActiveIsLive
<1> HIDE DEF Goal
<1>5. ASSUME LeavesStakes
      PROVE  Goal
  BY <1>3, <1>5 DEF LeavesStakes, SameKeys, stakeVars
<1>6. ASSUME NEW user \in Users, NEW amount \in Amounts, NEW side \in Sides,
             place_bet(user, amount, side)
      PROVE  Goal
  <2>1. /\ activeRound # None /\ activeRound.mode = "UpDown" /\ amount > 0 /\ BettingOpen
        /\ position' = [position EXCEPT ![a][user] = [amount |-> amount, side |-> side]]
        /\ participants' = [participants EXCEPT ![a] = participants[a] \cup {user}]
        /\ UNCHANGED <<prediction, commitment, outcome>>
    BY <1>6 DEF place_bet, StakeAllowed, TakeStake, resultVars
  <2>2. CASE r = a /\ u = user
    <3>1. /\ position'[r][u] = [amount |-> amount, side |-> side]
          /\ u \in participants'[r]
      BY <1>1, <2>1, <2>2
    <3>2. prediction'[r][u] = None /\ commitment'[r][u] = None /\ outcome'[r][u] = None
      BY <1>2, <1>4, <2>1, <2>2, BettorsUnrecorded DEF KeysOfMode
    <3>3. [amount |-> amount, side |-> side] # None
      BY OptionAssumption DEF UserPosition
    <3>4. r \in Live /\ RoundRecord(r).mode = "UpDown"
      BY <1>4, <2>1, <2>2
    <3> QED BY <2>1, <3>1, <3>2, <3>3, <3>4 DEF Goal, KeysSound, KeysListed, KeysOfMode
  <2>3. CASE ~ (r = a /\ u = user)
    <3>1. SameKeys(r, u)
      BY <1>1, <1>4, <2>1, <2>3 DEF SameKeys
    <3> QED BY <1>3, <3>1
  <2> QED BY <2>2, <2>3
<1>7. ASSUME NEW user \in Users, NEW amount \in Amounts, NEW price \in Prices,
             place_precision_prediction(user, amount, price)
      PROVE  Goal
  <2>1. /\ activeRound # None /\ activeRound.mode = "Precision" /\ amount > 0 /\ BettingOpen
        /\ prediction' = [prediction EXCEPT ![a][user] = [amount |-> amount, price |-> price]]
        /\ participants' = [participants EXCEPT ![a] = participants[a] \cup {user}]
        /\ commitment[a][user] = None
        /\ UNCHANGED <<position, commitment, outcome>>
    BY <1>7 DEF place_precision_prediction, StakeAllowed, TakeStake, resultVars
  <2>2. CASE r = a /\ u = user
    <3>1. /\ prediction'[r][u] = [amount |-> amount, price |-> price]
          /\ u \in participants'[r]
      BY <1>1, <2>1, <2>2
    <3>2. position'[r][u] = None /\ commitment'[r][u] = None /\ outcome'[r][u] = None
      BY <1>2, <1>4, <2>1, <2>2, BettorsUnrecorded DEF KeysOfMode
    <3>3. [amount |-> amount, price |-> price] # None
      BY OptionAssumption DEF PrecisionPrediction
    <3>4. r \in Live /\ RoundRecord(r).mode = "Precision"
      BY <1>4, <2>1, <2>2
    <3> QED BY <2>1, <3>1, <3>2, <3>3, <3>4 DEF Goal, KeysSound, KeysListed, KeysOfMode
  <2>3. CASE ~ (r = a /\ u = user)
    <3>1. SameKeys(r, u)
      BY <1>1, <1>4, <2>1, <2>3 DEF SameKeys
    <3> QED BY <1>3, <3>1
  <2> QED BY <2>2, <2>3
<1>8. ASSUME NEW user \in Users, NEW amount \in Amounts, NEW price \in Prices,
             commit_prediction(user, amount, price)
      PROVE  Goal
  <2> DEFINE c == [amount |-> amount, price |-> price, revealed |-> FALSE]
  <2>1. /\ activeRound # None /\ activeRound.mode = "Precision" /\ amount > 0 /\ BettingOpen
        /\ commitment' = [commitment EXCEPT ![a][user] = c]
        /\ participants' = [participants EXCEPT ![a] = participants[a] \cup {user}]
        /\ prediction[a][user] = None
        /\ UNCHANGED <<position, prediction, outcome>>
    BY <1>8 DEF commit_prediction, StakeAllowed, TakeStake, resultVars
  <2>2. CASE r = a /\ u = user
    <3>1. /\ commitment'[r][u] = c
          /\ u \in participants'[r]
      BY <1>1, <2>1, <2>2
    <3>2. position'[r][u] = None /\ prediction'[r][u] = None /\ outcome'[r][u] = None
      BY <1>2, <1>4, <2>1, <2>2, BettorsUnrecorded DEF KeysOfMode
    <3>3. c # None /\ c.amount = amount
      <4>1. c \in PrecisionCommitment
        BY DEF PrecisionCommitment
      <4> QED BY <4>1, OptionAssumption
    <3>4. r \in Live /\ RoundRecord(r).mode = "Precision"
      BY <1>4, <2>1, <2>2
    <3> HIDE DEF c
    <3> QED BY <2>1, <3>1, <3>2, <3>3, <3>4 DEF Goal, KeysSound, KeysListed, KeysOfMode
  <2>3. CASE ~ (r = a /\ u = user)
    <3>1. SameKeys(r, u)
      BY <1>1, <1>4, <2>1, <2>3 DEF SameKeys
    <3> QED BY <1>3, <3>1
  <2> QED BY <2>2, <2>3
<1>9. ASSUME NEW user \in Users, NEW price \in Prices, reveal_prediction(user, price)
      PROVE  Goal
  <2> DEFINE c == commitment[a][user]
             shown == [amount |-> c.amount, price |-> c.price, revealed |-> TRUE]
             guess == [amount |-> c.amount, price |-> price]
  <2>1. /\ activeRound # None /\ activeRound.mode = "Precision" /\ c # None
        /\ commitment' = [commitment EXCEPT ![a][user] = shown]
        /\ prediction' = [prediction EXCEPT ![a][user] = guess]
        /\ UNCHANGED <<position, participants, outcome>>
    BY <1>9 DEF reveal_prediction, resultVars
  <2>2. CASE r = a /\ u = user
    <3>1. /\ commitment'[r][u] = shown /\ prediction'[r][u] = guess
          /\ position'[r][u] = position[r][u] /\ outcome'[r][u] = outcome[r][u]
          /\ u \in participants'[r] <=> u \in participants[r]
      BY <1>1, <2>1, <2>2
    <3>2. /\ position[r][u] = None /\ u \in participants[r]
          /\ outcome[r][u] # None => u \notin participants[r]
          /\ c.amount > 0
      BY <1>2, <1>4, <2>1, <2>2 DEF KeysOfMode, KeysSound, KeysListed
    <3>3. c \in PrecisionCommitment
      BY <1>1, <1>4, <2>1
    <3>4. shown \in PrecisionCommitment /\ guess \in PrecisionPrediction
      BY <3>3 DEF PrecisionCommitment, PrecisionPrediction
    <3>5. /\ shown # None /\ guess # None /\ shown.amount > 0 /\ guess.amount > 0
          /\ shown.revealed
      BY <3>2, <3>4, OptionAssumption
    <3>6. r \in Live /\ RoundRecord(r).mode = "Precision"
      BY <1>4, <2>1, <2>2
    <3> HIDE DEF shown, guess
    <3> QED BY <3>1, <3>2, <3>5, <3>6 DEF Goal, KeysSound, KeysListed, KeysOfMode
  <2>3. CASE ~ (r = a /\ u = user)
    <3>1. SameKeys(r, u)
      BY <1>1, <1>4, <2>1, <2>3 DEF SameKeys
    <3> QED BY <1>3, <3>1
  <2> QED BY <2>2, <2>3
<1>10. ASSUME NEW user \in Users, cash_out_early(user)
       PROVE  Goal
  <2>1. /\ activeRound # None /\ activeRound.mode = "UpDown"
        /\ position' = [position EXCEPT ![a][user] = None]
        /\ participants' = [participants EXCEPT ![a] = participants[a] \ {user}]
        /\ UNCHANGED <<prediction, commitment>>
        /\ \E records : DOMAIN records = {user} /\ PersistUserOutcomes(a, records)
    BY <1>10 DEF cash_out_early, RemovePosition
  <2>2. CASE r = a /\ u = user
    <3>1. NoKeys(r, u)
      BY <1>1, <1>2, <1>4, <2>1, <2>2 DEF NoKeys, KeysOfMode
    <3> QED BY <1>3, <3>1
  <2>3. CASE ~ (r = a /\ u = user)
    <3>1. outcome'[r][u] = outcome[r][u]
      BY <1>1, <1>4, <2>1, <2>3 DEF PersistUserOutcomes
    <3>2. SameKeys(r, u)
      BY <1>1, <1>4, <2>1, <2>3, <3>1 DEF SameKeys
    <3> QED BY <1>3, <3>2
  <2> QED BY <2>2, <2>3
<1>11. ASSUME NEW q \in RoundIds, NEW records, EndsRound(q, records)
       PROVE  Goal
  <2>1. CASE r = q
    <3>1. NoKeys(r, u)
      BY <1>1, <1>2, <1>11, <2>1 DEF EndsRound, ClearRoundStorage, Cleared, NoKeys,
                                     KeysSound, KeysListed
    <3> QED BY <1>3, <3>1
  <2>2. CASE r # q
    <3>1. SameKeys(r, u)
      BY <1>1, <1>11, <2>2 DEF EndsRound, ClearRoundStorage, Cleared, PersistUserOutcomes, SameKeys
    <3> QED BY <1>3, <3>1
  <2> QED BY <2>1, <2>2
<1>12. Goal
  BY <1>1, <1>5, <1>6, <1>7, <1>8, <1>9, <1>10, <1>11, StakeSteps
<1> QED BY <1>12 DEF Goal

(* A step keeps the stakes where they belong.                              *)
LEMMA NextStakeInv == StakeInv /\ [Next]_vars => StakeInv'
<1> SUFFICES ASSUME StakeInv, [Next]_vars
             PROVE  StakeInv'
  OBVIOUS
<1> USE DEF StakeInv
<1>1. TypeOK' /\ RoundIdentity'
  BY NextTyped, NextIdentity
<1>2. /\ lastRoundId \in Nat /\ lastRoundId' \in Nat /\ lastRoundId <= lastRoundId'
      /\ RoundIds \subseteq Nat
  <2>1. lastRoundId \in Nat /\ RoundIds \subseteq Nat
    BY BoundsAssumption DEF TypeOK, RoundTypeOK, RoundIds
  <2>2. lastRoundId' = lastRoundId \/ lastRoundId' = lastRoundId + 1
    BY RoundSteps DEF roundVars, OpensRound, ChangesPools, ClosesActive, StagesActive,
                      ClosesDisputed, KeepsIds
  <2> QED BY <2>1, <2>2
<1>3. ASSUME NEW r \in RoundIds, r > lastRoundId
      PROVE  participants'[r] = {} /\ \A u \in Users : outcome'[r][u] = None
  <2>1. r \notin Live
    BY <1>2, <1>3 DEF Live, Disputed, RoundIdentity, TypeOK, RoundTypeOK, Round
  <2>2. participants[r] = {} /\ \A u \in Users : outcome[r][u] = None
    BY <1>3 DEF FreshRounds
  <2>3. participants'[r] = {}
    BY <2>1, <2>2, JoinsActive DEF Live
  <2>4. \A u \in Users : outcome'[r][u] = None
    BY <2>1, <2>2, ReachedIsLive DEF Reached
  <2> QED BY <2>3, <2>4
<1>4. FreshRounds'
  <2> SUFFICES ASSUME NEW r \in RoundIds, r > lastRoundId'
               PROVE  participants'[r] = {} /\ \A u \in Users : outcome'[r][u] = None
    BY DEF FreshRounds
  <2>1. r > lastRoundId
    BY <1>2
  <2> QED BY <1>3, <2>1
<1>5. \A r \in RoundIds, u \in Users : KeysSound(r, u)'
  BY NextKeys
<1>6. StakesPositive' /\ HiddenUntilRevealed'
  BY <1>5 DEF StakesPositive, HiddenUntilRevealed, KeysSound
<1>7. ASSUME NEW r \in RoundIds, NEW u \in Users, r \in Live'
      PROVE  KeysOfMode(r, u, RoundRecord(r).mode)'
  <2>1. CASE r = lastRoundId + 1
    <3>1. participants'[r] = {}
      BY <1>2, <1>3, <2>1
    <3> QED BY <1>5, <3>1 DEF KeysSound, KeysListed, KeysOfMode
  <2>2. CASE r \in Live /\ RoundRecord(r)'.mode = RoundRecord(r).mode
    <3>1. \A mode : mode = RoundRecord(r).mode => KeysOfMode(r, u, mode)'
      BY <2>2, NextKeys
    <3> QED BY <2>2, <3>1 DEF KeysOfMode
  <2> QED BY <1>7, <2>1, <2>2, RecordSteps
<1>8. ParticipantsMatchStakes'
  BY <1>5, <1>7 DEF ParticipantsMatchStakes, KeysSound, KeysListed, KeysOfMode
<1>9. ASSUME NEW r \in RoundIds, NEW u \in Users, outcome'[r][u] # None, r \in Live'
      PROVE  ledger' >= RoundRecord(r)'.bet_end_ledger
  <2>1. /\ r \in Live
        /\ RoundRecord(r)'.bet_end_ledger = RoundRecord(r).bet_end_ledger
    <3>1. r # lastRoundId + 1
      BY <1>2, <1>3, <1>9
    <3> QED BY <1>9, <3>1, RecordSteps
  <2>2. RoundRecord(r) \in Round /\ RoundRecord(r).bet_end_ledger \in Nat
    BY <2>1, LiveRecords DEF Round
  <2>3. ledger \in Nat /\ ledger' \in Nat /\ ledger <= ledger'
    BY LedgerGrows
  <2>4. CASE outcome[r][u] # None
    <3>1. ledger >= RoundRecord(r).bet_end_ledger
      BY <2>1, <2>4 DEF RecordedHaveLeft
    <3> QED BY <2>1, <2>2, <2>3, <3>1
  <2>5. CASE outcome[r][u] = None
    <3>1. outcome' # outcome
      BY <1>9, <2>5
    <3>2. ASSUME NEW user \in Users, cash_out_early(user)
          PROVE  ledger >= RoundRecord(r).bet_end_ledger
      <4>1. /\ activeRound # None /\ activeRound.bet_end_ledger <= ledger
            /\ \E records : PersistUserOutcomes(activeRound.round_id, records)
        BY <3>2 DEF cash_out_early
      <4>2. activeRound \in Round /\ RoundRecord(activeRound.round_id) = activeRound
            /\ activeRound.round_id \in RoundIds
        BY <4>1, ActiveIsLive
      <4>3. r = activeRound.round_id
        BY <1>9, <2>5, <4>1, <4>2, PersistReaches DEF Reached
      <4> QED BY <2>2, <2>3, <4>1, <4>2, <4>3
    <3>3. ASSUME NEW q \in RoundIds, NEW records, EndsRound(q, records)
          PROVE  FALSE
      <4>1. r = q
        BY <1>9, <2>5, <3>3, PersistReaches DEF Reached, EndsRound
      <4> QED BY <1>9, <3>3, <4>1 DEF EndsRound
    <3>4. ~ LeavesStakes
      BY <3>1 DEF LeavesStakes
    <3>5. \A user \in Users, amount \in Amounts :
            /\ \A side \in Sides : ~ place_bet(user, amount, side)
            /\ \A price \in Prices : /\ ~ place_precision_prediction(user, amount, price)
                                     /\ ~ commit_prediction(user, amount, price)
                                     /\ ~ reveal_prediction(user, price)
      BY <3>1 DEF place_bet, place_precision_prediction, commit_prediction,
                  reveal_prediction, resultVars
    <3>6. \A user \in Users, price \in Prices : ~ reveal_prediction(user, price)
      BY <3>1 DEF reveal_prediction, resultVars
    <3>7. ledger >= RoundRecord(r).bet_end_ledger
      BY <3>2, <3>3, <3>4, <3>5, <3>6, StakeSteps
    <3> QED BY <2>1, <2>2, <2>3, <3>7
  <2> QED BY <2>4, <2>5
<1>10. RecordedHaveLeft'
  BY <1>5, <1>9 DEF RecordedHaveLeft, KeysSound
<1> QED BY <1>1, <1>4, <1>6, <1>8, <1>10

(* The participant list of a round names exactly the users with a stake    *)
(* key in it, and a live round holds keys of its own mode only, whatever   *)
(* the interleaving of bets, reveals, early exits, disputes and endings.   *)
THEOREM ParticipantsAreStakers == Spec => []ParticipantsMatchStakes
<1>1. StakeInv => ParticipantsMatchStakes
  BY DEF StakeInv
<1> QED BY <1>1, InitStakeInv, NextStakeInv, PTL DEF Spec
-----------------------------------------------------------------------------
(***************************************************************************)
(* The pools.  A row holds the positions of one round; what a side of it   *)
(* weighs is summed over all users, so that a bet or an early exit changes *)
(* one summand.                                                            *)
(***************************************************************************)
PositionRows == [Users -> UserPosition \cup {None}]

(* What each user has on a side of a round's row of positions.             *)
SideStake(row, side) ==
  [u \in Users |-> IF row[u] # None /\ row[u].side = side THEN row[u].amount ELSE 0]

(* What the row holds on a side.                                           *)
SidePool(row, side) == SumFunctionOnSet(SideStake(row, side), Users)

(* What a user has on a side is an integer.                                *)
LEMMA SideStakeInt ==
  ASSUME NEW row \in PositionRows, NEW side
  PROVE  \A u \in Users : SideStake(row, side)[u] \in Int
<1>1. Amounts \subseteq Int
  BY AmountsAssumption DEF I128
<1>2. \A u \in Users : row[u] # None => row[u].amount \in Int
  BY <1>1 DEF PositionRows, UserPosition
<1> QED BY <1>2 DEF SideStake

(* Summing over the users on a side, as the property does, or over all of  *)
(* them gives the same pool.                                               *)
LEMMA SideSum ==
  ASSUME NEW row \in PositionRows, NEW side
  PROVE  SumFunction([u \in {v \in Users : row[v] # None /\ row[v].side = side}
                        |-> row[u].amount]) = SidePool(row, side)
<1> DEFINE on == {v \in Users : row[v] # None /\ row[v].side = side}
           f  == [u \in on |-> row[u].amount]
           g  == SideStake(row, side)
<1>1. on \in SUBSET Users /\ DOMAIN f = on
  OBVIOUS
<1>2. \A u \in on : f[u] \in Int /\ g[u] = f[u]
  BY SideStakeInt DEF SideStake
<1>3. \A u \in Users \ on : g[u] = 0
  BY DEF SideStake
<1> HIDE DEF on, f, g
<1>4. SumFunctionOnSet(g, Users) = SumFunctionOnSet(f, on)
  BY <1>1, <1>2, <1>3, SumRestricts, UsersAssumption
<1>5. SumFunction(f) = SumFunctionOnSet(g, Users)
  BY <1>1, <1>4 DEF SumFunction
<1> QED BY <1>5 DEF SidePool, on, f, g

(* A round without positions has empty pools.                              *)
LEMMA EmptySide ==
  ASSUME NEW row \in PositionRows, \A u \in Users : row[u] = None, NEW side
  PROVE  SidePool(row, side) = 0
<1>1. \A u \in Users : SideStake(row, side)[u] = 0
  BY DEF SideStake
<1>2. SidePool(row, side) = Cardinality(Users) * 0
  <2>1. 0 \in Int /\ IsFiniteSet(Users)
    BY UsersAssumption
  <2> QED BY <1>1, <2>1, SumConstant, Zenon DEF SidePool
<1>3. Cardinality(Users) \in Nat
  BY UsersAssumption, FS_CardinalityType
<1> QED BY <1>2, <1>3

(* Positive positions make non-negative pools, and no position is larger   *)
(* than the pool it is in.                                                 *)
LEMMA SidePoolNat ==
  ASSUME NEW row \in PositionRows, NEW side,
         \A u \in Users : row[u] # None => row[u].amount > 0
  PROVE  /\ SidePool(row, side) \in Nat
         /\ \A u \in Users : row[u] # None /\ row[u].side = side
                               => row[u].amount <= SidePool(row, side)
<1>1. \A u \in Users : SideStake(row, side)[u] \in Nat
  <2>1. Amounts \subseteq Int
    BY AmountsAssumption DEF I128
  <2>2. \A u \in Users : row[u] # None => row[u].amount \in Int
    BY <2>1 DEF PositionRows, UserPosition
  <2> QED BY <2>2 DEF SideStake
<1>2. /\ SidePool(row, side) \in Nat
      /\ \A u \in Users : SideStake(row, side)[u] <= SidePool(row, side)
  BY <1>1, SumNat, UsersAssumption DEF SidePool
<1> QED BY <1>2 DEF SideStake

(* One changed position changes the pools by the difference.               *)
LEMMA SidePoolChanges ==
  ASSUME NEW row \in PositionRows, NEW user \in Users, NEW e \in UserPosition \cup {None},
         NEW side
  PROVE  SidePool([row EXCEPT ![user] = e], side) =
           SidePool(row, side) - SideStake(row, side)[user]
           + (IF e # None /\ e.side = side THEN e.amount ELSE 0)
<1> DEFINE new == [row EXCEPT ![user] = e]
           f   == SideStake(row, side)
           g   == SideStake(new, side)
<1>1. new \in PositionRows
  BY DEF PositionRows
<1>2. \A u \in Users : f[u] \in Int /\ g[u] \in Int
  BY <1>1, SideStakeInt
<1>3. \A u \in Users \ {user} : g[u] = f[u]
  BY DEF SideStake, PositionRows
<1>4. g[user] = IF e # None /\ e.side = side THEN e.amount ELSE 0
  BY DEF SideStake, PositionRows
<1> HIDE DEF f, g
<1>5. SumFunctionOnSet(g, Users) = SumFunctionOnSet(f, Users) - f[user] + g[user]
  <2>1. IsFiniteSet(Users)
    BY UsersAssumption
  <2> QED BY <1>2, <1>3, <2>1, SumChanges
<1> QED BY <1>4, <1>5 DEF SidePool, f, g

(* The pools of every live round, also of a Precision round, which has     *)
(* neither positions nor pools.                                            *)
PoolsSum ==
  \A r \in Live : /\ RoundRecord(r).pool_up = SidePool(position[r], "Up")
                  /\ RoundRecord(r).pool_down = SidePool(position[r], "Down")

(* A fresh contract has no live round, so no pool to compare.              *)
LEMMA InitPoolsSum == Init => PoolsSum
BY DEF Init, PoolsSum, Live, Disputed

(* A live round keeps its record when no round is replaced.                *)
LEMMA SameRecord ==
  ASSUME TypeOK, RoundIdentity, [Next]_vars, NEW r \in Live', r \in Live,
         activeRound' \in {activeRound, None} \/ activeRound = None
                                              \/ r # activeRound.round_id
  PROVE  RoundRecord(r)' = RoundRecord(r)
<1>1. \A x \in Round : x # None
  BY OptionAssumption
<1> QED BY <1>1, RecordSteps DEF ChangesPools

(* The pool of a side after a bet or an early exit.                        *)
LEMMA PoolAfterPools ==
  ASSUME NEW round \in Round, NEW side \in Sides, NEW delta \in Int
  PROVE  /\ PoolAfter(round, side, delta).pool_up =
              round.pool_up + IF side = "Up" THEN delta ELSE 0
         /\ PoolAfter(round, side, delta).pool_down =
              round.pool_down + IF side = "Down" THEN delta ELSE 0
BY AmountsAssumption DEF PoolAfter, Round, Sides, I128

(* A step keeps the pools equal to the positions under them.               *)
LEMMA NextPoolsSum ==
  ASSUME StakeInv, PoolsSum, [Next]_vars
  PROVE  PoolsSum'
<1> DEFINE Matches(round, row) == /\ round.pool_up = SidePool(row, "Up")
                                  /\ round.pool_down = SidePool(row, "Down")
           a == activeRound.round_id
           Gain(e, s) == IF e # None /\ e.side = s THEN e.amount ELSE 0
           Moves(user, side, delta, e) ==
             /\ activeRound # None
             /\ activeRound' = PoolAfter(activeRound, side, delta) /\ activeRound' \in Round
             /\ position' = [position EXCEPT ![a][user] = e]
             /\ \A s \in Sides : (IF s = side THEN delta ELSE 0) =
                                  Gain(e, s) - SideStake(position[a], s)[user]
<1> SUFFICES ASSUME NEW r \in Live'
             PROVE  Matches(RoundRecord(r)', position'[r])
  BY DEF PoolsSum
<1>1. /\ TypeOK /\ RoundIdentity /\ TypeOK' /\ RoundIdentity'
      /\ position \in [RoundIds -> PositionRows] /\ position' \in [RoundIds -> PositionRows]
  BY NextStakeInv DEF StakeInv, TypeOK, StakeTypeOK, PositionRows
<1>2. r \in RoundIds
  BY <1>1 DEF Live, Disputed, TypeOK, RoundTypeOK, Round
<1>3. ASSUME r \in Live
      PROVE  Matches(RoundRecord(r), position[r])
  BY <1>3 DEF PoolsSum
<1>4. CASE r \notin Live
  <2>1. OpensRound /\ r = lastRoundId + 1 /\ RoundRecord(r)' = activeRound'
    BY <1>1, <1>4, RecordSteps
  <2>2. \A u \in Users : position'[r][u] = None
    <3>1. participants[r] = {} /\ participants' = participants
      BY <1>1, <1>2, <2>1, BoundsAssumption
         DEF StakeInv, FreshRounds, OpensRound, stakeVars, TypeOK, RoundTypeOK, RoundIds
    <3> QED BY <1>2, <3>1, NextStakeInv DEF StakeInv, ParticipantsMatchStakes
  <2>3. SidePool(position'[r], "Up") = 0 /\ SidePool(position'[r], "Down") = 0
    BY <1>1, <1>2, <2>2, EmptySide
  <2> QED BY <2>1, <2>3 DEF OpensRound
<1>5. ASSUME r \in Live, position'[r] = position[r],
             \/ activeRound' \in {activeRound, None} \/ activeRound = None \/ r # a
      PROVE  Matches(RoundRecord(r)', position'[r])
  BY <1>1, <1>3, <1>5, SameRecord
<1> HIDE DEF Matches
<1>6. CASE r \in Live /\ LeavesStakes
  <2>1. position' = position /\ (activeRound = None \/ activeRound' \in {activeRound, None})
    BY <1>6 DEF LeavesStakes, stakeVars, OpensRound
  <2> QED BY <1>5, <1>6, <2>1
<1>7. ASSUME r \in Live, NEW q \in RoundIds, NEW records, EndsRound(q, records)
      PROVE  Matches(RoundRecord(r)', position'[r])
  <2>1. q # r /\ position' = Cleared(position, q) /\ activeRound' \in {activeRound, None}
    BY <1>7 DEF EndsRound, ClearRoundStorage
  <2>2. position'[r] = position[r]
    BY <1>1, <1>2, <2>1 DEF Cleared
  <2> QED BY <1>5, <1>7, <2>1, <2>2
<1>8. ASSUME r \in Live, UNCHANGED <<position, activeRound>>
      PROVE  Matches(RoundRecord(r)', position'[r])
  BY <1>5, <1>8
<1>9. ASSUME r \in Live, NEW user \in Users, NEW side \in Sides, NEW delta \in Int,
             NEW e \in UserPosition \cup {None}, Moves(user, side, delta, e)
      PROVE  Matches(RoundRecord(r)', position'[r])
  <2>1. /\ activeRound \in Round /\ a \in RoundIds /\ a \in Live
        /\ RoundRecord(a) = activeRound
    BY <1>1, <1>9, ActiveIsLive
  <2>2. CASE r # a
    BY <1>1, <1>2, <1>5, <1>9, <2>2
  <2>3. CASE r = a
    <3>1. activeRound' # None /\ activeRound'.round_id = a
      BY <1>9, <2>1, PoolAfterKeepsId, OptionAssumption
    <3>2. RoundRecord(r)' = activeRound'
      BY <1>1, <2>1, <2>3, <3>1 DEF RoundRecord, Disputed, RoundIdentity
    <3>3. position'[r] = [position[r] EXCEPT ![user] = e] /\ position[r] \in PositionRows
      BY <1>1, <1>9, <2>1, <2>3
    <3>4. ASSUME NEW s \in Sides
          PROVE  SidePool(position'[r], s) =
                   SidePool(position[r], s) + IF s = side THEN delta ELSE 0
      <4>1. SidePool(position'[r], s) =
              SidePool(position[r], s) - SideStake(position[r], s)[user]
              + (IF e # None /\ e.side = s THEN e.amount ELSE 0)
        <5>1. SidePool([position[r] EXCEPT ![user] = e], s) =
                SidePool(position[r], s) - SideStake(position[r], s)[user]
                + (IF e # None /\ e.side = s THEN e.amount ELSE 0)
          BY <1>9, <3>3, SidePoolChanges
        <5> QED BY <3>3, <5>1, Zenon
      <4>2. SidePool(position[r], s) \in Int /\ SideStake(position[r], s)[user] \in Int
        <5>1. \A u \in Users : SideStake(position[r], s)[u] \in Int
          BY <3>3, SideStakeInt
        <5>2. IsFiniteSet(Users)
          BY UsersAssumption
        <5> QED BY <5>1, <5>2, <1>9, SumInt DEF SidePool
      <4>3. (IF e # None /\ e.side = s THEN e.amount ELSE 0) \in Int
        BY <1>9, AmountsAssumption DEF UserPosition, I128
      <4> QED BY <1>9, <2>3, <4>1, <4>2, <4>3
    <3>5. /\ activeRound'.pool_up = activeRound.pool_up + IF side = "Up" THEN delta ELSE 0
          /\ activeRound'.pool_down = activeRound.pool_down + IF side = "Down" THEN delta ELSE 0
      BY <1>9, <2>1, PoolAfterPools
    <3>6. Matches(activeRound, position[r])
      BY <1>3, <2>1, <2>3
    <3> QED BY <3>2, <3>4, <3>5, <3>6 DEF Matches, Sides
  <2> QED BY <2>2, <2>3
<1>10. ASSUME r \in Live, NEW user \in Users, NEW amount \in Amounts, NEW side \in Sides,
              place_bet(user, amount, side)
       PROVE  Matches(RoundRecord(r)', position'[r])
  <2> DEFINE e == [amount |-> amount, side |-> side]
  <2>1. /\ activeRound # None /\ activeRound' = PoolAfter(activeRound, side, amount)
        /\ activeRound' \in Round /\ position[a][user] = None
        /\ position' = [position EXCEPT ![a][user] = e]
    BY <1>10 DEF place_bet, StakeAllowed
  <2>2. amount \in Int /\ e \in UserPosition /\ e # None /\ e.side = side /\ e.amount = amount
    <3>1. e \in UserPosition
      BY DEF UserPosition
    <3> QED BY <3>1, AmountsAssumption, OptionAssumption DEF I128
  <2>3. \A s \in Sides : SideStake(position[a], s)[user] = 0
    BY <2>1 DEF SideStake
  <2> HIDE DEF e
  <2>4. Moves(user, side, amount, e)
    BY <2>1, <2>2, <2>3
  <2> HIDE DEF Moves
  <2> QED BY <1>9, <1>10, <2>2, <2>4
<1>11. ASSUME r \in Live, NEW user \in Users, cash_out_early(user)
       PROVE  Matches(RoundRecord(r)', position'[r])
  <2> DEFINE p == position[a][user]
  <2>1. /\ activeRound # None /\ activeRound' = PoolAfter(activeRound, p.side, -p.amount)
        /\ activeRound' \in Round /\ p # None
        /\ position' = [position EXCEPT ![a][user] = None]
    BY <1>11 DEF cash_out_early, RemovePosition
  <2>2. p \in UserPosition /\ p.side \in Sides /\ p.amount \in Int /\ -p.amount \in Int
    <3>1. p \in UserPosition
      BY <1>1, <2>1, ActiveIsLive DEF PositionRows
    <3>2. p.side \in Sides /\ p.amount \in Amounts
      BY <3>1 DEF UserPosition
    <3>3. p.amount \in Int
      BY <3>2, AmountsInt
    <3> HIDE DEF p
    <3> QED BY <3>1, <3>2, <3>3
  <2>3. \A s \in Sides : SideStake(position[a], s)[user] = IF p.side = s THEN p.amount ELSE 0
    BY <2>1 DEF SideStake
  <2> HIDE DEF p
  <2>4. Moves(user, p.side, -p.amount, None)
    BY <2>1, <2>2, <2>3
  <2> HIDE DEF Moves
  <2> QED BY <1>9, <1>11, <2>2, <2>4
<1>12. CASE r \in Live
  <2>1. \A user \in Users, amount \in Amounts, price \in Prices :
          /\ place_precision_prediction(user, amount, price) => UNCHANGED <<position, activeRound>>
          /\ commit_prediction(user, amount, price) => UNCHANGED <<position, activeRound>>
    BY DEF place_precision_prediction, commit_prediction, roundVars
  <2>2. \A user \in Users, price \in Prices :
          reveal_prediction(user, price) => UNCHANGED <<position, activeRound>>
    BY DEF reveal_prediction, roundVars
  <2> QED BY <1>1, <1>6, <1>7, <1>8, <1>10, <1>11, <1>12, <2>1, <2>2, StakeSteps
<1> QED BY <1>4, <1>12

(* The two pools a live Up/Down round pays from are the sums of the        *)
(* positions on either side, whatever the bets, the early exits and the    *)
(* copy that a dispute window keeps.                                       *)
THEOREM PoolsAreStakes == Spec => []PoolsMatchPositions
<1>1. StakeInv /\ PoolsSum => PoolsMatchPositions
  <2> SUFFICES ASSUME StakeInv, PoolsSum, NEW r \in Live
               PROVE  LET on(side) == {u \in Users : position[r][u] # None
                                                     /\ position[r][u].side = side}
                          sum(side) == SumFunction([u \in on(side) |-> position[r][u].amount])
                      IN  /\ RoundRecord(r).pool_up = sum("Up")
                          /\ RoundRecord(r).pool_down = sum("Down")
    BY DEF PoolsMatchPositions
  <2>1. position[r] \in PositionRows
    BY LiveRecords DEF StakeInv, TypeOK, StakeTypeOK, PositionRows
  <2> QED BY <2>1, SideSum DEF PoolsSum
<1> QED BY <1>1, InitStakeInv, NextStakeInv, InitPoolsSum, NextPoolsSum, PTL DEF Spec
-----------------------------------------------------------------------------
(***************************************************************************)
(* What a settlement pays.  Rows over all users keep the sums comparable.  *)
(***************************************************************************)
StakeRow(r) == [u \in Users |-> StakeIn(r, u)]

(* What a settlement's records pay each user.                              *)
PayoutRow(records) ==
  [u \in Users |-> IF u \in DOMAIN records THEN records[u].payout ELSE 0]

(* What a settlement takes from the stakes and gives to nobody.            *)
Lost(r, records, fee) ==
  SumFunctionOnSet(StakeRow(r), Users) - SumFunctionOnSet(PayoutRow(records), Users) - fee

(* A fair settlement reaches every participant, takes nothing back from    *)
(* anybody, and loses nothing but the dust of an Up/Down win.              *)
Fair(r, records, fee) ==
  /\ DOMAIN records = participants[r]
  /\ \A u \in participants[r] : /\ records[u].payout \in Nat
                                /\ records[u].kind = "Loss" => records[u].payout = 0
  /\ fee \in Nat
  /\ Lost(r, records, fee) \in Nat
  /\ \/ Lost(r, records, fee) = 0
     \/ /\ Lost(r, records, fee) < Cardinality(participants[r])
        /\ RoundRecord(r).mode = "UpDown"
        /\ \E u \in participants[r] : records[u].kind = "Win"

(* The users of an instance are finitely many, so sums over them exist.    *)
LEMMA UsersFinite == IsFiniteSet(Users)
BY UsersAssumption

(* A user has something at stake exactly when listed as a participant.     *)
LEMMA StakeInNat ==
  ASSUME StakeInv, NEW r \in RoundIds, NEW u \in Users
  PROVE  StakeIn(r, u) \in Nat /\ (StakeIn(r, u) > 0 <=> u \in participants[r])
<1>1. KeysSound(r, u)
  BY KeysFromInv
<1>2. /\ position[r][u] # None => position[r][u].amount \in Int
      /\ prediction[r][u] # None => prediction[r][u].amount \in Int
      /\ commitment[r][u] # None => commitment[r][u].amount \in Int
  <2>1. /\ position[r][u] \in UserPosition \cup {None}
        /\ prediction[r][u] \in PrecisionPrediction \cup {None}
        /\ commitment[r][u] \in PrecisionCommitment \cup {None}
    BY DEF StakeInv, TypeOK, StakeTypeOK
  <2>2. /\ position[r][u] # None => position[r][u].amount \in Amounts
        /\ prediction[r][u] # None => prediction[r][u].amount \in Amounts
        /\ commitment[r][u] # None => commitment[r][u].amount \in Amounts
    BY <2>1 DEF UserPosition, PrecisionPrediction, PrecisionCommitment
  <2> QED BY <2>2, AmountsInt
<1> QED BY <1>1, <1>2 DEF KeysSound, KeysListed, StakeIn

(* Every participant is refunded.                                          *)
LEMMA AllRefunded ==
  ASSUME StakeInv, NEW r \in RoundIds
  PROVE  Refunded(r) = participants[r] /\ participants[r] \subseteq Users
<1>1. participants[r] \subseteq Users
  BY DEF StakeInv, TypeOK, StakeTypeOK
<1> QED BY <1>1, StakeInNat DEF Refunded

(* The stakes of a round sum to a natural number, over the participants as *)
(* over all users.                                                         *)
LEMMA StakesSum ==
  ASSUME StakeInv, NEW r \in RoundIds
  PROVE  /\ SumFunctionOnSet(StakeRow(r), Users) \in Nat
         /\ SumFunction(StakesOf(r)) = SumFunctionOnSet(StakeRow(r), Users)
<1> DEFINE f == StakeRow(r)
           g == StakesOf(r)
<1>1. participants[r] \in SUBSET Users /\ DOMAIN g = participants[r]
  BY AllRefunded DEF StakesOf
<1>2. \A u \in Users : f[u] \in Nat
  BY StakeInNat DEF StakeRow
<1>3. \A u \in participants[r] : g[u] \in Int /\ f[u] = g[u]
  BY <1>1, StakeInNat DEF StakeRow, StakesOf
<1>4. \A u \in Users \ participants[r] : f[u] = 0
  BY StakeInNat DEF StakeRow
<1> HIDE DEF f, g
<1>5. SumFunctionOnSet(f, Users) = SumFunctionOnSet(g, participants[r])
  BY <1>1, <1>3, <1>4, UsersFinite, SumRestricts
<1>6. SumFunctionOnSet(f, Users) \in Nat
  BY <1>2, UsersFinite, SumNat
<1> QED BY <1>1, <1>5, <1>6 DEF f, g, SumFunction

(* Refunds are fair: everybody gets the stake back and nothing is lost.    *)
LEMMA RefundsFair ==
  ASSUME StakeInv, NEW r \in RoundIds, NEW kind, kind # "Loss"
  PROVE  Fair(r, RefundRecords(r, kind), 0) /\ Lost(r, RefundRecords(r, kind), 0) = 0
<1> DEFINE records == RefundRecords(r, kind)
           f == StakeRow(r)
           g == PayoutRow(records)
<1>1. /\ DOMAIN records = participants[r]
      /\ \A u \in participants[r] : /\ records[u].payout = StakeIn(r, u)
                                    /\ records[u].kind = kind
  BY AllRefunded DEF RefundRecords
<1>2. \A u \in participants[r] : u \in Users /\ StakeIn(r, u) \in Nat
  BY AllRefunded, StakeInNat
<1> HIDE DEF records
<1>3. \A u \in Users : f[u] = g[u]
  <2>1. \A u \in Users : u \notin participants[r] => StakeIn(r, u) = 0
    BY StakeInNat
  <2> QED BY <1>1, <2>1 DEF StakeRow, PayoutRow
<1> HIDE DEF f, g
<1>4. SumFunctionOnSet(f, Users) = SumFunctionOnSet(g, Users)
  BY <1>3, UsersFinite, SumAgrees
<1>5. SumFunctionOnSet(f, Users) \in Nat
  BY StakesSum DEF f
<1>6. Lost(r, records, 0) = 0
  BY <1>4, <1>5 DEF Lost, f, g
<1> QED BY <1>1, <1>2, <1>6 DEF Fair, records

(* The configured fee of an Up/Down round conserves its pools.             *)
LEMMA PoolFee ==
  ASSUME TypeOK, NEW winning \in Nat, NEW losing \in Nat
  PROVE  LET net == ProtocolFeeUpdown(config.feeBps, config.feeModel, winning, losing)
         IN  /\ net.winning \in Nat /\ net.losing \in Nat /\ net.fee \in Nat
             /\ net.winning + net.losing + net.fee = winning + losing
<1> DEFINE b == config.feeBps
           m == config.feeModel
<1>1. b \in Rate \cup {None} /\ m \in {"FeeOnPot", "FeeOnWinnings"}
  BY ConfigTyped DEF TypeOK, Config, Rate
<1> HIDE DEF b, m
<1>2. LET net == ProtocolFeeUpdown(b, m, winning, losing)
      IN  /\ net.winning \in Nat /\ net.losing \in Nat /\ net.fee \in Nat
          /\ net.winning + net.losing + net.fee = winning + losing
  BY <1>1, UpdownFeeConserves
<1> QED BY <1>2 DEF b, m

(* A won Up/Down round is settled fairly: the winners share what the fee   *)
(* leaves of both pools, the losers get nothing.                           *)
LEMMA WinsFair ==
  ASSUME StakeInv, NEW r \in Live, RoundRecord(r).mode = "UpDown",
         NEW side \in Sides, NEW other \in Sides, other # side,
         NEW winning, winning = SidePool(position[r], side), winning # 0,
         NEW losing, losing = SidePool(position[r], other)
  PROVE  LET result == WinningRecords(r, side, winning, losing)
         IN  Fair(r, result.records, result.fee)
<1> DEFINE row     == position[r]
           net     == ProtocolFeeUpdown(config.feeBps, config.feeModel, winning, losing)
           T       == net.winning + net.losing
           win     == {u \in participants[r] : row[u].side = side}
           stake   == StakeRow(r)
           records == WinningRecords(r, side, winning, losing).records
           paid    == PayoutRow(records)
           on      == SideStake(row, side)
           off     == SideStake(row, other)
<1>1. r \in RoundIds /\ row \in PositionRows /\ participants[r] \subseteq Users
  BY LiveRecords DEF StakeInv, TypeOK, StakeTypeOK, PositionRows
<1>2. \A u \in Users : /\ u \in participants[r] <=> row[u] # None
                       /\ row[u] # None => /\ row[u].amount > 0 /\ StakeIn(r, u) = row[u].amount
                                           /\ row[u].side \in Sides
                       /\ row[u] = None => StakeIn(r, u) = 0
  <2> SUFFICES ASSUME NEW u \in Users
               PROVE  /\ u \in participants[r] <=> row[u] # None
                      /\ row[u] # None => /\ row[u].amount > 0
                                          /\ StakeIn(r, u) = row[u].amount
                                          /\ row[u].side \in Sides
                      /\ row[u] = None => StakeIn(r, u) = 0
    OBVIOUS
  <2>1. KeysSound(r, u) /\ KeysOfMode(r, u, "UpDown")
    BY <1>1, KeysFromInv
  <2>2. row[u] # None => row[u].side \in Sides
    BY <1>1 DEF PositionRows, UserPosition
  <2> QED BY <2>1, <2>2 DEF KeysSound, KeysListed, KeysOfMode, StakeIn
<1>3. winning \in Nat \ {0} /\ losing \in Nat
  BY <1>1, <1>2, SidePoolNat
<1>4. /\ net.winning \in Nat /\ net.losing \in Nat /\ net.fee \in Nat
      /\ net.winning + net.losing + net.fee = winning + losing
  BY <1>3, PoolFee DEF StakeInv
<1>5. /\ DOMAIN records = participants[r]
      /\ WinningRecords(r, side, winning, losing).fee = net.fee
      /\ \A u \in participants[r] :
           /\ records[u].kind = IF u \in win THEN "Win" ELSE "Loss"
           /\ records[u].payout = IF u \in win THEN UpdownWinnerPayout(StakeIn(r, u), winning, T)
                                  ELSE 0
  BY <1>3 DEF WinningRecords
<1> HIDE DEF net, records
<1>6. \A u \in Users : /\ on[u] \in Int /\ off[u] \in Int /\ stake[u] = on[u] + off[u]
                       /\ stake[u] \in Nat
                       /\ u \in win => stake[u] = on[u]
                       /\ u \notin win => on[u] = 0
  <2>1. \A u \in Users : on[u] \in Int /\ off[u] \in Int
    BY <1>1, SideStakeInt
  <2>2. \A u \in Users : stake[u] = StakeIn(r, u) /\ stake[u] \in Nat
    BY <1>1, StakeInNat DEF StakeRow
  <2>3. \A u \in Users : row[u] # None => row[u].side = side \/ row[u].side = other
    BY <1>2 DEF Sides
  <2> QED BY <1>1, <1>2, <2>1, <2>2, <2>3 DEF SideStake
<1>7. /\ \A u \in win : paid[u] = UpdownWinnerPayout(stake[u], winning, T)
      /\ \A u \in Users \ win : paid[u] = 0
      /\ win \in SUBSET Users /\ IsFiniteSet(win)
  <2>1. win \in SUBSET Users /\ IsFiniteSet(win)
    BY <1>1, UsersFinite, FS_Subset
  <2> QED BY <1>1, <1>5, <2>1 DEF PayoutRow, StakeRow
<1> HIDE DEF stake, paid, on, off, win
<1>8. SumFunctionOnSet(stake, Users) = winning + losing
  <2>1. SumFunctionOnSet(stake, Users) = SumFunctionOnSet(on, Users) + SumFunctionOnSet(off, Users)
    BY <1>6, UsersFinite, SumAdds
  <2> QED BY <2>1 DEF SidePool, on, off
<1>9. winning = SumFunctionOnSet(stake, win)
  <2>1. \A u \in win : stake[u] \in Int /\ on[u] = stake[u]
    BY <1>6, <1>7
  <2>2. \A u \in Users \ win : on[u] = 0
    BY <1>6
  <2>3. SumFunctionOnSet(on, Users) = SumFunctionOnSet(stake, win)
    BY <1>7, <2>1, <2>2, UsersFinite, SumRestricts
  <2> QED BY <2>3 DEF SidePool, on
<1>10. /\ \A u \in win : paid[u] \in Nat
       /\ SumFunctionOnSet(paid, win) \in Nat
       /\ SumFunctionOnSet(paid, win) <= T
       /\ T - SumFunctionOnSet(paid, win) < Cardinality(win)
  <2>1. T \in Nat /\ \A u \in win : stake[u] \in Nat
    BY <1>4, <1>6, <1>7
  <2> HIDE DEF T
  <2> QED BY <1>3, <1>7, <1>9, <2>1, UpdownSharesFit
<1>11. SumFunctionOnSet(paid, Users) = SumFunctionOnSet(paid, win)
  <2>1. \A u \in win : paid[u] \in Int /\ paid[u] = paid[u]
    BY <1>10
  <2> QED BY <1>7, <2>1, UsersFinite, SumRestricts
<1>12. win # {} /\ Cardinality(win) <= Cardinality(participants[r])
       /\ Cardinality(win) \in Nat /\ Cardinality(participants[r]) \in Nat
  <2>1. win # {}
    BY <1>3, <1>9, SumEmpty
  <2>2. win \subseteq participants[r] /\ IsFiniteSet(participants[r])
    BY <1>1, UsersFinite, FS_Subset DEF win
  <2> QED BY <1>7, <2>1, <2>2, FS_Subset, FS_CardinalityType
<1>13. Lost(r, records, net.fee) = T - SumFunctionOnSet(paid, win)
  BY <1>3, <1>4, <1>8, <1>10, <1>11 DEF Lost, stake, paid
<1>14. \A u \in participants[r] : /\ records[u].payout \in Nat
                                  /\ records[u].kind = "Loss" => records[u].payout = 0
  BY <1>1, <1>5, <1>10 DEF PayoutRow, paid
<1>15. \E u \in participants[r] : records[u].kind = "Win"
  BY <1>5, <1>12 DEF win
<1>16. /\ Lost(r, records, net.fee) \in Nat
       /\ Lost(r, records, net.fee) < Cardinality(participants[r])
  BY <1>4, <1>10, <1>12, <1>13
<1>17. Fair(r, records, net.fee)
  BY <1>4, <1>5, <1>14, <1>15, <1>16 DEF Fair
<1> QED BY <1>5, <1>17 DEF records

(* The revealed guesses closest to the price are those of participants.    *)
LEMMA ClosestAreParticipants ==
  ASSUME StakeInv, NEW r \in RoundIds, NEW price
  PROVE  LET revealed == {u \in participants[r] : prediction[r][u] # None}
         IN  ClosestGuesses([u \in revealed |-> prediction[r][u].price], price)
               \subseteq participants[r]
BY DEF ClosestGuesses

(* A Precision round is settled fairly and without any loss: the remainder *)
(* of the divisions is paid out too.                                       *)
LEMMA PrecisionFair ==
  ASSUME StakeInv, NEW round \in Round, NEW price
  PROVE  LET result == PrecisionSettlement(round, price)
             r      == round.round_id
         IN  Fair(r, result.records, result.fee) /\ Lost(r, result.records, result.fee) = 0
<1> DEFINE r        == round.round_id
           stake    == StakesOf(r)
           pot      == SumFunction(stake)
           revealed == {u \in participants[r] : prediction[r][u] # None}
           winners  == ClosestGuesses([u \in revealed |-> prediction[r][u].price], price)
           net      == ProtocolFeePrecision(config.feeBps, config.feeModel, pot,
                                            SumFunctionOnSet(stake, winners))
           payout   == PrecisionPayouts(config.payoutPolicy, stake, winners, net.distributable)
           records  == [u \in participants[r] |->
                          IF u \in winners
                          THEN [kind |-> "Win", stake |-> stake[u], payout |-> payout[u]]
                          ELSE [kind |-> "Loss", stake |-> stake[u], payout |-> 0]]
           paid     == PayoutRow(records)
<1>1. r \in RoundIds
  BY DEF Round
<1>2. CASE ~ (winners # {} /\ pot > 0)
  <2>1. PrecisionSettlement(round, price) = [records |-> RefundRecords(r, "Refund"), fee |-> 0]
    BY <1>2 DEF PrecisionSettlement
  <2> QED BY <1>1, <2>1, RefundsFair
<1>3. CASE winners # {} /\ pot > 0
  <2>1. PrecisionSettlement(round, price) = [records |-> records, fee |-> net.fee]
    BY <1>3 DEF PrecisionSettlement
  <2>2. /\ participants[r] \subseteq Users /\ IsFiniteSet(participants[r])
        /\ winners \in SUBSET participants[r] /\ IsFiniteSet(winners)
        /\ \A u \in winners : u \in Nat
    <3>1. participants[r] \subseteq Users
      BY <1>1, AllRefunded
    <3>2. winners \subseteq participants[r]
      BY <1>1, ClosestAreParticipants
    <3> HIDE DEF winners
    <3> QED BY <3>1, <3>2, FS_Subset, UsersAssumption
  <2>3. /\ DOMAIN stake = participants[r]
        /\ \A u \in participants[r] : stake[u] \in Nat /\ stake[u] > 0
    BY <1>1, <2>2, StakeInNat DEF StakesOf
  <2>4. pot = SumFunctionOnSet(stake, participants[r]) /\ pot \in Nat
    <3>1. pot = SumFunctionOnSet(stake, participants[r])
      BY <2>3 DEF SumFunction
    <3> QED BY <1>1, <3>1, StakesSum
  <2> HIDE DEF stake, winners, pot
  <2>5. SumFunctionOnSet(stake, winners) \in 1 .. pot
    <3> DEFINE W == SumFunctionOnSet(stake, winners)
               part == [u \in participants[r] |-> IF u \in winners THEN stake[u] ELSE 0]
    <3>1. W \in Nat /\ W > 0
      <4>1. \A u \in winners : stake[u] \in Nat /\ stake[u] > 0
        BY <2>2, <2>3
      <4>2. W \in Nat /\ \A u \in winners : stake[u] <= W
        BY <2>2, <4>1, SumNat
      <4> HIDE DEF W
      <4> QED BY <1>3, <4>1, <4>2
    <3>2. /\ \A u \in winners : stake[u] \in Int /\ part[u] = stake[u]
          /\ \A u \in participants[r] \ winners : part[u] = 0
          /\ \A u \in participants[r] : part[u] \in Int /\ stake[u] \in Int /\ part[u] <= stake[u]
      BY <2>2, <2>3
    <3> HIDE DEF part
    <3>3. SumFunctionOnSet(part, participants[r]) = W
      BY <2>2, <3>2, SumRestricts
    <3>4. SumFunctionOnSet(part, participants[r]) <= SumFunctionOnSet(stake, participants[r])
      BY <2>2, <3>2, SumMonotone
    <3> HIDE DEF W
    <3>5. W \in 1 .. pot
      BY <2>4, <3>1, <3>3, <3>4
    <3> QED BY <3>5 DEF W
  <2>6. /\ net.fee \in Nat /\ net.distributable \in Nat
        /\ net.distributable + net.fee = pot
    <3> DEFINE b == config.feeBps
               m == config.feeModel
               W == SumFunctionOnSet(stake, winners)
    <3>1. b \in Rate \cup {None} /\ m \in {"FeeOnPot", "FeeOnWinnings"}
      BY ConfigTyped DEF StakeInv, TypeOK, Config, Rate
    <3>2. W \in 0 .. pot
      BY <2>4, <2>5
    <3> HIDE DEF b, m, W
    <3>3. LET n == ProtocolFeePrecision(b, m, pot, W)
          IN  n.fee \in Nat /\ n.distributable \in Nat /\ n.distributable + n.fee = pot
      BY <2>4, <3>1, <3>2, PrecisionFeeConserves
    <3> QED BY <3>3 DEF b, m, W
  <2> HIDE DEF net
  <2>7. /\ \A u \in winners : payout[u] \in Nat
        /\ SumFunctionOnSet(payout, winners) = net.distributable
    <3> DEFINE policy == config.payoutPolicy
               pool   == net.distributable
    <3>1. policy \in {"Equal", "StakeWeighted"}
      BY ConfigTyped DEF StakeInv, TypeOK, Config
    <3>2. /\ \A u \in winners : stake[u] \in Nat
          /\ SumFunctionOnSet(stake, winners) > 0 /\ pool \in Nat
      BY <2>2, <2>3, <2>5, <2>6
    <3> HIDE DEF policy, pool
    <3>3. LET p == PrecisionPayouts(policy, stake, winners, pool)
          IN  (\A u \in winners : p[u] \in Nat) /\ SumFunctionOnSet(p, winners) = pool
      <4>1. winners # {} /\ IsFiniteSet(winners) /\ \A u \in winners : u \in Nat
        BY <1>3, <2>2
      <4> QED BY <3>1, <3>2, <4>1, PrecisionPotHandedOut
    <3> QED BY <3>3 DEF policy, pool
  <2> HIDE DEF payout
  <2>8. /\ DOMAIN records = participants[r]
        /\ \A u \in winners : paid[u] = payout[u] /\ paid[u] \in Int
        /\ \A u \in Users \ winners : paid[u] = 0
        /\ \A u \in participants[r] : /\ records[u].payout \in Nat
                                      /\ records[u].kind = "Loss" => records[u].payout = 0
    BY <2>2, <2>7 DEF PayoutRow
  <2> HIDE DEF records, paid
  <2>9. SumFunctionOnSet(paid, Users) = net.distributable
    <3>1. winners \in SUBSET Users
      BY <2>2
    <3>2. \A u \in winners : payout[u] \in Int /\ paid[u] = payout[u]
      BY <2>7, <2>8
    <3>3. \A u \in Users \ winners : paid[u] = 0
      BY <2>8
    <3>4. SumFunctionOnSet(paid, Users) = SumFunctionOnSet(payout, winners)
      BY <3>1, <3>2, <3>3, UsersFinite, SumRestricts
    <3> QED BY <2>7, <3>4
  <2>10. SumFunctionOnSet(StakeRow(r), Users) = pot
    BY <1>1, StakesSum DEF pot, stake
  <2>11. Lost(r, records, net.fee) = 0
    BY <2>4, <2>6, <2>9, <2>10 DEF Lost, paid
  <2> QED BY <2>1, <2>6, <2>8, <2>11 DEF Fair
<1> QED BY <1>2, <1>3

(* A settlement at any price is fair, whatever the mode, fee and policy.   *)
LEMMA SettlementFair ==
  ASSUME StakeInv, PoolsSum, NEW r \in Live, NEW price \in Prices
  PROVE  LET result == Settlement(RoundRecord(r), price)
         IN  Fair(r, result.records, result.fee)
<1> DEFINE round == RoundRecord(r)
<1>1. round \in Round /\ round.round_id = r /\ r \in RoundIds
  BY LiveRecords DEF StakeInv
<1>2. CASE round.mode # "UpDown"
  BY <1>1, <1>2, PrecisionFair DEF Settlement
<1>3. CASE round.mode = "UpDown"
  <2> DEFINE direction == PriceDirection(round.price_start, price)
             refunded  == \/ direction = "Unchanged"
                          \/ IsOneSidedPool(round.pool_up, round.pool_down)
  <2>1. direction \in {"Up", "Down", "Unchanged"}
    BY DEF PriceDirection
  <2>2. /\ round.pool_up = SidePool(position[r], "Up")
        /\ round.pool_down = SidePool(position[r], "Down")
    BY DEF PoolsSum
  <2>3. CASE refunded
    <3>1. Settlement(round, price) = [records |-> RefundRecords(r, "Refund"), fee |-> 0]
      BY <1>1, <1>3, <2>3 DEF Settlement, UpdownSettlement
    <3> QED BY <1>1, <3>1, RefundsFair
  <2>4. ASSUME ~ refunded, NEW side \in Sides, NEW other \in Sides, side # other,
               NEW winning, NEW losing, winning = SidePool(position[r], side),
               losing = SidePool(position[r], other), losing = 0 <=> winning = 0,
               Settlement(round, price) = WinningRecords(r, side, winning, losing)
        PROVE  LET result == Settlement(round, price)
               IN  Fair(r, result.records, result.fee)
    <3>1. CASE winning # 0
      BY <1>3, <2>4, <3>1, WinsFair
    <3>2. CASE winning = 0
      <4>1. \A u \in Users : position[r][u] = None
        <5>1. position[r] \in PositionRows
          BY <1>1 DEF StakeInv, TypeOK, StakeTypeOK, PositionRows
        <5>2. \A u \in Users : position[r][u] # None =>
                /\ position[r][u].amount > 0 /\ position[r][u].side \in Sides
                /\ position[r][u].amount \in Int
          BY <1>1, <5>1, AmountsInt DEF PositionRows, UserPosition, StakeInv, StakesPositive
        <5>3. \A u \in Users : position[r][u] # None =>
                /\ position[r][u].side = side => position[r][u].amount <= 0
                /\ position[r][u].side = other => position[r][u].amount <= 0
          BY <2>4, <3>2, <5>1, <5>2, SidePoolNat
        <5> QED BY <2>4, <5>2, <5>3 DEF Sides
      <4>2. participants[r] = {}
        <5>1. \A u \in Users : KeysSound(r, u) /\ KeysOfMode(r, u, "UpDown")
          BY <1>1, <1>3, KeysFromInv
        <5>2. participants[r] \subseteq Users
          BY <1>1, AllRefunded
        <5> QED BY <4>1, <5>1, <5>2 DEF KeysSound, KeysListed, KeysOfMode
      <4>3. /\ WinningRecords(r, side, winning, losing).fee = 0
            /\ DOMAIN WinningRecords(r, side, winning, losing).records = {}
        BY <3>2 DEF WinningRecords
      <4>4. /\ DOMAIN RefundRecords(r, "Refund") = {}
            /\ Lost(r, RefundRecords(r, "Refund"), 0) = 0
        BY <1>1, <4>2, AllRefunded, RefundsFair DEF RefundRecords
      <4>5. PayoutRow(WinningRecords(r, side, winning, losing).records)
              = PayoutRow(RefundRecords(r, "Refund"))
        BY <4>3, <4>4 DEF PayoutRow
      <4> QED BY <2>4, <4>2, <4>3, <4>4, <4>5 DEF Fair, Lost
    <3> QED BY <3>1, <3>2
  <2>5. CASE ~ refunded /\ direction = "Up"
    <3>1. Settlement(round, price) = WinningRecords(r, "Up", round.pool_up, round.pool_down)
      BY <1>1, <1>3, <2>5 DEF Settlement, UpdownSettlement
    <3>2. round.pool_down = 0 <=> round.pool_up = 0
      BY <2>5 DEF IsOneSidedPool
    <3> QED BY <2>2, <2>4, <2>5, <3>1, <3>2 DEF Sides
  <2>6. CASE ~ refunded /\ direction = "Down"
    <3>1. Settlement(round, price) = WinningRecords(r, "Down", round.pool_down, round.pool_up)
      BY <1>1, <1>3, <2>6 DEF Settlement, UpdownSettlement
    <3>2. round.pool_down = 0 <=> round.pool_up = 0
      BY <2>6 DEF IsOneSidedPool
    <3> QED BY <2>2, <2>4, <2>6, <3>1, <3>2 DEF Sides
  <2> QED BY <2>1, <2>3, <2>5, <2>6
<1> QED BY <1>2, <1>3
-----------------------------------------------------------------------------
(***************************************************************************)
(* How pending winnings grow: by a row of credits, one per user, and an    *)
(* entry that is credited is stamped with the ledger.                      *)
(***************************************************************************)
Credits(row) ==
  /\ row \in [Users -> Nat]
  /\ \A u \in Users :
       /\ pendingWinnings'[u] = pendingWinnings[u] + row[u]
       /\ \/ pendingUpdatedAt'[u] = ledger
          \/ row[u] = 0 /\ pendingUpdatedAt'[u] = pendingUpdatedAt[u]
  /\ UNCHANGED walletVars

(* A fair settlement credits every participant with the recorded payout.   *)
LEMMA SettlesCredits ==
  ASSUME TypeOK, NEW r \in RoundIds, NEW records, NEW fee,
         Settles(r, records, fee), Fair(r, records, fee)
  PROVE  Credits(PayoutRow(records))
<1> DEFINE losers   == {u \in DOMAIN records : records[u].kind = "Loss"}
           credited == DOMAIN records \ losers
           payout   == [u \in DOMAIN records |-> records[u].payout]
<1>1. AccumulatePending(credited, payout) /\ UNCHANGED walletVars
  BY DEF Settles, ApplySettlement
<1>2. /\ DOMAIN records \subseteq Users
      /\ \A u \in DOMAIN records : /\ records[u].payout \in Nat
                                   /\ u \in losers => records[u].payout = 0
  BY DEF Fair, TypeOK, StakeTypeOK
<1>3. PayoutRow(records) \in [Users -> Nat]
  BY <1>2 DEF PayoutRow
<1>4. \A u \in Users : pendingWinnings[u] \in Int
  BY AmountsInt DEF TypeOK, PendingTypeOK
<1>5. \A u \in Users :
        /\ pendingWinnings'[u] = IF u \in credited THEN pendingWinnings[u] + payout[u]
                                 ELSE pendingWinnings[u]
        /\ pendingUpdatedAt'[u] = IF u \in credited THEN ledger ELSE pendingUpdatedAt[u]
  BY <1>1 DEF AccumulatePending
<1>6. \A u \in Users : /\ u \in credited => PayoutRow(records)[u] = payout[u]
                       /\ u \notin credited => PayoutRow(records)[u] = 0
  BY <1>2 DEF PayoutRow
<1> HIDE DEF credited
<1> QED BY <1>1, <1>3, <1>4, <1>5, <1>6 DEF Credits

(* What an early exit pays: at most the stake, the rest being the forfeit. *)
ExitRow(user) ==
  LET stake == position[activeRound.round_id][user].amount
  IN  [u \in Users |-> IF u = user THEN stake - CashoutForfeit(stake, config.cashoutBps) ELSE 0]

(* An early exit credits the user with the stake less the forfeit, and the *)
(* forfeit never exceeds the stake.                                        *)
LEMMA ExitCredits ==
  ASSUME StakeInv, NEW user \in Users, cash_out_early(user)
  PROVE  LET stake   == position[activeRound.round_id][user].amount
             forfeit == CashoutForfeit(stake, config.cashoutBps)
         IN  /\ Credits(ExitRow(user))
             /\ stake \in Nat /\ forfeit \in Nat /\ forfeit <= stake
             /\ CollectProtocolFee(forfeit)
             /\ StakeIn(activeRound.round_id, user) = stake
<1> DEFINE a       == activeRound.round_id
           stake   == position[a][user].amount
           forfeit == CashoutForfeit(stake, config.cashoutBps)
           gain    == stake - forfeit
<1>1. activeRound # None /\ position[a][user] # None /\ CollectProtocolFee(forfeit)
      /\ config.cashoutBps \in 1 .. BPS_DENOMINATOR /\ UNCHANGED walletVars
      /\ AccumulatePending(IF stake > forfeit THEN {user} ELSE {}, [u \in {user} |-> gain])
  BY DEF cash_out_early
<1>2. a \in RoundIds
  BY <1>1, ActiveIsLive DEF StakeInv
<1>3. StakeIn(a, user) = stake /\ stake \in Nat
  <2>1. StakeIn(a, user) = stake
    <3>1. position[a][user] # None
      BY <1>1
    <3>2. prediction[a][user] = None /\ commitment[a][user] = None
      BY <1>1, <1>2, KeysFromInv, ActiveIsLive DEF cash_out_early, KeysOfMode, StakeInv
    <3> QED BY <3>1, <3>2 DEF StakeIn
  <2> QED BY <1>2, <2>1, StakeInNat
<1>4. forfeit \in Nat /\ forfeit <= stake
  <2> DEFINE b == config.cashoutBps
  <2>1. b \in Rate
    <3>1. b \in 1 .. BPS_DENOMINATOR
      BY <1>1
    <3> HIDE DEF b
    <3> QED BY <3>1 DEF Rate, BPS_DENOMINATOR
  <2> HIDE DEF b, stake
  <2>2. BpsOf(stake, b) \in Nat /\ BpsOf(stake, b) <= stake
    BY <1>3, <2>1, BpsBounded
  <2> QED BY <2>2 DEF CashoutForfeit, b
<1> HIDE DEF forfeit, stake
<1>5. \A u \in Users : pendingWinnings[u] \in Int
  BY AmountsInt DEF StakeInv, TypeOK, PendingTypeOK
<1>6. ExitRow(user) = [u \in Users |-> IF u = user THEN gain ELSE 0]
  BY DEF ExitRow, forfeit, stake
<1>7. \A u \in Users :
        /\ pendingWinnings'[u] = IF stake > forfeit /\ u = user THEN pendingWinnings[u] + gain
                                 ELSE pendingWinnings[u]
        /\ pendingUpdatedAt'[u] = IF stake > forfeit /\ u = user THEN ledger
                                  ELSE pendingUpdatedAt[u]
  BY <1>1 DEF AccumulatePending
<1>8. Credits(ExitRow(user))
  BY <1>1, <1>3, <1>4, <1>5, <1>6, <1>7 DEF Credits
<1> QED BY <1>1, <1>3, <1>4, <1>8 DEF stake, forfeit

(* What the fund pays in all is within its means, and the parts of it are  *)
(* non-negative, never exceed it, and fall short of it by less than one    *)
(* unit per participant.                                                   *)
BonusRow(r, paid) ==
  [u \in Users |-> IF u \in participants[r] THEN CoverageShare(r, paid, u) ELSE 0]

(* The coverage of a cancelled round never exceeds the insurance fund, the *)
(* shares never exceed the coverage, and what rounding loses is less than  *)
(* one unit per participant.                                               *)
LEMMA CoverageFits ==
  ASSUME StakeInv, insuranceFund \in Nat, NEW r \in RoundIds, NEW reason
  PROVE  LET paid  == CoveragePaid(r, reason)
             bonus == SumFunctionOnSet(BonusRow(r, paid), Users)
         IN  /\ paid \in Nat /\ paid <= insuranceFund
             /\ \A u \in participants[r] : CoverageShare(r, paid, u) \in Nat
             /\ bonus \in Nat /\ bonus <= paid
             /\ paid = bonus \/ paid - bonus < Cardinality(participants[r])
             /\ paid = 0 => \A u \in participants[r] : CoverageShare(r, paid, u) = 0
<1> DEFINE paid  == CoveragePaid(r, reason)
           row   == BonusRow(r, paid)
           P     == participants[r]
           stake == StakesOf(r)
           owed  == [u \in Refunded(r) |-> CoverageFor(StakeIn(r, u))]
           promised == SumFunction(owed)
           total == SumFunction(stake)
           share == [u \in P |-> CoverageShare(r, paid, u)]
<1>1. Refunded(r) = P /\ P \subseteq Users /\ IsFiniteSet(P)
  BY AllRefunded, UsersFinite, FS_Subset
<1>2. \A u \in P : StakeIn(r, u) \in Nat /\ StakeIn(r, u) > 0
  BY <1>1, StakeInNat
<1>3. \A u \in P : owed[u] \in Nat
  <2> SUFFICES ASSUME NEW u \in P
               PROVE  CoverageFor(StakeIn(r, u)) \in Nat
    BY <1>1
  <2> DEFINE b == config.coverageBps
             x == StakeIn(r, u)
  <2>1. b \in Rate /\ x \in Nat
    BY <1>2, ConfigTyped DEF StakeInv, TypeOK, Config, Rate
  <2> HIDE DEF b, x
  <2>2. BpsOf(x, b) \in Nat
    BY <2>1, BpsBounded
  <2> QED BY <2>2 DEF CoverageFor, b, x
<1>4. promised \in Nat /\ (P = {} => promised = 0)
  <2>1. promised = SumFunctionOnSet(owed, P)
    BY <1>1 DEF SumFunction
  <2> HIDE DEF owed
  <2> QED BY <1>1, <1>3, <2>1, SumNat, SumEmpty
<1>5. /\ paid \in Nat /\ paid <= insuranceFund
      /\ paid # 0 => P # {}
  BY <1>4 DEF CoveragePaid, Lesser
<1>6. total = SumFunctionOnSet(stake, P) /\ total \in Nat /\ (P # {} => total > 0)
  <2>1. DOMAIN stake = P /\ \A u \in P : stake[u] = StakeIn(r, u)
    BY DEF StakesOf
  <2>2. total = SumFunctionOnSet(stake, P)
    BY <2>1 DEF SumFunction
  <2>3. \A u \in P : stake[u] \in Nat /\ stake[u] > 0
    BY <1>2, <2>1
  <2> HIDE DEF stake
  <2>4. SumFunctionOnSet(stake, P) \in Nat /\ \A u \in P : stake[u] <= SumFunctionOnSet(stake, P)
    BY <1>1, <2>3, SumNat
  <2> QED BY <2>2, <2>3, <2>4
<1> HIDE DEF paid
<1>7. SumFunctionOnSet(row, Users) = SumFunctionOnSet(share, P)
      \/ \E u \in P : share[u] \notin Int
  <2>1. /\ \A u \in P : row[u] = share[u]
        /\ \A u \in Users \ P : row[u] = 0
        /\ P \in SUBSET Users
    BY <1>1 DEF BonusRow
  <2> HIDE DEF row, share
  <2> QED BY <2>1, UsersFinite, SumRestricts
<1>8. CASE paid = 0
  <2>1. \A u \in P : share[u] = 0
    BY <1>8 DEF CoverageShare
  <2>2. Cardinality(P) \in Nat
    BY <1>1, FS_CardinalityType
  <2> HIDE DEF share
  <2>3. SumFunctionOnSet(share, P) = Cardinality(P) * 0
    <3>1. 0 \in Int
      OBVIOUS
    <3> QED BY <1>1, <2>1, <3>1, SumConstant, Zenon
  <2>4. SumFunctionOnSet(row, Users) = 0
    BY <1>7, <2>1, <2>2, <2>3
  <2>5. \A u \in P : CoverageShare(r, paid, u) = 0
    BY <2>1 DEF share
  <2> QED BY <1>5, <1>8, <2>4, <2>5 DEF paid
<1>9. CASE paid # 0
  <2>1. /\ \A u \in P : stake[u] \in Nat
        /\ \A u \in P : share[u] = (stake[u] * paid) \div SumFunctionOnSet(stake, P)
    <3> SUFFICES ASSUME NEW u \in P
                 PROVE  stake[u] \in Nat
                        /\ share[u] = (stake[u] * paid) \div SumFunctionOnSet(stake, P)
      OBVIOUS
    <3>1. stake[u] = StakeIn(r, u) /\ stake[u] \in Nat
      BY <1>2 DEF StakesOf
    <3>2. share[u] = (paid * StakeIn(r, u)) \div total
      BY <1>9 DEF CoverageShare
    <3>3. paid * StakeIn(r, u) = StakeIn(r, u) * paid
      BY <1>5, <3>1
    <3> QED BY <1>6, <3>1, <3>2, <3>3
  <2>2. SumFunctionOnSet(stake, P) > 0
    BY <1>5, <1>6, <1>9
  <2> HIDE DEF share, stake
  <2>3. /\ \A u \in P : share[u] \in Nat
        /\ SumFunctionOnSet(share, P) \in Nat
        /\ SumFunctionOnSet(share, P) <= paid
        /\ paid - SumFunctionOnSet(share, P) < Cardinality(P)
    BY <1>1, <1>5, <2>1, <2>2, FloorShares
  <2>4. SumFunctionOnSet(row, Users) = SumFunctionOnSet(share, P)
    BY <1>7, <2>3
  <2>5. \A u \in P : CoverageShare(r, paid, u) \in Nat
    BY <2>3 DEF share
  <2> QED BY <1>5, <1>9, <2>3, <2>4, <2>5 DEF paid
<1> QED BY <1>8, <1>9

(* A cancellation credits every participant with the stake and a part of   *)
(* the coverage.                                                           *)
CancelRow(r, paid) == [u \in Users |-> StakeIn(r, u) + BonusRow(r, paid)[u]]

(* A cancellation credits each staker with the stake and the share of the  *)
(* coverage.                                                               *)
LEMMA CancelCredits ==
  ASSUME StakeInv, insuranceFund \in Nat, NEW reason, cancel_round(reason)
  PROVE  Credits(CancelRow(activeRound.round_id, CoveragePaid(activeRound.round_id, reason)))
<1> DEFINE r       == activeRound.round_id
           paid    == CoveragePaid(r, reason)
           records == RefundRecords(r, "Void")
           credit  == [u \in DOMAIN records |-> records[u].payout + CoverageShare(r, paid, u)]
<1>1. activeRound # None /\ AccumulatePending(DOMAIN records, credit) /\ UNCHANGED walletVars
  BY DEF cancel_round
<1>2. r \in RoundIds
  BY <1>1, ActiveIsLive DEF StakeInv
<1>3. \A u \in participants[r] : CoverageShare(r, paid, u) \in Nat
  BY <1>2, CoverageFits
<1> HIDE DEF paid
<1>4. /\ DOMAIN records = participants[r] /\ participants[r] \subseteq Users
      /\ \A u \in participants[r] : credit[u] = StakeIn(r, u) + CoverageShare(r, paid, u)
  BY <1>2, AllRefunded DEF RefundRecords
<1>5. \A u \in Users : /\ StakeIn(r, u) \in Nat
                       /\ u \notin participants[r] => StakeIn(r, u) = 0
  BY <1>2, StakeInNat
<1> HIDE DEF records, credit
<1>6. \A u \in Users :
        /\ u \in participants[r] => /\ CancelRow(r, paid)[u] = credit[u]
                                    /\ CancelRow(r, paid)[u] \in Nat
        /\ u \notin participants[r] => CancelRow(r, paid)[u] = 0
  BY <1>3, <1>4, <1>5 DEF CancelRow, BonusRow
<1>7. CancelRow(r, paid) \in [Users -> Nat]
  <2>1. \A u \in Users : CancelRow(r, paid)[u] \in Nat
    BY <1>6
  <2>2. CancelRow(r, paid) = [u \in Users |-> CancelRow(r, paid)[u]]
    BY DEF CancelRow
  <2> QED BY <2>1, <2>2
<1>8. \A u \in Users :
        /\ pendingWinnings'[u] = IF u \in participants[r] THEN pendingWinnings[u] + credit[u]
                                 ELSE pendingWinnings[u]
        /\ pendingUpdatedAt'[u] = IF u \in participants[r] THEN ledger ELSE pendingUpdatedAt[u]
  BY <1>1, <1>4 DEF AccumulatePending
<1>9. \A u \in Users : pendingWinnings[u] \in Int
  BY AmountsInt DEF StakeInv, TypeOK, PendingTypeOK
<1>10. Credits(CancelRow(r, paid))
  BY <1>1, <1>6, <1>7, <1>8, <1>9 DEF Credits
<1> QED BY <1>10 DEF paid

(* A collected fee goes to treasury and fund, and neither shrinks.         *)
LEMMA FeeCollected ==
  ASSUME TypeOK, NEW fee \in Nat, CollectProtocolFee(fee)
  PROVE  /\ treasury' >= treasury /\ insuranceFund' >= insuranceFund
         /\ treasury' + insuranceFund' = treasury + insuranceFund + fee
<1> DEFINE b    == config.splitBps
           part == InsuranceFee(fee)
<1>1. b \in Rate
  BY ConfigTyped DEF TypeOK, Config, Rate
<1>2. BpsOf(fee, b) \in Nat
  <2> HIDE DEF b
  <2> QED BY <1>1, BpsBounded
<1>3. part \in Nat /\ part <= fee
  <2>1. part = 0 \/ part = Lesser(BpsOf(fee, b), fee)
    BY DEF InsuranceFee
  <2> HIDE DEF part, b
  <2> QED BY <1>2, <2>1 DEF Lesser
<1> HIDE DEF part
<1>4. treasury \in Int /\ insuranceFund \in Int
  BY AmountsInt DEF TypeOK, FeeTypeOK
<1>5. treasury' = treasury + (fee - part) /\ insuranceFund' = insuranceFund + part
  BY DEF CollectProtocolFee, part
<1> QED BY <1>3, <1>4, <1>5

(***************************************************************************)
(* Every step that moves money: a stake leaves a wallet, an early exit, a  *)
(* fair settlement, a cancellation, or one of the wallet's entrypoints.    *)
(***************************************************************************)
TakesStake(user, amount) ==
  /\ amount > 0 /\ HasFunds(user, amount)
  /\ TakeStake(user, amount)
  /\ UNCHANGED <<pendingVars, feeVars, outcome>>

(* The six ways a step touches money: not at all, a stake, an early exit,  *)
(* a settlement, a cancellation, a wallet or treasury operation.           *)
LEMMA MoneySteps ==
  ASSUME StakeInv, PoolsSum, [Next]_vars
  PROVE  \/ UNCHANGED <<walletVars, pendingVars, feeVars, outcome>>
         \/ \E user \in Users, amount \in Amounts : TakesStake(user, amount)
         \/ \E user \in Users : cash_out_early(user)
         \/ \E r \in RoundIds : \E records, fee :
              Settles(r, records, fee) /\ Fair(r, records, fee)
         \/ \E reason \in Reasons :
              /\ cancel_round(reason)
              /\ EndsRound(activeRound.round_id, RefundRecords(activeRound.round_id, "Void"))
         \/ Wallet
<1>1. Stake => \/ UNCHANGED <<walletVars, pendingVars, feeVars, outcome>>
               \/ \E user \in Users, amount \in Amounts : TakesStake(user, amount)
               \/ \E user \in Users : cash_out_early(user)
  <2>1. \A user \in Users, amount \in Amounts, side \in Sides :
          place_bet(user, amount, side) => TakesStake(user, amount)
    BY DEF place_bet, StakeAllowed, TakesStake, resultVars
  <2>2. \A user \in Users, amount \in Amounts, price \in Prices :
          \/ place_precision_prediction(user, amount, price)
          \/ commit_prediction(user, amount, price)
          => TakesStake(user, amount)
    BY DEF place_precision_prediction, commit_prediction, StakeAllowed, TakesStake, resultVars
  <2>3. \A user \in Users, price \in Prices :
          reveal_prediction(user, price)
            => UNCHANGED <<walletVars, pendingVars, feeVars, outcome>>
    BY DEF reveal_prediction, resultVars
  <2> QED BY <2>1, <2>2, <2>3 DEF Stake
<1>2. ASSUME EndOfRound
      PROVE  \/ UNCHANGED <<walletVars, pendingVars, feeVars, outcome>>
             \/ \E r \in RoundIds : \E records, fee :
                  Settles(r, records, fee) /\ Fair(r, records, fee)
             \/ \E reason \in Reasons :
                  /\ cancel_round(reason)
                  /\ EndsRound(activeRound.round_id,
                               RefundRecords(activeRound.round_id, "Void"))
  <2>1. LeavesAll => UNCHANGED <<walletVars, pendingVars, feeVars, outcome>>
    BY DEF LeavesAll, LeavesStakes
  <2>2. \A r \in RoundIds, kind \in {"Refund", "Void"} : Fair(r, RefundRecords(r, kind), 0)
    BY RefundsFair
  <2>3. \A r \in Live, price \in Prices :
          LET s == Settlement(RoundRecord(r), price)
          IN  r \in RoundIds /\ Fair(r, s.records, s.fee)
    BY SettlementFair, LiveRecords DEF StakeInv
  <2>4. TypeOK /\ RoundIdentity
    BY DEF StakeInv
  <2> QED BY <1>2, <2>1, <2>2, <2>3, <2>4, EndingShapes
<1>3. Administration => UNCHANGED <<walletVars, pendingVars, feeVars, outcome>>
  BY DEF Administration, set_runtime_mode, update_config, execute_set_protocol_fee_bps,
         create_round, create_next_from_template, resultVars
<1>4. Tick \/ UNCHANGED vars => UNCHANGED <<walletVars, pendingVars, feeVars, outcome>>
  BY DEF Tick, vars, resultVars
<1> QED BY <1>1, <1>2, <1>3, <1>4 DEF Next
-----------------------------------------------------------------------------
(***************************************************************************)
(* The books.  No account is overdrawn, and an entry of pending winnings   *)
(* that holds something is stamped.  The pools are in PoolsSum.            *)
(***************************************************************************)
BooksSound ==
  /\ \A u \in Users : /\ balance[u] >= 0 /\ pendingWinnings[u] >= 0
                      /\ pendingWinnings[u] # 0 => pendingUpdatedAt[u] # None
  /\ treasury >= 0 /\ insuranceFund >= 0

(* The inductive invariant about money.                                    *)
MoneyInv == StakeInv /\ PoolsSum /\ BooksSound

(* A fresh contract holds no money.                                        *)
LEMMA InitMoneyInv == Init => MoneyInv
<1>1. Init => BooksSound
  BY DEF Init, BooksSound
<1> QED BY <1>1, InitStakeInv, InitPoolsSum DEF MoneyInv

(* The books hold integers.                                                *)
LEMMA BooksInt ==
  ASSUME TypeOK
  PROVE  /\ \A u \in Users : balance[u] \in Int /\ pendingWinnings[u] \in Int
         /\ treasury \in Int /\ insuranceFund \in Int
         /\ balance \in [Users -> I128] /\ pendingWinnings \in [Users -> I128]
BY AmountsInt DEF TypeOK, WalletTypeOK, PendingTypeOK, FeeTypeOK

(* Credits keep the pending entries sound.                                 *)
LEMMA CreditsSound ==
  ASSUME TypeOK, BooksSound, NEW row, Credits(row)
  PROVE  \A u \in Users : /\ balance'[u] >= 0 /\ pendingWinnings'[u] >= 0
                          /\ pendingWinnings'[u] # 0 => pendingUpdatedAt'[u] # None
<1>1. ledger # None
  BY OptionAssumption DEF TypeOK, ClockTypeOK
<1>2. \A u \in Users : row[u] \in Nat /\ pendingWinnings[u] \in Int
  BY BooksInt DEF Credits
<1> QED BY <1>1, <1>2 DEF Credits, BooksSound, walletVars

(* Moving pending winnings to the wallets keeps the books sound.           *)
LEMMA MoveSound ==
  ASSUME TypeOK, BooksSound, NEW users \in SUBSET Users, MovePending(users), UNCHANGED feeVars
  PROVE  BooksSound'
<1> DEFINE paid == {u \in users : pendingWinnings[u] # 0}
<1>1. /\ balance' = [u \in Users |-> IF u \in paid THEN balance[u] + pendingWinnings[u]
                                     ELSE balance[u]]
      /\ pendingWinnings' = [u \in Users |-> IF u \in paid THEN 0 ELSE pendingWinnings[u]]
      /\ pendingUpdatedAt' = [u \in Users |-> IF u \in paid THEN None ELSE pendingUpdatedAt[u]]
  BY DEF MovePending
<1> HIDE DEF paid
<1> QED BY <1>1, BooksInt DEF BooksSound, feeVars

(* A step of the wallet entrypoints keeps the books sound.                 *)
LEMMA WalletSound ==
  ASSUME TypeOK, BooksSound, Wallet
  PROVE  BooksSound'
<1> USE DEF BooksSound, pendingVars, feeVars, Credit
<1>1. /\ balance \in [Users -> I128] /\ pendingWinnings \in [Users -> I128]
      /\ \A u \in Users : balance[u] \in Int /\ pendingWinnings[u] \in Int
      /\ treasury \in Int /\ insuranceFund \in Int /\ Amounts \subseteq Int
      /\ Admin \in Users /\ MintAmount \in Int /\ MintAmount > 0
  BY BooksInt, AmountsInt, AmountsAssumption, UsersAssumption
<1>2. ASSUME NEW user \in Users, mint_initial(user)
      PROVE  BooksSound'
  BY <1>1, <1>2 DEF mint_initial
<1>3. ASSUME NEW user \in Users, claim_winnings(user)
      PROVE  BooksSound'
  BY <1>3, MoveSound DEF claim_winnings
<1>4. ASSUME NEW user \in Users, reclaim_expired_pending_winnings(user)
      PROVE  BooksSound'
  <2>1. pendingUpdatedAt \in [Users -> Ledgers \cup {None}]
    BY DEF TypeOK, PendingTypeOK
  <2> QED BY <1>1, <1>4, <2>1 DEF reclaim_expired_pending_winnings
<1>5. ASSUME NEW users \in SUBSET Users, claim_many(users)
      PROVE  BooksSound'
  BY <1>5, MoveSound DEF claim_many
<1>6. ASSUME NEW to \in Users, NEW amount \in Amounts, execute_withdraw_fee(to, amount)
      PROVE  BooksSound'
  BY <1>1, <1>6 DEF execute_withdraw_fee
<1>7. ASSUME NEW to \in Users, NEW amount \in Amounts, execute_withdraw_insurance_fund(to, amount)
      PROVE  BooksSound'
  BY <1>1, <1>7 DEF execute_withdraw_insurance_fund
<1>8. ASSUME NEW amount \in Amounts, top_up_insurance_fund(amount)
      PROVE  BooksSound'
  BY <1>1, <1>8 DEF top_up_insurance_fund
<1> QED BY <1>2, <1>3, <1>4, <1>5, <1>6, <1>7, <1>8
        DEF Wallet, withdraw_protocol_fee, withdraw_insurance_fund

(* A step keeps the books sound.                                           *)
LEMMA NextMoneyInv == MoneyInv /\ [Next]_vars => MoneyInv'
<1> SUFFICES ASSUME MoneyInv, [Next]_vars
             PROVE  MoneyInv'
  OBVIOUS
<1>1. StakeInv /\ PoolsSum /\ BooksSound /\ TypeOK
  BY DEF MoneyInv, StakeInv
<1>2. StakeInv' /\ PoolsSum'
  BY <1>1, NextStakeInv, NextPoolsSum
<1>3. treasury \in Int /\ insuranceFund \in Int /\ treasury' \in Int /\ insuranceFund' \in Int
  <2>1. treasury \in Int /\ insuranceFund \in Int
    BY <1>1, BooksInt
  <2>2. treasury' \in I128 /\ insuranceFund' \in I128
    BY <1>2 DEF StakeInv, TypeOK, FeeTypeOK
  <2> QED BY <2>1, <2>2, AmountsInt
<1>4. ASSUME UNCHANGED <<walletVars, pendingVars, feeVars, outcome>>
      PROVE  BooksSound'
  <2>1. /\ balance' = balance /\ pendingWinnings' = pendingWinnings
        /\ pendingUpdatedAt' = pendingUpdatedAt
        /\ treasury' = treasury /\ insuranceFund' = insuranceFund
    BY <1>4 DEF walletVars, pendingVars, feeVars
  <2> QED BY <1>1, <2>1 DEF BooksSound
<1>5. ASSUME NEW user \in Users, NEW amount \in Amounts, TakesStake(user, amount)
      PROVE  BooksSound'
  <2>1. balance \in [Users -> I128] /\ \A u \in Users : balance[u] \in Int
    BY <1>1, BooksInt
  <2>2. amount \in Int
    BY AmountsInt
  <2> QED BY <1>1, <1>5, <2>1, <2>2
          DEF TakesStake, TakeStake, HasFunds, BooksSound, pendingVars, feeVars
<1>6. ASSUME NEW user \in Users, cash_out_early(user)
      PROVE  BooksSound'
  <2>1. PICK fee \in Nat : CollectProtocolFee(fee) /\ Credits(ExitRow(user))
    BY <1>1, <1>6, ExitCredits
  <2>2. treasury' >= treasury /\ insuranceFund' >= insuranceFund
    BY <1>1, <2>1, FeeCollected
  <2> QED BY <1>1, <1>3, <2>1, <2>2, CreditsSound DEF BooksSound
<1>7. ASSUME NEW r \in RoundIds, NEW records, NEW fee,
             Settles(r, records, fee), Fair(r, records, fee)
      PROVE  BooksSound'
  <2>1. fee \in Nat /\ CollectProtocolFee(fee)
    BY <1>7 DEF Fair, Settles, ApplySettlement
  <2>2. treasury' >= treasury /\ insuranceFund' >= insuranceFund
    BY <1>1, <2>1, FeeCollected
  <2>3. Credits(PayoutRow(records))
    BY <1>1, <1>7, SettlesCredits
  <2> QED BY <1>1, <1>3, <2>2, <2>3, CreditsSound DEF BooksSound
<1>8. ASSUME NEW reason \in Reasons, cancel_round(reason)
      PROVE  BooksSound'
  <2> DEFINE r    == activeRound.round_id
             paid == CoveragePaid(r, reason)
  <2>1. activeRound # None /\ insuranceFund' = insuranceFund - paid /\ treasury' = treasury
    BY <1>8 DEF cancel_round
  <2>2. r \in RoundIds /\ insuranceFund \in Nat
    BY <1>1, <1>3, <2>1, ActiveIsLive DEF StakeInv, BooksSound
  <2>3. paid \in Nat /\ paid <= insuranceFund
    BY <1>1, <2>2, CoverageFits
  <2>4. Credits(CancelRow(r, paid))
    BY <1>1, <1>8, <2>2, CancelCredits
  <2> HIDE DEF paid
  <2> QED BY <1>1, <1>3, <2>1, <2>3, <2>4, CreditsSound DEF BooksSound
<1>9. Wallet => BooksSound'
  BY <1>1, WalletSound
<1>10. BooksSound'
  BY <1>1, <1>4, <1>5, <1>6, <1>7, <1>8, <1>9, MoneySteps
<1> QED BY <1>2, <1>10 DEF MoneyInv

(* No wallet, pending entry, pool, treasury or fund is ever overdrawn: a   *)
(* settlement never pays more than the pot, an early exit never takes more *)
(* than its stake out of the pool, and coverage never exceeds the fund.    *)
THEOREM NothingOverdrawn == Spec => []BooksNonNegative
<1>1. MoneyInv => BooksNonNegative
  <2> SUFFICES ASSUME MoneyInv, activeRound # None
               PROVE  activeRound.pool_up >= 0 /\ activeRound.pool_down >= 0
    BY DEF MoneyInv, BooksSound, BooksNonNegative
  <2> DEFINE a == activeRound.round_id
  <2>1. a \in RoundIds /\ a \in Live /\ RoundRecord(a) = activeRound
    BY ActiveIsLive DEF MoneyInv, StakeInv
  <2>2. /\ position[a] \in PositionRows
        /\ \A u \in Users : position[a][u] # None => position[a][u].amount > 0
    BY <2>1 DEF MoneyInv, StakeInv, TypeOK, StakeTypeOK, PositionRows, StakesPositive
  <2>3. SidePool(position[a], "Up") \in Nat /\ SidePool(position[a], "Down") \in Nat
    BY <2>2, SidePoolNat
  <2>4. /\ activeRound.pool_up = SidePool(position[a], "Up")
        /\ activeRound.pool_down = SidePool(position[a], "Down")
    BY <2>1 DEF MoneyInv, PoolsSum
  <2> QED BY <2>3, <2>4
<1> QED BY <1>1, InitMoneyInv, NextMoneyInv, PTL DEF Spec
=============================================================================
