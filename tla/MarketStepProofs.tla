-------------------------- MODULE MarketStepProofs ---------------------------
(***************************************************************************)
(* What a step of the market may never do, for any users, amounts,         *)
(* configurations and bounds, and the record that the steps leave: the     *)
(* invariants the steps start from are in MarketProofs.                    *)
(***************************************************************************)
EXTENDS MarketProofs

(* The money invariant always holds.                                       *)
LEMMA MoneyInvariant == Spec => []MoneyInv
BY InitMoneyInv, NextMoneyInv, PTL DEF Spec

(* Entrypoints that add a stake need the Normal mode.                      *)
LEMMA StakeIsNormal == Stake => NormalMode
<1>1. \A user, amount, side : place_bet(user, amount, side) => NormalMode
  BY DEF place_bet, StakeAllowed
<1>2. \A user, amount, price : place_precision_prediction(user, amount, price) => NormalMode
  BY DEF place_precision_prediction, StakeAllowed
<1>3. \A user, amount, price : commit_prediction(user, amount, price) => NormalMode
  BY DEF commit_prediction, StakeAllowed
<1>4. \A user, price : reveal_prediction(user, price) => NormalMode
  BY DEF reveal_prediction
<1>5. \A user : cash_out_early(user) => NormalMode
  BY DEF cash_out_early
<1> QED BY <1>1, <1>2, <1>3, <1>4, <1>5 DEF Stake

(* What the configuration keeps: everything but, at most, the fee.         *)
LEMMA OnlyTheFee ==
  ASSUME TypeOK, \/ config' = config
                 \/ \E bps : config' = [config EXCEPT !.feeBps = bps]
  PROVE  config' = [config EXCEPT !.feeBps = config'.feeBps]
<1>1. config \in Config
  BY ConfigTyped DEF TypeOK
<1> QED BY <1>1 DEF Config

(* A withdrawal pays one wallet and touches nothing else.                  *)
LEMMA ProposalPays ==
  ASSUME TypeOK, NEW to \in Users, NEW amount \in Amounts,
         execute_withdraw_fee(to, amount) \/ execute_withdraw_insurance_fund(to, amount)
  PROVE  PaidByProposal(to)
<1> DEFINE paid == (treasury + insuranceFund) - (treasury' + insuranceFund')
<1>1. treasury \in Int /\ insuranceFund \in Int /\ amount \in Int /\ amount > 0
  BY BooksInt, AmountsInt DEF execute_withdraw_fee, execute_withdraw_insurance_fund
<1>2. /\ Credit(to, amount)
      /\ UNCHANGED <<clockVars, roundVars, stakeVars, resultVars, pendingVars, archiveVars>>
      /\ \/ treasury' = treasury - amount /\ insuranceFund' = insuranceFund
         \/ insuranceFund' = insuranceFund - amount /\ treasury' = treasury
  BY DEF execute_withdraw_fee, execute_withdraw_insurance_fund
<1>3. paid = amount /\ treasury' <= treasury /\ insuranceFund' <= insuranceFund
  BY <1>1, <1>2
<1>4. balance' = [balance EXCEPT ![to] = balance[to] + amount]
  BY <1>2 DEF Credit
<1> HIDE DEF paid
<1>5. balance' = [balance EXCEPT ![to] = balance[to] + paid] /\ paid > 0
  BY <1>1, <1>3, <1>4
<1> QED BY <1>2, <1>3, <1>5 DEF PaidByProposal, paid, clockVars

(* A cancellation credits and never charges, and records nothing but Void. *)
LEMMA CancelIsOpen ==
  ASSUME MoneyInv, NEW reason \in Reasons, cancel_round(reason), NEW u \in Users
  PROVE  /\ pendingWinnings'[u] >= pendingWinnings[u]
         /\ \A r \in RoundIds : Reached(r, u) => outcome'[r][u].kind = "Void"
<1> DEFINE a       == activeRound.round_id
           records == RefundRecords(a, "Void")
           row     == CancelRow(a, CoveragePaid(a, reason))
<1>1. StakeInv /\ TypeOK /\ insuranceFund \in Nat /\ pendingWinnings[u] \in Int
  BY BooksInt DEF MoneyInv, StakeInv, BooksSound
<1>2. Credits(row)
  BY <1>1, CancelCredits
<1>3. PersistUserOutcomes(a, records)
  BY DEF cancel_round
<1>4. \A v \in DOMAIN records : records[v].kind = "Void"
  BY DEF RefundRecords
<1>5. outcome \in [RoundIds -> [Users -> UserRoundOutcome \cup {None}]]
  BY <1>1 DEF TypeOK, ResultTypeOK
<1> HIDE DEF row, records
<1>6. row[u] \in Nat /\ pendingWinnings'[u] = pendingWinnings[u] + row[u]
  BY <1>2 DEF Credits
<1>7. ASSUME NEW r \in RoundIds, Reached(r, u)
      PROVE  outcome'[r][u].kind = "Void"
  <2>1. outcome'[r][u] = records[u] /\ u \in DOMAIN records
    BY <1>3, <1>5, <1>7 DEF PersistUserOutcomes, Reached
  <2> QED BY <1>4, <2>1
<1> QED BY <1>1, <1>6, <1>7

(* What still moves while the contract is fully paused.                    *)
LEMMA StoppedStep ==
  ASSUME MoneyInv, [Next]_vars, runtimeMode = "FullyPaused"
  PROVE  StoppedByPause
<1> DEFINE Still == /\ UNCHANGED <<walletVars, pendingVars, feeVars, outcome,
                                   lastRoundId, pendingDisputes>>
                    /\ config' = [config EXCEPT !.feeBps = config'.feeBps]
<1>1. TypeOK /\ \A u \in Users : pendingWinnings[u] \in Int
  BY BooksInt DEF MoneyInv, StakeInv
<1>2. Still => StoppedByPause
  <2>1. ASSUME Still, NEW u \in Users
        PROVE  /\ pendingWinnings'[u] >= pendingWinnings[u]
               /\ \A r \in RoundIds : Reached(r, u) => outcome'[r][u].kind = "Void"
    BY <1>1, <2>1 DEF pendingVars, Reached
  <2> QED BY <2>1 DEF StoppedByPause, feeVars
<1>3. config' = config => config' = [config EXCEPT !.feeBps = config'.feeBps]
  BY <1>1, OnlyTheFee
<1>4. ~ Stake
  BY StakeIsNormal DEF NormalMode
<1>5. Administration => Still
  <2>1. ASSUME NEW c \in Configs, execute_set_protocol_fee_bps(c.feeBps)
        PROVE  Still
    <3>1. config' = [config EXCEPT !.feeBps = c.feeBps]
      BY <2>1 DEF execute_set_protocol_fee_bps
    <3>2. config' = [config EXCEPT !.feeBps = config'.feeBps]
      BY <1>1, <3>1, OnlyTheFee
    <3> QED BY <2>1, <3>2 DEF execute_set_protocol_fee_bps, roundVars, resultVars
  <2>2. \A c \in Configs : ~ update_config(c)
    BY DEF update_config, NotPaused, NormalMode
  <2>3. \A price, mode : ~ create_round(price, mode)
    BY DEF create_round, NormalMode, NotPaused
  <2>4. \A mode : set_runtime_mode(mode) => Still
    BY <1>3 DEF set_runtime_mode, roundVars, resultVars
  <2> QED BY <2>1, <2>2, <2>3, <2>4 DEF Administration, create_next_from_template
<1>6. Tick \/ UNCHANGED vars => Still
  BY <1>3 DEF Tick, vars, clockVars, roundVars, resultVars
<1>7. ASSUME EndOfRound
      PROVE  StoppedByPause
  <2>1. PICK reason \in Reasons : cancel_round(reason)
    BY <1>7 DEF EndOfRound, resolve_round, void_round, finalize_round, NotPaused
  <2>2. /\ UNCHANGED <<walletVars, treasury, lastRoundId, pendingDisputes>>
        /\ config' = config
    BY <2>1 DEF cancel_round, clockVars
  <2> QED BY <1>3, <2>1, <2>2, CancelIsOpen DEF StoppedByPause
<1>8. ASSUME Wallet
      PROVE  StoppedByPause
  <2>1. PICK to \in Users, amount \in Amounts :
          execute_withdraw_fee(to, amount) \/ execute_withdraw_insurance_fund(to, amount)
    BY <1>8 DEF Wallet, mint_initial, claim_winnings, reclaim_expired_pending_winnings,
                claim_many, withdraw_protocol_fee, withdraw_insurance_fund,
                top_up_insurance_fund, NotPaused, NormalMode
  <2>2. PaidByProposal(to)
    BY <1>1, <2>1, ProposalPays
  <2>3. UNCHANGED <<pendingWinnings, outcome, lastRoundId, pendingDisputes>> /\ config' = config
    BY <2>2 DEF PaidByProposal, pendingVars, resultVars, roundVars
  <2>4. ASSUME NEW u \in Users
        PROVE  /\ pendingWinnings'[u] >= pendingWinnings[u]
               /\ \A r \in RoundIds : Reached(r, u) => outcome'[r][u].kind = "Void"
    BY <1>1, <2>3 DEF Reached
  <2> QED BY <1>3, <2>2, <2>3, <2>4 DEF StoppedByPause
<1> HIDE DEF Still
<1> QED BY <1>2, <1>4, <1>5, <1>6, <1>7, <1>8 DEF Next

(* A step while the contract is paused.                                    *)
LEMMA PausedStep ==
  ASSUME MoneyInv, [Next]_vars
  PROVE  HoldsInPause
<1>1. runtimeMode = "FullyPaused" => StoppedByPause
  BY StoppedStep
<1>2. ASSUME runtimeMode # "Normal", NEW r \in RoundIds
      PROVE  participants'[r] \subseteq participants[r]
  <2>1. TypeOK /\ RoundIdentity
    BY DEF MoneyInv, StakeInv
  <2>2. participants \in [RoundIds -> SUBSET Users]
    BY <2>1 DEF TypeOK, StakeTypeOK
  <2>3. LeavesStakes => participants' = participants
    BY DEF LeavesStakes, stakeVars
  <2>4. \A q \in RoundIds : \A records :
          EndsRound(q, records) => participants'[r] \subseteq participants[r]
    BY <2>2 DEF EndsRound, ClearRoundStorage
  <2>5. ~ Stake
    BY <1>2, StakeIsNormal DEF NormalMode
  <2> QED BY <2>1, <2>3, <2>4, <2>5, StakeSteps DEF Stake
<1> QED BY <1>1, <1>2 DEF HoldsInPause

(* A pause holds, in any market.  While the contract is fully paused no    *)
(* round opens, nothing staged moves, no pending entry shrinks and a round *)
(* ends by cancel_round only, which voids and refunds; wallets and         *)
(* treasury change by the withdrawal of an executed proposal only, and the *)
(* configuration in its fee only.  Outside Normal no stake is added to any *)
(* round, whatever is resolved, cancelled or voided meanwhile.             *)
THEOREM PausesHold == Spec => PauseHolds
BY PausedStep, MoneyInvariant, PTL DEF PauseHolds, Spec

(* A step after the close of betting in one live round, for one user.      *)
LEMMA LateStep ==
  ASSUME MoneyInv, [Next]_vars, NEW r \in Live,
         ledger >= RoundRecord(r).bet_end_ledger, NEW u \in Users
  PROVE  /\ u \notin participants[r] => u \notin participants'[r]
         /\ prediction[r][u] = None /\ prediction'[r][u] # None =>
              /\ commitment[r][u] # None
              /\ prediction'[r][u] = [amount |-> commitment[r][u].amount,
                                      price  |-> commitment[r][u].price]
<1> DEFINE a    == activeRound.round_id
           Goal == /\ u \notin participants[r] => u \notin participants'[r]
                   /\ prediction[r][u] = None /\ prediction'[r][u] # None =>
                        /\ commitment[r][u] # None
                        /\ prediction'[r][u] = [amount |-> commitment[r][u].amount,
                                                price  |-> commitment[r][u].price]
<1>1. TypeOK /\ RoundIdentity /\ StakeInv /\ r \in RoundIds
  BY LiveRecords DEF MoneyInv, StakeInv
<1>2. /\ prediction \in [RoundIds -> [Users -> PrecisionPrediction \cup {None}]]
      /\ participants \in [RoundIds -> SUBSET Users]
  BY <1>1 DEF TypeOK, StakeTypeOK
<1>3. activeRound # None =>
        /\ a \in RoundIds /\ RoundRecord(a) = activeRound
        /\ ledger \in Nat /\ activeRound.bet_end_ledger \in Nat
        /\ BettingOpen => a # r
  <2> SUFFICES ASSUME activeRound # None
               PROVE  /\ a \in RoundIds /\ RoundRecord(a) = activeRound
                      /\ ledger \in Nat /\ activeRound.bet_end_ledger \in Nat
                      /\ BettingOpen => a # r
    OBVIOUS
  <2>1. activeRound \in Round /\ a \in RoundIds /\ RoundRecord(a) = activeRound
    BY <1>1, ActiveIsLive
  <2>2. ledger \in Nat /\ activeRound.bet_end_ledger \in Nat
    BY <1>1, <2>1, ConfigTyped DEF Round, TypeOK
  <2> QED BY <2>1, <2>2 DEF BettingOpen
<1>4. ASSUME NEW user \in Users, NEW amount \in Amounts, NEW mode,
             StakeAllowed(user, amount, mode), TakeStake(user, amount),
             \/ prediction' = prediction
             \/ \E e : prediction' = [prediction EXCEPT ![a][user] = e]
      PROVE  Goal
  BY <1>1, <1>2, <1>3, <1>4 DEF StakeAllowed, TakeStake
<1>5. LeavesStakes => Goal
  BY DEF LeavesStakes, stakeVars
<1>6. ASSUME NEW user \in Users, NEW amount \in Amounts, NEW side \in Sides,
             place_bet(user, amount, side)
      PROVE  Goal
  BY <1>4, <1>6 DEF place_bet
<1>7. ASSUME NEW user \in Users, NEW amount \in Amounts, NEW price \in Prices,
             \/ place_precision_prediction(user, amount, price)
             \/ commit_prediction(user, amount, price)
      PROVE  Goal
  BY <1>4, <1>7 DEF place_precision_prediction, commit_prediction
<1>8. ASSUME NEW user \in Users, NEW price \in Prices, reveal_prediction(user, price)
      PROVE  Goal
  <2>1. /\ activeRound # None /\ participants' = participants
        /\ commitment[a][user] # None /\ commitment[a][user].price = price
        /\ prediction' = [prediction EXCEPT ![a][user] =
                            [amount |-> commitment[a][user].amount, price |-> price]]
    BY <1>8 DEF reveal_prediction
  <2> QED BY <1>1, <1>2, <1>3, <2>1
<1>9. ASSUME NEW user \in Users, cash_out_early(user)
      PROVE  Goal
  <2>1. activeRound # None /\ prediction' = prediction
        /\ participants' = [participants EXCEPT ![a] = participants[a] \ {user}]
    BY <1>9 DEF cash_out_early, RemovePosition
  <2> QED BY <1>1, <1>2, <1>3, <2>1
<1>10. ASSUME NEW q \in RoundIds, NEW records, EndsRound(q, records)
       PROVE  Goal
  <2>1. ClearRoundStorage(q)
    BY <1>10 DEF EndsRound
  <2>2. participants'[r] \subseteq participants[r]
    BY <1>1, <1>2, <2>1 DEF ClearRoundStorage
  <2>3. prediction'[r][u] \in {prediction[r][u], None}
    BY <1>1, <1>2, <2>1 DEF ClearRoundStorage, Cleared
  <2> QED BY <2>2, <2>3
<1> QED BY <1>1, <1>5, <1>6, <1>7, <1>8, <1>9, <1>10, StakeSteps

(* Betting closes: from the close of betting on a live round, active or in *)
(* its dispute window, takes no new participant, and a guess that appears  *)
(* is the one its owner committed to, at the amount committed.             *)
THEOREM BettingCloses == Spec => NoLateStakes
<1>1. MoneyInv /\ [Next]_vars => TakesNoLateStake
  BY LateStep DEF TakesNoLateStake
<1> QED BY <1>1, MoneyInvariant, PTL DEF NoLateStakes, Spec
-----------------------------------------------------------------------------
(***************************************************************************)
(* Credits.  A step records the outcomes of one round at most.             *)
(***************************************************************************)
CreditedFor(u) ==
  LET gain == pendingWinnings'[u] - pendingWinnings[u]
      in   == {r \in RoundIds : Reached(r, u)}
  IN  /\ \A r \in RoundIds : outcome[r][u] # None => outcome'[r][u] = outcome[r][u]
      /\ Cardinality(in) <= 1
      /\ gain > 0 => in # {}
      /\ \A r \in in : \/ gain = outcome'[r][u].payout
                       \/ /\ gain > outcome'[r][u].payout
                          /\ insuranceFund' < insuranceFund

(* Without a new outcome nothing may be credited.                          *)
LEMMA NothingRecorded ==
  ASSUME TypeOK, outcome' = outcome, NEW u \in Users,
         ~ (pendingWinnings'[u] - pendingWinnings[u] > 0)
  PROVE  CreditedFor(u)
<1>1. {r \in RoundIds : Reached(r, u)} = {}
  BY DEF Reached
<1>2. Cardinality({}) <= 1
  BY FS_EmptySet
<1> QED BY <1>1, <1>2 DEF CreditedFor

(* The user recorded by the end of a round is credited with the payout.    *)
LEMMA RecordedIsCredited ==
  ASSUME TypeOK, NEW r0 \in RoundIds, NEW records, PersistUserOutcomes(r0, records),
         NEW u \in Users, NEW gain \in Nat,
         pendingWinnings'[u] = pendingWinnings[u] + gain,
         \/ u \notin DOMAIN records /\ gain = 0
         \/ /\ u \in DOMAIN records /\ outcome[r0][u] = None /\ records[u] # None
            /\ \/ gain = records[u].payout
               \/ gain > records[u].payout /\ insuranceFund' < insuranceFund
  PROVE  CreditedFor(u)
<1> DEFINE in == {r \in RoundIds : Reached(r, u)}
<1>1. pendingWinnings[u] \in Int
  BY BooksInt
<1>2. pendingWinnings'[u] - pendingWinnings[u] = gain
  BY <1>1
<1>3. \A r \in RoundIds :
        outcome'[r][u] = IF r = r0 /\ u \in DOMAIN records /\ outcome[r][u] = None
                         THEN records[u] ELSE outcome[r][u]
  BY DEF PersistUserOutcomes, TypeOK, ResultTypeOK
<1>4. Cardinality({}) <= 1 /\ Cardinality({r0}) <= 1
  BY FS_EmptySet, FS_Singleton
<1>5. CASE u \notin DOMAIN records /\ gain = 0
  <2>1. in = {}
    BY <1>3, <1>5 DEF Reached
  <2>2. Cardinality(in) <= 1
    BY <1>4, <2>1
  <2>3. ~ (gain > 0) /\ \A r \in RoundIds : outcome'[r][u] = outcome[r][u]
    BY <1>3, <1>5
  <2> HIDE DEF in
  <2> QED BY <1>2, <2>1, <2>2, <2>3 DEF CreditedFor, in
<1>6. CASE u \in DOMAIN records /\ outcome[r0][u] = None /\ records[u] # None
  <2>1. in = {r0} /\ outcome'[r0][u] = records[u]
    BY <1>3, <1>6 DEF Reached
  <2>2. Cardinality(in) <= 1 /\ in # {}
    BY <1>4, <2>1
  <2>3. \A r \in in : \/ gain = outcome'[r][u].payout
                      \/ gain > outcome'[r][u].payout /\ insuranceFund' < insuranceFund
    BY <1>6, <2>1
  <2> HIDE DEF in
  <2> QED BY <1>2, <1>3, <2>2, <2>3 DEF CreditedFor, in
<1> QED BY <1>5, <1>6

(* Wallet entrypoints never add to pending winnings.                       *)
LEMMA WalletTakes ==
  ASSUME TypeOK, BooksSound, Wallet, NEW u \in Users
  PROVE  pendingWinnings'[u] <= pendingWinnings[u] /\ outcome' = outcome
<1>1. /\ pendingWinnings \in [Users -> I128]
      /\ pendingWinnings[u] \in Int /\ pendingWinnings[u] >= 0
  BY BooksInt DEF BooksSound
<1>2. outcome' = outcome
  BY DEF Wallet, mint_initial, claim_winnings, reclaim_expired_pending_winnings, claim_many,
         withdraw_protocol_fee, withdraw_insurance_fund,
         execute_withdraw_fee, execute_withdraw_insurance_fund, top_up_insurance_fund, resultVars
<1>3. pendingWinnings'[u] \in {pendingWinnings[u], 0}
  BY <1>1 DEF Wallet, mint_initial, claim_winnings, reclaim_expired_pending_winnings,
         claim_many, withdraw_protocol_fee, withdraw_insurance_fund,
         execute_withdraw_fee, execute_withdraw_insurance_fund,
         top_up_insurance_fund, MovePending, pendingVars
<1> QED BY <1>1, <1>2, <1>3

(* A participant has no outcome yet.                                       *)
LEMMA ParticipantsUnrecorded ==
  ASSUME StakeInv, NEW r \in RoundIds, NEW u \in participants[r]
  PROVE  u \in Users /\ outcome[r][u] = None
BY DEF StakeInv, TypeOK, StakeTypeOK, RecordedHaveLeft

(* A step credits one user for at most one round.                          *)
LEMMA CreditStep ==
  ASSUME MoneyInv, [Next]_vars, NEW u \in Users
  PROVE  CreditedFor(u)
<1>1. StakeInv /\ PoolsSum /\ BooksSound /\ TypeOK
  BY DEF MoneyInv, StakeInv
<1>2. /\ pendingWinnings[u] \in Int /\ insuranceFund \in Nat
      /\ \A x \in UserRoundOutcome : x # None
  BY <1>1, BooksInt, OptionAssumption DEF BooksSound
<1>3. UNCHANGED <<pendingVars, outcome>> => CreditedFor(u)
  <2>1. UNCHANGED <<pendingVars, outcome>> =>
          outcome' = outcome /\ pendingWinnings'[u] - pendingWinnings[u] = 0
    BY <1>2 DEF pendingVars
  <2> QED BY <1>1, <2>1, NothingRecorded
<1>4. ASSUME NEW user \in Users, cash_out_early(user)
      PROVE  CreditedFor(u)
  <2> DEFINE a       == activeRound.round_id
             stake   == position[a][user].amount
             forfeit == CashoutForfeit(stake, config.cashoutBps)
             record  == [kind |-> "Refund", stake |-> stake, payout |-> stake - forfeit]
             records == [x \in {user} |-> record]
  <2>1. /\ activeRound # None /\ position[a][user] # None
        /\ record \in UserRoundOutcome /\ PersistUserOutcomes(a, records)
    BY <1>4 DEF cash_out_early
  <2>2. a \in RoundIds
    BY <1>1, <2>1, ActiveIsLive DEF StakeInv
  <2>3. outcome[a][user] = None
    BY <1>1, <2>1, <2>2, KeysFromInv DEF KeysSound, KeysListed
  <2>4. /\ ExitRow(user)[u] = IF u = user THEN stake - forfeit ELSE 0
        /\ Credits(ExitRow(user))
    BY <1>1, <1>4, ExitCredits DEF ExitRow
  <2>5. /\ record.payout = stake - forfeit /\ record # None
        /\ DOMAIN records = {user} /\ records[user] = record
    BY <1>2, <2>1
  <2> HIDE DEF stake, forfeit, record, records
  <2>6. /\ ExitRow(user)[u] \in Nat
        /\ pendingWinnings'[u] = pendingWinnings[u] + ExitRow(user)[u]
    BY <2>4 DEF Credits
  <2> QED BY <1>1, <2>1, <2>2, <2>3, <2>4, <2>5, <2>6, RecordedIsCredited
<1>5. ASSUME NEW r \in RoundIds, NEW records, NEW fee,
             Settles(r, records, fee), Fair(r, records, fee)
      PROVE  CreditedFor(u)
  <2>1. Credits(PayoutRow(records))
    BY <1>1, <1>5, SettlesCredits
  <2>2. /\ PayoutRow(records)[u] \in Nat
        /\ pendingWinnings'[u] = pendingWinnings[u] + PayoutRow(records)[u]
    BY <2>1 DEF Credits
  <2>3. /\ PersistUserOutcomes(r, records) /\ DOMAIN records = participants[r]
        /\ \A x \in DOMAIN records : records[x] \in UserRoundOutcome
    BY <1>5 DEF Settles, ApplySettlement, Fair
  <2>4. PayoutRow(records)[u] = IF u \in DOMAIN records THEN records[u].payout ELSE 0
    BY DEF PayoutRow
  <2>5. u \in DOMAIN records => outcome[r][u] = None /\ records[u] # None
    BY <1>1, <1>2, <2>3, ParticipantsUnrecorded
  <2> QED BY <1>1, <2>2, <2>3, <2>4, <2>5, RecordedIsCredited
<1>6. ASSUME NEW reason \in Reasons, cancel_round(reason)
      PROVE  CreditedFor(u)
  <2> DEFINE r       == activeRound.round_id
             paid    == CoveragePaid(r, reason)
             records == RefundRecords(r, "Void")
             row     == CancelRow(r, paid)
  <2>1. /\ activeRound # None /\ insuranceFund' = insuranceFund - paid
        /\ PersistUserOutcomes(r, records)
        /\ \A x \in DOMAIN records : records[x] \in UserRoundOutcome
    BY <1>6 DEF cancel_round
  <2>2. r \in RoundIds
    BY <1>1, <2>1, ActiveIsLive DEF StakeInv
  <2>3. Credits(row)
    BY <1>1, <1>2, <1>6, CancelCredits
  <2>4. /\ paid \in Nat
        /\ \A x \in participants[r] : CoverageShare(r, paid, x) \in Nat
        /\ paid = 0 => \A x \in participants[r] : CoverageShare(r, paid, x) = 0
    BY <1>1, <1>2, <2>2, CoverageFits
  <2>5. /\ DOMAIN records = participants[r]
        /\ u \in participants[r] => records[u].payout = StakeIn(r, u)
    BY <1>1, <2>2, AllRefunded DEF RefundRecords
  <2>6. StakeIn(r, u) \in Nat /\ (u \notin participants[r] => StakeIn(r, u) = 0)
    BY <1>1, <2>2, StakeInNat
  <2>7. row[u] = StakeIn(r, u) + IF u \in participants[r] THEN CoverageShare(r, paid, u) ELSE 0
    BY DEF CancelRow, BonusRow
  <2>8. u \in DOMAIN records => outcome[r][u] = None /\ records[u] # None
    BY <1>1, <1>2, <2>1, <2>2, <2>5, ParticipantsUnrecorded
  <2> HIDE DEF records, row, paid
  <2>9. row[u] \in Nat /\ pendingWinnings'[u] = pendingWinnings[u] + row[u]
    BY <2>3 DEF Credits
  <2>10. \/ u \notin DOMAIN records /\ row[u] = 0
         \/ /\ u \in DOMAIN records
            /\ \/ row[u] = records[u].payout
               \/ row[u] > records[u].payout /\ insuranceFund' < insuranceFund
    BY <1>2, <2>1, <2>4, <2>5, <2>6, <2>7
  <2> QED BY <1>1, <2>1, <2>2, <2>8, <2>9, <2>10, RecordedIsCredited
<1>7. ASSUME Wallet
      PROVE  CreditedFor(u)
  <2>1. pendingWinnings'[u] <= pendingWinnings[u] /\ outcome' = outcome
    BY <1>1, <1>7, WalletTakes
  <2>2. TypeOK'
    BY <1>1, NextTyped
  <2>3. pendingWinnings'[u] \in Int
    BY <2>2, AmountsInt DEF TypeOK, PendingTypeOK
  <2> QED BY <1>1, <1>2, <2>1, <2>3, NothingRecorded
<1>8. \A user, amount : TakesStake(user, amount) => UNCHANGED <<pendingVars, outcome>>
  BY DEF TakesStake
<1>9. UNCHANGED <<walletVars, pendingVars, feeVars, outcome>> => UNCHANGED <<pendingVars, outcome>>
  BY DEF walletVars
<1> QED BY <1>1, <1>3, <1>4, <1>5, <1>6, <1>7, <1>8, <1>9, MoneySteps

(* A round credits a user once, in every market: an outcome on record is   *)
(* never replaced, and winnings are credited only together with a new      *)
(* outcome of one round and by its payout, with coverage from the fund as  *)
(* the only addition.  Early exit, settlement, void and cancellation       *)
(* cannot pay the same stake twice.                                        *)
THEOREM CreditsHappenOnce == Spec => CreditedOnce
<1>1. MoneyInv /\ [Next]_vars => CreditsOnce
  BY CreditStep DEF CreditsOnce, CreditedFor
<1> QED BY <1>1, MoneyInvariant, PTL DEF CreditedOnce, Spec
-----------------------------------------------------------------------------
(***************************************************************************)
(* Where pending winnings go.                                              *)
(***************************************************************************)
SentHome(u) ==
  /\ pendingWinnings'[u] > pendingWinnings[u] => pendingUpdatedAt'[u] = ledger
  /\ pendingWinnings'[u] < pendingWinnings[u] =>
       /\ pendingWinnings'[u] = 0
       /\ \/ balance'[u] = balance[u] + pendingWinnings[u]
          \/ /\ balance'[Admin] = balance[Admin] + pendingWinnings[u]
             /\ config.expiry # 0
             /\ ledger >= pendingUpdatedAt[u] + config.expiry

(* Credits only add, and stamp what they add to.                           *)
LEMMA CreditsStay ==
  ASSUME TypeOK, NEW row, Credits(row), NEW u \in Users
  PROVE  SentHome(u)
<1>1. row[u] \in Nat /\ pendingWinnings[u] \in Int
  BY BooksInt DEF Credits
<1> QED BY <1>1 DEF Credits, SentHome

(* A claim moves whole entries to their owners.                            *)
LEMMA MoveSendsHome ==
  ASSUME TypeOK, BooksSound, NEW users \in SUBSET Users, MovePending(users), NEW u \in Users
  PROVE  SentHome(u)
<1>1. pendingWinnings[u] \in Int /\ pendingWinnings[u] >= 0
  BY BooksInt DEF BooksSound
<1>2. \/ pendingWinnings'[u] = pendingWinnings[u]
      \/ pendingWinnings'[u] = 0 /\ balance'[u] = balance[u] + pendingWinnings[u]
  BY DEF MovePending
<1> QED BY <1>1, <1>2 DEF SentHome

(* What a wallet entrypoint does to a pending entry.                       *)
LEMMA WalletSendsHome ==
  ASSUME TypeOK, BooksSound, Wallet, NEW u \in Users
  PROVE  SentHome(u)
<1>1. pendingWinnings \in [Users -> I128] /\ pendingWinnings[u] \in Int /\ pendingWinnings[u] >= 0
  BY BooksInt DEF BooksSound
<1>2. UNCHANGED pendingVars => SentHome(u)
  BY <1>1 DEF pendingVars, SentHome
<1>3. ASSUME NEW user \in Users, reclaim_expired_pending_winnings(user)
      PROVE  SentHome(u)
  <2>1. u # user => pendingWinnings'[u] = pendingWinnings[u]
    BY <1>1, <1>3 DEF reclaim_expired_pending_winnings
  <2>2. CASE u = user
    <3>1. /\ pendingWinnings'[u] = 0
          /\ balance' = [balance EXCEPT ![Admin] = balance[Admin] + pendingWinnings[u]]
          /\ config.expiry > 0 /\ pendingUpdatedAt[u] # None
          /\ ledger - pendingUpdatedAt[u] >= config.expiry
      BY <1>1, <1>3, <2>2 DEF reclaim_expired_pending_winnings, Credit, Expired
    <3>2. balance'[Admin] = balance[Admin] + pendingWinnings[u]
      BY <3>1, BooksInt, UsersAssumption
    <3>3. ledger \in Nat /\ pendingUpdatedAt[u] \in Nat /\ config.expiry \in Nat
      <4>1. ledger \in Ledgers /\ pendingUpdatedAt[u] \in Ledgers
        BY <3>1 DEF TypeOK, ClockTypeOK, PendingTypeOK
      <4>2. config.expiry \in Nat
        BY ConfigTyped DEF TypeOK, Config
      <4> QED BY <4>1, <4>2, BoundsAssumption DEF Ledgers
    <3> DEFINE e == config.expiry
    <3> HIDE DEF e
    <3>4. e # 0 /\ ledger >= pendingUpdatedAt[u] + e
      BY <3>1, <3>3 DEF e
    <3> QED BY <1>1, <3>1, <3>2, <3>4 DEF SentHome, e
  <2> QED BY <1>1, <2>1, <2>2 DEF SentHome
<1>4. ASSUME NEW user \in Users, claim_winnings(user)
      PROVE  SentHome(u)
  BY <1>4, MoveSendsHome DEF claim_winnings
<1>5. ASSUME NEW users \in SUBSET Users, claim_many(users)
      PROVE  SentHome(u)
  BY <1>5, MoveSendsHome DEF claim_many
<1> QED BY <1>2, <1>3, <1>4, <1>5
        DEF Wallet, mint_initial, withdraw_protocol_fee, withdraw_insurance_fund,
            execute_withdraw_fee, execute_withdraw_insurance_fund,
            top_up_insurance_fund

(* What any step does to a pending entry.                                  *)
LEMMA HomeStep ==
  ASSUME MoneyInv, [Next]_vars, NEW u \in Users
  PROVE  SentHome(u)
<1>1. StakeInv /\ PoolsSum /\ BooksSound /\ TypeOK
  BY DEF MoneyInv, StakeInv
<1>2. pendingWinnings[u] \in Int /\ insuranceFund \in Nat
  BY <1>1, BooksInt DEF BooksSound
<1>3. UNCHANGED pendingVars => SentHome(u)
  BY <1>2 DEF pendingVars, SentHome
<1>4. \A user \in Users : cash_out_early(user) => SentHome(u)
  BY <1>1, ExitCredits, CreditsStay
<1>5. \A r \in RoundIds : \A records, fee :
        Settles(r, records, fee) /\ Fair(r, records, fee) => SentHome(u)
  BY <1>1, SettlesCredits, CreditsStay
<1>6. \A reason \in Reasons : cancel_round(reason) => SentHome(u)
  BY <1>1, <1>2, CancelCredits, CreditsStay
<1>7. Wallet => SentHome(u)
  BY <1>1, WalletSendsHome
<1>8. \A user, amount : TakesStake(user, amount) => UNCHANGED pendingVars
  BY DEF TakesStake
<1> QED BY <1>1, <1>3, <1>4, <1>5, <1>6, <1>7, <1>8, MoneySteps

(* Pending winnings never disappear, in any market: an entry shrinks only  *)
(* by being emptied whole, into its owner's wallet or, once no credit has  *)
(* touched it for the configured number of ledgers, into the admin's; and  *)
(* an entry that holds something carries the ledger of its last credit, so *)
(* that the expiry of claimed and re-credited entries counts afresh.       *)
THEOREM PendingFindsHome == Spec => PendingGoesHome
<1>1. MoneyInv /\ [Next]_vars => SendsPendingHome
  <2> SUFFICES ASSUME MoneyInv, [Next]_vars, NEW u \in Users
               PROVE  SentHome(u) /\ (pendingWinnings'[u] # 0 => pendingUpdatedAt'[u] # None)
    BY DEF SendsPendingHome, SentHome
  <2>1. BooksSound'
    BY NextMoneyInv DEF MoneyInv
  <2> QED BY <2>1, HomeStep DEF BooksSound
<1> QED BY <1>1, MoneyInvariant, PTL DEF PendingGoesHome, Spec
-----------------------------------------------------------------------------
(***************************************************************************)
(* Disputed rounds.                                                        *)
(***************************************************************************)

(* A settlement at a price never records a void.                           *)
LEMMA PricedIsNotVoid ==
  ASSUME NEW round \in Round, NEW price \in Prices
  PROVE  LET records == Settlement(round, price).records
         IN  \A u \in DOMAIN records : records[u].kind # "Void"
<1> DEFINE r     == round.round_id
           Ok(s) == \A u \in DOMAIN s.records : s.records[u].kind # "Void"
<1>1. \A fee : Ok([records |-> RefundRecords(r, "Refund"), fee |-> fee])
  BY DEF RefundRecords
<1>2. \A side, w, l : Ok(WinningRecords(r, side, w, l))
  BY DEF WinningRecords
<1>3. PriceDirection(round.price_start, price) \in {"Up", "Down", "Unchanged"}
  BY DEF PriceDirection
<1>4. Ok(UpdownSettlement(round, price))
  <2> DEFINE direction == PriceDirection(round.price_start, price)
             refunded  == \/ direction = "Unchanged"
                          \/ IsOneSidedPool(round.pool_up, round.pool_down)
  <2>1. CASE refunded
    <3>1. UpdownSettlement(round, price) = [records |-> RefundRecords(r, "Refund"), fee |-> 0]
      BY <2>1 DEF UpdownSettlement
    <3> QED BY <1>1, <3>1
  <2>2. CASE ~ refunded /\ direction = "Up"
    <3>1. UpdownSettlement(round, price)
            = WinningRecords(r, "Up", round.pool_up, round.pool_down)
      BY <2>2 DEF UpdownSettlement
    <3> HIDE DEF Ok
    <3> QED BY <1>2, <3>1
  <2>3. CASE ~ refunded /\ direction = "Down"
    <3>1. UpdownSettlement(round, price)
            = WinningRecords(r, "Down", round.pool_down, round.pool_up)
      BY <2>3 DEF UpdownSettlement
    <3> HIDE DEF Ok
    <3> QED BY <1>2, <3>1
  <2> QED BY <1>3, <2>1, <2>2, <2>3
<1>5. Ok(PrecisionSettlement(round, price))
  BY DEF PrecisionSettlement, RefundRecords
<1> QED BY <1>4, <1>5 DEF Settlement

(* A result leaves its window only by void_round or finalize_round.        *)
LEMMA LeavesDispute ==
  ASSUME TypeOK, RoundIdentity, [Next]_vars, NEW r \in Disputed, r \notin Disputed'
  PROVE  void_round(r) \/ finalize_round(r)
<1>1. /\ pendingDisputes \in [RoundIds -> Dispute \cup {None}]
      /\ r \in RoundIds /\ pendingDisputes[r] # None /\ pendingDisputes'[r] = None
  BY DEF Disputed, TypeOK, RoundTypeOK
<1>2. pendingDisputes' # pendingDisputes
  BY <1>1
<1>3. ~ Stake
  BY <1>2 DEF Stake, place_bet, place_precision_prediction, commit_prediction,
              reveal_prediction, cash_out_early, roundVars
<1>4. ~ Wallet
  BY <1>2 DEF Wallet, mint_initial, claim_winnings, reclaim_expired_pending_winnings,
              claim_many, withdraw_protocol_fee, withdraw_insurance_fund,
              execute_withdraw_fee, execute_withdraw_insurance_fund,
              top_up_insurance_fund, roundVars
<1>5. ~ Administration
  BY <1>2 DEF Administration, set_runtime_mode, update_config, execute_set_protocol_fee_bps,
              create_round, create_next_from_template, roundVars
<1>6. ~ (Tick \/ UNCHANGED vars)
  BY <1>2 DEF Tick, vars, roundVars
<1>7. \A price \in Prices : ~ resolve_round(price)
  <2> SUFFICES ASSUME NEW price \in Prices, resolve_round(price)
               PROVE  FALSE
    OBVIOUS
  <2>1. activeRound # None /\ SettleRoundWithPrice(activeRound, price)
    BY DEF resolve_round
  <2>2. activeRound.round_id # r /\ activeRound.round_id \in RoundIds
    BY <1>1, <2>1, ActiveIsLive DEF RoundIdentity
  <2>3. pendingDisputes'[r] = pendingDisputes[r]
    BY <1>1, <2>1, <2>2 DEF SettleRoundWithPrice, RefundUnderThreshold, StageDispute
  <2> QED BY <1>1, <2>3
<1>8. \A reason \in Reasons : ~ cancel_round(reason)
  BY <1>2 DEF cancel_round
<1>9. \A q \in RoundIds : void_round(q) \/ finalize_round(q) => q = r
  BY <1>1 DEF void_round, finalize_round
<1> QED BY <1>3, <1>4, <1>5, <1>6, <1>7, <1>8, <1>9 DEF Next, EndOfRound

(* What a step does to a round that stays in its window: nothing.          *)
LEMMA StaysFrozen ==
  ASSUME StakeInv, [Next]_vars, NEW r \in Disputed, r \in Disputed'
  PROVE  UNCHANGED <<pendingDisputes[r], position[r], prediction[r],
                     commitment[r], participants[r], outcome[r]>>
<1> DEFINE a    == activeRound.round_id
           Same == UNCHANGED <<position[r], prediction[r], commitment[r],
                               participants[r], outcome[r]>>
<1>1. /\ TypeOK /\ RoundIdentity
      /\ pendingDisputes \in [RoundIds -> Dispute \cup {None}]
      /\ position \in [RoundIds -> [Users -> UserPosition \cup {None}]]
      /\ prediction \in [RoundIds -> [Users -> PrecisionPrediction \cup {None}]]
      /\ commitment \in [RoundIds -> [Users -> PrecisionCommitment \cup {None}]]
      /\ participants \in [RoundIds -> SUBSET Users]
      /\ outcome \in [RoundIds -> [Users -> UserRoundOutcome \cup {None}]]
  BY DEF StakeInv, TypeOK, RoundTypeOK, StakeTypeOK, ResultTypeOK
<1>2. r \in RoundIds /\ pendingDisputes[r] # None /\ pendingDisputes'[r] # None /\ r \in Live'
  BY DEF Disputed, Live
<1>3. activeRound # None => a # r /\ a \in RoundIds
  BY <1>1, <1>2, ActiveIsLive DEF RoundIdentity
<1>4. pendingDisputes'[r] = pendingDisputes[r]
  <2>1. CASE UNCHANGED roundVars
    BY <2>1 DEF roundVars
  <2>2. CASE OpensRound \/ ChangesPools \/ ClosesActive
    BY <2>2 DEF OpensRound, ChangesPools, ClosesActive
  <2>3. CASE StagesActive
    BY <1>1, <1>2, <1>3, <2>3, OptionAssumption DEF StagesActive
  <2>4. CASE ClosesDisputed
    BY <1>1, <1>2, <2>4 DEF ClosesDisputed, Disputed
  <2> QED BY <1>1, <2>1, <2>2, <2>3, <2>4, RoundSteps
<1>5. LeavesStakes => Same
  BY DEF LeavesStakes, stakeVars
<1>6. ASSUME NEW user \in Users, NEW amount \in Amounts, NEW side \in Sides,
             place_bet(user, amount, side)
      PROVE  Same
  BY <1>1, <1>2, <1>3, <1>6 DEF place_bet, StakeAllowed, TakeStake, resultVars
<1>7. ASSUME NEW user \in Users, NEW amount \in Amounts, NEW price \in Prices,
             \/ place_precision_prediction(user, amount, price)
             \/ commit_prediction(user, amount, price)
      PROVE  Same
  BY <1>1, <1>2, <1>3, <1>7
     DEF place_precision_prediction, commit_prediction, StakeAllowed, TakeStake, resultVars
<1>8. ASSUME NEW user \in Users, NEW price \in Prices, reveal_prediction(user, price)
      PROVE  Same
  BY <1>1, <1>2, <1>3, <1>8 DEF reveal_prediction, resultVars
<1>9. ASSUME NEW user \in Users, cash_out_early(user)
      PROVE  Same
  BY <1>1, <1>2, <1>3, <1>9 DEF cash_out_early, PersistUserOutcomes, RemovePosition
<1>10. ASSUME NEW q \in RoundIds, NEW records, EndsRound(q, records)
       PROVE  Same
  <2>1. q # r
    BY <1>2, <1>10 DEF EndsRound
  <2> QED BY <1>1, <1>2, <1>10, <2>1
          DEF EndsRound, PersistUserOutcomes, ClearRoundStorage, Cleared
<1>11. Same
  BY <1>1, <1>5, <1>6, <1>7, <1>8, <1>9, <1>10, StakeSteps
<1> QED BY <1>4, <1>11

(* The end of a window: void before the deadline, the price from it on.    *)
LEMMA WindowEnds ==
  ASSUME StakeInv, [Next]_vars, NEW r \in Disputed, r \notin Disputed',
         NEW u \in Users, Reached(r, u)
  PROVE  outcome'[r][u].kind = "Void" <=> ledger < pendingDisputes[r].deadline
<1>1. /\ TypeOK /\ RoundIdentity /\ r \in RoundIds /\ pendingDisputes[r] # None
      /\ outcome \in [RoundIds -> [Users -> UserRoundOutcome \cup {None}]]
  BY DEF StakeInv, TypeOK, ResultTypeOK, Disputed
<1>2. ASSUME NEW records, PersistUserOutcomes(r, records)
      PROVE  u \in DOMAIN records /\ outcome'[r][u] = records[u]
  BY <1>1, <1>2 DEF PersistUserOutcomes, Reached
<1>3. CASE void_round(r)
  <2>1. PersistUserOutcomes(r, RefundRecords(r, "Void")) /\ WindowOpen(r)
    BY <1>3 DEF void_round, ApplySettlement
  <2>2. /\ u \in DOMAIN RefundRecords(r, "Void")
        /\ outcome'[r][u] = RefundRecords(r, "Void")[u]
    BY <1>2, <2>1
  <2> QED BY <2>1, <2>2 DEF RefundRecords, WindowOpen
<1>4. CASE finalize_round(r)
  <2> DEFINE d       == pendingDisputes[r]
             records == Settlement(d.round, d.final_price).records
  <2>1. CompleteSettlement(d.round, d.final_price) /\ ~ WindowOpen(r)
    BY <1>4 DEF finalize_round
  <2>2. d.round \in Round /\ d.final_price \in Prices /\ d.round.round_id = r
    BY <1>1 DEF TypeOK, RoundTypeOK, Dispute, RoundIdentity
  <2>3. PersistUserOutcomes(r, records)
    BY <2>1, <2>2 DEF CompleteSettlement, ApplySettlement
  <2>4. \A x \in DOMAIN records : records[x].kind # "Void"
    BY <2>2, PricedIsNotVoid
  <2> HIDE DEF records
  <2> QED BY <1>2, <2>1, <2>3, <2>4 DEF WindowOpen
<1> QED BY <1>1, <1>3, <1>4, LeavesDispute

(* The result of a disputed round is frozen, in every market and however   *)
(* many windows are open at once: until it is voided before its deadline,  *)
(* or finalized from the deadline on, neither the staged price nor any     *)
(* stake or outcome under it changes.                                      *)
THEOREM DisputesFrozen == Spec => DisputeFrozen
<1>1. MoneyInv /\ [Next]_vars => FreezesDisputes
  BY StaysFrozen, WindowEnds DEF FreezesDisputes, MoneyInv
<1> QED BY <1>1, MoneyInvariant, PTL DEF DisputeFrozen, Spec
-----------------------------------------------------------------------------
(***************************************************************************)
(* The value in the system, as sums over all users and all rounds.         *)
(***************************************************************************)
StakedRow == [r \in RoundIds |-> StakedIn(r)]

(* The total value as five sums of integers.                               *)
ValueParts ==
  /\ TotalValue = SumFunctionOnSet(balance, Users) + SumFunctionOnSet(pendingWinnings, Users)
                  + treasury + insuranceFund + SumFunctionOnSet(StakedRow, RoundIds)
  /\ \A u \in Users : balance[u] \in Int /\ pendingWinnings[u] \in Int
  /\ SumFunctionOnSet(balance, Users) \in Int
  /\ SumFunctionOnSet(pendingWinnings, Users) \in Int
  /\ treasury \in Int /\ insuranceFund \in Int
  /\ SumFunctionOnSet(StakedRow, RoundIds) \in Int
  /\ \A r \in RoundIds : /\ StakedRow[r] = StakedIn(r) /\ StakedIn(r) \in Int
                         /\ StakedIn(r) = SumFunctionOnSet(StakeRow(r), Users)
                         /\ \A u \in Users : StakeRow(r)[u] = StakeIn(r, u)
                                             /\ StakeIn(r, u) \in Nat

(* Finitely many rounds.                                                   *)
LEMMA RoundsFinite == IsFiniteSet(RoundIds)
BY BoundsAssumption, FS_Interval DEF RoundIds

(* The value in the system is the sum of integers.                         *)
LEMMA ValueHasParts == StakeInv => ValueParts
<1> SUFFICES ASSUME StakeInv
             PROVE  ValueParts
  OBVIOUS
<1>1. /\ \A u \in Users : balance[u] \in Int /\ pendingWinnings[u] \in Int
      /\ treasury \in Int /\ insuranceFund \in Int
      /\ DOMAIN balance = Users /\ DOMAIN pendingWinnings = Users
  BY BooksInt DEF StakeInv
<1>2. /\ SumFunctionOnSet(balance, Users) \in Int
      /\ SumFunctionOnSet(pendingWinnings, Users) \in Int
  BY <1>1, UsersFinite, SumInt
<1>3. ASSUME NEW r \in RoundIds
      PROVE  /\ StakedIn(r) \in Int
             /\ StakedIn(r) = SumFunctionOnSet(StakeRow(r), Users)
             /\ \A u \in Users : StakeRow(r)[u] = StakeIn(r, u) /\ StakeIn(r, u) \in Nat
  <2> DEFINE row == StakeRow(r)
  <2>1. \A u \in Users : row[u] = StakeIn(r, u) /\ StakeIn(r, u) \in Nat
    BY StakeInNat DEF StakeRow
  <2>2. StakedIn(r) = SumFunctionOnSet(row, Users)
    BY DEF StakedIn, StakeRow, SumFunction
  <2> HIDE DEF row
  <2>3. \A u \in Users : row[u] \in Int
    BY <2>1
  <2>4. SumFunctionOnSet(row, Users) \in Int
    BY <2>3, UsersFinite, SumInt
  <2> QED BY <2>1, <2>2, <2>4 DEF row
<1>4. \A r \in RoundIds : StakedRow[r] = StakedIn(r)
  BY DEF StakedRow
<1>5. SumFunctionOnSet(StakedRow, RoundIds) \in Int
  <2>1. \A r \in RoundIds : StakedRow[r] \in Int
    BY <1>3, <1>4
  <2> QED BY <2>1, RoundsFinite, SumInt
<1>6. TotalValue = SumFunctionOnSet(balance, Users) + SumFunctionOnSet(pendingWinnings, Users)
                   + treasury + insuranceFund + SumFunctionOnSet(StakedRow, RoundIds)
  BY <1>1 DEF TotalValue, SumFunction, StakedRow
<1> QED BY <1>1, <1>2, <1>3, <1>4, <1>5, <1>6 DEF ValueParts

(* Stakes that stay, the stake of one user that changes, and all stakes of *)
(* a round that go.                                                        *)
KeepsStakes == \A q \in RoundIds, u \in Users : StakeIn(q, u)' = StakeIn(q, u)

(* A step that changes one user's stake in one round.                      *)
MovesStake(r, user, amount) ==
  \A q \in RoundIds, u \in Users :
    StakeIn(q, u)' = IF q = r /\ u = user THEN amount ELSE StakeIn(q, u)

(* A step that takes every stake out of one round.                         *)
EmptiesRound(r) ==
  \A q \in RoundIds, u \in Users : StakeIn(q, u)' = IF q = r THEN 0 ELSE StakeIn(q, u)

(* The value at stake after a step that touches one round.                 *)
LEMMA StakedChanges ==
  ASSUME ValueParts, ValueParts', NEW r \in RoundIds,
         \A q \in RoundIds \ {r} : \A u \in Users : StakeIn(q, u)' = StakeIn(q, u)
  PROVE  SumFunctionOnSet(StakedRow', RoundIds)
           = SumFunctionOnSet(StakedRow, RoundIds) - StakedIn(r) + StakedIn(r)'
<1> DEFINE new == StakedRow'
<1>1. ASSUME NEW q \in RoundIds \ {r}
      PROVE  new[q] = StakedRow[q]
  <2>1. /\ StakedRow[q] = SumFunctionOnSet(StakeRow(q), Users)
        /\ new[q] = SumFunctionOnSet(StakeRow(q)', Users)
    BY DEF ValueParts
  <2>2. \A u \in Users : StakeRow(q)'[u] = StakeRow(q)[u]
    BY DEF StakeRow
  <2>3. SumFunctionOnSet(StakeRow(q)', Users) = SumFunctionOnSet(StakeRow(q), Users)
    <3> DEFINE old   == StakeRow(q)
               after == StakeRow(q)'
    <3>1. \A u \in Users : after[u] = old[u]
      BY <2>2
    <3> HIDE DEF old, after
    <3>2. SumFunctionOnSet(after, Users) = SumFunctionOnSet(old, Users)
      BY <3>1, UsersFinite, SumAgrees
    <3> QED BY <3>2 DEF old, after
  <2> QED BY <2>1, <2>3
<1>2. \A q \in RoundIds : StakedRow[q] \in Int /\ new[q] \in Int
  BY DEF ValueParts
<1>3. StakedRow[r] = StakedIn(r) /\ new[r] = StakedIn(r)'
  BY DEF ValueParts
<1> HIDE DEF new
<1>4. SumFunctionOnSet(new, RoundIds)
        = SumFunctionOnSet(StakedRow, RoundIds) - StakedRow[r] + new[r]
  BY <1>1, <1>2, RoundsFinite, SumChanges
<1> QED BY <1>3, <1>4 DEF new

(* The same for the three kinds of steps.                                  *)
LEMMA StakedKept ==
  ASSUME ValueParts, ValueParts', KeepsStakes
  PROVE  SumFunctionOnSet(StakedRow', RoundIds) = SumFunctionOnSet(StakedRow, RoundIds)
<1> DEFINE new == StakedRow'
<1>1. ASSUME NEW q \in RoundIds
      PROVE  new[q] = StakedRow[q]
  <2> DEFINE old   == StakeRow(q)
             after == StakeRow(q)'
  <2>1. /\ StakedRow[q] = SumFunctionOnSet(old, Users)
        /\ new[q] = SumFunctionOnSet(after, Users)
    BY DEF ValueParts
  <2>2. \A u \in Users : after[u] = old[u]
    BY DEF StakeRow, KeepsStakes
  <2> HIDE DEF old, after
  <2>3. SumFunctionOnSet(after, Users) = SumFunctionOnSet(old, Users)
    BY <2>2, UsersFinite, SumAgrees
  <2> QED BY <2>1, <2>3
<1> HIDE DEF new
<1>2. SumFunctionOnSet(new, RoundIds) = SumFunctionOnSet(StakedRow, RoundIds)
  BY <1>1, RoundsFinite, SumAgrees
<1> QED BY <1>2 DEF new

(* When one stake changes, the total staked changes by the difference.     *)
LEMMA StakedMoved ==
  ASSUME ValueParts, ValueParts', NEW r \in RoundIds, NEW user \in Users, NEW amount,
         MovesStake(r, user, amount)
  PROVE  /\ amount \in Nat
         /\ SumFunctionOnSet(StakedRow', RoundIds)
              = SumFunctionOnSet(StakedRow, RoundIds) - StakeIn(r, user) + amount
<1> DEFINE old   == StakeRow(r)
           after == StakeRow(r)'
<1>1. /\ StakedIn(r) = SumFunctionOnSet(old, Users)
      /\ StakedIn(r)' = SumFunctionOnSet(after, Users)
      /\ StakedIn(r) \in Int /\ SumFunctionOnSet(StakedRow, RoundIds) \in Int
      /\ \A u \in Users : /\ old[u] = StakeIn(r, u) /\ StakeIn(r, u) \in Nat
                          /\ after[u] = StakeIn(r, u)' /\ StakeIn(r, u)' \in Nat
  BY DEF ValueParts
<1>2. /\ after[user] = amount /\ amount \in Nat
      /\ \A u \in Users \ {user} : after[u] = old[u]
  BY <1>1 DEF MovesStake
<1>3. SumFunctionOnSet(StakedRow', RoundIds)
        = SumFunctionOnSet(StakedRow, RoundIds) - StakedIn(r) + StakedIn(r)'
  BY StakedChanges DEF MovesStake
<1> HIDE DEF old, after
<1>4. SumFunctionOnSet(after, Users) = SumFunctionOnSet(old, Users) - old[user] + after[user]
  <2>1. \A u \in Users : old[u] \in Int /\ after[u] \in Int
    BY <1>1
  <2> QED BY <1>2, <2>1, UsersFinite, SumChanges
<1> QED BY <1>1, <1>2, <1>3, <1>4

(* When a round is emptied, the total staked loses exactly that round's    *)
(* stakes.                                                                 *)
LEMMA StakedEmptied ==
  ASSUME ValueParts, ValueParts', NEW r \in RoundIds, EmptiesRound(r)
  PROVE  SumFunctionOnSet(StakedRow', RoundIds)
           = SumFunctionOnSet(StakedRow, RoundIds) - SumFunctionOnSet(StakeRow(r), Users)
<1> DEFINE after == StakeRow(r)'
<1>1. /\ StakedIn(r) = SumFunctionOnSet(StakeRow(r), Users)
      /\ StakedIn(r)' = SumFunctionOnSet(after, Users)
      /\ StakedIn(r) \in Int /\ SumFunctionOnSet(StakedRow, RoundIds) \in Int
      /\ \A u \in Users : after[u] = 0
  BY DEF ValueParts, EmptiesRound
<1>2. SumFunctionOnSet(StakedRow', RoundIds)
        = SumFunctionOnSet(StakedRow, RoundIds) - StakedIn(r) + StakedIn(r)'
  BY StakedChanges DEF EmptiesRound
<1> HIDE DEF after
<1>3. SumFunctionOnSet(after, Users) = Cardinality(Users) * 0
  <2>1. 0 \in Int
    OBVIOUS
  <2> QED BY <1>1, <2>1, UsersFinite, SumConstant, Zenon
<1>4. Cardinality(Users) \in Nat
  BY UsersFinite, FS_CardinalityType
<1> QED BY <1>1, <1>2, <1>3, <1>4

(* Unchanged keys are an unchanged stake, and no keys are no stake.        *)
LEMMA StakeFromKeys ==
  ASSUME NEW r \in RoundIds, NEW u \in Users
  PROVE  /\ /\ position'[r][u] = position[r][u] /\ prediction'[r][u] = prediction[r][u]
            /\ commitment'[r][u] = commitment[r][u]
            => StakeIn(r, u)' = StakeIn(r, u)
         /\ NoKeys(r, u) => StakeIn(r, u)' = 0
         /\ /\ position[r][u] = None /\ prediction[r][u] = None /\ commitment[r][u] = None
            => StakeIn(r, u) = 0
<1>1. ASSUME position'[r][u] = position[r][u], prediction'[r][u] = prediction[r][u],
             commitment'[r][u] = commitment[r][u]
      PROVE  StakeIn(r, u)' = StakeIn(r, u)
  BY <1>1 DEF StakeIn
<1>2. NoKeys(r, u) => StakeIn(r, u)' = 0
  BY DEF NoKeys, StakeIn
<1>3. ASSUME position[r][u] = None, prediction[r][u] = None, commitment[r][u] = None
      PROVE  StakeIn(r, u) = 0
  BY <1>3 DEF StakeIn
<1> QED BY <1>1, <1>2, <1>3

(* The end of a round empties it and leaves the other rounds alone.        *)
LEMMA EndsEmpties ==
  ASSUME StakeInv, NEW r, NEW records, EndsRound(r, records)
  PROVE  EmptiesRound(r)
<1> SUFFICES ASSUME NEW q \in RoundIds, NEW u \in Users
             PROVE  StakeIn(q, u)' = IF q = r THEN 0 ELSE StakeIn(q, u)
  BY DEF EmptiesRound
<1>1. /\ position \in [RoundIds -> [Users -> UserPosition \cup {None}]]
      /\ prediction \in [RoundIds -> [Users -> PrecisionPrediction \cup {None}]]
      /\ commitment \in [RoundIds -> [Users -> PrecisionCommitment \cup {None}]]
      /\ participants \in [RoundIds -> SUBSET Users]
  BY DEF StakeInv, TypeOK, StakeTypeOK
<1>2. r \in RoundIds /\ ClearRoundStorage(r)
  BY DEF EndsRound
<1>3. CASE q = r
  <2>1. KeysListed(q, u)
    BY KeysFromInv DEF KeysSound
  <2>2. NoKeys(q, u)
    BY <1>1, <1>2, <1>3, <2>1 DEF ClearRoundStorage, Cleared, NoKeys, KeysListed
  <2> QED BY <1>3, <2>2, StakeFromKeys
<1>4. CASE q # r
  <2>1. /\ position'[q][u] = position[q][u] /\ prediction'[q][u] = prediction[q][u]
        /\ commitment'[q][u] = commitment[q][u]
    BY <1>1, <1>2, <1>4 DEF ClearRoundStorage, Cleared
  <2> QED BY <1>4, <2>1, StakeFromKeys
<1> QED BY <1>3, <1>4

(* What the calls on the active round do to one stake.                     *)
LEMMA StakeCalls ==
  ASSUME StakeInv, Stake
  PROVE  \/ UNCHANGED <<walletVars, pendingVars, feeVars, outcome>> /\ KeepsStakes
         \/ \E user \in Users, amount \in Amounts :
              /\ TakesStake(user, amount) /\ activeRound # None
              /\ StakeIn(activeRound.round_id, user) = 0
              /\ MovesStake(activeRound.round_id, user, amount)
         \/ \E user \in Users :
              cash_out_early(user) /\ MovesStake(activeRound.round_id, user, 0)
<1> DEFINE a == activeRound.round_id
           Takes(user, amount) == /\ TakesStake(user, amount) /\ activeRound # None
                                  /\ StakeIn(a, user) = 0 /\ MovesStake(a, user, amount)
<1>1. /\ position \in [RoundIds -> [Users -> UserPosition \cup {None}]]
      /\ prediction \in [RoundIds -> [Users -> PrecisionPrediction \cup {None}]]
      /\ commitment \in [RoundIds -> [Users -> PrecisionCommitment \cup {None}]]
  BY DEF StakeInv, TypeOK, StakeTypeOK
<1>2. activeRound # None =>
        /\ a \in RoundIds
        /\ \A u \in Users : KeysOfMode(a, u, activeRound.mode) /\ KeysSound(a, u)
  BY ActiveIsLive, KeysFromInv DEF StakeInv
<1>3. \A q \in RoundIds, u \in Users :
        /\ position'[q][u] = position[q][u] /\ prediction'[q][u] = prediction[q][u]
        /\ commitment'[q][u] = commitment[q][u]
        => StakeIn(q, u)' = StakeIn(q, u)
  BY StakeFromKeys
<1>4. ASSUME NEW user \in Users, NEW amount \in Amounts, NEW side \in Sides,
             place_bet(user, amount, side)
      PROVE  Takes(user, amount)
  <2> DEFINE e == [amount |-> amount, side |-> side]
  <2>1. /\ activeRound # None /\ activeRound.mode = "UpDown" /\ position[a][user] = None
        /\ position' = [position EXCEPT ![a][user] = e]
        /\ UNCHANGED <<prediction, commitment>>
    BY <1>4 DEF place_bet, StakeAllowed
  <2>2. TakesStake(user, amount)
    BY <1>4 DEF place_bet, StakeAllowed, TakesStake, resultVars
  <2>3. prediction[a][user] = None /\ commitment[a][user] = None
    BY <1>2, <2>1 DEF KeysOfMode
  <2>4. e # None /\ e.amount = amount
    BY OptionAssumption DEF UserPosition
  <2> HIDE DEF e
  <2>5. \A q \in RoundIds : q = a => StakeIn(q, user)' = amount
    <3> SUFFICES ASSUME NEW q \in RoundIds, q = a
                 PROVE  StakeIn(q, user)' = amount
      OBVIOUS
    <3>1. position'[q][user] = e /\ prediction'[q][user] = None /\ commitment'[q][user] = None
      BY <1>1, <1>2, <2>1, <2>3
    <3> QED BY <2>4, <3>1 DEF StakeIn
  <2>6. \A q \in RoundIds, u \in Users : ~ (q = a /\ u = user) => StakeIn(q, u)' = StakeIn(q, u)
    BY <1>1, <1>2, <1>3, <2>1
  <2>7. StakeIn(a, user) = 0
    BY <1>2, <2>1, <2>3, StakeFromKeys
  <2> QED BY <2>1, <2>2, <2>5, <2>6, <2>7 DEF MovesStake
<1>5. ASSUME NEW user \in Users, NEW amount \in Amounts, NEW price \in Prices,
             place_precision_prediction(user, amount, price)
      PROVE  Takes(user, amount)
  <2> DEFINE e == [amount |-> amount, price |-> price]
  <2>1. /\ activeRound # None /\ activeRound.mode = "Precision"
        /\ prediction[a][user] = None /\ commitment[a][user] = None
        /\ prediction' = [prediction EXCEPT ![a][user] = e]
        /\ UNCHANGED <<position, commitment>>
    BY <1>5 DEF place_precision_prediction, StakeAllowed
  <2>2. TakesStake(user, amount)
    BY <1>5 DEF place_precision_prediction, StakeAllowed, TakesStake, resultVars
  <2>3. position[a][user] = None
    BY <1>2, <2>1 DEF KeysOfMode
  <2>4. e # None /\ e.amount = amount
    BY OptionAssumption DEF PrecisionPrediction
  <2> HIDE DEF e
  <2>5. \A q \in RoundIds : q = a => StakeIn(q, user)' = amount
    <3> SUFFICES ASSUME NEW q \in RoundIds, q = a
                 PROVE  StakeIn(q, user)' = amount
      OBVIOUS
    <3>1. prediction'[q][user] = e /\ position'[q][user] = None /\ commitment'[q][user] = None
      BY <1>1, <1>2, <2>1, <2>3
    <3> QED BY <2>4, <3>1 DEF StakeIn
  <2>6. \A q \in RoundIds, u \in Users : ~ (q = a /\ u = user) => StakeIn(q, u)' = StakeIn(q, u)
    BY <1>1, <1>2, <1>3, <2>1
  <2>7. StakeIn(a, user) = 0
    BY <1>2, <2>1, <2>3, StakeFromKeys
  <2> QED BY <2>1, <2>2, <2>5, <2>6, <2>7 DEF MovesStake
<1>6. ASSUME NEW user \in Users, NEW amount \in Amounts, NEW price \in Prices,
             commit_prediction(user, amount, price)
      PROVE  Takes(user, amount)
  <2> DEFINE e == [amount |-> amount, price |-> price, revealed |-> FALSE]
  <2>1. /\ activeRound # None /\ activeRound.mode = "Precision"
        /\ prediction[a][user] = None /\ commitment[a][user] = None
        /\ commitment' = [commitment EXCEPT ![a][user] = e]
        /\ UNCHANGED <<position, prediction>>
    BY <1>6 DEF commit_prediction, StakeAllowed
  <2>2. TakesStake(user, amount)
    BY <1>6 DEF commit_prediction, StakeAllowed, TakesStake, resultVars
  <2>3. position[a][user] = None
    BY <1>2, <2>1 DEF KeysOfMode
  <2>4. e # None /\ e.amount = amount
    <3>1. e \in PrecisionCommitment
      BY DEF PrecisionCommitment
    <3> QED BY <3>1, OptionAssumption
  <2> HIDE DEF e
  <2>5. \A q \in RoundIds : q = a => StakeIn(q, user)' = amount
    <3> SUFFICES ASSUME NEW q \in RoundIds, q = a
                 PROVE  StakeIn(q, user)' = amount
      OBVIOUS
    <3>1. commitment'[q][user] = e /\ position'[q][user] = None /\ prediction'[q][user] = None
      BY <1>1, <1>2, <2>1, <2>3
    <3> QED BY <2>4, <3>1 DEF StakeIn
  <2>6. \A q \in RoundIds, u \in Users : ~ (q = a /\ u = user) => StakeIn(q, u)' = StakeIn(q, u)
    BY <1>1, <1>2, <1>3, <2>1
  <2>7. StakeIn(a, user) = 0
    BY <1>2, <2>1, <2>3, StakeFromKeys
  <2> QED BY <2>1, <2>2, <2>5, <2>6, <2>7 DEF MovesStake
<1>7. ASSUME NEW user \in Users, NEW price \in Prices, reveal_prediction(user, price)
      PROVE  UNCHANGED <<walletVars, pendingVars, feeVars, outcome>> /\ KeepsStakes
  <2> DEFINE c     == commitment[a][user]
             shown == [amount |-> c.amount, price |-> c.price, revealed |-> TRUE]
             guess == [amount |-> c.amount, price |-> price]
  <2>1. /\ activeRound # None /\ activeRound.mode = "Precision" /\ c # None /\ ~ c.revealed
        /\ commitment' = [commitment EXCEPT ![a][user] = shown]
        /\ prediction' = [prediction EXCEPT ![a][user] = guess]
        /\ position' = position
    BY <1>7 DEF reveal_prediction
  <2>2. UNCHANGED <<walletVars, pendingVars, feeVars, outcome>>
    BY <1>7 DEF reveal_prediction, resultVars
  <2>3. position[a][user] = None /\ prediction[a][user] = None
    BY <1>2, <2>1 DEF KeysOfMode, KeysSound
  <2>4. c \in PrecisionCommitment
    BY <1>1, <1>2, <2>1
  <2>5. /\ guess \in PrecisionPrediction /\ guess.amount = c.amount
        /\ shown \in PrecisionCommitment /\ shown.amount = c.amount
    BY <2>4 DEF PrecisionCommitment, PrecisionPrediction
  <2>6. guess # None /\ shown # None
    BY <2>5, OptionAssumption
  <2> HIDE DEF shown, guess
  <2>7. \A q \in RoundIds : q = a => StakeIn(q, user)' = c.amount
    <3> SUFFICES ASSUME NEW q \in RoundIds, q = a
                 PROVE  StakeIn(q, user)' = c.amount
      OBVIOUS
    <3>1. /\ prediction'[q][user] = guess /\ position'[q][user] = None
          /\ commitment'[q][user] = shown
      BY <1>1, <1>2, <2>1, <2>3
    <3> QED BY <2>5, <2>6, <3>1 DEF StakeIn
  <2>8. StakeIn(a, user) = c.amount
    BY <2>1, <2>3 DEF StakeIn
  <2>9. \A q \in RoundIds, u \in Users : ~ (q = a /\ u = user) => StakeIn(q, u)' = StakeIn(q, u)
    BY <1>1, <1>2, <1>3, <2>1
  <2> QED BY <2>2, <2>7, <2>8, <2>9 DEF KeepsStakes
<1>8. ASSUME NEW user \in Users, cash_out_early(user)
      PROVE  MovesStake(a, user, 0)
  <2>1. /\ activeRound # None /\ activeRound.mode = "UpDown"
        /\ position' = [position EXCEPT ![a][user] = None]
        /\ participants' = [participants EXCEPT ![a] = participants[a] \ {user}]
        /\ UNCHANGED <<prediction, commitment>>
    BY <1>8 DEF cash_out_early, RemovePosition
  <2>2. \A q \in RoundIds : q = a => NoKeys(q, user)
    <3>1. participants \in [RoundIds -> SUBSET Users]
      BY DEF StakeInv, TypeOK, StakeTypeOK
    <3> QED BY <1>1, <1>2, <2>1, <3>1 DEF NoKeys, KeysOfMode
  <2>3. \A q \in RoundIds : q = a => StakeIn(q, user)' = 0
    BY <2>2, StakeFromKeys
  <2>4. \A q \in RoundIds, u \in Users : ~ (q = a /\ u = user) => StakeIn(q, u)' = StakeIn(q, u)
    BY <1>1, <1>2, <1>3, <2>1
  <2> QED BY <2>3, <2>4 DEF MovesStake
<1> QED BY <1>4, <1>5, <1>6, <1>7, <1>8 DEF Stake

(* Credits add up.                                                         *)
LEMMA PendingGrows ==
  ASSUME ValueParts, NEW row, Credits(row)
  PROVE  /\ SumFunctionOnSet(row, Users) \in Nat
         /\ SumFunctionOnSet(pendingWinnings', Users)
              = SumFunctionOnSet(pendingWinnings, Users) + SumFunctionOnSet(row, Users)
         /\ balance' = balance
<1> DEFINE old == pendingWinnings
           new == pendingWinnings'
<1>1. /\ \A u \in Users : row[u] \in Nat /\ old[u] \in Int /\ new[u] = old[u] + row[u]
      /\ balance' = balance
  BY DEF Credits, ValueParts, walletVars
<1> HIDE DEF old, new
<1>2. SumFunctionOnSet(row, Users) \in Nat
  BY <1>1, UsersFinite, SumNat
<1>3. SumFunctionOnSet(new, Users) = SumFunctionOnSet(old, Users) + SumFunctionOnSet(row, Users)
  <2>1. \A u \in Users : row[u] \in Int /\ old[u] \in Int /\ new[u] = old[u] + row[u]
    BY <1>1
  <2> QED BY <2>1, UsersFinite, SumAdds
<1> QED BY <1>1, <1>2, <1>3 DEF old, new

(* A wallet that is credited, or charged, changes the sum by that much.    *)
LEMMA CreditAdds ==
  ASSUME ValueParts, ValueParts', TypeOK, NEW user \in Users, NEW amount \in Int,
         balance' = [balance EXCEPT ![user] = balance[user] + amount]
  PROVE  SumFunctionOnSet(balance', Users) = SumFunctionOnSet(balance, Users) + amount
<1> DEFINE old == balance
           new == balance'
<1>1. /\ \A u \in Users : old[u] \in Int /\ new[u] \in Int
      /\ \A u \in Users \ {user} : new[u] = old[u]
      /\ new[user] = old[user] + amount
      /\ SumFunctionOnSet(old, Users) \in Int
  BY BooksInt DEF ValueParts
<1> HIDE DEF old, new
<1>2. SumFunctionOnSet(new, Users) = SumFunctionOnSet(old, Users) - old[user] + new[user]
  BY <1>1, UsersFinite, SumChanges
<1> QED BY <1>1, <1>2 DEF old, new

(* A claim moves value from the pending entries to the wallets.            *)
LEMMA MoveKeepsSum ==
  ASSUME ValueParts, ValueParts', NEW users \in SUBSET Users, MovePending(users)
  PROVE  SumFunctionOnSet(balance', Users) + SumFunctionOnSet(pendingWinnings', Users)
           = SumFunctionOnSet(balance, Users) + SumFunctionOnSet(pendingWinnings, Users)
<1> DEFINE b  == balance
           w  == pendingWinnings
           bn == balance'
           wn == pendingWinnings'
           total == [u \in Users |-> b[u] + w[u]]
<1>1. \A u \in Users : /\ b[u] \in Int /\ w[u] \in Int /\ bn[u] \in Int /\ wn[u] \in Int
                       /\ bn[u] + wn[u] = b[u] + w[u]
  <2> SUFFICES ASSUME NEW u \in Users
               PROVE  /\ b[u] \in Int /\ w[u] \in Int /\ bn[u] \in Int /\ wn[u] \in Int
                      /\ bn[u] + wn[u] = b[u] + w[u]
    OBVIOUS
  <2>1. b[u] \in Int /\ w[u] \in Int /\ bn[u] \in Int /\ wn[u] \in Int
    BY DEF ValueParts
  <2>2. \/ bn[u] = b[u] /\ wn[u] = w[u]
        \/ bn[u] = b[u] + w[u] /\ wn[u] = 0
    BY DEF MovePending
  <2> HIDE DEF b, w, bn, wn
  <2> QED BY <2>1, <2>2
<1>2. \A u \in Users : total[u] = b[u] + w[u] /\ total[u] = bn[u] + wn[u]
  BY <1>1
<1> HIDE DEF b, w, bn, wn, total
<1>3. SumFunctionOnSet(total, Users) = SumFunctionOnSet(b, Users) + SumFunctionOnSet(w, Users)
  BY <1>1, <1>2, UsersFinite, SumAdds
<1>4. SumFunctionOnSet(total, Users) = SumFunctionOnSet(bn, Users) + SumFunctionOnSet(wn, Users)
  BY <1>1, <1>2, UsersFinite, SumAdds
<1> QED BY <1>3, <1>4 DEF b, w, bn, wn

(* The wallet entrypoints: only mint_initial makes value.                  *)
LEMMA WalletValue ==
  ASSUME StakeInv, ValueParts, ValueParts', Wallet
  PROVE  \/ TotalValue - TotalValue' = 0
         \/ /\ TotalValue - TotalValue' = -MintAmount
            /\ hasBalance' # hasBalance /\ UNCHANGED feeVars
<1> DEFINE b  == SumFunctionOnSet(balance, Users)
           w  == SumFunctionOnSet(pendingWinnings, Users)
           s  == SumFunctionOnSet(StakedRow, RoundIds)
           bn == SumFunctionOnSet(balance', Users)
           wn == SumFunctionOnSet(pendingWinnings', Users)
           sn == SumFunctionOnSet(StakedRow', RoundIds)
           Goal == \/ TotalValue - TotalValue' = 0
                   \/ /\ TotalValue - TotalValue' = -MintAmount
                      /\ hasBalance' # hasBalance /\ UNCHANGED feeVars
<1>1. /\ TotalValue = b + w + treasury + insuranceFund + s
      /\ TotalValue' = bn + wn + treasury' + insuranceFund' + sn
      /\ b \in Int /\ w \in Int /\ s \in Int /\ treasury \in Int /\ insuranceFund \in Int
      /\ bn \in Int /\ wn \in Int /\ sn \in Int /\ treasury' \in Int /\ insuranceFund' \in Int
  BY DEF ValueParts
<1>2. sn = s
  <2>1. UNCHANGED stakeVars
    BY DEF Wallet, mint_initial, claim_winnings, reclaim_expired_pending_winnings,
           claim_many, withdraw_protocol_fee, withdraw_insurance_fund,
           execute_withdraw_fee, execute_withdraw_insurance_fund, top_up_insurance_fund
  <2>2. KeepsStakes
    BY <2>1, StakeFromKeys DEF KeepsStakes, stakeVars
  <2> QED BY <2>2, StakedKept
<1>3. /\ TypeOK /\ Admin \in Users /\ MintAmount \in Int
      /\ \A amount \in Amounts : amount \in Int /\ -amount \in Int
      /\ \A u \in Users : pendingWinnings[u] \in Int
      /\ pendingWinnings \in [Users -> I128]
  BY AmountsInt, AmountsAssumption, UsersAssumption, BooksInt DEF StakeInv
<1>4. ASSUME NEW user \in Users, NEW amount \in Int, Credit(user, amount)
      PROVE  bn = b + amount
  BY <1>3, <1>4, CreditAdds DEF Credit
<1>5. UNCHANGED pendingVars => wn = w
  BY DEF pendingVars
<1> HIDE DEF b, w, s, bn, wn, sn
<1>6. ASSUME NEW user \in Users, mint_initial(user)
      PROVE  Goal
  <2>1. /\ Credit(user, MintAmount) /\ user \notin hasBalance
        /\ UNCHANGED pendingVars /\ UNCHANGED feeVars
    BY <1>6 DEF mint_initial
  <2>2. bn = b + MintAmount /\ wn = w /\ hasBalance' # hasBalance
    BY <1>3, <1>4, <1>5, <2>1 DEF Credit
  <2>3. treasury' = treasury /\ insuranceFund' = insuranceFund
    BY <2>1 DEF feeVars
  <2>4. TotalValue - TotalValue' = -MintAmount
    BY <1>1, <1>2, <1>3, <2>2, <2>3
  <2> QED BY <2>1, <2>2, <2>4
<1>7. ASSUME NEW users \in SUBSET Users, MovePending(users), UNCHANGED feeVars
      PROVE  Goal
  <2>1. bn + wn = b + w
    BY <1>7, MoveKeepsSum DEF b, w, bn, wn
  <2> QED BY <1>1, <1>2, <1>7, <2>1 DEF feeVars
<1>8. ASSUME NEW user \in Users, reclaim_expired_pending_winnings(user)
      PROVE  Goal
  <2> DEFINE x == pendingWinnings[user]
  <2>1. /\ Credit(Admin, x) /\ UNCHANGED feeVars
        /\ pendingWinnings' = [pendingWinnings EXCEPT ![user] = 0]
    BY <1>8 DEF reclaim_expired_pending_winnings
  <2>2. x \in Int
    BY <1>3
  <2>3. wn = w - x
    <3> DEFINE old == pendingWinnings
               new == pendingWinnings'
    <3>1. /\ \A u \in Users : old[u] \in Int /\ new[u] \in Int
          /\ \A u \in Users \ {user} : new[u] = old[u]
          /\ new[user] = 0 /\ old[user] = x
      BY <1>3, <2>1
    <3> HIDE DEF old, new, x
    <3>2. SumFunctionOnSet(new, Users) = SumFunctionOnSet(old, Users) - old[user] + new[user]
      BY <3>1, UsersFinite, SumChanges
    <3> QED BY <1>1, <2>2, <3>1, <3>2 DEF old, new, w, wn
  <2> HIDE DEF x
  <2>4. bn = b + x
    BY <1>3, <1>4, <2>1, <2>2
  <2> QED BY <1>1, <1>2, <2>1, <2>2, <2>3, <2>4 DEF feeVars
<1>9. ASSUME NEW to \in Users, NEW amount \in Amounts, execute_withdraw_fee(to, amount)
      PROVE  Goal
  <2>1. /\ treasury' = treasury - amount /\ insuranceFund' = insuranceFund
        /\ Credit(to, amount) /\ UNCHANGED pendingVars
    BY <1>9 DEF execute_withdraw_fee
  <2>2. bn = b + amount /\ wn = w
    BY <1>3, <1>4, <1>5, <2>1
  <2> QED BY <1>1, <1>2, <1>3, <2>1, <2>2
<1>10. ASSUME NEW to \in Users, NEW amount \in Amounts, execute_withdraw_insurance_fund(to, amount)
       PROVE  Goal
  <2>1. /\ insuranceFund' = insuranceFund - amount /\ treasury' = treasury
        /\ Credit(to, amount) /\ UNCHANGED pendingVars
    BY <1>10 DEF execute_withdraw_insurance_fund
  <2>2. bn = b + amount /\ wn = w
    BY <1>3, <1>4, <1>5, <2>1
  <2> QED BY <1>1, <1>2, <1>3, <2>1, <2>2
<1>11. ASSUME NEW amount \in Amounts, top_up_insurance_fund(amount)
       PROVE  Goal
  <2>1. /\ insuranceFund' = insuranceFund + amount /\ treasury' = treasury
        /\ Credit(Admin, -amount) /\ UNCHANGED pendingVars
    BY <1>11 DEF top_up_insurance_fund
  <2>2. bn = b + (-amount) /\ wn = w
    BY <1>3, <1>4, <1>5, <2>1
  <2> QED BY <1>1, <1>2, <1>3, <2>1, <2>2
<1>12. \A user \in Users : claim_winnings(user) => Goal
  BY <1>7 DEF claim_winnings
<1>13. \A users \in SUBSET Users : claim_many(users) => Goal
  BY <1>7 DEF claim_many
<1> HIDE DEF Goal
<1>14. Goal
  BY <1>6, <1>8, <1>9, <1>10, <1>11, <1>12, <1>13
     DEF Wallet, withdraw_protocol_fee, withdraw_insurance_fund
<1> QED BY <1>14 DEF Goal

(* The end of a round reaches each of its participants once.               *)
ReachedSet == {p \in RoundIds \X Users : Reached(p[1], p[2])}

(* A settlement reaches exactly the round's participants, each with its    *)
(* own record.                                                             *)
LEMMA ReachedCount ==
  ASSUME StakeInv, NEW r \in RoundIds, NEW records, PersistUserOutcomes(r, records),
         DOMAIN records = participants[r], \A u \in participants[r] : records[u] # None
  PROVE  /\ Cardinality(ReachedSet) = Cardinality(participants[r])
         /\ \A u \in participants[r] : <<r, u>> \in ReachedSet /\ outcome'[r][u] = records[u]
<1>1. participants[r] \subseteq Users /\ IsFiniteSet(participants[r])
  BY UsersFinite, FS_Subset DEF StakeInv, TypeOK, StakeTypeOK
<1>2. \A q \in RoundIds, u \in Users :
        outcome'[q][u] = IF q = r /\ u \in participants[r] /\ outcome[q][u] = None
                         THEN records[u] ELSE outcome[q][u]
  BY DEF PersistUserOutcomes, StakeInv, TypeOK, ResultTypeOK
<1>3. \A u \in participants[r] : outcome[r][u] = None /\ u \in Users
  BY ParticipantsUnrecorded
<1>4. \A q \in RoundIds, u \in Users : Reached(q, u) <=> q = r /\ u \in participants[r]
  BY <1>2, <1>3 DEF Reached
<1>5. ReachedSet = {r} \X participants[r]
  BY <1>1, <1>4 DEF ReachedSet
<1>6. /\ Cardinality({r}) = 1 /\ IsFiniteSet({r}) /\ Cardinality(participants[r]) \in Nat
  BY <1>1, FS_Singleton, FS_CardinalityType
<1>7. Cardinality({r} \X participants[r]) = Cardinality(participants[r])
  <2>1. Cardinality({r} \X participants[r]) = Cardinality({r}) * Cardinality(participants[r])
    BY <1>1, <1>6, FS_Product
  <2> QED BY <1>6, <2>1
<1>8. \A u \in participants[r] : <<r, u>> \in ReachedSet
  BY <1>5
<1> QED BY <1>2, <1>3, <1>5, <1>7, <1>8

(* Value after an early exit, a settlement and a cancellation.             *)
LEMMA ExitValue ==
  ASSUME StakeInv, ValueParts, ValueParts', NEW user \in Users, cash_out_early(user),
         MovesStake(activeRound.round_id, user, 0)
  PROVE  TotalValue - TotalValue' = 0
<1> DEFINE b  == SumFunctionOnSet(balance, Users)
           w  == SumFunctionOnSet(pendingWinnings, Users)
           s  == SumFunctionOnSet(StakedRow, RoundIds)
           bn == SumFunctionOnSet(balance', Users)
           wn == SumFunctionOnSet(pendingWinnings', Users)
           sn == SumFunctionOnSet(StakedRow', RoundIds)
<1>1. /\ TotalValue = b + w + treasury + insuranceFund + s
      /\ TotalValue' = bn + wn + treasury' + insuranceFund' + sn
      /\ b \in Int /\ w \in Int /\ s \in Int /\ treasury \in Int /\ insuranceFund \in Int
      /\ bn \in Int /\ wn \in Int /\ sn \in Int /\ treasury' \in Int /\ insuranceFund' \in Int
  BY DEF ValueParts
<1>2. TypeOK /\ activeRound # None
  BY DEF cash_out_early, StakeInv
<1>3. PICK a \in RoundIds : a = activeRound.round_id
  BY <1>2, ActiveIsLive DEF StakeInv
<1> DEFINE stake   == position[activeRound.round_id][user].amount
           forfeit == CashoutForfeit(stake, config.cashoutBps)
           row     == ExitRow(user)
<1>4. /\ Credits(row) /\ CollectProtocolFee(forfeit)
      /\ stake \in Nat /\ forfeit \in Nat /\ forfeit <= stake
      /\ StakeIn(a, user) = stake
      /\ row = [u \in Users |-> IF u = user THEN stake - forfeit ELSE 0]
  BY <1>3, ExitCredits DEF ExitRow
<1> HIDE DEF stake, forfeit, row
<1>5. treasury' + insuranceFund' = treasury + insuranceFund + forfeit
  BY <1>2, <1>4, FeeCollected
<1>6. wn = w + SumFunctionOnSet(row, Users) /\ balance' = balance
  BY <1>4, PendingGrows
<1>7. sn = s - stake
  <2>1. MovesStake(a, user, 0)
    BY <1>3
  <2>2. sn = s - StakeIn(a, user) + 0
    BY <2>1, StakedMoved
  <2> HIDE DEF s, sn
  <2> QED BY <1>1, <1>4, <2>2
<1>8. SumFunctionOnSet(row, Users) = stake - forfeit
  <2> DEFINE zero == [u \in Users |-> 0]
  <2>1. /\ \A u \in Users : zero[u] = 0 /\ zero[u] \in Int /\ row[u] \in Int
        /\ \A u \in Users \ {user} : row[u] = zero[u]
        /\ row[user] = stake - forfeit
    BY <1>4
  <2>2. SumFunctionOnSet(zero, Users) = Cardinality(Users) * 0
    <3>1. 0 \in Int /\ \A u \in Users : zero[u] = 0
      OBVIOUS
    <3> HIDE DEF zero
    <3> QED BY <3>1, UsersFinite, SumConstant, Zenon
  <2>3. Cardinality(Users) \in Nat
    BY UsersFinite, FS_CardinalityType
  <2> HIDE DEF zero
  <2>4. SumFunctionOnSet(row, Users)
          = SumFunctionOnSet(zero, Users) - zero[user] + row[user]
    BY <2>1, UsersFinite, SumChanges
  <2> QED BY <1>4, <2>1, <2>2, <2>3, <2>4
<1> HIDE DEF b, w, s, bn, wn, sn
<1>9. bn = b
  BY <1>6 DEF b, bn
<1>10. wn = w + (stake - forfeit)
  BY <1>6, <1>8
<1>11. TotalValue' = b + (w + (stake - forfeit)) + (treasury + insuranceFund + forfeit) + (s - stake)
  BY <1>1, <1>5, <1>7, <1>9, <1>10
<1>12. stake \in Int /\ forfeit \in Int
  BY <1>4
<1>13. /\ TotalValue = b + w + treasury + insuranceFund + s
       /\ b \in Int /\ w \in Int /\ s \in Int /\ treasury \in Int /\ insuranceFund \in Int
  BY <1>1
<1>14. TotalValue' = TotalValue
  BY <1>11, <1>12, <1>13
<1>15. TotalValue \in Int
  BY <1>13
<1> QED BY <1>14, <1>15

(* A settlement loses exactly the stakes that are neither paid out nor     *)
(* kept as fee.                                                            *)
LEMMA SettlementValue ==
  ASSUME StakeInv, ValueParts, ValueParts', NEW r \in RoundIds, NEW records, NEW fee,
         Settles(r, records, fee), Fair(r, records, fee)
  PROVE  TotalValue - TotalValue' = Lost(r, records, fee)
<1> DEFINE b  == SumFunctionOnSet(balance, Users)
           w  == SumFunctionOnSet(pendingWinnings, Users)
           s  == SumFunctionOnSet(StakedRow, RoundIds)
           bn == SumFunctionOnSet(balance', Users)
           wn == SumFunctionOnSet(pendingWinnings', Users)
           sn == SumFunctionOnSet(StakedRow', RoundIds)
           row  == PayoutRow(records)
           paid == SumFunctionOnSet(row, Users)
           held == SumFunctionOnSet(StakeRow(r), Users)
<1>1. /\ TotalValue = b + w + treasury + insuranceFund + s
      /\ TotalValue' = bn + wn + treasury' + insuranceFund' + sn
      /\ b \in Int /\ w \in Int /\ s \in Int /\ treasury \in Int /\ insuranceFund \in Int
      /\ bn \in Int /\ wn \in Int /\ sn \in Int /\ treasury' \in Int /\ insuranceFund' \in Int
      /\ held \in Int
  BY DEF ValueParts
<1>2. TypeOK /\ fee \in Nat /\ CollectProtocolFee(fee) /\ EndsRound(r, records)
  BY DEF Settles, ApplySettlement, Fair, StakeInv
<1>3. treasury' + insuranceFund' = treasury + insuranceFund + fee
  BY <1>2, FeeCollected
<1>4. Credits(row)
  BY <1>2, SettlesCredits
<1>5. sn = s - held
  BY <1>2, EndsEmpties, StakedEmptied
<1>6. Lost(r, records, fee) = held - paid - fee
  BY DEF Lost
<1> HIDE DEF row
<1>7. wn = w + paid /\ balance' = balance /\ paid \in Nat
  BY <1>4, PendingGrows
<1>8. bn = b
  BY <1>7
<1> HIDE DEF b, w, s, bn, wn, sn, held, paid
<1>9. TotalValue' = b + (w + paid) + (treasury + insuranceFund + fee) + (s - held)
  BY <1>1, <1>3, <1>5, <1>7, <1>8
<1>10. paid \in Int /\ fee \in Int
  BY <1>2, <1>7
<1>11. TotalValue = b + w + treasury + insuranceFund + s
       /\ b \in Int /\ w \in Int /\ s \in Int /\ treasury \in Int /\ insuranceFund \in Int
       /\ held \in Int
  BY <1>1
<1>12. TotalValue' = TotalValue - (held - paid - fee)
  BY <1>9, <1>10, <1>11
<1>13. TotalValue \in Int /\ held - paid - fee \in Int
  BY <1>10, <1>11
<1> QED BY <1>6, <1>12, <1>13

(* A cancellation loses exactly the coverage that the rounded shares leave *)
(* over.                                                                   *)
LEMMA CancelValue ==
  ASSUME StakeInv, ValueParts, ValueParts', insuranceFund \in Nat,
         NEW reason \in Reasons, cancel_round(reason), NEW r \in RoundIds,
         r = activeRound.round_id, EndsRound(r, RefundRecords(r, "Void"))
  PROVE  LET paid == CoveragePaid(r, reason)
         IN  TotalValue - TotalValue' = paid - SumFunctionOnSet(BonusRow(r, paid), Users)
<1> DEFINE b  == SumFunctionOnSet(balance, Users)
           w  == SumFunctionOnSet(pendingWinnings, Users)
           s  == SumFunctionOnSet(StakedRow, RoundIds)
           bn == SumFunctionOnSet(balance', Users)
           wn == SumFunctionOnSet(pendingWinnings', Users)
           sn == SumFunctionOnSet(StakedRow', RoundIds)
           paid  == CoveragePaid(r, reason)
           bonus == BonusRow(r, paid)
           row   == CancelRow(r, paid)
           held  == SumFunctionOnSet(StakeRow(r), Users)
<1>1. /\ TotalValue = b + w + treasury + insuranceFund + s
      /\ TotalValue' = bn + wn + treasury' + insuranceFund' + sn
      /\ b \in Int /\ w \in Int /\ s \in Int /\ treasury \in Int /\ insuranceFund \in Int
      /\ bn \in Int /\ wn \in Int /\ sn \in Int /\ treasury' \in Int /\ insuranceFund' \in Int
      /\ held \in Int
  BY DEF ValueParts
<1>2. Credits(row)
  BY CancelCredits
<1>3. insuranceFund' = insuranceFund - paid /\ treasury' = treasury
  BY DEF cancel_round
<1>4. sn = s - held
  BY EndsEmpties, StakedEmptied
<1>5. /\ paid \in Nat /\ SumFunctionOnSet(bonus, Users) \in Nat
      /\ \A u \in participants[r] : CoverageShare(r, paid, u) \in Nat
  BY CoverageFits
<1>6. \A u \in Users : /\ StakeRow(r)[u] \in Int /\ bonus[u] \in Int
                       /\ row[u] = StakeRow(r)[u] + bonus[u]
  <2>1. \A u \in Users : StakeRow(r)[u] = StakeIn(r, u) /\ StakeIn(r, u) \in Nat
    BY DEF ValueParts
  <2>2. \A u \in Users : bonus[u] \in Nat /\ row[u] = StakeIn(r, u) + bonus[u]
    BY <1>5 DEF BonusRow, CancelRow
  <2> HIDE DEF bonus, row
  <2> QED BY <2>1, <2>2
<1> HIDE DEF bonus, row, paid
<1>7. SumFunctionOnSet(row, Users) = held + SumFunctionOnSet(bonus, Users)
  <2> DEFINE stakes == StakeRow(r)
  <2>1. \A u \in Users : stakes[u] \in Int /\ bonus[u] \in Int /\ row[u] = stakes[u] + bonus[u]
    BY <1>6
  <2> HIDE DEF stakes
  <2>2. SumFunctionOnSet(row, Users)
          = SumFunctionOnSet(stakes, Users) + SumFunctionOnSet(bonus, Users)
    BY <2>1, UsersFinite, SumAdds
  <2> QED BY <2>2 DEF stakes
<1>8. wn = w + SumFunctionOnSet(row, Users) /\ balance' = balance
  BY <1>2, PendingGrows
<1>9. bn = b
  BY <1>8
<1> HIDE DEF b, w, s, bn, wn, sn, held
<1>10. TotalValue - TotalValue' = paid - SumFunctionOnSet(bonus, Users)
  BY <1>1, <1>3, <1>4, <1>5, <1>7, <1>8, <1>9
<1> QED BY <1>10 DEF paid, bonus

(* What a step does to the value in the system.                            *)
LEMMA ValueStep ==
  ASSUME MoneyInv, [Next]_vars
  PROVE  ConservesValue
<1> DEFINE lost    == TotalValue - TotalValue'
           rounded == \/ insuranceFund' < insuranceFund
                      \/ \E p \in ReachedSet : /\ RoundRecord(p[1]).mode = "UpDown"
                                               /\ outcome'[p[1]][p[2]].kind = "Win"
           Goal == \/ lost = 0
                   \/ 0 < lost /\ lost < Cardinality(ReachedSet) /\ rounded
                   \/ lost = -MintAmount /\ hasBalance' # hasBalance /\ UNCHANGED feeVars
<1>1. StakeInv /\ PoolsSum /\ BooksSound /\ TypeOK /\ RoundIdentity
  BY DEF MoneyInv, StakeInv
<1>2. ValueParts /\ ValueParts'
  <2>1. StakeInv'
    BY <1>1, NextStakeInv
  <2>2. ValueParts
    BY <1>1, ValueHasParts
  <2>3. ValueParts'
    BY <2>1, ValueHasParts, PTL
  <2> QED BY <2>2, <2>3
<1>3. insuranceFund \in Nat /\ \A x \in UserRoundOutcome : x # None
  BY <1>1, BooksInt, OptionAssumption DEF BooksSound
<1>4. ASSUME UNCHANGED <<walletVars, pendingVars, feeVars>>, KeepsStakes
      PROVE  Goal
  <2>1. SumFunctionOnSet(StakedRow', RoundIds) = SumFunctionOnSet(StakedRow, RoundIds)
    BY <1>2, <1>4, StakedKept
  <2>2. /\ balance' = balance /\ pendingWinnings' = pendingWinnings
        /\ treasury' = treasury /\ insuranceFund' = insuranceFund
    BY <1>4 DEF walletVars, pendingVars, feeVars
  <2>3. TotalValue \in Int /\ TotalValue' = TotalValue
    BY <1>2, <2>1, <2>2 DEF ValueParts
  <2> QED BY <2>3
<1>5. ASSUME NEW user \in Users, NEW amount \in Amounts, TakesStake(user, amount),
             activeRound # None, StakeIn(activeRound.round_id, user) = 0,
             MovesStake(activeRound.round_id, user, amount)
      PROVE  Goal
  <2>1. activeRound.round_id \in RoundIds
    BY <1>1, <1>5, ActiveIsLive
  <2>2. /\ SumFunctionOnSet(StakedRow', RoundIds)
             = SumFunctionOnSet(StakedRow, RoundIds) - 0 + amount
        /\ amount \in Nat
    BY <1>2, <1>5, <2>1, StakedMoved
  <2>3. balance' = [balance EXCEPT ![user] = balance[user] + (-amount)]
    BY <1>1, <1>5, <2>2, BooksInt DEF TakesStake, TakeStake
  <2>4. SumFunctionOnSet(balance', Users) = SumFunctionOnSet(balance, Users) + (-amount)
    <3>1. -amount \in Int
      BY <2>2
    <3> QED BY <1>1, <1>2, <2>3, <3>1, CreditAdds
  <2>5. pendingWinnings' = pendingWinnings /\ treasury' = treasury
        /\ insuranceFund' = insuranceFund
    BY <1>5 DEF TakesStake, pendingVars, feeVars
  <2>6. lost = 0
    BY <1>2, <2>2, <2>4, <2>5 DEF ValueParts
  <2> QED BY <2>6
<1>6. ASSUME NEW user \in Users, cash_out_early(user), MovesStake(activeRound.round_id, user, 0)
      PROVE  Goal
  BY <1>1, <1>2, <1>6, ExitValue
<1>7. ASSUME NEW r \in RoundIds, NEW records, NEW fee,
             Settles(r, records, fee), Fair(r, records, fee)
      PROVE  Goal
  <2> DEFINE dust == Lost(r, records, fee)
  <2>1. lost = dust
    BY <1>1, <1>2, <1>7, SettlementValue
  <2>2. CASE dust = 0
    BY <2>1, <2>2
  <2>3. CASE dust # 0
    <3>1. /\ dust \in Nat /\ dust < Cardinality(participants[r])
          /\ RoundRecord(r).mode = "UpDown" /\ DOMAIN records = participants[r]
      BY <1>7, <2>3 DEF Fair
    <3>2. PICK u \in participants[r] : records[u].kind = "Win"
      BY <1>7, <2>3 DEF Fair
    <3>3. /\ PersistUserOutcomes(r, records)
          /\ \A x \in participants[r] : records[x] # None
      BY <1>3, <1>7, <3>1 DEF Settles, ApplySettlement
    <3>4. /\ Cardinality(ReachedSet) = Cardinality(participants[r])
          /\ <<r, u>> \in ReachedSet /\ outcome'[r][u] = records[u]
      BY <1>1, <3>1, <3>3, ReachedCount
    <3>5. rounded
      BY <3>1, <3>2, <3>4
    <3> HIDE DEF dust, rounded, lost
    <3> QED BY <2>1, <2>3, <3>1, <3>4, <3>5
  <2> QED BY <2>2, <2>3
<1>8. ASSUME NEW reason \in Reasons, cancel_round(reason),
             EndsRound(activeRound.round_id, RefundRecords(activeRound.round_id, "Void"))
      PROVE  Goal
  <2>1. PICK r \in RoundIds : r = activeRound.round_id
    BY <1>8 DEF EndsRound
  <2> DEFINE paid    == CoveragePaid(r, reason)
             bonus   == SumFunctionOnSet(BonusRow(r, paid), Users)
             records == RefundRecords(r, "Void")
  <2>2. lost = paid - bonus
    BY <1>1, <1>2, <1>3, <1>8, <2>1, CancelValue
  <2>3. /\ paid \in Nat /\ bonus \in Nat /\ bonus <= paid
        /\ paid = bonus \/ paid - bonus < Cardinality(participants[r])
    BY <1>1, <1>3, CoverageFits
  <2>4. /\ insuranceFund' = insuranceFund - paid /\ PersistUserOutcomes(r, records)
        /\ \A u \in DOMAIN records : records[u] \in UserRoundOutcome
    BY <1>8, <2>1 DEF cancel_round
  <2>5. DOMAIN records = participants[r]
    BY <1>1, AllRefunded DEF RefundRecords
  <2>6. Cardinality(ReachedSet) = Cardinality(participants[r])
    <3>1. \A u \in participants[r] : records[u] # None
      BY <1>3, <2>4, <2>5
    <3> HIDE DEF records
    <3> QED BY <1>1, <2>4, <2>5, <3>1, ReachedCount
  <2> HIDE DEF paid, bonus, lost
  <2>7. lost = 0 \/ (0 < lost /\ lost < Cardinality(ReachedSet) /\ insuranceFund' < insuranceFund)
    BY <1>3, <2>2, <2>3, <2>4, <2>6
  <2> QED BY <2>7
<1>9. Wallet => Goal
  BY <1>1, <1>2, WalletValue
<1>10. Stake => Goal
  <2>1. \/ UNCHANGED <<walletVars, pendingVars, feeVars, outcome>> /\ KeepsStakes
        \/ \E user \in Users, amount \in Amounts :
             /\ TakesStake(user, amount) /\ activeRound # None
             /\ StakeIn(activeRound.round_id, user) = 0
             /\ MovesStake(activeRound.round_id, user, amount)
        \/ \E user \in Users :
             cash_out_early(user) /\ MovesStake(activeRound.round_id, user, 0)
        \/ ~ Stake
    BY <1>1, StakeCalls
  <2> HIDE DEF Goal
  <2> QED BY <1>4, <1>5, <1>6, <2>1
<1>11. ASSUME UNCHANGED <<walletVars, pendingVars, feeVars>>, UNCHANGED stakeVars
       PROVE  Goal
  <2>1. KeepsStakes
    BY <1>11, StakeFromKeys DEF KeepsStakes, stakeVars
  <2> QED BY <1>4, <1>11, <2>1
<1>12. EndOfRound => Goal
  <2>1. LeavesAll => UNCHANGED <<walletVars, pendingVars, feeVars>> /\ UNCHANGED stakeVars
    BY DEF LeavesAll, LeavesStakes
  <2>2. \A r \in RoundIds, kind \in {"Refund", "Void"} : Fair(r, RefundRecords(r, kind), 0)
    BY <1>1, RefundsFair
  <2>3. \A r \in Live, price \in Prices :
          LET s == Settlement(RoundRecord(r), price)
          IN  r \in RoundIds /\ Fair(r, s.records, s.fee)
    BY <1>1, SettlementFair, LiveRecords
  <2> HIDE DEF Goal
  <2> QED BY <1>1, <1>7, <1>8, <1>11, <2>1, <2>2, <2>3, EndingShapes
<1>13. Administration => Goal
  <2>1. Administration => UNCHANGED <<walletVars, pendingVars, feeVars>> /\ UNCHANGED stakeVars
    BY DEF Administration, set_runtime_mode, update_config, execute_set_protocol_fee_bps,
           create_round, create_next_from_template
  <2> QED BY <1>11, <2>1
<1>14. Tick \/ UNCHANGED vars => Goal
  <2>1. Tick \/ UNCHANGED vars =>
          UNCHANGED <<walletVars, pendingVars, feeVars>> /\ UNCHANGED stakeVars
    BY DEF Tick, vars
  <2> QED BY <1>11, <2>1
<1>15. Goal
  <2> HIDE DEF Goal
  <2> QED BY <1>9, <1>10, <1>12, <1>13, <1>14 DEF Next
<1> QED BY <1>15 DEF ConservesValue, ReachedSet

(* Value is conserved, for any number of users and rounds, any fee, policy *)
(* and coverage: it enters through mint_initial only, and what a step      *)
(* loses is the dust of rounding down, less than one unit per user the     *)
(* step reaches, and only in an Up/Down win or a coverage payment.         *)
THEOREM ValueIsConserved == Spec => ValueConserved
<1>1. MoneyInv /\ [Next]_vars => ConservesValue
  BY ValueStep
<1> QED BY <1>1, MoneyInvariant, PTL DEF ValueConserved, Spec
-----------------------------------------------------------------------------
(***************************************************************************)
(* The past on record: the counters and the history of a user follow the   *)
(* outcomes.                                                               *)
(***************************************************************************)
RecordedAs(u, kind) == {r \in RoundIds : outcome[r][u] # None /\ outcome[r][u].kind = kind}

(* The rounds in a user's history.                                         *)
Listed(u) == {userRounds[u][i] : i \in DOMAIN userRounds[u]}

(* A user's counters count the wins and losses on record.                  *)
CountersMatch(u) ==
  /\ stats[u].wins = Cardinality(RecordedAs(u, "Win"))
  /\ stats[u].losses = Cardinality(RecordedAs(u, "Loss"))

(* A user's history lists each of its rounds once, only ended rounds with  *)
(* an outcome, and every one that was won or lost.                         *)
HistoryMatches(u) ==
  /\ Cardinality(Listed(u)) = Len(userRounds[u])
  /\ \A r \in Listed(u) : r \in Ended /\ outcome[r][u] # None
  /\ \A r \in RoundIds :
       outcome[r][u] # None /\ outcome[r][u].kind # "Refund" => r \in Listed(u)

(* The property, user by user.                                             *)
LEMMA PastByUser ==
  RecordsMatchOutcomes <=> \A u \in Users : CountersMatch(u) /\ HistoryMatches(u)
BY DEF RecordsMatchOutcomes, StatsMatchOutcomes, HistoryMatchesOutcomes, CountersMatch,
       HistoryMatches, RecordedAs, Listed

(* The steps that touch what is on record.                                 *)
LEMMA PastSteps ==
  ASSUME StakeInv, PoolsSum, [Next]_vars
  PROVE  \/ UNCHANGED <<outcome, stats, userRounds>>
         \/ \E user \in Users : cash_out_early(user)
         \/ \E r \in RoundIds : \E records, fee :
              Settles(r, records, fee) /\ Fair(r, records, fee)
         \/ \E reason \in Reasons :
              /\ cancel_round(reason)
              /\ EndsRound(activeRound.round_id, RefundRecords(activeRound.round_id, "Void"))
<1> USE DEF resultVars, archiveVars
<1>1. Stake => UNCHANGED <<outcome, stats, userRounds>> \/ \E user \in Users : cash_out_early(user)
  <2>1. \A user, amount, side :
          place_bet(user, amount, side) => UNCHANGED <<outcome, stats, userRounds>>
    BY DEF place_bet
  <2>2. \A user, amount, price :
          \/ place_precision_prediction(user, amount, price)
          \/ commit_prediction(user, amount, price)
          => UNCHANGED <<outcome, stats, userRounds>>
    BY DEF place_precision_prediction, commit_prediction
  <2>3. \A user, price : reveal_prediction(user, price) => UNCHANGED <<outcome, stats, userRounds>>
    BY DEF reveal_prediction
  <2> QED BY <2>1, <2>2, <2>3 DEF Stake
<1>2. Wallet => UNCHANGED <<outcome, stats, userRounds>>
  BY DEF Wallet, mint_initial, claim_winnings, reclaim_expired_pending_winnings,
         claim_many, withdraw_protocol_fee, withdraw_insurance_fund,
         execute_withdraw_fee, execute_withdraw_insurance_fund, top_up_insurance_fund
<1>3. Administration => UNCHANGED <<outcome, stats, userRounds>>
  BY DEF Administration, set_runtime_mode, update_config, execute_set_protocol_fee_bps,
         create_round, create_next_from_template
<1>4. Tick \/ UNCHANGED vars => UNCHANGED <<outcome, stats, userRounds>>
  BY DEF Tick, vars
<1>5. ASSUME EndOfRound
      PROVE  \/ UNCHANGED <<outcome, stats, userRounds>>
             \/ \E r \in RoundIds : \E records, fee :
                  Settles(r, records, fee) /\ Fair(r, records, fee)
             \/ \E reason \in Reasons :
                  /\ cancel_round(reason)
                  /\ EndsRound(activeRound.round_id,
                               RefundRecords(activeRound.round_id, "Void"))
  <2>1. LeavesAll => UNCHANGED <<outcome, stats, userRounds>>
    BY DEF LeavesAll, LeavesStakes
  <2>2. \A r \in RoundIds, kind \in {"Refund", "Void"} : Fair(r, RefundRecords(r, kind), 0)
    BY RefundsFair
  <2>3. \A r \in Live, price \in Prices :
          LET s == Settlement(RoundRecord(r), price)
          IN  r \in RoundIds /\ Fair(r, s.records, s.fee)
    BY SettlementFair, LiveRecords DEF StakeInv
  <2>4. TypeOK /\ RoundIdentity
    BY DEF StakeInv
  <2> QED BY <1>5, <2>1, <2>2, <2>3, <2>4, EndingShapes
<1> QED BY <1>1, <1>2, <1>3, <1>4, <1>5 DEF Next

(* What a step that records outcomes adds to a user's past.                *)
LEMMA RecordAdds ==
  ASSUME StakeInv, NEW r \in RoundIds, NEW records, PersistUserOutcomes(r, records),
         NEW u \in Users,
         u \in DOMAIN records => outcome[r][u] = None /\ records[u] # None
  PROVE  /\ \A kind : RecordedAs(u, kind)' = IF u \in DOMAIN records /\ records[u].kind = kind
                                             THEN RecordedAs(u, kind) \cup {r}
                                             ELSE RecordedAs(u, kind)
         /\ u \in DOMAIN records => \A kind : r \notin RecordedAs(u, kind)
         /\ \A q \in RoundIds :
              outcome'[q][u] = IF q = r /\ u \in DOMAIN records THEN records[u]
                               ELSE outcome[q][u]
<1>1. \A q \in RoundIds :
        outcome'[q][u] = IF q = r /\ u \in DOMAIN records THEN records[u] ELSE outcome[q][u]
  BY DEF PersistUserOutcomes, StakeInv, TypeOK, ResultTypeOK
<1>2. \A kind : RecordedAs(u, kind)' = IF u \in DOMAIN records /\ records[u].kind = kind
                                       THEN RecordedAs(u, kind) \cup {r}
                                       ELSE RecordedAs(u, kind)
  BY <1>1 DEF RecordedAs
<1>3. u \in DOMAIN records => \A kind : r \notin RecordedAs(u, kind)
  BY DEF RecordedAs
<1> QED BY <1>1, <1>2, <1>3

(* One more round of a kind is one more in its counter.                    *)
LEMMA CountsOneMore ==
  ASSUME NEW u \in Users, NEW kind, NEW r \in RoundIds
  PROVE  /\ Cardinality(RecordedAs(u, kind)) \in Nat
         /\ r \notin RecordedAs(u, kind) =>
              Cardinality(RecordedAs(u, kind) \cup {r}) = Cardinality(RecordedAs(u, kind)) + 1
<1>1. IsFiniteSet(RecordedAs(u, kind))
  BY RoundsFinite, FS_Subset DEF RecordedAs
<1> QED BY <1>1, FS_CardinalityType, FS_AddElement

(* The counters after a step.                                              *)
LEMMA CountersStep ==
  ASSUME StakeInv, PoolsSum, [Next]_vars, NEW u \in Users, CountersMatch(u)
  PROVE  CountersMatch(u)'
<1>1. /\ TypeOK /\ stats \in [Users -> UserStats]
      /\ \A x \in UserRoundOutcome : x # None
  BY OptionAssumption DEF StakeInv, TypeOK, ResultTypeOK
<1>2. ASSUME NEW r \in RoundIds, NEW records, PersistUserOutcomes(r, records),
             u \in DOMAIN records => outcome[r][u] = None /\ records[u] # None,
             \A x \in DOMAIN records : records[x].kind \notin {"Win", "Loss"},
             stats' = stats
      PROVE  CountersMatch(u)'
  <2>1. \A kind \in {"Win", "Loss"} : RecordedAs(u, kind)' = RecordedAs(u, kind)
    BY <1>2, RecordAdds
  <2> QED BY <1>2, <2>1 DEF CountersMatch
<1>3. ASSUME UNCHANGED <<outcome, stats, userRounds>>
      PROVE  CountersMatch(u)'
  BY <1>3 DEF CountersMatch, RecordedAs
<1>4. ASSUME NEW user \in Users, cash_out_early(user)
      PROVE  CountersMatch(u)'
  <2> DEFINE a       == activeRound.round_id
             stake   == position[a][user].amount
             forfeit == CashoutForfeit(stake, config.cashoutBps)
             record  == [kind |-> "Refund", stake |-> stake, payout |-> stake - forfeit]
             records == [x \in {user} |-> record]
  <2>1. /\ activeRound # None /\ position[a][user] # None /\ stats' = stats
        /\ record \in UserRoundOutcome /\ PersistUserOutcomes(a, records)
    BY <1>4 DEF cash_out_early
  <2>2. a \in RoundIds
    BY <2>1, ActiveIsLive DEF StakeInv
  <2>3. outcome[a][user] = None
    BY <2>1, <2>2, KeysFromInv DEF KeysSound, KeysListed
  <2>4. /\ record.kind = "Refund" /\ record # None
        /\ DOMAIN records = {user} /\ records[user] = record
    BY <1>1, <2>1
  <2> HIDE DEF stake, forfeit, record, records, a
  <2> QED BY <1>2, <2>1, <2>2, <2>3, <2>4
<1>5. ASSUME NEW r \in RoundIds, NEW records, NEW fee,
             Settles(r, records, fee), Fair(r, records, fee)
      PROVE  CountersMatch(u)'
  <2> DEFINE won  == {x \in DOMAIN records : records[x].kind = "Win"}
             lost == {x \in DOMAIN records : records[x].kind = "Loss"}
  <2>1. /\ PersistUserOutcomes(r, records) /\ DOMAIN records = participants[r]
        /\ \A x \in DOMAIN records : records[x] \in UserRoundOutcome
        /\ UpdateStats(won, lost)
    BY <1>5 DEF Settles, ApplySettlement, Fair
  <2>2. u \in DOMAIN records => outcome[r][u] = None /\ records[u] # None
    BY <1>1, <2>1, ParticipantsUnrecorded
  <2>3. /\ RecordedAs(u, "Win")' = IF u \in won THEN RecordedAs(u, "Win") \cup {r}
                                   ELSE RecordedAs(u, "Win")
        /\ RecordedAs(u, "Loss")' = IF u \in lost THEN RecordedAs(u, "Loss") \cup {r}
                                    ELSE RecordedAs(u, "Loss")
        /\ u \in won => r \notin RecordedAs(u, "Win")
        /\ u \in lost => r \notin RecordedAs(u, "Loss")
    BY <2>1, <2>2, RecordAdds
  <2>4. ~ (u \in won /\ u \in lost)
    OBVIOUS
  <2> HIDE DEF won, lost
  <2>5. /\ stats[u].wins \in Nat /\ stats[u].losses \in Nat
        /\ stats'[u].wins = IF u \in won THEN stats[u].wins + 1 ELSE stats[u].wins
        /\ stats'[u].losses = IF u \in lost THEN stats[u].losses + 1 ELSE stats[u].losses
    BY <1>1, <2>1, <2>4 DEF UpdateStats, StatsAfterWin, StatsAfterLoss, UserStats
  <2>6. /\ u \in won => Cardinality(RecordedAs(u, "Win")')
                          = Cardinality(RecordedAs(u, "Win")) + 1
        /\ u \in lost => Cardinality(RecordedAs(u, "Loss")')
                           = Cardinality(RecordedAs(u, "Loss")) + 1
    BY <2>3, CountsOneMore
  <2> QED BY <2>3, <2>5, <2>6 DEF CountersMatch
<1>6. ASSUME NEW reason \in Reasons, cancel_round(reason)
      PROVE  CountersMatch(u)'
  <2> DEFINE r       == activeRound.round_id
             records == RefundRecords(r, "Void")
  <2>1. /\ activeRound # None /\ PersistUserOutcomes(r, records) /\ stats' = stats
        /\ \A x \in DOMAIN records : records[x] \in UserRoundOutcome
    BY <1>6 DEF cancel_round
  <2>2. r \in RoundIds
    BY <2>1, ActiveIsLive DEF StakeInv
  <2>3. /\ DOMAIN records = participants[r]
        /\ \A x \in DOMAIN records : records[x].kind = "Void"
    BY <2>2, AllRefunded DEF RefundRecords
  <2>4. u \in DOMAIN records => outcome[r][u] = None /\ records[u] # None
    BY <1>1, <2>1, <2>2, <2>3, ParticipantsUnrecorded
  <2> HIDE DEF records, r
  <2> QED BY <1>2, <2>1, <2>2, <2>3, <2>4
<1> QED BY <1>3, <1>4, <1>5, <1>6, PastSteps

(* A round that is over stays over, and so does one that ends now.         *)
LEMMA EndedGrows ==
  ASSUME TypeOK, RoundIdentity, [Next]_vars
  PROVE  /\ Ended \subseteq Ended'
         /\ \A r \in Live : r \notin Live' => r \in Ended'
<1>1. lastRoundId \in Nat /\ lastRoundId' \in Nat /\ lastRoundId <= lastRoundId'
  <2>1. lastRoundId \in Nat /\ lastRoundId' \in Nat
    BY NextTyped, BoundsAssumption DEF TypeOK, RoundTypeOK
  <2>2. lastRoundId' = lastRoundId \/ lastRoundId' = lastRoundId + 1
    BY RoundSteps DEF roundVars, OpensRound, ChangesPools, ClosesActive, StagesActive,
                      ClosesDisputed, KeepsIds
  <2> QED BY <2>1, <2>2
<1>2. \A r \in RoundIds : r \in Nat
  BY BoundsAssumption DEF RoundIds
<1>3. \A r \in Live : r \in RoundIds /\ r <= lastRoundId
  <2>1. \A r \in Live : r \in RoundIds
    BY LiveRecords
  <2> QED BY <2>1 DEF Live, Disputed, RoundIdentity
<1>4. \A r \in Ended : r \in RoundIds /\ r <= lastRoundId /\ r \notin Live'
  BY EndedStaysEnded DEF Ended
<1>5. \A r \in RoundIds : r <= lastRoundId => r <= lastRoundId'
  BY <1>1, <1>2
<1> QED BY <1>3, <1>4, <1>5 DEF Ended

(* The history of a participant after the end of a round.                  *)
LEMMA HistoryAppends ==
  ASSUME TypeOK, NEW u \in Users, HistoryMatches(u), NEW r \in RoundIds, r \notin Listed(u),
         userRounds'[u] = Append(userRounds[u], r)
  PROVE  /\ Listed(u)' = Listed(u) \cup {r}
         /\ Cardinality(Listed(u)') = Len(userRounds'[u])
<1>1. userRounds[u] \in Seq(RoundIds)
  BY DEF TypeOK, ArchiveTypeOK
<1>2. /\ DOMAIN userRounds'[u] = 1 .. Len(userRounds[u]) + 1
      /\ DOMAIN userRounds[u] = 1 .. Len(userRounds[u])
      /\ Len(userRounds'[u]) = Len(userRounds[u]) + 1 /\ Len(userRounds[u]) \in Nat
      /\ userRounds'[u][Len(userRounds[u]) + 1] = r
      /\ \A i \in 1 .. Len(userRounds[u]) : userRounds'[u][i] = userRounds[u][i]
  BY <1>1
<1>3. Listed(u)' = Listed(u) \cup {r}
  <2> DEFINE n   == Len(userRounds[u])
             old == userRounds[u]
             new == userRounds'[u]
  <2>1. /\ n \in Nat /\ DOMAIN new = 1 .. n + 1 /\ DOMAIN old = 1 .. n
        /\ new[n + 1] = r /\ \A i \in 1 .. n : new[i] = old[i]
    BY <1>2
  <2> HIDE DEF n, old, new
  <2>2. {new[i] : i \in DOMAIN new} = {old[i] : i \in DOMAIN old} \cup {r}
    <3>1. \A i \in 1 .. n + 1 : i \in 1 .. n \/ i = n + 1
      BY <2>1
    <3>2. n + 1 \in 1 .. n + 1 /\ \A i \in 1 .. n : i \in 1 .. n + 1
      BY <2>1
    <3> QED BY <2>1, <3>1, <3>2
  <2> QED BY <2>2 DEF Listed, old, new
<1>4. IsFiniteSet(Listed(u))
  <2>1. Listed(u) \subseteq RoundIds
    BY <1>1 DEF Listed
  <2> QED BY <2>1, RoundsFinite, FS_Subset
<1>5. Cardinality(Listed(u) \cup {r}) = Cardinality(Listed(u)) + 1
  BY <1>4, FS_AddElement
<1> QED BY <1>2, <1>3, <1>5 DEF HistoryMatches

(* The history of a user after the end of a round.                         *)
LEMMA HistoryOfRound ==
  ASSUME StakeInv, [Next]_vars, NEW u \in Users, HistoryMatches(u),
         NEW r \in RoundIds, NEW records, EndsRound(r, records),
         DOMAIN records = participants[r], \A x \in DOMAIN records : records[x] # None,
         userRounds' = HistoryAfter(r)
  PROVE  HistoryMatches(u)'
<1>1. /\ TypeOK /\ RoundIdentity /\ r \in Live /\ r \notin Live'
      /\ PersistUserOutcomes(r, records)
  BY DEF StakeInv, EndsRound
<1>2. Ended \subseteq Ended' /\ r \in Ended' /\ r \notin Ended
  BY <1>1, EndedGrows DEF Ended
<1>3. \A q \in RoundIds :
        outcome'[q][u] = IF q = r /\ u \in DOMAIN records THEN records[u] ELSE outcome[q][u]
  <2>1. u \in DOMAIN records => outcome[r][u] = None /\ records[u] # None
    BY ParticipantsUnrecorded
  <2> QED BY <1>1, <2>1, RecordAdds
<1>4. Listed(u) \subseteq RoundIds /\ r \notin Listed(u)
  BY <1>2 DEF HistoryMatches, Ended
<1>5. CASE u \in participants[r]
  <2>1. userRounds'[u] = Append(userRounds[u], r)
    BY <1>5 DEF HistoryAfter
  <2>2. Listed(u)' = Listed(u) \cup {r} /\ Cardinality(Listed(u)') = Len(userRounds'[u])
    BY <1>1, <1>4, <2>1, HistoryAppends
  <2>3. \A q \in Listed(u)' : q \in Ended' /\ outcome'[q][u] # None
    BY <1>2, <1>3, <1>4, <1>5, <2>2 DEF HistoryMatches
  <2>4. \A q \in RoundIds :
          outcome'[q][u] # None /\ outcome'[q][u].kind # "Refund" => q \in Listed(u)'
    BY <1>3, <2>2 DEF HistoryMatches
  <2> QED BY <2>2, <2>3, <2>4 DEF HistoryMatches
<1>6. CASE u \notin participants[r]
  <2>1. userRounds'[u] = userRounds[u]
    BY <1>6 DEF HistoryAfter
  <2>2. Listed(u)' = Listed(u)
    BY <2>1 DEF Listed
  <2> QED BY <1>2, <1>3, <1>4, <1>6, <2>1, <2>2 DEF HistoryMatches
<1> QED BY <1>5, <1>6

(* The history of a user after a step.                                     *)
LEMMA HistoryStep ==
  ASSUME StakeInv, PoolsSum, [Next]_vars, NEW u \in Users, HistoryMatches(u)
  PROVE  HistoryMatches(u)'
<1>1. /\ TypeOK /\ RoundIdentity /\ \A x \in UserRoundOutcome : x # None
      /\ Listed(u) \subseteq RoundIds
  BY OptionAssumption DEF StakeInv, HistoryMatches, Ended
<1>2. Ended \subseteq Ended'
  BY <1>1, EndedGrows
<1>3. ASSUME UNCHANGED <<outcome, stats, userRounds>>
      PROVE  HistoryMatches(u)'
  BY <1>2, <1>3 DEF HistoryMatches, Listed
<1>4. ASSUME NEW user \in Users, cash_out_early(user)
      PROVE  HistoryMatches(u)'
  <2> DEFINE a       == activeRound.round_id
             stake   == position[a][user].amount
             forfeit == CashoutForfeit(stake, config.cashoutBps)
             record  == [kind |-> "Refund", stake |-> stake, payout |-> stake - forfeit]
             records == [x \in {user} |-> record]
  <2>1. /\ activeRound # None /\ position[a][user] # None /\ userRounds' = userRounds
        /\ record \in UserRoundOutcome /\ PersistUserOutcomes(a, records)
    BY <1>4 DEF cash_out_early, archiveVars
  <2>2. a \in RoundIds
    BY <1>1, <2>1, ActiveIsLive
  <2>3. outcome[a][user] = None
    BY <2>1, <2>2, KeysFromInv DEF KeysSound, KeysListed
  <2>4. /\ record.kind = "Refund" /\ record # None
        /\ DOMAIN records = {user} /\ records[user] = record
    BY <1>1, <2>1
  <2> HIDE DEF stake, forfeit, record, records, a
  <2>5. \A q \in RoundIds :
          outcome'[q][u] = IF q = a /\ u \in DOMAIN records THEN records[u] ELSE outcome[q][u]
    BY <2>1, <2>2, <2>3, <2>4, RecordAdds
  <2>6. Listed(u)' = Listed(u)
    BY <2>1 DEF Listed
  <2>7. \A q \in Listed(u) : q \in Ended' /\ outcome'[q][u] # None
    BY <1>1, <1>2, <2>3, <2>4, <2>5 DEF HistoryMatches
  <2>8. \A q \in RoundIds :
          outcome'[q][u] # None /\ outcome'[q][u].kind # "Refund" => q \in Listed(u)
    BY <2>4, <2>5 DEF HistoryMatches
  <2> QED BY <2>1, <2>6, <2>7, <2>8 DEF HistoryMatches
<1>5. ASSUME NEW r \in RoundIds, NEW records, NEW fee,
             Settles(r, records, fee), Fair(r, records, fee)
      PROVE  HistoryMatches(u)'
  <2>1. /\ EndsRound(r, records) /\ DOMAIN records = participants[r]
        /\ \A x \in DOMAIN records : records[x] \in UserRoundOutcome
        /\ userRounds' = HistoryAfter(r)
    BY <1>5 DEF Settles, ApplySettlement, Fair
  <2> QED BY <1>1, <2>1, HistoryOfRound
<1>6. ASSUME NEW reason \in Reasons, cancel_round(reason),
             EndsRound(activeRound.round_id, RefundRecords(activeRound.round_id, "Void"))
      PROVE  HistoryMatches(u)'
  <2> DEFINE r       == activeRound.round_id
             records == RefundRecords(r, "Void")
  <2>1. /\ EndsRound(r, records) /\ r \in RoundIds /\ userRounds' = HistoryAfter(r)
        /\ \A x \in DOMAIN records : records[x] \in UserRoundOutcome
    BY <1>6 DEF cancel_round, EndsRound, ArchiveAndIndex
  <2>2. DOMAIN records = participants[r]
    BY <2>1, AllRefunded DEF RefundRecords
  <2> HIDE DEF records, r
  <2> QED BY <1>1, <2>1, <2>2, HistoryOfRound
<1> QED BY <1>3, <1>4, <1>5, <1>6, PastSteps

(* What the contract tells a user about the past is what it did, in every  *)
(* market: the win and loss counters count the outcomes on record, and the *)
(* history lists, once each, the finished rounds the user had a stake in   *)
(* to the end.  No early exit, void, refund or repeated settlement counts  *)
(* twice or is missed.                                                     *)
THEOREM PastOnRecord == Spec => []RecordsMatchOutcomes
<1> DEFINE PastInv == MoneyInv /\ RecordsMatchOutcomes
<1>1. Init => RecordsMatchOutcomes
  <2> SUFFICES ASSUME Init, NEW u \in Users
               PROVE  CountersMatch(u) /\ HistoryMatches(u)
    BY PastByUser
  <2>1. Cardinality({}) = 0
    BY FS_EmptySet
  <2>2. \A kind : RecordedAs(u, kind) = {}
    BY DEF Init, RecordedAs
  <2>3. Listed(u) = {} /\ Len(userRounds[u]) = 0
    BY DEF Init, Listed
  <2>4. stats[u].wins = 0 /\ stats[u].losses = 0 /\ \A r \in RoundIds : outcome[r][u] = None
    BY DEF Init
  <2> QED BY <2>1, <2>2, <2>3, <2>4 DEF CountersMatch, HistoryMatches
<1>2. PastInv /\ [Next]_vars => RecordsMatchOutcomes'
  <2> SUFFICES ASSUME MoneyInv, RecordsMatchOutcomes, [Next]_vars
               PROVE  RecordsMatchOutcomes'
    OBVIOUS
  <2>1. \A u \in Users : CountersMatch(u) /\ HistoryMatches(u)
    BY PastByUser
  <2>2. \A u \in Users : CountersMatch(u)' /\ HistoryMatches(u)'
    BY <2>1, CountersStep, HistoryStep DEF MoneyInv
  <2> QED BY <2>2 DEF RecordsMatchOutcomes, StatsMatchOutcomes, HistoryMatchesOutcomes,
                      CountersMatch, HistoryMatches, RecordedAs, Listed
<1> HIDE DEF PastInv
<1>3. Init => PastInv
  BY <1>1, InitMoneyInv DEF PastInv
<1>4. PastInv /\ [Next]_vars => PastInv'
  BY <1>2, NextMoneyInv DEF PastInv
<1>5. PastInv => RecordsMatchOutcomes
  BY DEF PastInv
<1> QED BY <1>3, <1>4, <1>5, PTL DEF Spec
=============================================================================
