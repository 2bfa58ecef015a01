------------------------ MODULE AdministrationProofs -------------------------
(***************************************************************************)
(* Theorems about the administrative surface, for any accounts, settings,  *)
(* delays and bounds.  The notice periods and the dual control are action  *)
(* properties that hold from AdminInv: types, and what proposals, pending  *)
(* changes and amendments record about when they were made and by whom.    *)
(* The rankings hold from BoardInv: every list is the top of the users     *)
(* with a result, and every archive is such a list, frozen.                *)
(***************************************************************************)
EXTENDS Administration, SumTheorems

(* A call of the access-control part leaves the lists disjoint if they     *)
(* were: an addition to one clears the other, a removal only shrinks.      *)
LEMMA AdmissionKeepsDisjoint ==
  ASSUME AccessListsDisjoint, AdmissionNext
  PROVE  AccessListsDisjoint'
<1>1. ASSUME NEW b \in BOOLEAN, set_access_control_enabled(b)
      PROVE  AccessListsDisjoint'
  BY <1>1 DEF AccessListsDisjoint, set_access_control_enabled
<1>2. ASSUME NEW u \in Accounts, add_allowlisted(u)
      PROVE  AccessListsDisjoint'
  BY <1>2 DEF AccessListsDisjoint, add_allowlisted
<1>3. ASSUME NEW u \in Accounts, remove_allowlisted(u)
      PROVE  AccessListsDisjoint'
  BY <1>3 DEF AccessListsDisjoint, remove_allowlisted
<1>4. ASSUME NEW u \in Accounts, add_denylisted(u)
      PROVE  AccessListsDisjoint'
  BY <1>4 DEF AccessListsDisjoint, add_denylisted
<1>5. ASSUME NEW u \in Accounts, remove_denylisted(u)
      PROVE  AccessListsDisjoint'
  BY <1>5 DEF AccessListsDisjoint, remove_denylisted
<1>6. ASSUME NEW u \in Accounts, mint_initial(u)
      PROVE  AccessListsDisjoint'
  BY <1>6 DEF AccessListsDisjoint, mint_initial, accessVars
<1> QED BY <1>1, <1>2, <1>3, <1>4, <1>5, <1>6 DEF AdmissionNext

(* No account is ever on both access lists (access_control.rs): the order  *)
(* in which _enforce_access_control looks at them cannot matter.           *)
THEOREM AccessListsNeverOverlap == Spec => []AccessListsDisjoint
<1>1. Init => AccessListsDisjoint
  BY DEF Init, AdmissionInit, AccessListsDisjoint
<1>2. AccessListsDisjoint /\ [Next]_vars => AccessListsDisjoint'
  <2> SUFFICES ASSUME AccessListsDisjoint, [Next]_vars
               PROVE  AccessListsDisjoint'
    OBVIOUS
  <2>1. CASE AdmissionNext
    BY <2>1, AdmissionKeepsDisjoint
  <2>2. CASE UNCHANGED admissionVars
    BY <2>2 DEF AccessListsDisjoint, admissionVars, accessVars
  <2> QED BY <2>1, <2>2 DEF Next, Calls, vars
<1> QED BY <1>1, <1>2, PTL DEF Spec

-----------------------------------------------------------------------------
(* The inductive invariant, one part per piece of state that a guarantee   *)
(* rests on.                                                               *)

(* The settings that the faucet and the fee split compute with. *)
SettingsSound ==
  /\ config.InsuranceSplitBps \in 0 .. 5000
  /\ config.MintLimit \in Nat /\ config.EpochMintBudget \in Nat

(* The dates stored with a pending change are the dates since which it has *)
(* been on display.                                                        *)
DatesHonest ==
  /\ shownSince \in [TimelockedKinds \cup {"Oracle"} -> Nat]
  /\ \A k \in TimelockedKinds : pendingConfig[k] # None =>
       /\ pendingConfig[k].scheduled_at_ledger = shownSince[k]
       /\ pendingConfig[k].activation_ledger = shownSince[k] + CONFIG_TIMELOCK_LEDGERS
  /\ rotation # None => rotation.proposed_at = shownSince["Oracle"]

(* Whoever signed a proposal held a seat, and an approved proposal has two *)
(* different signatures.                                                   *)
SignaturesSound ==
  /\ seated \subseteq Accounts
  /\ admin \in seated /\ govApprover \in seated \cup {None}
  /\ \A i \in DOMAIN proposals :
       /\ proposals[i].proposer \in seated
       /\ proposals[i].status \in {"Approved", "Executed"} =>
            proposals[i].approver \in seated /\ proposals[i].proposer # proposals[i].approver

(* Every amendment was dated by the constitution that is in force. *)
AmendmentsDated ==
  \A i \in DOMAIN amendments :
    /\ constitution # None
    /\ amendments[i].activation_deadline_ledger =
         amendments[i].created_at_ledger + constitution.veto_window_ledgers
                                         + constitution.timelock_ledgers

(* What the next mint will find consumed of the epoch's budget. *)
Consumed == IF ValueOf(epochKey) = CurrentEpoch THEN ValueOf(consumedKey) ELSE 0

(* The faucet's own counters count at least the mints that really happened *)
(* against the limit and the budget in force.                              *)
CountersSound ==
  /\ minted \in [inLedger : Nat, inEpoch : Nat]
  /\ config.MintLimit > 0 =>
       minted.inLedger <= MintsInLedger /\ minted.inLedger <= config.MintLimit
  /\ config.EpochMintBudget > 0 =>
       /\ minted.inEpoch * INITIAL_AMOUNT <= Consumed
       /\ minted.inEpoch * INITIAL_AMOUNT <= config.EpochMintBudget

(* The inductive invariant: types, and the facts about dates, signatures,  *)
(* amendments and counters that the notice periods rest on.                *)
AdminInv ==
  /\ GovTypeOK /\ AdmissionTypeOK /\ SettingsSound
  /\ DatesHonest /\ SignaturesSound /\ AmendmentsDated /\ CountersSound

-----------------------------------------------------------------------------
(* The steps, grouped. *)

(* The kinds of settings by name. *)
LEMMA KindsListed ==
  /\ TimelockedKinds = {"Windows", "MaxStake", "MinBet", "MaxUserRoundExposure",
        "MaxPendingWinnings", "OracleStaleThreshold", "OracleMaxDeviationBps",
        "OracleTimestampSkew", "ProtocolFeeBps", "PendingWinningsExpiry"}
  /\ Kinds = TimelockedKinds \cup {"FeeModel", "CloseBufferLedgers", "MinParticipants",
        "MaxPrecisionParticipants", "PrecisionPayoutPolicy", "MintLimit", "EpochMintBudget",
        "ArchiveRetention", "DisputeLedgers", "EarlyCashoutBps", "InsuranceSplitBps",
        "InsuranceCoverageBps"}
<1>1. DOMAIN ValidPayloads = {"Windows", "MaxStake", "MinBet", "MaxUserRoundExposure",
        "MaxPendingWinnings", "OracleStaleThreshold", "OracleMaxDeviationBps",
        "OracleTimestampSkew", "ProtocolFeeBps", "PendingWinningsExpiry"}
  BY DEF ValidPayloads
<1>2. DOMAIN DefaultConfig = DOMAIN ValidPayloads \cup {"FeeModel", "CloseBufferLedgers",
        "MinParticipants", "MaxPrecisionParticipants", "PrecisionPayoutPolicy", "MintLimit",
        "EpochMintBudget", "ArchiveRetention", "DisputeLedgers", "EarlyCashoutBps",
        "InsuranceSplitBps", "InsuranceCoverageBps"}
  BY <1>1 DEF DefaultConfig
<1> QED BY <1>1, <1>2 DEF TimelockedKinds, Kinds

(* A setting without a timelock gets a value of its kind. *)
FitsNow(kind, value) ==
  /\ kind \in {"MintLimit", "EpochMintBudget"} => value \in Nat
  /\ kind = "InsuranceSplitBps" => value \in 0 .. 5000

(* Every call of the configuration part schedules a valid payload, sets a  *)
(* setting that has no timelock, applies a change or cancels one.          *)
LEMMA ConfigSteps ==
  ASSUME ConfigNext
  PROVE  \/ \E k \in TimelockedKinds : \E v : v \in ValidPayloads[k] /\ Schedule(k, v)
         \/ \E k \in Kinds \ TimelockedKinds : \E v : FitsNow(k, v) /\ SetNow(k, v)
         \/ \E k \in TimelockedKinds : apply_scheduled_changes(k)
         \/ \E k \in TimelockedKinds : cancel_config_change(k)
<1> DEFINE Scheduled == \E k \in TimelockedKinds : \E v : v \in ValidPayloads[k] /\ Schedule(k, v)
           Changed   == \E k \in Kinds \ TimelockedKinds : \E v : FitsNow(k, v) /\ SetNow(k, v)
<1> USE KindsListed
<1>1. ASSUME NEW v, \/ schedule_windows(v) \/ schedule_max_stake(v) \/ schedule_min_bet(v)
                    \/ schedule_max_user_exposure(v) \/ schedule_max_pending_winnings(v)
      PROVE  Scheduled
  BY <1>1 DEF schedule_windows, schedule_max_stake, schedule_min_bet,
     schedule_max_user_exposure, schedule_max_pending_winnings, ScheduleValid
<1>2. ASSUME NEW v, \/ schedule_oracle_stale_threshold(v) \/ schedule_oracle_deviation_bps(v)
                    \/ schedule_oracle_timestamp_skew(v) \/ schedule_protocol_fee_bps(v)
                    \/ schedule_pending_winnings_expiry(v)
      PROVE  Scheduled
  BY <1>2 DEF schedule_oracle_stale_threshold, schedule_oracle_deviation_bps,
     schedule_oracle_timestamp_skew, schedule_protocol_fee_bps,
     schedule_pending_winnings_expiry, ScheduleValid
<1>3. ASSUME NEW v, \/ set_fee_model(v) \/ set_close_buffer_ledgers(v)
                    \/ set_min_participants(v) \/ set_max_precision_participants(v)
                    \/ set_precision_payout_policy(v) \/ set_archive_retention(v)
      PROVE  Changed
  BY <1>3 DEF set_fee_model, set_close_buffer_ledgers, set_min_participants,
     set_max_precision_participants, set_precision_payout_policy, set_archive_retention, FitsNow
<1>4. ASSUME NEW v, \/ set_dispute_ledgers(v) \/ set_early_cashout_bps(v)
                    \/ set_insurance_coverage_bps(v) \/ set_mint_limit(v)
      PROVE  Changed
  <2>1. CASE set_dispute_ledgers(v)
    BY <2>1 DEF set_dispute_ledgers, FitsNow
  <2>2. CASE set_early_cashout_bps(v)
    BY <2>2 DEF set_early_cashout_bps, FitsNow
  <2>3. CASE set_insurance_coverage_bps(v)
    BY <2>3 DEF set_insurance_coverage_bps, FitsNow
  <2>4. CASE set_mint_limit(v)
    BY <2>4 DEF set_mint_limit, FitsNow
  <2> QED BY <1>4, <2>1, <2>2, <2>3, <2>4
<1>6. ASSUME NEW v, set_insurance_split_bps(v)
      PROVE  Changed
  <2>1. FitsNow("InsuranceSplitBps", v)
    BY <1>6 DEF set_insurance_split_bps, FitsNow
  <2> QED BY <1>6, <2>1 DEF set_insurance_split_bps
<1>5. ASSUME NEW v \in Offers.EpochMintBudget, set_epoch_mint_budget(v)
      PROVE  Changed
  BY <1>5, OffersAssumption DEF set_epoch_mint_budget, FitsNow
<1> QED BY <1>1, <1>2, <1>3, <1>4, <1>5, <1>6 DEF ConfigNext

(* A call that is counted leaves the counts in place. *)
LEMMA SpendTyped ==
  ASSUME quota \in [CallKinds -> Nat], NEW kind \in CallKinds, Spend(kind)
  PROVE  quota' \in [CallKinds -> Nat]
BY DEF Spend

(* A payment leaves balances balances. *)
LEMMA CreditTyped ==
  ASSUME balance \in [Accounts -> Nat \cup {None}], NEW user \in Accounts, NEW amount \in Nat,
         Credit(user, amount)
  PROVE  balance' \in [Accounts -> Nat \cup {None}]
BY DEF Credit, BalanceOf

(* A call of governance touches its proposals only, moves money only, or   *)
(* executes a proposal.                                                    *)
LEMMA OwnSteps ==
  ASSUME OwnNext
  PROVE  \/ OnlyProposals \/ OnlyMoney
         \/ \E u \in Accounts, i \in DOMAIN proposals : execute(u, i)
<1>1. ASSUME NEW t, set_gov_proposal_ttl(t)
      PROVE  OnlyProposals
  BY <1>1 DEF set_gov_proposal_ttl
<1>2. ASSUME NEW u, NEW a, NEW t, propose(u, a, t)
      PROVE  OnlyProposals
  BY <1>2 DEF propose
<1>3. ASSUME NEW u, NEW i, approve(u, i) \/ cancel(u, i)
      PROVE  OnlyProposals
  BY <1>3 DEF approve, cancel
<1>4. ASSUME NEW u, NEW n, withdraw_protocol_fee(u, n) \/ withdraw_insurance_fund(u, n)
      PROVE  OnlyMoney
  BY <1>4 DEF withdraw_protocol_fee, withdraw_insurance_fund
<1>5. ASSUME NEW n, CollectProtocolFee(n)
      PROVE  OnlyMoney
  BY <1>5 DEF CollectProtocolFee
<1> QED BY <1>1, <1>2, <1>3, <1>4, <1>5 DEF OwnNext

(* Which calls can change the configuration. *)
LEMMA ConfigTouched ==
  ASSUME Calls
  PROVE  \/ UNCHANGED configVars
         \/ ConfigNext
         \/ \E u \in Accounts, i \in DOMAIN proposals : execute(u, i)
<1>1. CASE OwnNext
  BY <1>1, OwnSteps DEF OnlyProposals, OnlyMoney
<1>2. CASE AdmissionNext
  BY <1>2 DEF AdmissionNext, set_access_control_enabled, add_allowlisted, remove_allowlisted,
     add_denylisted, remove_denylisted, ChangeLists, mint_initial
<1> QED BY <1>1, <1>2 DEF Calls, GovNext

(* Which calls can change the oracle or its pending rotation. *)
LEMMA RotationTouched ==
  ASSUME Calls
  PROVE  \/ UNCHANGED rotationVars
         \/ RotationNext
         \/ \E u \in Accounts, i \in DOMAIN proposals : execute(u, i)
<1>1. CASE OwnNext
  BY <1>1, OwnSteps DEF OnlyProposals, OnlyMoney
<1> QED BY <1>1 DEF Calls, GovNext

(* Which calls can change the constitution or an amendment. *)
LEMMA ConstitutionTouched ==
  ASSUME Calls
  PROVE  UNCHANGED constitutionVars \/ ConstitutionNext
<1>1. CASE OwnNext
  BY <1>1, OwnSteps DEF OnlyProposals, OnlyMoney, execute
<1> QED BY <1>1 DEF Calls, GovNext

(* Which calls can change governance's own state and the two pots. *)
LEMMA GovTouched ==
  ASSUME Calls
  PROVE  UNCHANGED govVars \/ OwnNext
BY DEF Calls, GovNext

(* Which calls can change the faucet's counters. *)
LEMMA FaucetTouched ==
  ASSUME Calls
  PROVE  UNCHANGED faucetVars \/ \E u \in Accounts : mint_initial(u)
<1>1. CASE AdmissionNext
  BY <1>1 DEF AdmissionNext, set_access_control_enabled, add_allowlisted, remove_allowlisted,
     add_denylisted, remove_denylisted, ChangeLists
<1> QED BY <1>1 DEF Calls, admissionVars

(* A call of the configuration part leaves the clock, the mode, the seats  *)
(* and the balances alone.                                                 *)
LEMMA ConfigFrame ==
  ASSUME ConfigNext
  PROVE  UNCHANGED <<ledger, runtimeMode, seats, balance>>
<1>1. ASSUME NEW k, NEW v, Schedule(k, v)
      PROVE  UNCHANGED <<ledger, runtimeMode, seats, balance>>
  BY <1>1 DEF Schedule
<1>2. ASSUME NEW k, NEW v, SetNow(k, v)
      PROVE  UNCHANGED <<ledger, runtimeMode, seats, balance>>
  BY <1>2 DEF SetNow
<1>3. ASSUME NEW k, apply_scheduled_changes(k) \/ cancel_config_change(k)
      PROVE  UNCHANGED <<ledger, runtimeMode, seats, balance>>
  BY <1>3 DEF apply_scheduled_changes, cancel_config_change, baseVars, seats
<1> QED BY <1>1, <1>2, <1>3, ConfigSteps

(* The clock moves by ticks alone. *)
LEMMA ClockTouched ==
  ASSUME Calls
  PROVE  \/ UNCHANGED ledger
         \/ /\ Tick
            /\ UNCHANGED <<configVars, rotationVars, constitutionVars, govVars>>
            /\ UNCHANGED <<admissionVars, boardVars>>
<1>1. CASE OwnNext
  BY <1>1, OwnSteps DEF OnlyProposals, OnlyMoney, execute
<1>2. CASE ConfigNext
  BY <1>2, ConfigFrame
<1>3. CASE RotationNext
  BY <1>3 DEF RotationNext, propose_oracle_rotation, accept_oracle_rotation,
     cancel_oracle_rotation, get_oracle_rotation_proposal, baseVars
<1>4. CASE ConstitutionNext
  BY <1>4 DEF ConstitutionNext, establish_constitution, propose_amendment, veto_amendment,
     activate_amendment, get_amendment, SetAmendmentStatus, baseVars
<1>5. CASE AdmissionNext
  BY <1>5 DEF AdmissionNext, set_access_control_enabled, add_allowlisted, remove_allowlisted,
     add_denylisted, remove_denylisted, ChangeLists, mint_initial
<1>6. CASE BoardNext
  BY <1>6 DEF BoardNext, UpdateStatsWin, UpdateStatsLoss, RecordResult,
     reset_leaderboard_season
<1>7. ASSUME BaseNext, ~Tick
      PROVE  UNCHANGED ledger
  BY <1>7 DEF BaseNext, set_gov_approver, pause_contract, unpause_contract, set_runtime_mode
<1>8. CASE GovNext /\ UNCHANGED <<admissionVars, boardVars>>
  <2>1. CASE BaseNext /\ UNCHANGED <<configVars, rotationVars, constitutionVars, govVars>>
    BY <2>1, <1>8, <1>7
  <2> QED BY <1>8, <2>1, <1>1, <1>2, <1>3, <1>4 DEF GovNext
<1> QED BY <1>5, <1>6, <1>8 DEF Calls

-----------------------------------------------------------------------------
(* Types: each part of the state keeps its type. *)

(* Executing a proposal's action. *)
LEMMA EffectKeepsBase ==
  ASSUME BaseTypeOK, treasury \in Nat \cup {AnAddress}, insuranceFund \in Nat,
         NEW a \in GovActions, Effect(a), UNCHANGED <<ledger, govApprover, quota>>
  PROVE  /\ BaseTypeOK'
         /\ treasury' \in Nat \cup {AnAddress} /\ insuranceFund' \in Nat
<1> USE GovActionsAssumption, GovNumbersAssumption
<1>1. ASSUME NEW mode \in RuntimeModes, SetMode(mode)
      PROVE  /\ BaseTypeOK'
             /\ treasury' \in Nat \cup {AnAddress} /\ insuranceFund' \in Nat
  BY <1>1 DEF SetMode, BaseTypeOK, KeepsMoney
<1>2. CASE a.type = "SetProtocolFeeBps" /\ SetFee(a.bps)
  BY <1>2 DEF SetFee, BaseTypeOK, KeepsMoney
<1>3. CASE a.type = "WithdrawProtocolFee" /\ WithdrawFee(a.recipient, a.amount) /\ KeepsPolicy
  <2>1. a.recipient \in Accounts /\ a.amount \in Nat
    BY <1>3 DEF WithdrawFee
  <2>2. balance' \in [Accounts -> Nat \cup {None}]
    BY <1>3, <2>1, CreditTyped DEF WithdrawFee, BaseTypeOK
  <2>3. treasury' \in Nat /\ insuranceFund' \in Nat
    BY <1>3, <2>1 DEF WithdrawFee
  <2> QED BY <1>3, <2>2, <2>3 DEF KeepsPolicy, BaseTypeOK
<1>4. CASE a.type = "WithdrawInsuranceFund" /\ WithdrawFund(a.recipient, a.amount) /\ KeepsPolicy
  <2>1. a.recipient \in Accounts /\ a.amount \in Nat
    BY <1>4 DEF WithdrawFund
  <2>2. balance' \in [Accounts -> Nat \cup {None}]
    BY <1>4, <2>1, CreditTyped DEF WithdrawFund, BaseTypeOK
  <2>3. treasury' = treasury /\ insuranceFund' \in Nat
    BY <1>4, <2>1 DEF WithdrawFund
  <2> QED BY <1>4, <2>2, <2>3 DEF KeepsPolicy, BaseTypeOK
<1>5. CASE a.type = "SetTreasuryAddress" /\ SetTreasuryAddress
  BY <1>5 DEF SetTreasuryAddress, BaseTypeOK, KeepsPolicy
<1>6. CASE a.type = "SetAdmin" /\ admin' = a.account /\ KeepsMoney
           /\ UNCHANGED <<runtimeMode, config, oracle>>
  BY <1>6 DEF BaseTypeOK, KeepsMoney
<1>7. CASE a.type = "SetOracle" /\ oracle' = a.account /\ KeepsMoney
           /\ UNCHANGED <<runtimeMode, config, admin>>
  BY <1>7 DEF BaseTypeOK, KeepsMoney
<1>8. ASSUME NEW kind, NEW limit, SetInsurance(kind, a.bps, limit)
      PROVE  /\ BaseTypeOK'
             /\ treasury' \in Nat \cup {AnAddress} /\ insuranceFund' \in Nat
  BY <1>8 DEF SetInsurance, BaseTypeOK, KeepsMoney
<1>9. CASE SetInsurance("InsuranceSplitBps", a.bps, 5000)
  BY <1>8, <1>9
<1>10. CASE SetInsurance("InsuranceCoverageBps", a.bps, 10000)
  BY <1>8, <1>10
<1>11. CASE SetMode("FullyPaused") \/ SetMode("Normal")
  BY <1>1, <1>11 DEF RuntimeModes
<1> QED BY <1>2, <1>3, <1>4, <1>5, <1>6, <1>7, <1>9, <1>10, <1>11 DEF Effect

(* The part of a fee that goes to the insurance fund. *)
FundShare(fee, bps) == (fee * bps) \div 10000

(* The fund's part is at most the fee. *)
LEMMA SharePart ==
  ASSUME NEW fee \in Nat, NEW bps \in Nat, bps <= 5000
  PROVE  FundShare(fee, bps) \in Nat /\ FundShare(fee, bps) <= fee
<1>1. fee * bps \in Nat /\ fee * bps <= fee * 10000
  OBVIOUS
<1> DEFINE p == fee * bps
<1>2. p \in Nat /\ p <= fee * 10000
  BY <1>1
<1> HIDE DEF p
<1>3. p \div 10000 \in 0 .. fee
  BY <1>2
<1> QED BY <1>3 DEF p, FundShare

(* Money that moves without a proposal. *)
LEMMA MoneyKeepsBase ==
  ASSUME GovTypeOK, SettingsSound, NEW u \in Accounts, NEW n \in Amounts,
         \/ withdraw_protocol_fee(u, n) \/ withdraw_insurance_fund(u, n)
         \/ CollectProtocolFee(n)
  PROVE  /\ BaseTypeOK'
         /\ treasury' \in Nat \cup {AnAddress} /\ insuranceFund' \in Nat
<1>0. n \in Nat /\ "treasury" \in CallKinds
  BY GovNumbersAssumption DEF CallKinds
<1>1. BaseTypeOK /\ treasury \in Nat \cup {AnAddress} /\ insuranceFund \in Nat
  BY DEF GovTypeOK
<1>2. CASE withdraw_protocol_fee(u, n)
  <2>1. quota' \in [CallKinds -> Nat]
    BY <1>0, <1>1, <1>2, SpendTyped DEF withdraw_protocol_fee, BaseTypeOK
  <2>2. balance' \in [Accounts -> Nat \cup {None}]
    BY <1>0, <1>1, <1>2, CreditTyped DEF withdraw_protocol_fee, WithdrawFee, BaseTypeOK
  <2>3. treasury' \in Nat /\ insuranceFund' \in Nat
    BY <1>0, <1>1, <1>2 DEF withdraw_protocol_fee, WithdrawFee
  <2> QED BY <1>1, <1>2, <2>1, <2>2, <2>3
          DEF withdraw_protocol_fee, OnlyMoney, BaseTypeOK, seats
<1>3. CASE withdraw_insurance_fund(u, n)
  <2>1. quota' \in [CallKinds -> Nat]
    BY <1>0, <1>1, <1>3, SpendTyped DEF withdraw_insurance_fund, BaseTypeOK
  <2>2. balance' \in [Accounts -> Nat \cup {None}]
    BY <1>0, <1>1, <1>3, CreditTyped DEF withdraw_insurance_fund, WithdrawFund, BaseTypeOK
  <2>3. treasury' = treasury /\ insuranceFund' \in Nat
    BY <1>0, <1>1, <1>3 DEF withdraw_insurance_fund, WithdrawFund
  <2> QED BY <1>1, <1>3, <2>1, <2>2, <2>3
          DEF withdraw_insurance_fund, OnlyMoney, BaseTypeOK, seats
<1>4. CASE CollectProtocolFee(n)
  <2>1. quota' \in [CallKinds -> Nat]
    BY <1>0, <1>1, <1>4, SpendTyped DEF CollectProtocolFee, BaseTypeOK
  <2> DEFINE bps == config.InsuranceSplitBps
             share == FundShare(n, bps)
  <2>2. insuranceFund' = insuranceFund + share /\ treasury' = treasury + (n - share)
    BY <1>4 DEF CollectProtocolFee, FundShare
  <2>5. bps \in 0 .. 5000
    BY DEF SettingsSound
  <2> HIDE DEF bps
  <2>4. share \in Nat /\ share <= n
    <3>1. bps \in Nat /\ bps <= 5000
      BY <2>5
    <3> QED BY <1>0, <3>1, SharePart
  <2> HIDE DEF share
  <2>3. treasury' \in Nat /\ insuranceFund' \in Nat
    BY <1>0, <1>1, <1>4, <2>2, <2>4 DEF CollectProtocolFee
  <2> QED BY <1>1, <1>4, <2>1, <2>3
          DEF CollectProtocolFee, OnlyMoney, BaseTypeOK, seats
<1> QED BY <1>2, <1>3, <1>4

(* A sequence with elements replaced, of the same length, is a sequence. *)
LEMMA ReplacedSeq ==
  ASSUME NEW S, NEW s \in Seq(S), NEW t, t = [j \in DOMAIN s |-> t[j]],
         \A j \in DOMAIN s : t[j] \in S
  PROVE  t \in Seq(S) /\ DOMAIN t = DOMAIN s
<1>1. s \in [1 .. Len(s) -> S] /\ Len(s) \in Nat /\ DOMAIN s = 1 .. Len(s)
  OBVIOUS
<1>2. t \in [1 .. Len(s) -> S]
  BY <1>1
<1> QED BY <1>1, <1>2, SeqDef

(* A proposal after its status changed, and its approver perhaps. *)
Restamped(before, after, i, approver, status) ==
  /\ DOMAIN after = DOMAIN before
  /\ \A j \in DOMAIN before \ {i} : after[j] = before[j]
  /\ after[i].status = status /\ after[i].approver = approver
  /\ after[i].proposer = before[i].proposer /\ after[i].action = before[i].action
  /\ after[i].expires_at_ledger = before[i].expires_at_ledger

(* What approving, executing and cancelling do to the proposals. *)
LEMMA ProposalSteps ==
  ASSUME GovTypeOK, NEW u \in Accounts, NEW i \in DOMAIN proposals,
         approve(u, i) \/ execute(u, i) \/ cancel(u, i)
  PROVE  /\ proposals' \in Seq(GovProposal)
         /\ \/ approve(u, i) /\ Restamped(proposals, proposals', i, u, "Approved")
            \/ /\ execute(u, i)
               /\ Restamped(proposals, proposals', i, proposals[i].approver, "Executed")
            \/ /\ cancel(u, i)
               /\ Restamped(proposals, proposals', i, proposals[i].approver, "Cancelled")
<1>0. proposals \in Seq(GovProposal) /\ proposals[i] \in GovProposal
  BY DEF GovTypeOK
<1> DEFINE Holds(p) == /\ proposals' = [proposals EXCEPT ![i] = p] /\ p \in GovProposal
                       /\ p.proposer = proposals[i].proposer /\ p.action = proposals[i].action
                       /\ p.expires_at_ledger = proposals[i].expires_at_ledger
<1>1. ASSUME NEW p, Holds(p)
      PROVE  /\ proposals' \in Seq(GovProposal)
             /\ Restamped(proposals, proposals', i, p.approver, p.status)
  <2>1. \A j \in DOMAIN proposals : proposals'[j] = IF j = i THEN p ELSE proposals[j]
    BY <1>1
  <2>2. proposals' = [j \in DOMAIN proposals |-> proposals'[j]]
    BY <1>1
  <2>3. \A j \in DOMAIN proposals : proposals'[j] \in GovProposal
    BY <1>0, <1>1, <2>1
  <2>4. proposals' \in Seq(GovProposal) /\ DOMAIN proposals' = DOMAIN proposals
    BY <1>0, <2>2, <2>3, ReplacedSeq
  <2> QED BY <1>1, <2>1, <2>4 DEF Restamped
<1>2. CASE approve(u, i)
  <2> DEFINE p == [proposals[i] EXCEPT !.approver = u, !.status = "Approved"]
  <2>1. Holds(p) /\ p.approver = u /\ p.status = "Approved"
    BY <1>0, <1>2 DEF approve, GovProposal
  <2> HIDE DEF p, Holds
  <2> QED BY <1>1, <1>2, <2>1
<1>3. CASE execute(u, i)
  <2> DEFINE p == [proposals[i] EXCEPT !.status = "Executed"]
  <2>1. Holds(p) /\ p.approver = proposals[i].approver /\ p.status = "Executed"
    BY <1>0, <1>3 DEF execute, GovProposal
  <2> HIDE DEF p, Holds
  <2> QED BY <1>1, <1>3, <2>1
<1>4. CASE cancel(u, i)
  <2> DEFINE p == [proposals[i] EXCEPT !.status = "Cancelled"]
  <2>1. Holds(p) /\ p.approver = proposals[i].approver /\ p.status = "Cancelled"
    BY <1>0, <1>4 DEF cancel, GovProposal
  <2> HIDE DEF p, Holds
  <2> QED BY <1>1, <1>4, <2>1
<1> QED BY <1>2, <1>3, <1>4

(* What proposing adds. *)
LEMMA ProposeAppends ==
  ASSUME GovTypeOK, NEW u \in Accounts, NEW a \in GovActions,
         NEW t \in ProposalTtls \cup {None}, propose(u, a, t)
  PROVE  \E p \in GovProposal : /\ proposals' = Append(proposals, p)
                                /\ p.proposer = u /\ p.status = "Pending"
<1> DEFINE ttl == IF t = None THEN proposalTtl ELSE t
           p == [proposer |-> u, approver |-> None, action |-> a,
                 created_at_ledger |-> ledger, expires_at_ledger |-> ledger + ttl,
                 status |-> "Pending"]
<1>1. ttl \in Nat /\ ledger \in Nat
  BY GovNumbersAssumption DEF GovTypeOK, BaseTypeOK
<1>2. proposals' = Append(proposals, p) /\ p.proposer = u /\ p.status = "Pending"
  BY DEF propose
<1>3. p \in GovProposal
  <2> HIDE DEF ttl
  <2>1. ledger + ttl \in Nat
    BY <1>1
  <2> QED BY <1>1, <2>1 DEF GovProposal
<1> HIDE DEF p
<1> QED BY <1>2, <1>3

(* Governance's own calls leave its state, the pots and the shared state   *)
(* well-typed.                                                             *)
LEMMA OwnTyped ==
  ASSUME GovTypeOK, SettingsSound, OwnNext
  PROVE  /\ BaseTypeOK' /\ proposals' \in Seq(GovProposal) /\ proposalTtl' \in Nat \ {0}
         /\ treasury' \in Nat \cup {AnAddress} /\ insuranceFund' \in Nat
<1> DEFINE Typed == /\ BaseTypeOK' /\ proposals' \in Seq(GovProposal) /\ proposalTtl' \in Nat \ {0}
                    /\ treasury' \in Nat \cup {AnAddress} /\ insuranceFund' \in Nat
<1>0. /\ BaseTypeOK /\ proposals \in Seq(GovProposal) /\ proposalTtl \in Nat \ {0}
      /\ treasury \in Nat \cup {AnAddress} /\ insuranceFund \in Nat
  BY DEF GovTypeOK
<1>1. ASSUME NEW kind \in CallKinds, Spend(kind), UNCHANGED <<ledger, runtimeMode, seats, balance>>
      PROVE  BaseTypeOK'
  BY <1>0, <1>1, SpendTyped DEF BaseTypeOK, seats
<1>2. ASSUME NEW t \in ProposalTtls, set_gov_proposal_ttl(t)
      PROVE  Typed
  <2>1. "seat" \in CallKinds
    BY DEF CallKinds
  <2>2. BaseTypeOK'
    BY <1>1, <1>2, <2>1 DEF set_gov_proposal_ttl, OnlyProposals
  <2>3. proposalTtl' \in Nat \ {0}
    BY <1>2, GovNumbersAssumption DEF set_gov_proposal_ttl
  <2> QED BY <1>0, <1>2, <2>2, <2>3 DEF set_gov_proposal_ttl, OnlyProposals
<1>3. ASSUME NEW u \in Accounts, NEW a \in GovActions, NEW t \in ProposalTtls \cup {None},
             propose(u, a, t)
      PROVE  Typed
  <2>1. a.type \in CallKinds
    BY GovActionsAssumption DEF CallKinds
  <2>2. BaseTypeOK'
    BY <1>1, <1>3, <2>1 DEF propose, OnlyProposals
  <2>3. PICK p \in GovProposal : proposals' = Append(proposals, p)
    BY <1>3, ProposeAppends
  <2>4. proposals' \in Seq(GovProposal)
    BY <1>0, <2>3
  <2> QED BY <1>0, <1>3, <2>2, <2>4 DEF propose, OnlyProposals
<1>4. ASSUME NEW u \in Accounts, NEW i \in DOMAIN proposals,
             approve(u, i) \/ execute(u, i) \/ cancel(u, i)
      PROVE  Typed
  <2>1. proposals' \in Seq(GovProposal)
    BY <1>4, ProposalSteps
  <2>2. CASE approve(u, i) \/ cancel(u, i)
    BY <1>0, <2>1, <2>2 DEF approve, cancel, OnlyProposals, BaseTypeOK, seats
  <2>3. CASE execute(u, i)
    <3>1. proposals[i].action \in GovActions
      <4>1. proposals[i] \in GovProposal
        BY <1>0
      <4> QED BY <4>1 DEF GovProposal
    <3>2. /\ Effect(proposals[i].action) /\ UNCHANGED <<ledger, govApprover, quota>>
          /\ proposalTtl' = proposalTtl
      BY <2>3 DEF execute
    <3>3. BaseTypeOK' /\ treasury' \in Nat \cup {AnAddress} /\ insuranceFund' \in Nat
      BY <1>0, <3>1, <3>2, EffectKeepsBase
    <3> QED BY <1>0, <2>1, <3>2, <3>3
  <2> QED BY <1>4, <2>2, <2>3
<1>5. ASSUME NEW u \in Accounts, NEW n \in Amounts,
             \/ withdraw_protocol_fee(u, n) \/ withdraw_insurance_fund(u, n)
             \/ CollectProtocolFee(n)
      PROVE  Typed
  <2>1. UNCHANGED <<proposals, proposalTtl>>
    BY <1>5 DEF withdraw_protocol_fee, withdraw_insurance_fund, CollectProtocolFee, OnlyMoney
  <2> QED BY <1>0, <1>5, <2>1, MoneyKeepsBase
<1>6. \E u : u \in Accounts
  BY AccountsAssumption
<1> HIDE DEF Typed
<1>7. Typed
  BY <1>2, <1>3, <1>4, <1>5, <1>6 DEF OwnNext
<1> QED BY <1>7 DEF Typed

(* Every call leaves the shared state well-typed. *)
LEMMA BaseKept ==
  ASSUME GovTypeOK, SettingsSound, Calls
  PROVE  BaseTypeOK'
<1>0. BaseTypeOK
  BY DEF GovTypeOK
<1>1. ASSUME NEW kind \in CallKinds, Spend(kind), UNCHANGED <<ledger, runtimeMode, seats, balance>>
      PROVE  BaseTypeOK'
  BY <1>0, <1>1, SpendTyped DEF BaseTypeOK, seats
<1>2. CASE UNCHANGED baseVars
  BY <1>0, <1>2 DEF baseVars, BaseTypeOK
<1>3. /\ \A k \in {"ledger", "mode", "seat", "schedule", "setting", "treasury", "amendment",
                   "rotation", "access", "mintlimit", "mint", "result", "season"} : k \in CallKinds
  BY DEF CallKinds
<1>4. CASE OwnNext
  BY <1>4, OwnTyped
<1>5. CASE BaseNext
  <2>1. ASSUME NEW kind \in CallKinds, Spend(kind)
        PROVE  quota' \in [CallKinds -> Nat]
    BY <1>0, <2>1, SpendTyped DEF BaseTypeOK
  <2>2. CASE Tick
    <3>1. ledger' \in Nat
      BY <1>0, <2>2 DEF Tick, BaseTypeOK
    <3> QED BY <1>0, <1>3, <2>1, <2>2, <3>1 DEF Tick, BaseTypeOK, seats
  <2>3. CASE \E u \in Accounts : set_gov_approver(u)
    BY <1>0, <1>3, <2>1, <2>3 DEF set_gov_approver, BaseTypeOK
  <2>4. CASE pause_contract \/ unpause_contract
    BY <1>0, <1>3, <2>1, <2>4
       DEF pause_contract, unpause_contract, BaseTypeOK, seats, RuntimeModes
  <2>5. CASE \E m \in RuntimeModes : set_runtime_mode(m)
    BY <1>0, <1>3, <2>1, <2>5 DEF set_runtime_mode, BaseTypeOK, seats
  <2> QED BY <1>5, <2>2, <2>3, <2>4, <2>5 DEF BaseNext
<1>6. CASE ConfigNext
  <2>1. ASSUME NEW k, NEW v, Schedule(k, v)
        PROVE  BaseTypeOK'
    BY <1>1, <1>3, <2>1 DEF Schedule
  <2>2. ASSUME NEW k, NEW v, SetNow(k, v)
        PROVE  BaseTypeOK'
    BY <1>1, <1>3, <2>2 DEF SetNow, CallKindOf
  <2>3. ASSUME NEW k, apply_scheduled_changes(k) \/ cancel_config_change(k)
        PROVE  BaseTypeOK'
    BY <1>2, <2>3 DEF apply_scheduled_changes, cancel_config_change, baseVars
  <2> QED BY <1>6, <2>1, <2>2, <2>3, ConfigSteps
<1>7. CASE RotationNext
  <2>1. ASSUME NEW o, NEW s, propose_oracle_rotation(o, s)
        PROVE  BaseTypeOK'
    BY <1>1, <1>3, <2>1 DEF propose_oracle_rotation
  <2>2. CASE accept_oracle_rotation \/ cancel_oracle_rotation \/ get_oracle_rotation_proposal
    BY <1>2, <2>2 DEF accept_oracle_rotation, cancel_oracle_rotation,
       get_oracle_rotation_proposal, baseVars
  <2> QED BY <1>7, <2>1, <2>2 DEF RotationNext
<1>8. CASE ConstitutionNext
  <2>1. ASSUME NEW c, establish_constitution(c) \/ propose_amendment(c)
        PROVE  BaseTypeOK'
    BY <1>1, <1>3, <2>1 DEF establish_constitution, propose_amendment
  <2>2. ASSUME NEW u, NEW i, veto_amendment(u, i) \/ activate_amendment(u, i) \/ get_amendment(i)
        PROVE  BaseTypeOK'
    BY <1>2, <2>2 DEF veto_amendment, activate_amendment, get_amendment,
       SetAmendmentStatus, baseVars
  <2> QED BY <1>8, <2>1, <2>2 DEF ConstitutionNext
<1>9. CASE AdmissionNext
  <2>1. CASE ChangeLists
    BY <1>1, <1>3, <2>1 DEF ChangeLists
  <2>2. ASSUME NEW u \in Accounts, mint_initial(u)
        PROVE  BaseTypeOK'
    <3>1. quota' \in [CallKinds -> Nat]
      BY <1>0, <1>3, <2>2, SpendTyped DEF mint_initial, BaseTypeOK
    <3>2. balance' \in [Accounts -> Nat \cup {None}]
      BY <1>0, <2>2, FaucetAssumption DEF mint_initial, BaseTypeOK
    <3> QED BY <1>0, <2>2, <3>1, <3>2 DEF mint_initial, BaseTypeOK, seats
  <2> QED BY <1>9, <2>1, <2>2 DEF AdmissionNext, set_access_control_enabled, add_allowlisted,
             remove_allowlisted, add_denylisted, remove_denylisted
<1>10. CASE BoardNext
  <2>1. ASSUME NEW u, NEW won, RecordResult(u, won)
        PROVE  BaseTypeOK'
    BY <1>1, <1>3, <2>1 DEF RecordResult
  <2>2. CASE reset_leaderboard_season
    BY <1>1, <1>3, <2>2 DEF reset_leaderboard_season
  <2> QED BY <1>10, <2>1, <2>2 DEF BoardNext, UpdateStatsWin, UpdateStatsLoss
<1> QED BY <1>4, <1>5, <1>6, <1>7, <1>8, <1>9, <1>10 DEF Calls, GovNext

(* Every call leaves the settings and the pending changes well-typed. *)
LEMMA ConfigKept ==
  ASSUME GovTypeOK, SettingsSound, Calls
  PROVE  ConfigTypeOK' /\ SettingsSound'
<1>0. ConfigTypeOK /\ ledger \in Nat
  BY DEF GovTypeOK, BaseTypeOK
<1>1. CASE UNCHANGED configVars
  BY <1>0, <1>1 DEF configVars, ConfigTypeOK, SettingsSound
<1>2. ASSUME NEW k \in TimelockedKinds, NEW v, v \in ValidPayloads[k], Schedule(k, v)
      PROVE  ConfigTypeOK' /\ SettingsSound'
  <2> DEFINE p == [payload |-> v, activation_ledger |-> ledger + CONFIG_TIMELOCK_LEDGERS,
                   scheduled_at_ledger |-> ledger]
  <2>1. p \in PendingConfigChange(k)
    BY <1>0, <1>2, TimelockAssumption DEF PendingConfigChange
  <2>2. config' = config /\ pendingConfig' = [pendingConfig EXCEPT ![k] = p]
    BY <1>2 DEF Schedule
  <2> HIDE DEF p
  <2> QED BY <1>0, <2>1, <2>2 DEF ConfigTypeOK, SettingsSound
<1>3. ASSUME NEW k \in Kinds \ TimelockedKinds, NEW v, FitsNow(k, v), SetNow(k, v)
      PROVE  ConfigTypeOK' /\ SettingsSound'
  <2>1. config' = [config EXCEPT ![k] = v] /\ pendingConfig' = pendingConfig
    BY <1>3 DEF SetNow
  <2>2. ConfigTypeOK'
    BY <1>0, <1>3, <2>1 DEF ConfigTypeOK
  <2>3. SettingsSound'
    BY <1>0, <1>3, <2>1, KindsListed DEF ConfigTypeOK, SettingsSound, FitsNow
  <2> QED BY <2>2, <2>3
<1>4. ASSUME NEW k \in TimelockedKinds, NEW v, ApplyPayload(k, v),
             \/ UNCHANGED pendingConfig
             \/ pendingConfig' = [pendingConfig EXCEPT ![k] = None]
      PROVE  ConfigTypeOK' /\ SettingsSound'
  <2>1. ConfigTypeOK'
    BY <1>0, <1>4 DEF ConfigTypeOK, ApplyPayload
  <2>2. SettingsSound'
    BY <1>0, <1>4, KindsListed DEF ConfigTypeOK, ApplyPayload, SettingsSound
  <2> QED BY <2>1, <2>2
<1>5. ASSUME NEW k \in TimelockedKinds, apply_scheduled_changes(k)
      PROVE  ConfigTypeOK' /\ SettingsSound'
  BY <1>4, <1>5 DEF apply_scheduled_changes
<1>6. ASSUME NEW k \in TimelockedKinds, cancel_config_change(k)
      PROVE  ConfigTypeOK' /\ SettingsSound'
  BY <1>0, <1>6 DEF cancel_config_change, ConfigTypeOK, SettingsSound
<1>7. ASSUME NEW u \in Accounts, NEW i \in DOMAIN proposals, execute(u, i)
      PROVE  ConfigTypeOK' /\ SettingsSound'
  <2> DEFINE a == proposals[i].action
  <2>1. a \in GovActions
    <3>1. proposals[i] \in GovProposal
      BY DEF GovTypeOK
    <3> QED BY <3>1 DEF GovProposal
  <2>2. Effect(a) /\ pendingConfig' = pendingConfig
    BY <1>7 DEF execute
  <2> HIDE DEF a
  <2>3. ASSUME NEW k \in {"InsuranceSplitBps", "InsuranceCoverageBps"}, NEW limit \in Nat,
               a.type \in {"SetInsuranceSplitBps", "SetInsuranceCoverageBps"},
               k = "InsuranceSplitBps" => limit = 5000, SetInsurance(k, a.bps, limit)
        PROVE  ConfigTypeOK' /\ SettingsSound'
    <3> DEFINE b == a.bps
    <3>1. config' = [config EXCEPT ![k] = b] /\ b <= limit
      BY <2>3 DEF SetInsurance
    <3>2. b \in Nat
      BY <2>1, <2>3, GovActionsAssumption
    <3> HIDE DEF b
    <3>3. ConfigTypeOK'
      BY <1>0, <2>2, <2>3, <3>1, KindsListed DEF ConfigTypeOK
    <3>4. k = "InsuranceSplitBps" => b \in 0 .. 5000
      BY <2>3, <3>1, <3>2
    <3>5. SettingsSound'
      BY <1>0, <2>3, <3>1, <3>4, KindsListed DEF ConfigTypeOK, SettingsSound
    <3> QED BY <3>3, <3>5
  <2>4. CASE a.type = "SetInsuranceSplitBps" /\ SetInsurance("InsuranceSplitBps", a.bps, 5000)
    BY <2>3, <2>4
  <2>5. CASE a.type = "SetInsuranceCoverageBps" /\ SetInsurance("InsuranceCoverageBps", a.bps, 10000)
    BY <2>3, <2>5
  <2>6. CASE SetFee(a.bps)
    BY <1>4, <2>2, <2>6, KindsListed DEF SetFee
  <2>7. CASE UNCHANGED config
    BY <1>1, <2>2, <2>7 DEF configVars
  <2>8. \/ UNCHANGED config \/ SetFee(a.bps)
        \/ (a.type = "SetInsuranceSplitBps" /\ SetInsurance("InsuranceSplitBps", a.bps, 5000))
        \/ (a.type = "SetInsuranceCoverageBps" /\ SetInsurance("InsuranceCoverageBps", a.bps, 10000))
    BY <2>2 DEF Effect, SetMode, KeepsPolicy, SetTreasuryAddress
  <2> QED BY <2>4, <2>5, <2>6, <2>7, <2>8
<1>8. CASE ConfigNext
  BY <1>8, <1>2, <1>3, <1>5, <1>6, ConfigSteps
<1> QED BY <1>1, <1>7, <1>8, ConfigTouched

(* Every call leaves the oracle and its rotation well-typed. *)
LEMMA RotationKept ==
  ASSUME GovTypeOK, Calls
  PROVE  RotationTypeOK'
<1>0. RotationTypeOK /\ ledger \in Nat
  BY DEF GovTypeOK, BaseTypeOK
<1>1. CASE UNCHANGED rotationVars
  BY <1>0, <1>1 DEF rotationVars, RotationTypeOK
<1>2. ASSUME NEW o \in Accounts, NEW s \in RotationExpiries, propose_oracle_rotation(o, s)
      PROVE  RotationTypeOK'
  <2> DEFINE r == [new_oracle |-> o, proposed_at |-> Timestamp, expires_at |-> Timestamp + s]
  <2>1. r \in OracleRotationProposal
    BY <1>0, OracleAssumption DEF OracleRotationProposal, Timestamp
  <2>2. rotation' = r /\ oracle' = oracle
    BY <1>2 DEF propose_oracle_rotation
  <2> QED BY <1>0, <2>1, <2>2 DEF RotationTypeOK
<1>3. CASE accept_oracle_rotation
  <2>1. rotation \in OracleRotationProposal
    BY <1>0, <1>3 DEF RotationTypeOK, accept_oracle_rotation
  <2>2. rotation.new_oracle \in Accounts
    BY <2>1 DEF OracleRotationProposal
  <2> QED BY <1>3, <2>2 DEF RotationTypeOK, accept_oracle_rotation
<1>4. CASE cancel_oracle_rotation \/ get_oracle_rotation_proposal
  BY <1>0, <1>4 DEF RotationTypeOK, cancel_oracle_rotation, get_oracle_rotation_proposal
<1>5. ASSUME NEW u \in Accounts, NEW i \in DOMAIN proposals, execute(u, i)
      PROVE  RotationTypeOK'
  <2> DEFINE a == proposals[i].action
  <2>1. a \in GovActions
    <3>1. proposals[i] \in GovProposal
      BY DEF GovTypeOK
    <3> QED BY <3>1 DEF GovProposal
  <2>2. Effect(a) /\ rotation' = rotation
    BY <1>5 DEF execute
  <2> HIDE DEF a
  <2>3. oracle' = oracle \/ (a.type = "SetOracle" /\ oracle' = a.account)
    BY <2>2 DEF Effect, SetMode, SetFee, SetInsurance, KeepsPolicy, SetTreasuryAddress
  <2>4. oracle' \in Accounts
    BY <1>0, <2>1, <2>3, GovActionsAssumption DEF RotationTypeOK
  <2> QED BY <1>0, <2>2, <2>4 DEF RotationTypeOK
<1>6. CASE RotationNext
  BY <1>6, <1>2, <1>3, <1>4 DEF RotationNext
<1> QED BY <1>1, <1>5, <1>6, RotationTouched

(* What an amendment's status change leaves alone. *)
LEMMA AmendmentSteps ==
  ASSUME ConstitutionTypeOK, NEW i \in DOMAIN amendments,
         NEW status \in {"Vetoed", "Activated", "Expired"}, SetAmendmentStatus(i, status)
  PROVE  /\ amendments' \in Seq(Amendment) /\ DOMAIN amendments' = DOMAIN amendments
         /\ constitution' = constitution
         /\ \A j \in DOMAIN amendments \ {i} : amendments'[j] = amendments[j]
         /\ amendments'[i].status = status
         /\ amendments'[i].created_at_ledger = amendments[i].created_at_ledger
         /\ amendments'[i].activation_deadline_ledger = amendments[i].activation_deadline_ledger
<1>0. amendments \in Seq(Amendment) /\ amendments[i] \in Amendment
  BY DEF ConstitutionTypeOK
<1> DEFINE m == [amendments[i] EXCEPT !.status = status]
<1>1. amendments' = [amendments EXCEPT ![i] = m] /\ constitution' = constitution
  BY <1>0 DEF SetAmendmentStatus
<1>2. /\ m \in Amendment /\ m.status = status
      /\ m.created_at_ledger = amendments[i].created_at_ledger
      /\ m.activation_deadline_ledger = amendments[i].activation_deadline_ledger
  BY <1>0 DEF Amendment
<1> HIDE DEF m
<1>3. \A j \in DOMAIN amendments : amendments'[j] = IF j = i THEN m ELSE amendments[j]
  BY <1>1
<1>4. amendments' = [j \in DOMAIN amendments |-> amendments'[j]]
  BY <1>1
<1>5. \A j \in DOMAIN amendments : amendments'[j] \in Amendment
  BY <1>0, <1>2, <1>3
<1>6. amendments' \in Seq(Amendment) /\ DOMAIN amendments' = DOMAIN amendments
  BY <1>0, <1>4, <1>5, ReplacedSeq
<1> QED BY <1>1, <1>2, <1>3, <1>6

(* What proposing an amendment adds: one dated by the constitution. *)
LEMMA AmendmentAppends ==
  ASSUME ConstitutionTypeOK, ledger \in Nat, NEW u \in Accounts, propose_amendment(u)
  PROVE  /\ constitution # None /\ constitution' = constitution
         /\ \E m \in Amendment :
              /\ amendments' = Append(amendments, m)
              /\ m.activation_deadline_ledger =
                   m.created_at_ledger + constitution.veto_window_ledgers
                                       + constitution.timelock_ledgers
<1>1. constitution \in ConstitutionMetadata
  BY DEF ConstitutionTypeOK, propose_amendment
<1> DEFINE v == constitution.veto_window_ledgers
           t == constitution.timelock_ledgers
           m == [proposer |-> u, created_at_ledger |-> ledger, veto_deadline_ledger |-> ledger + v,
                 activation_deadline_ledger |-> (ledger + v) + t, status |-> "Pending"]
<1>2. v \in Nat /\ t \in Nat
  BY <1>1 DEF ConstitutionMetadata
<1>3. amendments' = Append(amendments, m)
  BY DEF propose_amendment
<1> HIDE DEF v, t
<1>4. m \in Amendment
  <2>1. ledger + v \in Nat /\ (ledger + v) + t \in Nat
    BY <1>2
  <2> QED BY <2>1 DEF Amendment
<1>5. m.activation_deadline_ledger = (m.created_at_ledger + v) + t
  OBVIOUS
<1> HIDE DEF m
<1> QED BY <1>3, <1>4, <1>5 DEF v, t, propose_amendment

(* Every call leaves the amendments well-typed and dated. *)
LEMMA ConstitutionKept ==
  ASSUME GovTypeOK, AmendmentsDated, Calls
  PROVE  ConstitutionTypeOK' /\ AmendmentsDated'
<1>0. ConstitutionTypeOK /\ ledger \in Nat
  BY DEF GovTypeOK, BaseTypeOK
<1>1. CASE UNCHANGED constitutionVars
  BY <1>0, <1>1 DEF constitutionVars, ConstitutionTypeOK, AmendmentsDated
<1>2. ASSUME NEW c \in Charters, establish_constitution(c)
      PROVE  ConstitutionTypeOK' /\ AmendmentsDated'
  <2>1. DOMAIN amendments = {}
    BY <1>2 DEF AmendmentsDated, establish_constitution
  <2> QED BY <1>0, <1>2, <2>1, ChartersAssumption
          DEF establish_constitution, ConstitutionTypeOK, AmendmentsDated
<1>3. ASSUME NEW u \in Accounts, propose_amendment(u)
      PROVE  ConstitutionTypeOK' /\ AmendmentsDated'
  <2>1. PICK m \in Amendment :
          /\ amendments' = Append(amendments, m)
          /\ m.activation_deadline_ledger =
               m.created_at_ledger + constitution.veto_window_ledgers
                                   + constitution.timelock_ledgers
    BY <1>0, <1>3, AmendmentAppends
  <2>2. constitution # None /\ constitution' = constitution
    BY <1>0, <1>3, AmendmentAppends
  <2>3. amendments' \in Seq(Amendment) /\ ConstitutionTypeOK'
    BY <1>0, <2>1, <2>2 DEF ConstitutionTypeOK
  <2>4. \A i \in DOMAIN amendments' : amendments'[i] = m \/ (i \in DOMAIN amendments
                                                           /\ amendments'[i] = amendments[i])
    BY <1>0, <2>1 DEF ConstitutionTypeOK
  <2> QED BY <2>1, <2>2, <2>3, <2>4 DEF AmendmentsDated
<1>4. ASSUME NEW i \in DOMAIN amendments, NEW status \in {"Vetoed", "Activated", "Expired"},
             SetAmendmentStatus(i, status)
      PROVE  ConstitutionTypeOK' /\ AmendmentsDated'
  BY <1>0, <1>4, AmendmentSteps DEF ConstitutionTypeOK, AmendmentsDated
<1>5. CASE ConstitutionNext
  BY <1>5, <1>2, <1>3, <1>4 DEF ConstitutionNext, veto_amendment, activate_amendment, get_amendment
<1> QED BY <1>1, <1>5, ConstitutionTouched

(* Writing a temporary entry makes it live and gives it the value. *)
LEMMA WrittenEntry ==
  ASSUME ledger \in Nat, NEW e \in TempEntry \cup {None}, NEW v \in Nat
  PROVE  Written(e, v) \in TempEntry /\ IsLive(Written(e, v)) /\ ValueOf(Written(e, v)) = v
<1>1. Written(e, v) \in TempEntry /\ Written(e, v).value = v
  BY FaucetAssumption DEF Written, IsLive, TempEntry
<1>2. ledger <= Written(e, v).live_until
  BY FaucetAssumption DEF Written, IsLive, TempEntry
<1>3. Written(e, v) # None
  BY <1>1, FaucetAssumption
<1> QED BY <1>1, <1>2, <1>3 DEF IsLive, ValueOf

(* The value read from a temporary entry. *)
LEMMA ValueTyped ==
  ASSUME NEW e \in TempEntry \cup {None}
  PROVE  ValueOf(e) \in Nat
BY DEF ValueOf, IsLive, TempEntry

(* What the next mint will find consumed is a number. *)
LEMMA ConsumedTyped == AdmissionTypeOK => Consumed \in Nat
BY ValueTyped DEF Consumed, AdmissionTypeOK

(* The same one step later. *)
LEMMA ConsumedTypedNext == AdmissionTypeOK' => Consumed' \in Nat
BY DEF AdmissionTypeOK, Consumed, ValueOf, IsLive, TempEntry

(* A mint that counts against the budget: it fits, and the next one will   *)
(* find its amount consumed.                                               *)
LEMMA BudgetCounted ==
  ASSUME AdmissionTypeOK, ledger \in Nat, ledger' = ledger, CountAgainstBudget,
         config.EpochMintBudget # 0
  PROVE  /\ Consumed + INITIAL_AMOUNT <= config.EpochMintBudget
         /\ Consumed' = Consumed + INITIAL_AMOUNT
         /\ epochKey' \in TempEntry \cup {None} /\ consumedKey' \in TempEntry
<1> DEFINE c == Consumed
           v == c + INITIAL_AMOUNT
           e == CurrentEpoch
<1>1. c \in Nat /\ v \in Nat /\ e \in Nat
  BY ConsumedTyped, FaucetAssumption DEF CurrentEpoch
<1>2. /\ v <= config.EpochMintBudget
      /\ consumedKey' = Written(consumedKey, v)
      /\ epochKey' = IF ValueOf(epochKey) = e THEN epochKey ELSE Written(epochKey, e)
  BY DEF CountAgainstBudget, Consumed
<1>3. epochKey \in TempEntry \cup {None} /\ consumedKey \in TempEntry \cup {None}
  BY DEF AdmissionTypeOK
<1>4. CurrentEpoch' = e
  BY DEF CurrentEpoch
<1> HIDE DEF c, v, e
<1>5. consumedKey' \in TempEntry /\ ValueOf(consumedKey') = v
  BY <1>1, <1>2, <1>3, WrittenEntry
<1>6. epochKey' \in TempEntry \cup {None} /\ ValueOf(epochKey') = e
  <2>1. CASE ValueOf(epochKey) = e
    BY <1>2, <1>3, <2>1
  <2>2. CASE ValueOf(epochKey) # e
    BY <1>1, <1>2, <1>3, <2>2, WrittenEntry
  <2> QED BY <2>1, <2>2
<1>7. ValueOf(consumedKey)' = v /\ ValueOf(epochKey)' = e
  BY <1>5, <1>6 DEF ValueOf, IsLive
<1>8. Consumed' = v
  BY <1>4, <1>7 DEF Consumed
<1> QED BY <1>2, <1>5, <1>6, <1>8 DEF c, v

(* Every call leaves the access lists and the counters well-typed. *)
LEMMA AdmissionKept ==
  ASSUME GovTypeOK, AdmissionTypeOK, Calls
  PROVE  AdmissionTypeOK'
<1>0. ledger \in Nat
  BY DEF GovTypeOK, BaseTypeOK
<1>1. CASE UNCHANGED admissionVars
  BY <1>1 DEF admissionVars, accessVars, faucetVars, AdmissionTypeOK
<1>2. ASSUME NEW b \in BOOLEAN, set_access_control_enabled(b)
      PROVE  AdmissionTypeOK'
  BY <1>2 DEF set_access_control_enabled, ChangeLists, faucetVars, AdmissionTypeOK
<1>3. ASSUME NEW u \in Accounts, add_allowlisted(u) \/ remove_allowlisted(u)
      PROVE  AdmissionTypeOK'
  BY <1>3 DEF add_allowlisted, remove_allowlisted, ChangeLists, faucetVars, AdmissionTypeOK
<1>4. ASSUME NEW u \in Accounts, add_denylisted(u) \/ remove_denylisted(u)
      PROVE  AdmissionTypeOK'
  BY <1>4 DEF add_denylisted, remove_denylisted, ChangeLists, faucetVars, AdmissionTypeOK
<1>5. ASSUME NEW u \in Accounts, mint_initial(u)
      PROVE  AdmissionTypeOK'
  <2>1. ledgerMints' \in [ledger : Nat, count : Nat]
    BY <1>0, <1>5 DEF mint_initial, CountAgainstLimit, MintsInLedger, AdmissionTypeOK
  <2>2. epochKey' \in TempEntry \cup {None} /\ consumedKey' \in TempEntry \cup {None}
    <3>1. CountAgainstBudget /\ ledger' = ledger
      BY <1>5 DEF mint_initial
    <3>2. CASE config.EpochMintBudget = 0
      BY <3>1, <3>2 DEF CountAgainstBudget, AdmissionTypeOK
    <3>3. CASE config.EpochMintBudget # 0
      BY <1>0, <3>1, <3>3, BudgetCounted
    <3> QED BY <3>2, <3>3
  <2> QED BY <1>5, <2>1, <2>2 DEF mint_initial, accessVars, AdmissionTypeOK
<1>6. CASE AdmissionNext
  BY <1>6, <1>2, <1>3, <1>4, <1>5 DEF AdmissionNext
<1> QED BY <1>1, <1>6 DEF Calls

-----------------------------------------------------------------------------
(* The parts of the invariant that remember. *)

(* The dates stay honest: a change on display keeps its date, a new one    *)
(* gets the ledger it appears in.                                          *)
LEMMA DatesKept ==
  ASSUME GovTypeOK, DatesHonest, Next
  PROVE  DatesHonest'
<1>0. ledger \in Nat /\ ConfigTypeOK /\ RotationTypeOK
  BY DEF GovTypeOK, BaseTypeOK
<1>1. /\ Calls
      /\ \A k \in TimelockedKinds : shownSince'[k] =
           IF pendingConfig'[k] = pendingConfig[k] THEN shownSince[k] ELSE ledger
      /\ shownSince'["Oracle"] = IF rotation' = rotation THEN shownSince["Oracle"] ELSE ledger
      /\ shownSince' \in [TimelockedKinds \cup {"Oracle"} -> Nat]
  <2>1. "Oracle" \notin TimelockedKinds
    BY KindsListed
  <2> QED BY <1>0, <2>1 DEF Next, Remember, DatesHonest
<1>2. ASSUME NEW k \in TimelockedKinds, pendingConfig'[k] # None
      PROVE  /\ pendingConfig'[k].scheduled_at_ledger = shownSince'[k]
             /\ pendingConfig'[k].activation_ledger = shownSince'[k] + CONFIG_TIMELOCK_LEDGERS
  <2>1. CASE pendingConfig'[k] = pendingConfig[k]
    BY <1>1, <1>2, <2>1 DEF DatesHonest
  <2>2. ASSUME pendingConfig'[k] # pendingConfig[k], NEW j \in TimelockedKinds, NEW v,
               Schedule(j, v)
        PROVE  /\ pendingConfig'[k].scheduled_at_ledger = shownSince'[k]
               /\ pendingConfig'[k].activation_ledger = shownSince'[k] + CONFIG_TIMELOCK_LEDGERS
    BY <1>0, <1>1, <2>2 DEF Schedule, ConfigTypeOK
  <2>3. ASSUME pendingConfig'[k] # pendingConfig[k], NEW j \in TimelockedKinds,
               apply_scheduled_changes(j) \/ cancel_config_change(j)
        PROVE  FALSE
    BY <1>0, <1>2, <2>3 DEF apply_scheduled_changes, cancel_config_change, ConfigTypeOK
  <2>4. ASSUME NEW j, NEW v, SetNow(j, v)
        PROVE  pendingConfig' = pendingConfig
    BY <2>4 DEF SetNow
  <2>5. ASSUME NEW u, NEW i, execute(u, i)
        PROVE  pendingConfig' = pendingConfig
    BY <2>5 DEF execute
  <2>6. CASE ConfigNext
    BY <2>1, <2>2, <2>3, <2>4, <2>6, ConfigSteps
  <2> QED BY <1>1, <2>1, <2>5, <2>6, ConfigTouched DEF configVars
<1>3. ASSUME rotation' # None
      PROVE  rotation'.proposed_at = shownSince'["Oracle"]
  <2>1. CASE rotation' = rotation
    BY <1>1, <1>3, <2>1 DEF DatesHonest
  <2>2. ASSUME NEW o, NEW s, propose_oracle_rotation(o, s), rotation' # rotation
        PROVE  rotation'.proposed_at = shownSince'["Oracle"]
    BY <1>1, <2>2 DEF propose_oracle_rotation, Timestamp
  <2>3. CASE accept_oracle_rotation \/ cancel_oracle_rotation \/ get_oracle_rotation_proposal
    BY <1>3, <2>3 DEF accept_oracle_rotation, cancel_oracle_rotation,
       get_oracle_rotation_proposal
  <2>4. ASSUME NEW u, NEW i, execute(u, i)
        PROVE  rotation' = rotation
    BY <2>4 DEF execute
  <2>5. CASE RotationNext
    BY <2>1, <2>2, <2>3, <2>5 DEF RotationNext
  <2> QED BY <1>1, <2>1, <2>4, <2>5, RotationTouched DEF rotationVars
<1> QED BY <1>1, <1>2, <1>3 DEF DatesHonest

(* The signatures stay sound: whoever signs holds a seat at that moment,   *)
(* and a seat that was held is not forgotten.                              *)
LEMMA SignaturesKept ==
  ASSUME GovTypeOK, BaseTypeOK', SignaturesSound, Next
  PROVE  SignaturesSound'
<1>0. Calls /\ proposals \in Seq(GovProposal)
  BY DEF Next, GovTypeOK
<1>1. /\ seated' = seated \cup {admin'} \cup ({govApprover'} \ {None})
      /\ seated \subseteq seated'
  BY DEF Next, Remember
<1>2. seated' \subseteq Accounts /\ admin' \in seated' /\ govApprover' \in seated' \cup {None}
  BY <1>1 DEF SignaturesSound, BaseTypeOK
<1> DEFINE Fine(p) == /\ p.proposer \in seated'
                      /\ p.status \in {"Approved", "Executed"} =>
                           p.approver \in seated' /\ p.proposer # p.approver
<1>3. \A i \in DOMAIN proposals : Fine(proposals[i])
  BY <1>1 DEF SignaturesSound
<1>4. ASSUME NEW u \in Accounts, IsAuthorizedGovUser(u)
      PROVE  u \in seated
  BY <1>4, AccountsAssumption DEF IsAuthorizedGovUser, SignaturesSound
<1>5. ASSUME NEW u \in Accounts, NEW a \in GovActions, NEW t \in ProposalTtls \cup {None},
             propose(u, a, t)
      PROVE  \A i \in DOMAIN proposals' : Fine(proposals'[i])
  <2>1. PICK p \in GovProposal : /\ proposals' = Append(proposals, p)
                                 /\ p.proposer = u /\ p.status = "Pending"
    BY <1>5, ProposeAppends
  <2>2. Fine(p)
    BY <1>1, <1>4, <1>5, <2>1 DEF propose
  <2>3. \A i \in DOMAIN proposals' : proposals'[i] = p \/ (i \in DOMAIN proposals
                                                          /\ proposals'[i] = proposals[i])
    BY <1>0, <2>1
  <2> QED BY <1>3, <2>2, <2>3
<1>6. ASSUME NEW u \in Accounts, NEW i \in DOMAIN proposals,
             approve(u, i) \/ execute(u, i) \/ cancel(u, i)
      PROVE  \A j \in DOMAIN proposals' : Fine(proposals'[j])
  <2>1. CASE approve(u, i) /\ Restamped(proposals, proposals', i, u, "Approved")
    <3>1. u \in seated' /\ proposals[i].proposer # u
      BY <1>1, <1>4, <2>1 DEF approve
    <3> QED BY <1>3, <2>1, <3>1 DEF Restamped
  <2>2. CASE execute(u, i)
             /\ Restamped(proposals, proposals', i, proposals[i].approver, "Executed")
    <3>1. proposals[i].status = "Approved"
      BY <2>2 DEF execute
    <3> QED BY <1>3, <2>2, <3>1 DEF Restamped
  <2>3. CASE cancel(u, i)
             /\ Restamped(proposals, proposals', i, proposals[i].approver, "Cancelled")
    BY <1>3, <2>3 DEF Restamped
  <2> QED BY <1>6, <2>1, <2>2, <2>3, ProposalSteps
<1>7. CASE UNCHANGED proposals
  BY <1>2, <1>3, <1>7 DEF SignaturesSound
<1>8. CASE OwnNext
  <2>1. UNCHANGED proposals \/ \A j \in DOMAIN proposals' : Fine(proposals'[j])
    BY <1>8, <1>5, <1>6 DEF OwnNext, set_gov_proposal_ttl, withdraw_protocol_fee,
       withdraw_insurance_fund, CollectProtocolFee, OnlyMoney
  <2> QED BY <1>2, <1>7, <2>1 DEF SignaturesSound
<1> QED BY <1>0, <1>7, <1>8, GovTouched DEF govVars

(* A balance changes by a mint, or along with one of the two pots. *)
LEMMA BalanceTouched ==
  ASSUME GovTypeOK, Calls
  PROVE  \/ UNCHANGED balance
         \/ \E u \in Accounts : mint_initial(u)
         \/ treasury' # treasury \/ insuranceFund' # insuranceFund
<1>0. treasury \in Nat \cup {AnAddress} /\ insuranceFund \in Nat
  BY DEF GovTypeOK
<1>1. ASSUME NEW u, NEW n \in Int, WithdrawFee(u, n)
      PROVE  treasury' # treasury
  BY <1>0, <1>1 DEF WithdrawFee
<1>2. ASSUME NEW u, NEW n \in Int, WithdrawFund(u, n)
      PROVE  insuranceFund' # insuranceFund
  BY <1>0, <1>2 DEF WithdrawFund
<1>3. ASSUME NEW u \in Accounts, NEW i \in DOMAIN proposals, execute(u, i)
      PROVE  UNCHANGED balance \/ treasury' # treasury \/ insuranceFund' # insuranceFund
  <2> DEFINE a == proposals[i].action
  <2>1. a \in GovActions
    <3>1. proposals[i] \in GovProposal
      BY DEF GovTypeOK
    <3> QED BY <3>1 DEF GovProposal
  <2>2. Effect(a)
    BY <1>3 DEF execute
  <2> HIDE DEF a
  <2>3. CASE a.type = "WithdrawProtocolFee" /\ WithdrawFee(a.recipient, a.amount)
    BY <1>1, <2>1, <2>3, GovActionsAssumption
  <2>4. CASE a.type = "WithdrawInsuranceFund" /\ WithdrawFund(a.recipient, a.amount)
    BY <1>2, <2>1, <2>4, GovActionsAssumption
  <2> QED BY <2>2, <2>3, <2>4
          DEF Effect, SetMode, SetFee, SetInsurance, SetTreasuryAddress, KeepsMoney
<1>4. ASSUME NEW n \in Amounts, NEW u, withdraw_protocol_fee(u, n) \/ withdraw_insurance_fund(u, n)
      PROVE  treasury' # treasury \/ insuranceFund' # insuranceFund
  <2>1. n \in Int
    BY GovNumbersAssumption
  <2> QED BY <1>1, <1>2, <1>4, <2>1 DEF withdraw_protocol_fee, withdraw_insurance_fund
<1>5. CASE OwnNext
  <2>1. ASSUME NEW t, set_gov_proposal_ttl(t)
        PROVE  UNCHANGED balance
    BY <2>1 DEF set_gov_proposal_ttl, OnlyProposals
  <2>2. ASSUME NEW u, NEW a, NEW t, propose(u, a, t)
        PROVE  UNCHANGED balance
    BY <2>2 DEF propose, OnlyProposals
  <2>3. ASSUME NEW u, NEW i, approve(u, i) \/ cancel(u, i)
        PROVE  UNCHANGED balance
    BY <2>3 DEF approve, cancel, OnlyProposals
  <2>4. ASSUME NEW n, CollectProtocolFee(n)
        PROVE  UNCHANGED balance
    BY <2>4 DEF CollectProtocolFee
  <2> QED BY <1>3, <1>4, <1>5, <2>1, <2>2, <2>3, <2>4 DEF OwnNext
<1>6. CASE BaseNext
  BY <1>6 DEF BaseNext, Tick, set_gov_approver, pause_contract, unpause_contract,
     set_runtime_mode
<1>7. CASE ConfigNext
  BY <1>7, ConfigFrame
<1>8. CASE RotationNext
  BY <1>8 DEF RotationNext, propose_oracle_rotation, accept_oracle_rotation,
     cancel_oracle_rotation, get_oracle_rotation_proposal, baseVars
<1>9. CASE ConstitutionNext
  BY <1>9 DEF ConstitutionNext, establish_constitution, propose_amendment, veto_amendment,
     activate_amendment, get_amendment, SetAmendmentStatus, baseVars
<1>10. CASE AdmissionNext
  BY <1>10 DEF AdmissionNext, set_access_control_enabled, add_allowlisted, remove_allowlisted,
     add_denylisted, remove_denylisted, ChangeLists
<1>11. CASE BoardNext
  BY <1>11 DEF BoardNext, UpdateStatsWin, UpdateStatsLoss, RecordResult,
     reset_leaderboard_season
<1> QED BY <1>5, <1>6, <1>7, <1>8, <1>9, <1>10, <1>11 DEF Calls, GovNext

(* What is remembered as a mint is one. *)
LEMMA MintSteps ==
  ASSUME GovTypeOK, Calls, MintStep
  PROVE  \E u \in Accounts : mint_initial(u)
<1>1. ~UNCHANGED balance
  BY AccountsAssumption, FaucetAssumption DEF MintStep
<1> QED BY <1>1, BalanceTouched DEF MintStep

(* With the entries neither written nor dropped, a later ledger of the     *)
(* same epoch finds the same amount consumed.                              *)
LEMMA ConsumedKept ==
  ASSUME GovTypeOK, AdmissionTypeOK, ledger' \in Nat, ledger <= ledger', UNCHANGED faucetVars,
         ~BudgetRestarts
  PROVE  Consumed' = Consumed
<1>0. /\ ledger \in Nat /\ ledger' \in Nat /\ ledger <= ledger' /\ CurrentEpoch' = CurrentEpoch
      /\ epochKey' = epochKey /\ consumedKey' = consumedKey
      /\ ~Lapsed(epochKey, epochKey') /\ ~Lapsed(consumedKey, consumedKey')
      /\ epochKey \in TempEntry \cup {None} /\ consumedKey \in TempEntry \cup {None}
  BY DEF BudgetRestarts, faucetVars, GovTypeOK, BaseTypeOK, AdmissionTypeOK
<1>1. ValueOf(epochKey)' = ValueOf(epochKey)
  <2>1. CASE epochKey = None
    BY <1>0, <2>1 DEF ValueOf, IsLive
  <2>2. CASE epochKey \in TempEntry
    <3>1. epochKey.live_until \in Nat
      BY <2>2 DEF TempEntry
    <3> QED BY <1>0, <2>2, <3>1 DEF ValueOf, IsLive, Lapsed
  <2> QED BY <1>0, <2>1, <2>2
<1>2. ValueOf(consumedKey)' = ValueOf(consumedKey)
  <2>1. CASE consumedKey = None
    BY <1>0, <2>1 DEF ValueOf, IsLive
  <2>2. CASE consumedKey \in TempEntry
    <3>1. consumedKey.live_until \in Nat
      BY <2>2 DEF TempEntry
    <3> QED BY <1>0, <2>2, <3>1 DEF ValueOf, IsLive, Lapsed
  <2> QED BY <1>0, <2>1, <2>2
<1> QED BY <1>0, <1>1, <1>2 DEF Consumed

(* The counters stay sound. *)
LEMMA CountersKept ==
  ASSUME GovTypeOK, AdmissionTypeOK, SettingsSound, CountersSound, BaseTypeOK',
         AdmissionTypeOK', SettingsSound', Next
  PROVE  CountersSound'
<1> DEFINE n  == IF MintStep THEN 1 ELSE 0
           l  == config.MintLimit
           l2 == config'.MintLimit
           b  == config.EpochMintBudget
           b2 == config'.EpochMintBudget
           x  == minted.inLedger
           y  == minted.inEpoch
           x2 == IF LimitRestarts THEN 0 ELSE x + n
           y2 == IF BudgetRestarts THEN 0 ELSE y + n
<1>0. Calls /\ minted' = [inLedger |-> x2, inEpoch |-> y2]
  BY DEF Next, Remember
<1>1. l \in Nat /\ l2 \in Nat /\ b \in Nat /\ b2 \in Nat /\ n \in {0, 1}
  BY DEF SettingsSound
<1>2. x \in Nat /\ y \in Nat
  BY DEF CountersSound
<1>3. x2 \in Nat /\ y2 \in Nat
  BY <1>1, <1>2
<1>4. minted' \in [inLedger : Nat, inEpoch : Nat]
  BY <1>0, <1>3
<1>5. /\ ledger \in Nat /\ ledger' \in Nat /\ ledger <= ledger'
      /\ ledgerMints \in [ledger : Nat, count : Nat]
      /\ ledgerMints' \in [ledger : Nat, count : Nat]
  <2>1. ledger \in Nat /\ ledger' \in Nat
    BY DEF GovTypeOK, BaseTypeOK
  <2>2. ledger <= ledger'
    BY <1>0, <2>1, ClockTouched DEF Tick
  <2> QED BY <2>1, <2>2 DEF AdmissionTypeOK
<1>6. MintsInLedger \in Nat /\ MintsInLedger' \in Nat
  BY <1>5 DEF MintsInLedger
<1>7. /\ l > 0 => x <= MintsInLedger /\ x <= l
      /\ b > 0 => y * INITIAL_AMOUNT <= Consumed /\ y * INITIAL_AMOUNT <= b
  BY DEF CountersSound
<1>8. \/ UNCHANGED faucetVars /\ n = 0
      \/ \E u \in Accounts : mint_initial(u)
  BY <1>0, FaucetTouched, MintSteps
<1>9. l2 > 0 => x2 <= MintsInLedger' /\ x2 <= l2
  <2>1. CASE LimitRestarts
    BY <1>1, <1>6, <2>1
  <2>2. CASE ~LimitRestarts
    <3>1. ledger' = ledger /\ l2 = l /\ x2 = x + n
      BY <2>2 DEF LimitRestarts
    <3>2. CASE UNCHANGED faucetVars /\ n = 0
      <4>1. MintsInLedger' = MintsInLedger
        BY <3>1, <3>2 DEF faucetVars, MintsInLedger
      <4> HIDE DEF n, l, l2, x, x2
      <4> QED BY <1>1, <1>2, <1>6, <1>7, <3>1, <3>2, <4>1
    <3>3. ASSUME NEW u \in Accounts, mint_initial(u), l > 0
          PROVE  x2 <= MintsInLedger' /\ x2 <= l2
      <4>1. MintsInLedger < l /\ MintsInLedger' = MintsInLedger + 1
        <5>1. CountAgainstLimit /\ config.MintLimit # 0
          BY <1>1, <3>3 DEF mint_initial
        <5> QED BY <1>5, <1>6, <3>1, <5>1 DEF CountAgainstLimit, MintsInLedger
      <4> HIDE DEF n, l, l2, x, x2
      <4> QED BY <1>1, <1>2, <1>6, <1>7, <3>1, <3>3, <4>1
    <3> QED BY <1>8, <3>1, <3>2, <3>3
  <2> QED BY <2>1, <2>2
<1>10. Consumed \in Nat /\ Consumed' \in Nat
  BY ConsumedTyped, ConsumedTypedNext
<1>11. b2 > 0 => y2 * INITIAL_AMOUNT <= Consumed' /\ y2 * INITIAL_AMOUNT <= b2
  <2>0. INITIAL_AMOUNT \in Nat
    BY FaucetAssumption
  <2>1. CASE BudgetRestarts
    <3>1. y2 * INITIAL_AMOUNT = 0
      BY <2>0, <2>1
    <3> HIDE DEF y2, b2
    <3> QED BY <1>1, <1>10, <3>1
  <2>2. CASE ~BudgetRestarts
    <3>1. b2 = b /\ y2 = y + n
      BY <2>2 DEF BudgetRestarts
    <3>2. CASE UNCHANGED faucetVars /\ n = 0
      <4>1. Consumed' = Consumed
        BY <1>5, <2>2, <3>2, ConsumedKept
      <4>2. y2 = y
        BY <1>2, <3>1, <3>2
      <4> HIDE DEF n, b, b2, y, y2
      <4> QED BY <1>7, <3>1, <4>1, <4>2
    <3>3. ASSUME NEW u \in Accounts, mint_initial(u), b > 0
          PROVE  y2 * INITIAL_AMOUNT <= Consumed' /\ y2 * INITIAL_AMOUNT <= b2
      <4>1. Consumed + INITIAL_AMOUNT <= b /\ Consumed' = Consumed + INITIAL_AMOUNT
        <5>1. CountAgainstBudget /\ config.EpochMintBudget # 0 /\ ledger' = ledger
          BY <1>1, <3>3 DEF mint_initial
        <5> QED BY <1>5, <5>1, BudgetCounted
      <4> DEFINE p == y * INITIAL_AMOUNT
      <4>2. p \in Nat /\ p <= Consumed
        BY <1>2, <1>7, <2>0, <3>3
      <4>3. y2 * INITIAL_AMOUNT \in Nat /\ y2 * INITIAL_AMOUNT <= p + INITIAL_AMOUNT
        <5> HIDE DEF y, y2, n
        <5> QED BY <1>1, <1>2, <2>0, <3>1
      <4> DEFINE q == y2 * INITIAL_AMOUNT
      <4>4. q \in Nat /\ q <= p + INITIAL_AMOUNT
        BY <4>3
      <4>5. b \in Nat /\ b2 = b
        BY <1>1, <3>1
      <4> HIDE DEF p, q, b, b2
      <4>6. q <= Consumed' /\ q <= b2
        BY <1>10, <2>0, <4>1, <4>2, <4>4, <4>5
      <4> QED BY <4>6 DEF q
    <3> QED BY <1>8, <3>1, <3>2, <3>3
  <2> QED BY <2>1, <2>2
<1>12. minted'.inLedger = x2 /\ minted'.inEpoch = y2
  BY <1>0
<1> QED BY <1>4, <1>9, <1>11, <1>12 DEF CountersSound

-----------------------------------------------------------------------------
(* The invariant. *)

(* Every step of the administrative surface preserves the invariant. *)
LEMMA NextAdminInv ==
  ASSUME AdminInv, [Next]_vars
  PROVE  AdminInv'
<1>1. CASE Next
  <2>1. Calls /\ GovTypeOK /\ AdmissionTypeOK /\ SettingsSound
    BY <1>1 DEF Next, AdminInv
  <2>2. BaseTypeOK'
    BY <2>1, BaseKept
  <2>3. ConfigTypeOK' /\ SettingsSound'
    BY <2>1, ConfigKept
  <2>4. RotationTypeOK'
    BY <2>1, RotationKept
  <2>5. ConstitutionTypeOK' /\ AmendmentsDated'
    BY <2>1, ConstitutionKept DEF AdminInv
  <2>6. AdmissionTypeOK'
    BY <2>1, AdmissionKept
  <2>7. /\ proposals' \in Seq(GovProposal) /\ proposalTtl' \in Nat \ {0}
        /\ treasury' \in Nat \cup {AnAddress} /\ insuranceFund' \in Nat
    <3>1. CASE UNCHANGED govVars
      BY <2>1, <3>1 DEF govVars, GovTypeOK
    <3> QED BY <2>1, <3>1, GovTouched, OwnTyped
  <2>8. DatesHonest'
    BY <1>1, <2>1, DatesKept DEF AdminInv
  <2>9. SignaturesSound'
    BY <1>1, <2>1, <2>2, SignaturesKept DEF AdminInv
  <2>10. CountersSound'
    BY <1>1, <2>1, <2>2, <2>3, <2>6, CountersKept DEF AdminInv
  <2> QED BY <2>2, <2>3, <2>4, <2>5, <2>6, <2>7, <2>8, <2>9, <2>10 DEF AdminInv, GovTypeOK
<1>2. CASE UNCHANGED vars
  <2>1. /\ UNCHANGED baseVars /\ UNCHANGED configVars /\ UNCHANGED rotationVars
        /\ UNCHANGED constitutionVars /\ UNCHANGED govVars /\ UNCHANGED admissionVars
        /\ UNCHANGED historyVars
    BY <1>2 DEF vars, allGovVars
  <2>2. GovTypeOK' /\ AdmissionTypeOK'
    BY <2>1 DEF AdminInv, GovTypeOK, BaseTypeOK, ConfigTypeOK, RotationTypeOK,
       ConstitutionTypeOK, AdmissionTypeOK, baseVars, configVars, rotationVars,
       constitutionVars, govVars, admissionVars, accessVars, faucetVars
  <2>3. SettingsSound' /\ DatesHonest' /\ SignaturesSound' /\ AmendmentsDated'
    <3>1. SettingsSound'
      BY <2>1 DEF AdminInv, SettingsSound, configVars
    <3>2. DatesHonest'
      BY <2>1 DEF AdminInv, DatesHonest, configVars, rotationVars, historyVars
    <3>3. SignaturesSound'
      BY <2>1 DEF AdminInv, SignaturesSound, baseVars, govVars, historyVars
    <3>4. AmendmentsDated'
      BY <2>1 DEF AdminInv, AmendmentsDated, constitutionVars
    <3> QED BY <3>1, <3>2, <3>3, <3>4
  <2>4. CountersSound'
    <3>1. /\ config' = config /\ minted' = minted /\ ledger' = ledger
          /\ ledgerMints' = ledgerMints /\ epochKey' = epochKey /\ consumedKey' = consumedKey
      BY <2>1 DEF baseVars, configVars, historyVars, admissionVars, faucetVars
    <3>2. MintsInLedger' = MintsInLedger /\ Consumed' = Consumed
      BY <3>1 DEF MintsInLedger, Consumed, ValueOf, IsLive, CurrentEpoch
    <3> QED BY <3>1, <3>2 DEF AdminInv, CountersSound
  <2> QED BY <2>2, <2>3, <2>4 DEF AdminInv
<1> QED BY <1>1, <1>2

(* The contract as it is initialised satisfies the invariant. *)
LEMMA InitAdminInv == Init => AdminInv
<1> SUFFICES ASSUME Init
             PROVE  AdminInv
  OBVIOUS
<1>1. BaseTypeOK
  BY AccountsAssumption, QuotasAssumption DEF Init, BaseInit, BaseTypeOK, RuntimeModes
<1>2. ConfigTypeOK
  <2>1. \A k \in TimelockedKinds : DefaultConfig[k] \in ValidPayloads[k]
    <3> DEFINE Fits(k) == DefaultConfig[k] \in ValidPayloads[k]
    <3>1. Fits("Windows")
      BY SMT DEF DefaultConfig, ValidPayloads
    <3>2. Fits("MaxStake")
      BY SMT DEF DefaultConfig, ValidPayloads, ValidCap, Optional
    <3>3. Fits("MinBet")
      BY SMT DEF DefaultConfig, ValidPayloads, ValidCap, Optional
    <3>4. Fits("MaxUserRoundExposure")
      BY SMT DEF DefaultConfig, ValidPayloads, ValidCap, Optional
    <3>5. Fits("MaxPendingWinnings")
      BY SMT DEF DefaultConfig, ValidPayloads, ValidCap, Optional
    <3>6. Fits("OracleStaleThreshold")
      BY SMT DEF DefaultConfig, ValidPayloads
    <3>7. Fits("OracleMaxDeviationBps")
      BY SMT DEF DefaultConfig, ValidPayloads, Optional
    <3>8. Fits("OracleTimestampSkew")
      BY SMT DEF DefaultConfig, ValidPayloads
    <3>9. Fits("ProtocolFeeBps")
      BY SMT DEF DefaultConfig, ValidPayloads, Optional
    <3>10. Fits("PendingWinningsExpiry")
      BY SMT DEF DefaultConfig, ValidPayloads, ValidExpiry
    <3> HIDE DEF Fits
    <3>11. \A k \in TimelockedKinds : Fits(k)
      BY <3>1, <3>2, <3>3, <3>4, <3>5, <3>6, <3>7, <3>8, <3>9, <3>10, KindsListed
    <3> QED BY <3>11 DEF Fits
  <2>2. DOMAIN config = Kinds /\ DOMAIN pendingConfig = TimelockedKinds
    BY DEF Init, ConfigInit, Kinds
  <2> QED BY <2>1, <2>2 DEF Init, ConfigInit, ConfigTypeOK
<1>3. RotationTypeOK
  BY OracleAssumption DEF Init, RotationInit, RotationTypeOK
<1>4. ConstitutionTypeOK /\ AmendmentsDated
  BY DEF Init, ConstitutionInit, ConstitutionTypeOK, AmendmentsDated
<1>5. /\ proposals \in Seq(GovProposal) /\ proposalTtl \in Nat \ {0}
      /\ treasury \in Nat \cup {AnAddress} /\ insuranceFund \in Nat
  BY GovNumbersAssumption DEF Init, GovInit
<1>6. AdmissionTypeOK
  BY DEF Init, AdmissionInit, AdmissionTypeOK
<1>7. SettingsSound
  BY DEF Init, ConfigInit, SettingsSound, DefaultConfig
<1>8. DatesHonest
  BY DEF Init, ConfigInit, RotationInit, DatesHonest
<1>9. SignaturesSound
  BY AccountsAssumption DEF Init, BaseInit, GovInit, SignaturesSound
<1>10. CountersSound
  BY DEF Init, ConfigInit, DefaultConfig, CountersSound
<1> QED BY <1>1, <1>2, <1>3, <1>4, <1>5, <1>6, <1>7, <1>8, <1>9, <1>10 DEF AdminInv, GovTypeOK

(* The invariant holds throughout. *)
LEMMA AdminInvariant == Spec => []AdminInv
BY InitAdminInv, NextAdminInv, PTL DEF Spec

(* No order of mints, ledgers, epochs, lapsed counters and changed bounds  *)
(* takes the faucet above its per-ledger limit or its epoch budget         *)
(* (mint_initial).                                                         *)
THEOREM FaucetNeverOverruns == Spec => []FaucetBounded
<1>1. AdminInv => FaucetBounded
  BY DEF AdminInv, CountersSound, FaucetBounded, FaucetWithinLimit, FaucetWithinBudget
<1> QED BY <1>1, AdminInvariant, PTL

-----------------------------------------------------------------------------
(* What steps may do.  A step that stutters obeys each rule trivially; the *)
(* lemmas below are about the steps that do something.                     *)

(* Executing a proposal: it was approved and alive, and carries two        *)
(* different signatures, each of an account that held a seat.              *)
LEMMA ExecutionSigned ==
  ASSUME AdminInv, NEW u \in Accounts, NEW i \in DOMAIN proposals, execute(u, i)
  PROVE  /\ proposals[i].status = "Approved" /\ proposals'[i].status = "Executed"
         /\ proposals[i].proposer # proposals[i].approver
         /\ {proposals[i].proposer, proposals[i].approver} \subseteq seated
         /\ proposals[i].action \in GovActions /\ Effect(proposals[i].action)
<1>1. GovTypeOK /\ SignaturesSound
  BY DEF AdminInv
<1>2. proposals[i].status = "Approved" /\ Effect(proposals[i].action)
  BY DEF execute
<1>3. proposals'[i].status = "Executed"
  <2>1. \/ approve(u, i)
        \/ cancel(u, i)
        \/ Restamped(proposals, proposals', i, proposals[i].approver, "Executed")
    BY <1>1, ProposalSteps
  <2>2. ~approve(u, i) /\ ~cancel(u, i)
    <3>1. ~approve(u, i)
      BY <1>2 DEF approve
    <3>2. proposals[i] \in GovProposal
      BY <1>1 DEF GovTypeOK
    <3>3. cancel(u, i) => FALSE
      BY <1>1, <3>2 DEF cancel, execute, GovTypeOK, GovProposal
    <3> QED BY <3>1, <3>3
  <2> QED BY <2>1, <2>2 DEF Restamped
<1>4. proposals[i] \in GovProposal
  BY <1>1 DEF GovTypeOK
<1> QED BY <1>1, <1>2, <1>3, <1>4 DEF SignaturesSound, GovProposal

(* A step that changes a timelocked setting gave notice. *)
LEMMA ConfigStepNotice ==
  ASSUME AdminInv, Next
  PROVE  GivesConfigNotice
<1>0. /\ Calls /\ GovTypeOK /\ DatesHonest /\ ConfigTypeOK /\ ledger \in Nat
  BY DEF Next, AdminInv, GovTypeOK, BaseTypeOK
<1> SUFFICES ASSUME NEW k \in TimelockedKinds, config'[k] # config[k]
             PROVE  \/ /\ pendingConfig[k] # None
                       /\ pendingConfig[k].payload = config'[k]
                       /\ ledger - shownSince[k] >= CONFIG_TIMELOCK_LEDGERS
                    \/ /\ k = "ProtocolFeeBps"
                       /\ Executes("SetProtocolFeeBps", LAMBDA a : a.bps = config'[k])
  BY DEF GivesConfigNotice
<1>1. ASSUME NEW j \in TimelockedKinds, apply_scheduled_changes(j)
      PROVE  /\ pendingConfig[k] # None
             /\ pendingConfig[k].payload = config'[k]
             /\ ledger - shownSince[k] >= CONFIG_TIMELOCK_LEDGERS
  <2>1. j = k /\ config'[k] = pendingConfig[k].payload
    BY <1>0, <1>1 DEF apply_scheduled_changes, ApplyPayload, ConfigTypeOK
  <2>2. /\ pendingConfig[k] # None
        /\ pendingConfig[k].activation_ledger = shownSince[k] + CONFIG_TIMELOCK_LEDGERS
        /\ ledger >= pendingConfig[k].activation_ledger
    BY <1>0, <1>1, <2>1 DEF apply_scheduled_changes, DatesHonest
  <2>3. shownSince[k] \in Nat
    BY <1>0 DEF DatesHonest
  <2>4. ledger >= shownSince[k] + CONFIG_TIMELOCK_LEDGERS
    BY <2>2
  <2>5. ledger - shownSince[k] >= CONFIG_TIMELOCK_LEDGERS
    BY <1>0, <2>3, <2>4, TimelockAssumption
  <2> QED BY <2>1, <2>2, <2>5
<1>2. ASSUME NEW u \in Accounts, NEW i \in DOMAIN proposals, execute(u, i)
      PROVE  /\ k = "ProtocolFeeBps"
             /\ Executes("SetProtocolFeeBps", LAMBDA a : a.bps = config'[k])
  <2> DEFINE a == proposals[i].action
  <2>1. /\ proposals[i].status = "Approved" /\ proposals'[i].status = "Executed"
        /\ proposals[i].proposer # proposals[i].approver
        /\ {proposals[i].proposer, proposals[i].approver} \subseteq seated
        /\ Effect(a)
    BY <1>2, ExecutionSigned
  <2>2. ASSUME NEW j \in {"InsuranceSplitBps", "InsuranceCoverageBps"}, NEW limit,
               SetInsurance(j, a.bps, limit)
        PROVE  FALSE
    BY <1>0, <2>2, KindsListed DEF SetInsurance, ConfigTypeOK
  <2>3. /\ ~SetInsurance("InsuranceSplitBps", a.bps, 5000)
        /\ ~SetInsurance("InsuranceCoverageBps", a.bps, 10000)
    BY <2>2
  <2>4. a.type = "SetProtocolFeeBps" /\ SetFee(a.bps)
    BY <2>1, <2>3 DEF Effect, SetMode, KeepsPolicy, SetTreasuryAddress
  <2>5. k = "ProtocolFeeBps" /\ a.bps = config'[k]
    BY <1>0, <2>4, KindsListed DEF SetFee, ApplyPayload, ConfigTypeOK
  <2> QED BY <2>1, <2>4, <2>5 DEF Executes
<1>3. ASSUME NEW j, NEW v, Schedule(j, v)
      PROVE  FALSE
  BY <1>3 DEF Schedule
<1>4. ASSUME NEW j \in Kinds \ TimelockedKinds, NEW v, SetNow(j, v)
      PROVE  FALSE
  BY <1>0, <1>4 DEF SetNow, ConfigTypeOK
<1>5. ASSUME NEW j, cancel_config_change(j)
      PROVE  FALSE
  BY <1>5 DEF cancel_config_change
<1>6. CASE ConfigNext
  BY <1>1, <1>3, <1>4, <1>5, <1>6, ConfigSteps
<1>7. CASE \E u \in Accounts, i \in DOMAIN proposals : execute(u, i)
  BY <1>2, <1>7
<1>8. ~UNCHANGED configVars
  BY DEF configVars
<1> QED BY <1>0, <1>6, <1>7, <1>8, ConfigTouched

(* A timelocked setting changes only to what has been on display for the   *)
(* whole delay, or by a fee proposal that two seats signed, whatever was   *)
(* scheduled, cancelled, paused or executed meanwhile                      *)
(* (_schedule_config_change, apply_scheduled_changes, execute).            *)
THEOREM SettingsGiveNotice == Spec => ConfigNotice
<1>1. ASSUME AdminInv, [Next]_vars
      PROVE  [GivesConfigNotice]_vars
  BY <1>1, ConfigStepNotice
<1> QED BY <1>1, AdminInvariant, PTL DEF ConfigNotice, Spec

(* A step that takes a due change off the list makes it effective. *)
LEMMA DueStep ==
  ASSUME AdminInv, Next
  PROVE  BindsDueChange
<1>0. /\ Calls /\ DatesHonest /\ ConfigTypeOK /\ ledger \in Nat
  BY DEF Next, AdminInv, GovTypeOK, BaseTypeOK
<1> SUFFICES ASSUME NEW k \in TimelockedKinds, pendingConfig[k] # None,
                    pendingConfig'[k] # pendingConfig[k],
                    ledger >= pendingConfig[k].scheduled_at_ledger + CONFIG_TIMELOCK_LEDGERS
             PROVE  pendingConfig'[k] = None /\ config'[k] = pendingConfig[k].payload
  BY DEF BindsDueChange
<1>1. /\ pendingConfig[k].activation_ledger =
           pendingConfig[k].scheduled_at_ledger + CONFIG_TIMELOCK_LEDGERS
      /\ ledger >= pendingConfig[k].activation_ledger
  BY <1>0 DEF DatesHonest
<1>2. pendingConfig[k].activation_ledger \in Nat
  BY <1>0 DEF ConfigTypeOK, PendingConfigChange
<1>3. ASSUME NEW j \in TimelockedKinds, NEW v, Schedule(j, v)
      PROVE  FALSE
  BY <1>0, <1>3 DEF Schedule, ConfigTypeOK
<1>4. ASSUME NEW j, NEW v, SetNow(j, v)
      PROVE  FALSE
  BY <1>4 DEF SetNow
<1>5. ASSUME NEW j \in TimelockedKinds, apply_scheduled_changes(j)
      PROVE  pendingConfig'[k] = None /\ config'[k] = pendingConfig[k].payload
  <2>1. j = k
    BY <1>0, <1>5 DEF apply_scheduled_changes, ConfigTypeOK
  <2> QED BY <1>0, <1>5, <2>1, KindsListed DEF apply_scheduled_changes, ApplyPayload, ConfigTypeOK
<1>6. ASSUME NEW j \in TimelockedKinds, cancel_config_change(j)
      PROVE  FALSE
  <2>1. j = k
    BY <1>0, <1>6 DEF cancel_config_change, ConfigTypeOK
  <2>2. ledger < pendingConfig[k].activation_ledger
    BY <1>6, <2>1 DEF cancel_config_change
  <2> QED BY <1>0, <1>1, <1>2, <2>2
<1>7. ASSUME NEW u, NEW i, execute(u, i)
      PROVE  FALSE
  BY <1>7 DEF execute
<1>8. CASE ConfigNext
  BY <1>3, <1>4, <1>5, <1>6, <1>8, ConfigSteps
<1> QED BY <1>0, <1>7, <1>8, ConfigTouched DEF configVars

(* Once a change is due nobody can withdraw or replace it: what happens to *)
(* it next is that it takes effect (cancel_config_change,                  *)
(* apply_scheduled_changes).                                               *)
THEOREM DueChangesTakeEffect == Spec => DueChangeBinds
<1>1. ASSUME AdminInv, [Next]_vars
      PROVE  [BindsDueChange]_vars
  BY <1>1, DueStep
<1> QED BY <1>1, AdminInvariant, PTL DEF DueChangeBinds, Spec

(* A step that replaces the oracle gave notice. *)
LEMMA OracleStepNotice ==
  ASSUME AdminInv, Next
  PROVE  GivesOracleNotice
<1>0. /\ Calls /\ DatesHonest /\ RotationTypeOK /\ ledger \in Nat
  BY DEF Next, AdminInv, GovTypeOK, BaseTypeOK
<1> SUFFICES ASSUME oracle' # oracle
             PROVE  \/ /\ rotation # None
                       /\ rotation.new_oracle = oracle'
                       /\ ledger - shownSince["Oracle"] >= MIN_ROTATION_DELAY_SECONDS
                    \/ Executes("SetOracle", LAMBDA a : a.account = oracle')
  BY DEF GivesOracleNotice
<1>1. CASE accept_oracle_rotation
  <2>1. /\ rotation # None /\ rotation.new_oracle = oracle'
        /\ ledger >= rotation.proposed_at + MIN_ROTATION_DELAY_SECONDS
    BY <1>1 DEF accept_oracle_rotation, Timestamp
  <2>2. rotation.proposed_at = shownSince["Oracle"] /\ shownSince["Oracle"] \in Nat
    BY <1>0, <2>1 DEF DatesHonest
  <2>3. ledger >= shownSince["Oracle"] + MIN_ROTATION_DELAY_SECONDS
    BY <2>1, <2>2
  <2>4. ledger - shownSince["Oracle"] >= MIN_ROTATION_DELAY_SECONDS
    BY <1>0, <2>2, <2>3, OracleAssumption
  <2> QED BY <2>1, <2>4
<1>2. ASSUME NEW u \in Accounts, NEW i \in DOMAIN proposals, execute(u, i)
      PROVE  Executes("SetOracle", LAMBDA a : a.account = oracle')
  <2> DEFINE a == proposals[i].action
  <2>1. /\ proposals[i].status = "Approved" /\ proposals'[i].status = "Executed"
        /\ proposals[i].proposer # proposals[i].approver
        /\ {proposals[i].proposer, proposals[i].approver} \subseteq seated
        /\ Effect(a)
    BY <1>2, ExecutionSigned
  <2>2. a.type = "SetOracle" /\ a.account = oracle'
    BY <2>1 DEF Effect, SetMode, SetFee, SetInsurance, KeepsPolicy, SetTreasuryAddress
  <2> QED BY <2>1, <2>2 DEF Executes
<1>3. CASE RotationNext
  BY <1>1, <1>3 DEF RotationNext, propose_oracle_rotation, cancel_oracle_rotation,
     get_oracle_rotation_proposal
<1> QED BY <1>0, <1>2, <1>3, RotationTouched DEF rotationVars

(* The oracle is replaced only by an account that was on display for the   *)
(* whole rotation delay, or by a proposal that two seats signed            *)
(* (propose_oracle_rotation, accept_oracle_rotation, execute).             *)
THEOREM OracleGivesNotice == Spec => OracleNotice
<1>1. ASSUME AdminInv, [Next]_vars
      PROVE  [GivesOracleNotice]_vars
  BY <1>1, OracleStepNotice
<1> QED BY <1>1, AdminInvariant, PTL DEF OracleNotice, Spec

(* A step that changes an amendment's status waited for its dates. *)
LEMMA AmendmentStepNotice ==
  ASSUME AdminInv, Next
  PROVE  GivesAmendmentNotice
<1>0. /\ Calls /\ AmendmentsDated /\ ConstitutionTypeOK
  BY DEF Next, AdminInv, GovTypeOK
<1> SUFFICES ASSUME NEW i \in DOMAIN amendments, amendments'[i].status # amendments[i].status
             PROVE  /\ amendments[i].status = "Pending"
                    /\ amendments'[i].status = "Activated" =>
                         ledger > amendments[i].created_at_ledger
                                    + constitution.veto_window_ledgers
                                    + constitution.timelock_ledgers
  BY DEF GivesAmendmentNotice
<1>1. ASSUME NEW j \in DOMAIN amendments, NEW status \in {"Vetoed", "Activated", "Expired"},
             SetAmendmentStatus(j, status)
      PROVE  j = i /\ amendments'[i].status = status
  BY <1>0, <1>1, AmendmentSteps
<1>2. ASSUME NEW u \in Accounts, NEW j \in DOMAIN amendments, veto_amendment(u, j)
      PROVE  amendments[i].status = "Pending" /\ amendments'[i].status = "Vetoed"
  BY <1>1, <1>2 DEF veto_amendment
<1>3. ASSUME NEW j \in DOMAIN amendments, get_amendment(j)
      PROVE  amendments[i].status = "Pending" /\ amendments'[i].status = "Expired"
  BY <1>1, <1>3 DEF get_amendment
<1>4. ASSUME NEW u \in Accounts, NEW j \in DOMAIN amendments, activate_amendment(u, j)
      PROVE  /\ amendments[i].status = "Pending"
             /\ ledger > amendments[i].created_at_ledger + constitution.veto_window_ledgers
                                                         + constitution.timelock_ledgers
  <2>1. j = i
    BY <1>1, <1>4 DEF activate_amendment
  <2>2. amendments[i].status = "Pending" /\ ledger > amendments[i].activation_deadline_ledger
    BY <1>4, <2>1 DEF activate_amendment
  <2> QED BY <1>0, <2>2 DEF AmendmentsDated
<1>5. ASSUME NEW u \in Accounts, propose_amendment(u)
      PROVE  FALSE
  <2>1. PICK m : amendments' = Append(amendments, m)
    BY <1>5 DEF propose_amendment
  <2> QED BY <1>0, <2>1 DEF ConstitutionTypeOK
<1>6. ASSUME NEW c, establish_constitution(c)
      PROVE  FALSE
  BY <1>6 DEF establish_constitution
<1>7. CASE ConstitutionNext
  BY <1>2, <1>3, <1>4, <1>5, <1>6, <1>7 DEF ConstitutionNext
<1> QED BY <1>0, <1>7, ConstitutionTouched DEF constitutionVars

(* No amendment is activated before its veto window and its timelock have  *)
(* passed in full, and its fate is decided once (propose_amendment,        *)
(* veto_amendment, activate_amendment, get_amendment).                     *)
THEOREM AmendmentsGiveNotice == Spec => AmendmentNotice
<1>1. ASSUME AdminInv, [Next]_vars
      PROVE  [GivesAmendmentNotice]_vars
  BY <1>1, AmendmentStepNotice
<1> QED BY <1>1, AdminInvariant, PTL DEF AmendmentNotice, Spec

(* A step keeps what was proposed, and what was decided about it. *)
LEMMA ProposalsStep ==
  ASSUME AdminInv, Next
  PROVE  KeepsProposals
<1>0. /\ Calls /\ GovTypeOK /\ proposals \in Seq(GovProposal) /\ ledger \in Nat
  BY DEF Next, AdminInv, GovTypeOK, BaseTypeOK
<1> DEFINE Kept(j) ==
      /\ j \in DOMAIN proposals'
      /\ proposals[j].status \in {"Executed", "Cancelled"} => proposals'[j] = proposals[j]
      /\ proposals'[j].action = proposals[j].action
      /\ proposals'[j].proposer = proposals[j].proposer
      /\ proposals'[j].status = "Executed" =>
           proposals[j].status = "Executed" \/ ledger <= proposals[j].expires_at_ledger
<1>1. ASSUME NEW j \in DOMAIN proposals, j \in DOMAIN proposals', proposals'[j] = proposals[j]
      PROVE  Kept(j)
  BY <1>1
<1>2. ASSUME NEW u \in Accounts, NEW a \in GovActions, NEW t \in ProposalTtls \cup {None},
             propose(u, a, t), NEW j \in DOMAIN proposals
      PROVE  Kept(j)
  <2>1. PICK p \in GovProposal : proposals' = Append(proposals, p)
    BY <1>0, <1>2, ProposeAppends
  <2>2. j \in DOMAIN proposals' /\ proposals'[j] = proposals[j]
    BY <1>0, <2>1
  <2> QED BY <1>1, <2>2
<1>3. ASSUME NEW u \in Accounts, NEW i \in DOMAIN proposals,
             approve(u, i) \/ execute(u, i) \/ cancel(u, i), NEW j \in DOMAIN proposals
      PROVE  Kept(j)
  <2>1. CASE approve(u, i) /\ Restamped(proposals, proposals', i, u, "Approved")
    BY <1>1, <2>1 DEF Restamped, approve
  <2>2. CASE execute(u, i)
             /\ Restamped(proposals, proposals', i, proposals[i].approver, "Executed")
    BY <1>1, <2>2 DEF Restamped, execute, Live
  <2>3. CASE cancel(u, i)
             /\ Restamped(proposals, proposals', i, proposals[i].approver, "Cancelled")
    BY <1>1, <2>3 DEF Restamped, cancel
  <2> HIDE DEF Kept
  <2> QED BY <1>0, <1>3, <2>1, <2>2, <2>3, ProposalSteps
<1> HIDE DEF Kept
<1>4. ASSUME UNCHANGED proposals
      PROVE  \A j \in DOMAIN proposals : Kept(j)
  BY <1>1, <1>4
<1>5. ASSUME OwnNext
      PROVE  \A j \in DOMAIN proposals : Kept(j)
  <2>1. \/ UNCHANGED proposals
        \/ \E u \in Accounts, a \in GovActions, t \in ProposalTtls \cup {None} : propose(u, a, t)
        \/ \E u \in Accounts, i \in DOMAIN proposals :
             approve(u, i) \/ execute(u, i) \/ cancel(u, i)
    BY <1>5 DEF OwnNext, set_gov_proposal_ttl, withdraw_protocol_fee,
       withdraw_insurance_fund, CollectProtocolFee, OnlyMoney
  <2> QED BY <1>2, <1>3, <1>4, <2>1
<1>6. \A j \in DOMAIN proposals : Kept(j)
  BY <1>0, <1>4, <1>5, GovTouched DEF govVars
<1> QED BY <1>6 DEF Kept, KeepsProposals

(* A proposal's content never changes, a decision about it is final, and   *)
(* it is executed no later than its expiry (propose, approve, execute,     *)
(* cancel of governance.rs).                                               *)
THEOREM ProposalsKeepTheirFate == Spec => ProposalsFinal
<1>1. ASSUME AdminInv, [Next]_vars
      PROVE  [KeepsProposals]_vars
  BY <1>1, ProposalsStep
<1> QED BY <1>1, AdminInvariant, PTL DEF ProposalsFinal, Spec

(* A step that moves the admin seat or takes money out of a pot, while     *)
(* there is an approver, carries two signatures.                           *)
LEMMA SignedStep ==
  ASSUME AdminInv, Next
  PROVE  SignedByTwo
<1>0. /\ Calls /\ GovTypeOK /\ SettingsSound
      /\ treasury \in Nat \cup {AnAddress} /\ insuranceFund \in Nat
  BY DEF Next, AdminInv, GovTypeOK
<1> SUFFICES ASSUME GovApproverSet
             PROVE  /\ admin' # admin => Executes("SetAdmin", LAMBDA a : a.account = admin')
                    /\ (treasury \in Nat /\ treasury' \in Nat /\ treasury' < treasury) =>
                         Executes("WithdrawProtocolFee", LAMBDA a : Pays(a, treasury, treasury'))
                    /\ insuranceFund' < insuranceFund =>
                         Executes("WithdrawInsuranceFund",
                                  LAMBDA a : Pays(a, insuranceFund, insuranceFund'))
  BY DEF SignedByTwo
<1> DEFINE Loss == \/ admin' # admin
                   \/ treasury \in Nat /\ treasury' \in Nat /\ treasury' < treasury
                   \/ insuranceFund' < insuranceFund
<1>1. CASE \E u \in Accounts, i \in DOMAIN proposals : execute(u, i)
  <2>1. PICK u \in Accounts, i \in DOMAIN proposals : execute(u, i)
    BY <1>1
  <2> DEFINE a == proposals[i].action
  <2>2. /\ proposals[i].status = "Approved" /\ proposals'[i].status = "Executed"
        /\ proposals[i].proposer # proposals[i].approver
        /\ {proposals[i].proposer, proposals[i].approver} \subseteq seated
        /\ a \in GovActions /\ Effect(a)
    BY <2>1, ExecutionSigned
  <2>3. ASSUME admin' # admin
        PROVE  Executes("SetAdmin", LAMBDA b : b.account = admin')
    <3>1. a.type = "SetAdmin" /\ a.account = admin'
      BY <2>2, <2>3 DEF Effect, SetMode, SetFee, SetInsurance, KeepsPolicy, SetTreasuryAddress
    <3> QED BY <2>2, <3>1 DEF Executes
  <2>4. ASSUME treasury \in Nat, treasury' \in Nat, treasury' < treasury
        PROVE  Executes("WithdrawProtocolFee", LAMBDA b : Pays(b, treasury, treasury'))
    <3>1. treasury' # treasury
      BY <2>4
    <3>2. treasury' # AnAddress
      BY <2>4, GovNumbersAssumption
    <3>3. a.type = "WithdrawProtocolFee" /\ WithdrawFee(a.recipient, a.amount)
      BY <2>2, <3>1, <3>2 DEF Effect, SetMode, SetFee, SetInsurance, KeepsMoney, WithdrawFund,
         SetTreasuryAddress
    <3>4. a.amount \in Int
      BY <2>2, <3>3, GovActionsAssumption
    <3>5. a.amount = treasury - treasury'
      BY <2>4, <3>3, <3>4 DEF WithdrawFee
    <3>6. Pays(a, treasury, treasury')
      BY <3>3, <3>5 DEF WithdrawFee, Credit, Pays
    <3> QED BY <2>2, <3>3, <3>6 DEF Executes
  <2>5. ASSUME insuranceFund' < insuranceFund
        PROVE  Executes("WithdrawInsuranceFund",
                        LAMBDA b : Pays(b, insuranceFund, insuranceFund'))
    <3>0. insuranceFund' \in Nat
      <4>1. OwnNext
        BY <2>1 DEF OwnNext
      <4> QED BY <1>0, <4>1, OwnTyped
    <3>1. insuranceFund' # insuranceFund
      BY <1>0, <2>5, <3>0
    <3>3. a.type = "WithdrawInsuranceFund" /\ WithdrawFund(a.recipient, a.amount)
      BY <2>2, <3>1 DEF Effect, SetMode, SetFee, SetInsurance, KeepsMoney, WithdrawFee,
         SetTreasuryAddress
    <3>4. a.amount \in Int
      BY <2>2, <3>3, GovActionsAssumption
    <3>5. a.amount = insuranceFund - insuranceFund'
      BY <1>0, <3>3, <3>4 DEF WithdrawFund
    <3>6. Pays(a, insuranceFund, insuranceFund')
      BY <3>3, <3>5 DEF WithdrawFund, Credit, Pays
    <3> QED BY <2>2, <3>3, <3>6 DEF Executes
  <2> QED BY <2>3, <2>4, <2>5
<1>2. ASSUME OnlyProposals
      PROVE  ~Loss
  BY <1>0, <1>2 DEF OnlyProposals, seats
<1>3. ASSUME NEW n \in Amounts, CollectProtocolFee(n)
      PROVE  ~Loss
  <2> DEFINE bps == config.InsuranceSplitBps
             share == FundShare(n, bps)
  <2>1. /\ insuranceFund' = insuranceFund + share /\ treasury' = treasury + (n - share)
        /\ treasury # AnAddress /\ admin' = admin
    BY <1>3 DEF CollectProtocolFee, FundShare, OnlyMoney, seats
  <2>2. bps \in 0 .. 5000 /\ n \in Nat
    BY <1>0, GovNumbersAssumption DEF SettingsSound
  <2> HIDE DEF bps
  <2>3. share \in Nat /\ share <= n
    <3>1. bps \in Nat /\ bps <= 5000
      BY <2>2
    <3> QED BY <2>2, <3>1, SharePart
  <2> HIDE DEF share
  <2> QED BY <1>0, <2>1, <2>2, <2>3
<1>4. ASSUME NEW u, NEW n, withdraw_protocol_fee(u, n) \/ withdraw_insurance_fund(u, n)
      PROVE  FALSE
  BY <1>4 DEF withdraw_protocol_fee, withdraw_insurance_fund
<1>5. CASE OwnNext /\ ~\E u \in Accounts, i \in DOMAIN proposals : execute(u, i)
  <2>1. OnlyProposals \/ \E n \in Amounts : CollectProtocolFee(n)
    BY <1>4, <1>5 DEF OwnNext, set_gov_proposal_ttl, propose, approve, cancel
  <2>2. ~Loss
    BY <1>2, <1>3, <2>1
  <2> QED BY <2>2
<1>6. CASE ~OwnNext
  <2>1. UNCHANGED govVars
    BY <1>0, <1>6, GovTouched
  <2>2. ~(treasury' < treasury /\ treasury \in Nat) /\ ~(insuranceFund' < insuranceFund)
    BY <1>0, <2>1 DEF govVars
  <2>3. admin' = admin
    <3>1. CASE BaseNext
      BY <3>1 DEF BaseNext, Tick, set_gov_approver, pause_contract, unpause_contract,
         set_runtime_mode, seats
    <3>2. CASE ConfigNext
      BY <3>2, ConfigFrame DEF seats
    <3>3. CASE RotationNext
      BY <3>3 DEF RotationNext, propose_oracle_rotation, accept_oracle_rotation,
         cancel_oracle_rotation, get_oracle_rotation_proposal, baseVars, seats
    <3>4. CASE ConstitutionNext
      BY <3>4 DEF ConstitutionNext, establish_constitution, propose_amendment, veto_amendment,
         activate_amendment, get_amendment, SetAmendmentStatus, baseVars, seats
    <3>5. CASE AdmissionNext
      BY <3>5 DEF AdmissionNext, set_access_control_enabled, add_allowlisted,
         remove_allowlisted, add_denylisted, remove_denylisted, ChangeLists, mint_initial, seats
    <3>6. CASE BoardNext
      BY <3>6 DEF BoardNext, UpdateStatsWin, UpdateStatsLoss, RecordResult,
         reset_leaderboard_season, seats
    <3> QED BY <1>0, <1>6, <3>1, <3>2, <3>3, <3>4, <3>5, <3>6 DEF Calls, GovNext
  <2> QED BY <2>2, <2>3
<1> QED BY <1>1, <1>5, <1>6

(* While there is an approver, no single account can move the admin key or *)
(* take money from the treasury or the fund: each such step executes a     *)
(* proposal for exactly that, with two different signatures of accounts    *)
(* that held a seat (governance::execute, withdraw_protocol_fee,           *)
(* withdraw_insurance_fund).                                               *)
THEOREM TwoMustSign == Spec => DualControl
<1>1. ASSUME AdminInv, [Next]_vars
      PROVE  [SignedByTwo]_vars
  BY <1>1, SignedStep
<1> QED BY <1>1, AdminInvariant, PTL DEF DualControl, Spec

-----------------------------------------------------------------------------
(* Leaderboards: a list is kept by moving one user at a time and cutting,  *)
(* and is exactly the best users all the same, because no score falls.     *)

(* The statistics of a season, or of a lifetime.                           *)
Stats == [Accounts -> UserStats \cup {None}]

(* None of the records of statistics is None.                              *)
LEMMA ScoresAreNumbers ==
  ASSUME NEW stats \in Stats, NEW m \in Metrics, NEW u \in Accounts
  PROVE  StatsOf(stats, u) \in UserStats /\ StatsOf(stats, u)[m] \in Nat
<1>1. StatsOf(stats, u) \in UserStats
  BY DEF StatsOf, Stats, NoStats, UserStats
<1>2. \A s \in UserStats : s[m] \in Nat
  BY DEF UserStats, Metrics
<1> QED BY <1>1, <1>2

(* Outranking is a strict total order of the accounts.                     *)
LEMMA OutrankingOrders ==
  ASSUME NEW stats \in Stats, NEW m \in Metrics
  PROVE  /\ \A u \in Accounts : ~ Outranks(stats, m, u, u)
         /\ \A u, v \in Accounts : Outranks(stats, m, u, v) => ~ Outranks(stats, m, v, u)
         /\ \A u, v \in Accounts : u = v \/ Outranks(stats, m, u, v) \/ Outranks(stats, m, v, u)
         /\ \A u, v, w \in Accounts :
              Outranks(stats, m, u, v) /\ Outranks(stats, m, v, w) => Outranks(stats, m, u, w)
<1> DEFINE Score(u) == StatsOf(stats, u)[m]
<1>1. \A u \in Accounts : Score(u) \in Nat /\ u \in Nat
  BY ScoresAreNumbers, AccountsAssumption
<1>2. \A u, v : Outranks(stats, m, u, v)
                  <=> Score(u) > Score(v) \/ (Score(u) = Score(v) /\ u < v)
  BY DEF Outranks
<1> HIDE DEF Score
<1> QED BY <1>1, <1>2

(* A list in the order of a ranking.                                       *)
Ranked(stats, m, list) ==
  \A i, j \in 1 .. Len(list) : i < j => Outranks(stats, m, list[i], list[j])

(* The users of a list.                                                    *)
Members(list) == {list[i] : i \in 1 .. Len(list)}

(* Nobody twice.                                                           *)
Distinct(list) == \A i, j \in 1 .. Len(list) : list[i] = list[j] => i = j

(* A ranked list has nobody twice.                                         *)
LEMMA RankedDistinct ==
  ASSUME NEW stats \in Stats, NEW m \in Metrics, NEW list \in Seq(Accounts),
         Ranked(stats, m, list)
  PROVE  Distinct(list)
<1> SUFFICES ASSUME NEW i \in 1 .. Len(list), NEW j \in 1 .. Len(list),
                    list[i] = list[j], i # j
             PROVE  FALSE
  BY DEF Distinct
<1>1. list[i] \in Accounts /\ ~ Outranks(stats, m, list[i], list[i])
  BY OutrankingOrders, ElementOfSeq
<1>2. Len(list) \in Nat
  BY LenProperties
<1>3. i < j \/ j < i
  BY <1>2
<1> QED BY <1>1, <1>3 DEF Ranked

(* The body of the insertion sort.                                         *)
InsertRanked(stats, m, sorted, u) ==
  LET i == SelectInSeq(sorted, LAMBDA v : Outranks(stats, m, u, v))
  IN  IF i = 0 THEN Append(sorted, u) ELSE InsertAt(sorted, i, u)

(* Where it puts the user: in front of the first one it outranks.          *)
RankPosition(stats, m, sorted, u) ==
  LET below == {i \in 1 .. Len(sorted) : Outranks(stats, m, u, sorted[i])}
  IN  IF below # {} THEN Min(below) ELSE Len(sorted) + 1

(* The insertion, element by element.                                      *)
LEMMA InsertRankedAt ==
  ASSUME NEW stats, NEW m, NEW sorted \in Seq(Accounts), NEW u \in Accounts
  PROVE  LET pos == RankPosition(stats, m, sorted, u)
             r   == InsertRanked(stats, m, sorted, u)
         IN  /\ pos \in 1 .. Len(sorted) + 1
             /\ r \in Seq(Accounts)
             /\ Inserted(sorted, pos, u, r)
             /\ \A i \in 1 .. Len(sorted) : i < pos => ~ Outranks(stats, m, u, sorted[i])
             /\ pos <= Len(sorted) => Outranks(stats, m, u, sorted[pos])
<1> DEFINE below == {i \in 1 .. Len(sorted) : Outranks(stats, m, u, sorted[i])}
           pos == RankPosition(stats, m, sorted, u)
           r   == InsertRanked(stats, m, sorted, u)
<1>1. Len(sorted) \in Nat
  BY LenProperties
<1>2. CASE below = {}
  <2>1. pos = Len(sorted) + 1
    BY <1>2, Zenon DEF RankPosition
  <2>2. r = Append(sorted, u)
    BY <1>2, Zenon DEF InsertRanked, SelectInSeq
  <2>3. /\ r \in Seq(Accounts) /\ Len(r) = Len(sorted) + 1
        /\ \A i \in 1 .. Len(sorted) : r[i] = sorted[i]
        /\ r[Len(sorted) + 1] = u
    BY <2>2, AppendProperties
  <2>4. \A i \in 1 .. Len(sorted) : i < pos => ~ Outranks(stats, m, u, sorted[i])
    BY <1>2
  <2> HIDE DEF below, pos, r
  <2>5. Inserted(sorted, pos, u, r)
    BY <1>1, <2>1, <2>3 DEF Inserted
  <2>6. pos \in 1 .. Len(sorted) + 1 /\ ~ (pos <= Len(sorted))
    BY <1>1, <2>1
  <2> QED BY <2>3, <2>4, <2>5, <2>6 DEF pos, r
<1>3. CASE below # {}
  <2>1. pos = Min(below)
    BY <1>3, Zenon DEF RankPosition
  <2>2. below \subseteq Nat /\ below \subseteq 1 .. Len(sorted)
    OBVIOUS
  <2>3. Min(below) \in below /\ \A y \in below : Min(below) <= y
    <3> HIDE DEF below
    <3> QED BY <1>3, <2>2, MinIsLeast
  <2>4. pos \in 1 .. Len(sorted) /\ Outranks(stats, m, u, sorted[pos]) /\ pos # 0
    <3>1. pos \in below
      BY <2>1, <2>3, Zenon
    <3>2. \A x \in below : x \in 1 .. Len(sorted) /\ Outranks(stats, m, u, sorted[x]) /\ x # 0
      OBVIOUS
    <3> HIDE DEF pos, below
    <3> QED BY <3>1, <3>2, Zenon
  <2>5. r = InsertAt(sorted, pos, u)
    <3>1. r = IF Min(below) = 0 THEN Append(sorted, u) ELSE InsertAt(sorted, Min(below), u)
      BY <1>3, Zenon DEF InsertRanked, SelectInSeq
    <3> HIDE DEF r, below, pos
    <3> QED BY <2>1, <2>4, <3>1
  <2>6. \A i \in 1 .. Len(sorted) : i < pos => ~ Outranks(stats, m, u, sorted[i])
    <3> SUFFICES ASSUME NEW i \in 1 .. Len(sorted), i < pos, Outranks(stats, m, u, sorted[i])
                 PROVE  FALSE
      OBVIOUS
    <3>1. i \in below
      OBVIOUS
    <3> HIDE DEF below, pos
    <3>2. pos <= i /\ pos \in Nat /\ i \in Nat
      BY <1>1, <2>1, <2>3, <2>4, <3>1
    <3> QED BY <3>2
  <2> HIDE DEF pos, r
  <2>7. pos \in 1 .. Len(sorted) + 1
    BY <1>1, <2>4
  <2>8. r \in Seq(Accounts) /\ Inserted(sorted, pos, u, r)
    BY <2>5, <2>7, InsertAtProperties
  <2> QED BY <2>4, <2>6, <2>7, <2>8 DEF pos, r
<1> QED BY <1>2, <1>3

(* Inserting a newcomer keeps a list ranked.                               *)
LEMMA InsertKeepsRanked ==
  ASSUME NEW stats \in Stats, NEW m \in Metrics, NEW sorted \in Seq(Accounts),
         Ranked(stats, m, sorted), NEW u \in Accounts, u \notin Members(sorted)
  PROVE  LET r == InsertRanked(stats, m, sorted, u)
         IN  /\ r \in Seq(Accounts) /\ Ranked(stats, m, r)
             /\ Members(r) = Members(sorted) \cup {u}
<1> DEFINE Above(x, y) == Outranks(stats, m, x, y)
           r   == InsertRanked(stats, m, sorted, u)
           pos == RankPosition(stats, m, sorted, u)
           n   == Len(sorted)
<1>1. /\ pos \in 1 .. n + 1 /\ r \in Seq(Accounts) /\ Inserted(sorted, pos, u, r)
      /\ \A i \in 1 .. n : i < pos => ~ Above(u, sorted[i])
      /\ pos <= n => Above(u, sorted[pos])
  BY InsertRankedAt
<1>2. n \in Nat /\ \A i \in 1 .. n : sorted[i] \in Accounts /\ sorted[i] # u
  BY LenProperties, ElementOfSeq DEF Members
<1> HIDE DEF r, pos
<1>3. /\ \A x, y \in Accounts : x = y \/ Above(x, y) \/ Above(y, x)
      /\ \A x, y, z \in Accounts : Above(x, y) /\ Above(y, z) => Above(x, z)
  BY OutrankingOrders
<1>4. \A i, j \in 1 .. n : i < j => Above(sorted[i], sorted[j])
  BY DEF Ranked
<1> HIDE DEF Above
<1>5. \A i \in 1 .. n : i < pos => Above(sorted[i], u)
  BY <1>1, <1>2, <1>3
<1>6. \A i \in 1 .. n : i >= pos => Above(u, sorted[i])
  <2> SUFFICES ASSUME NEW i \in 1 .. n, i >= pos PROVE Above(u, sorted[i])
    OBVIOUS
  <2>1. pos <= n /\ pos \in 1 .. n
    BY <1>1, <1>2
  <2>2. i = pos \/ Above(sorted[pos], sorted[i])
    BY <1>4, <2>1
  <2> QED BY <1>1, <1>2, <1>3, <2>1, <2>2
<1> HIDE DEF n
<1>7. /\ Len(r) = n + 1
      /\ \A j \in 1 .. n : j < pos => r[j] = sorted[j]
      /\ r[pos] = u
      /\ \A j \in 1 .. n : j >= pos => r[j + 1] = sorted[j]
  BY <1>1 DEF Inserted, n
<1>8. ASSUME NEW i \in 1 .. n + 1, NEW j \in 1 .. n + 1, i < j PROVE Above(r[i], r[j])
  <2>1. CASE j < pos
    <3>1. i \in 1 .. n /\ j \in 1 .. n /\ i < pos
      BY <1>1, <1>2, <1>8, <2>1
    <3> QED BY <1>4, <1>7, <1>8, <2>1, <3>1
  <2>2. CASE j = pos
    <3>1. i \in 1 .. n /\ i < pos
      BY <1>1, <1>2, <1>8, <2>2
    <3> QED BY <1>5, <1>7, <2>2, <3>1
  <2>3. CASE j > pos
    <3> DEFINE q == j - 1
    <3>1. q \in 1 .. n /\ q >= pos /\ r[j] = sorted[q]
      <4>1. q \in 1 .. n /\ q >= pos /\ q + 1 = j
        BY <1>1, <1>2, <2>3
      <4> HIDE DEF q
      <4> QED BY <1>7, <4>1
    <3>2. CASE i < pos
      <4>1. i \in 1 .. n /\ i < q
        BY <1>1, <1>2, <3>1, <3>2
      <4> QED BY <1>4, <1>7, <3>1, <3>2, <4>1
    <3>3. CASE i = pos
      BY <1>6, <1>7, <3>1, <3>3
    <3>4. CASE i > pos
      <4> DEFINE p == i - 1
      <4>1. p \in 1 .. n /\ p >= pos /\ p + 1 = i /\ p < q
        BY <1>1, <1>2, <1>8, <3>4
      <4> HIDE DEF p, q
      <4>2. r[i] = sorted[p]
        BY <1>7, <4>1
      <4> QED BY <1>4, <3>1, <4>1, <4>2
    <3> QED BY <1>1, <1>2, <3>2, <3>3, <3>4
  <2> QED BY <1>1, <1>2, <2>1, <2>2, <2>3
<1>9. Ranked(stats, m, r)
  BY <1>7, <1>8 DEF Ranked, Above
<1>10. Members(r) = Members(sorted) \cup {u}
  <2>1. ASSUME NEW x \in Members(r) PROVE x \in Members(sorted) \cup {u}
    <3>1. PICK i \in 1 .. n + 1 : x = r[i]
      BY <1>7, <2>1 DEF Members
    <3>2. CASE i < pos
      <4>1. i \in 1 .. n
        BY <1>1, <1>2, <3>2
      <4> QED BY <1>7, <3>1, <3>2, <4>1 DEF Members, n
    <3>3. CASE i = pos
      BY <1>7, <3>1, <3>3
    <3>4. CASE i > pos
      <4> DEFINE p == i - 1
      <4>1. p \in 1 .. n /\ p >= pos /\ p + 1 = i
        BY <1>1, <1>2, <3>4
      <4> HIDE DEF p
      <4> QED BY <1>7, <3>1, <4>1 DEF Members, n
    <3> QED BY <1>1, <1>2, <3>2, <3>3, <3>4
  <2>2. ASSUME NEW x \in Members(sorted) \cup {u} PROVE x \in Members(r)
    <3>1. CASE x = u
      BY <1>1, <1>7, <3>1 DEF Members, n
    <3>2. CASE x \in Members(sorted)
      <4>1. PICK i \in 1 .. n : x = sorted[i]
        BY <3>2 DEF Members, n
      <4>2. i \in 1 .. n + 1 /\ i + 1 \in 1 .. n + 1 /\ (i < pos \/ i >= pos)
        BY <1>1, <1>2
      <4>3. x = r[i] \/ x = r[i + 1]
        BY <1>7, <4>1, <4>2
      <4> QED BY <1>7, <4>2, <4>3 DEF Members
    <3> QED BY <2>2, <3>1, <3>2
  <2> QED BY <2>1, <2>2
<1> QED BY <1>1, <1>9, <1>10 DEF r

-----------------------------------------------------------------------------
(* The states of the insertion sort, for every set of indices.             *)
RankLoop(stats, m, list, g) ==
  g = [s \in SUBSET (DOMAIN list) |->
         IF s = {} THEN << >> ELSE InsertRanked(stats, m, g[s \ {Max(s)}], list[Max(s)])]

(* The insertion sort reads its result off such a table.                   *)
LEMMA ReinsertUnfolds ==
  ASSUME NEW stats, NEW m, NEW list
  PROVE  Reinsert(stats, m, list) = (CHOOSE g : RankLoop(stats, m, list, g))[DOMAIN list]
BY DEF Reinsert, FoldLeft, MapThenFoldSet, RankLoop, InsertRanked

(* The table exists.                                                       *)
LEMMA RankLoopExists ==
  ASSUME NEW stats, NEW m, NEW list \in Seq(Accounts)
  PROVE  \E g : RankLoop(stats, m, list, g)
<1> DEFINE B == Seq(Accounts)
           body == [t \in B \X Accounts |-> InsertRanked(stats, m, t[1], t[2])]
<1>1. body \in [B \X Accounts -> B]
  <2>1. \A q \in B, u \in Accounts : InsertRanked(stats, m, q, u) \in B
    BY InsertRankedAt
  <2> QED BY <2>1
<1>2. \A q \in B, u \in Accounts : body[<<q, u>>] = InsertRanked(stats, m, q, u)
  OBVIOUS
<1>3. << >> \in B
  OBVIOUS
<1> HIDE DEF body, B
<1>4. PICK g : IsLoop(list, << >>, body, g) /\ \A s \in SUBSET (DOMAIN list) : g[s] \in B
  BY <1>1, <1>3, LoopExists
<1>5. ASSUME NEW s \in SUBSET (DOMAIN list), s # {}
      PROVE  body[<<g[s \ {Max(s)}], list[Max(s)]>>]
               = InsertRanked(stats, m, g[s \ {Max(s)}], list[Max(s)])
  <2>1. DOMAIN list = 1 .. Len(list) /\ Len(list) \in Nat
    BY LenProperties
  <2>2. Max(s) \in s
    BY <1>5, <2>1, MaxIsGreatest
  <2>3. list[Max(s)] \in Accounts
    BY <2>1, <2>2, ElementOfSeq
  <2> QED BY <1>2, <1>4, <2>3
<1>6. RankLoop(stats, m, list, g)
  <2>1. g = [s \in SUBSET (DOMAIN list) |->
               IF s = {} THEN << >> ELSE body[<<g[s \ {Max(s)}], list[Max(s)]>>]]
    BY <1>4, Zenon DEF IsLoop
  <2>2. [s \in SUBSET (DOMAIN list) |->
               IF s = {} THEN << >> ELSE body[<<g[s \ {Max(s)}], list[Max(s)]>>]]
        = [s \in SUBSET (DOMAIN list) |->
         IF s = {} THEN << >> ELSE InsertRanked(stats, m, g[s \ {Max(s)}], list[Max(s)])]
    BY <1>5
  <2> QED BY <2>1, <2>2, Zenon DEF RankLoop
<1> QED BY <1>6

(* The users of the first k places of a list.                              *)
First(list, k) == {list[i] : i \in 1 .. k}

(* The first k + 1 are the first k and one more, somebody else.            *)
LEMMA FirstGrows ==
  ASSUME NEW list \in Seq(Accounts), NEW k \in Nat, k < Len(list)
  PROVE  /\ First(list, k + 1) = First(list, k) \cup {list[k + 1]}
         /\ list[k + 1] \in Accounts
         /\ First(list, 0) = {}
         /\ First(list, Len(list)) = Members(list)
         /\ Distinct(list) => list[k + 1] \notin First(list, k)
<1>1. Len(list) \in Nat /\ k + 1 \in 1 .. Len(list)
  BY LenProperties
<1>2. list[k + 1] \in Accounts
  BY <1>1, ElementOfSeq
<1>3. \A i : i \in 1 .. k + 1 <=> i \in 1 .. k \/ i = k + 1
  OBVIOUS
<1>4. First(list, k + 1) = First(list, k) \cup {list[k + 1]}
  BY <1>3 DEF First
<1>5. Distinct(list) => list[k + 1] \notin First(list, k)
  <2> SUFFICES ASSUME Distinct(list), NEW i \in 1 .. k, list[k + 1] = list[i]
               PROVE  FALSE
    BY DEF First
  <2>1. i \in 1 .. Len(list) /\ i # k + 1
    BY <1>1
  <2> QED BY <1>1, <2>1 DEF Distinct
<1> QED BY <1>2, <1>4, <1>5 DEF First, Members

(* The insertion sort ranks any list without repetitions.                  *)
LEMMA ReinsertRanks ==
  ASSUME NEW stats \in Stats, NEW m \in Metrics, NEW list \in Seq(Accounts), Distinct(list)
  PROVE  LET out == Reinsert(stats, m, list)
         IN  /\ out \in Seq(Accounts) /\ Ranked(stats, m, out)
             /\ Members(out) = Members(list)
<1> DEFINE g == CHOOSE h : RankLoop(stats, m, list, h)
           next == [s \in SUBSET (DOMAIN list) |->
                      InsertRanked(stats, m, g[s \ {Max(s)}], list[Max(s)])]
           n == Len(list)
           Sorts(k) == /\ g[1 .. k] \in Seq(Accounts) /\ Ranked(stats, m, g[1 .. k])
                       /\ Members(g[1 .. k]) = First(list, k)
           Good == {k \in 0 .. n : Sorts(k)}
<1>1. RankLoop(stats, m, list, g)
  BY RankLoopExists
<1>2. Reinsert(stats, m, list) = g[DOMAIN list]
  BY ReinsertUnfolds
<1> HIDE DEF g
<1>3. n \in Nat /\ DOMAIN list = 1 .. n
  BY LenProperties
<1>4. /\ g[1 .. 0] = << >>
      /\ \A k \in Nat : k + 1 <= n => g[1 .. k + 1] = next[1 .. k + 1]
  <2>1. StartsWith(list, << >>, next, g)
    BY <1>1 DEF RankLoop, StartsWith
  <2> HIDE DEF next
  <2> QED BY <2>1, LoopPrefixes
<1>5. ASSUME NEW k \in Nat, k < n
      PROVE  g[1 .. k + 1] = InsertRanked(stats, m, g[1 .. k], list[k + 1])
  <2> DEFINE s == 1 .. k + 1
  <2>1. s \in SUBSET (DOMAIN list) /\ k + 1 <= n
    BY <1>3, <1>5
  <2>2. next[s] = InsertRanked(stats, m, g[s \ {Max(s)}], list[Max(s)])
    BY <2>1
  <2>3. Max(s) = k + 1 /\ s \ {k + 1} = 1 .. k
    BY PrefixMax
  <2> HIDE DEF next, s
  <2>4. g[s] = next[s]
    BY <1>4, <2>1 DEF s
  <2> QED BY <2>2, <2>3, <2>4, Zenon DEF s
<1>6. Sorts(0)
  <2>1. << >> \in Seq(Accounts) /\ Ranked(stats, m, << >>) /\ Members(<< >>) = {}
    BY DEF Ranked, Members
  <2>2. First(list, 0) = {}
    BY DEF First
  <2> QED BY <1>4, <2>1, <2>2, Zenon
<1>7. ASSUME NEW k \in Nat, k < n, Sorts(k) PROVE Sorts(k + 1)
  <2> DEFINE q == g[1 .. k]
             u == list[k + 1]
  <2>1. u \in Accounts /\ u \notin First(list, k) /\ First(list, k + 1) = First(list, k) \cup {u}
    BY <1>7, FirstGrows
  <2>2. q \in Seq(Accounts) /\ Ranked(stats, m, q) /\ u \notin Members(q)
    BY <1>7, <2>1
  <2> HIDE DEF q, u
  <2>3. LET r == InsertRanked(stats, m, q, u)
        IN  r \in Seq(Accounts) /\ Ranked(stats, m, r) /\ Members(r) = Members(q) \cup {u}
    BY <2>1, <2>2, InsertKeepsRanked
  <2>4. g[1 .. k + 1] = InsertRanked(stats, m, q, u)
    BY <1>5, <1>7 DEF q, u
  <2>5. Members(q) = First(list, k)
    BY <1>7 DEF q
  <2> QED BY <2>1, <2>3, <2>4, <2>5, Zenon
<1> HIDE DEF Sorts
<1>8. \A k \in 0 .. n : k \in Good
  <2>1. 0 \in Good
    BY <1>3, <1>6
  <2>2. \A k \in Nat : k < n /\ k \in Good => k + 1 \in Good
    BY <1>3, <1>7
  <2> HIDE DEF Good
  <2> QED BY <1>3, <2>1, <2>2, UpTo
<1>9. Sorts(n)
  BY <1>3, <1>8
<1>10. First(list, n) = Members(list)
  BY DEF First, Members
<1> QED BY <1>2, <1>3, <1>9, <1>10 DEF Sorts

-----------------------------------------------------------------------------
(* The body of the loop that leaves a user out.                            *)
Leaving(filtered, u, user) == IF u # user THEN Append(filtered, u) ELSE filtered

(* Its states, for every set of indices.                                   *)
LeavingLoop(list, user, g) ==
  g = [s \in SUBSET (DOMAIN list) |->
         IF s = {} THEN << >> ELSE Leaving(g[s \ {Max(s)}], list[Max(s)], user)]

(* The list without a user is read off such a table.                       *)
LEMMA WithoutUnfolds ==
  ASSUME NEW list, NEW user
  PROVE  WithoutUser(list, user) = (CHOOSE g : LeavingLoop(list, user, g))[DOMAIN list]
BY DEF WithoutUser, FoldLeft, MapThenFoldSet, LeavingLoop, Leaving

(* The table exists.                                                       *)
LEMMA LeavingLoopExists ==
  ASSUME NEW list \in Seq(Accounts), NEW user
  PROVE  \E g : LeavingLoop(list, user, g)
<1> DEFINE B == Seq(Accounts)
           body == [t \in B \X Accounts |-> Leaving(t[1], t[2], user)]
<1>1. body \in [B \X Accounts -> B]
  <2>1. \A q \in B, u \in Accounts : Leaving(q, u, user) \in B
    BY DEF Leaving
  <2> QED BY <2>1
<1>2. \A q \in B, u \in Accounts : body[<<q, u>>] = Leaving(q, u, user)
  OBVIOUS
<1>3. << >> \in B
  OBVIOUS
<1> HIDE DEF body, B
<1>4. PICK g : IsLoop(list, << >>, body, g) /\ \A s \in SUBSET (DOMAIN list) : g[s] \in B
  BY <1>1, <1>3, LoopExists
<1>5. ASSUME NEW s \in SUBSET (DOMAIN list), s # {}
      PROVE  body[<<g[s \ {Max(s)}], list[Max(s)]>>] = Leaving(g[s \ {Max(s)}], list[Max(s)], user)
  <2>1. DOMAIN list = 1 .. Len(list) /\ Len(list) \in Nat
    BY LenProperties
  <2>2. Max(s) \in s
    BY <1>5, <2>1, MaxIsGreatest
  <2>3. list[Max(s)] \in Accounts
    BY <2>1, <2>2, ElementOfSeq
  <2> QED BY <1>2, <1>4, <2>3
<1>6. LeavingLoop(list, user, g)
  <2>1. g = [s \in SUBSET (DOMAIN list) |->
               IF s = {} THEN << >> ELSE body[<<g[s \ {Max(s)}], list[Max(s)]>>]]
    BY <1>4, Zenon DEF IsLoop
  <2>2. [s \in SUBSET (DOMAIN list) |->
               IF s = {} THEN << >> ELSE body[<<g[s \ {Max(s)}], list[Max(s)]>>]]
        = [s \in SUBSET (DOMAIN list) |->
             IF s = {} THEN << >> ELSE Leaving(g[s \ {Max(s)}], list[Max(s)], user)]
    BY <1>5
  <2> QED BY <2>1, <2>2, Zenon DEF LeavingLoop
<1> QED BY <1>6

(* Somebody new at the end of a list without repetitions.                  *)
LEMMA AppendDistinct ==
  ASSUME NEW q \in Seq(Accounts), Distinct(q), NEW u \in Accounts, u \notin Members(q)
  PROVE  /\ Append(q, u) \in Seq(Accounts) /\ Distinct(Append(q, u))
         /\ Members(Append(q, u)) = Members(q) \cup {u}
<1> DEFINE r == Append(q, u)
           n == Len(q)
<1>1. /\ r \in Seq(Accounts) /\ Len(r) = n + 1 /\ n \in Nat
      /\ \A i \in 1 .. n : r[i] = q[i]
      /\ r[n + 1] = u
  BY AppendProperties, LenProperties
<1> HIDE DEF r
<1>2. \A i \in 1 .. n : q[i] # u
  BY DEF Members
<1>3. Distinct(r)
  <2> SUFFICES ASSUME NEW i \in 1 .. n + 1, NEW j \in 1 .. n + 1, r[i] = r[j] PROVE i = j
    BY <1>1 DEF Distinct
  <2>1. (i \in 1 .. n \/ i = n + 1) /\ (j \in 1 .. n \/ j = n + 1)
    BY <1>1
  <2>2. \A x, y \in 1 .. n : q[x] = q[y] => x = y
    BY DEF Distinct
  <2> HIDE DEF n
  <2> QED BY <1>1, <1>2, <2>1, <2>2
<1>4. Members(r) = Members(q) \cup {u}
  <2>1. \A i : i \in 1 .. n + 1 <=> i \in 1 .. n \/ i = n + 1
    BY <1>1
  <2> QED BY <1>1, <2>1 DEF Members
<1> QED BY <1>1, <1>3, <1>4 DEF r

(* A list without a user is the list of the others.                        *)
LEMMA WithoutLeaves ==
  ASSUME NEW list \in Seq(Accounts), Distinct(list), NEW user \in Accounts
  PROVE  LET out == WithoutUser(list, user)
         IN  /\ out \in Seq(Accounts) /\ Distinct(out)
             /\ Members(out) = Members(list) \ {user}
<1> DEFINE g == CHOOSE h : LeavingLoop(list, user, h)
           next == [s \in SUBSET (DOMAIN list) |-> Leaving(g[s \ {Max(s)}], list[Max(s)], user)]
           n == Len(list)
           Leaves(k) == /\ g[1 .. k] \in Seq(Accounts) /\ Distinct(g[1 .. k])
                        /\ Members(g[1 .. k]) = First(list, k) \ {user}
           Good == {k \in 0 .. n : Leaves(k)}
<1>1. LeavingLoop(list, user, g)
  BY LeavingLoopExists
<1>2. WithoutUser(list, user) = g[DOMAIN list]
  BY WithoutUnfolds
<1> HIDE DEF g
<1>3. n \in Nat /\ DOMAIN list = 1 .. n
  BY LenProperties
<1>4. /\ g[1 .. 0] = << >>
      /\ \A k \in Nat : k + 1 <= n => g[1 .. k + 1] = next[1 .. k + 1]
  <2>1. StartsWith(list, << >>, next, g)
    BY <1>1 DEF LeavingLoop, StartsWith
  <2> HIDE DEF next
  <2> QED BY <2>1, LoopPrefixes
<1>5. ASSUME NEW k \in Nat, k < n
      PROVE  g[1 .. k + 1] = Leaving(g[1 .. k], list[k + 1], user)
  <2> DEFINE s == 1 .. k + 1
  <2>1. s \in SUBSET (DOMAIN list) /\ k + 1 <= n
    BY <1>3, <1>5
  <2>2. next[s] = Leaving(g[s \ {Max(s)}], list[Max(s)], user)
    BY <2>1
  <2>3. Max(s) = k + 1 /\ s \ {k + 1} = 1 .. k
    BY PrefixMax
  <2> HIDE DEF next, s
  <2>4. g[s] = next[s]
    BY <1>4, <2>1 DEF s
  <2> QED BY <2>2, <2>3, <2>4, Zenon DEF s
<1>6. Leaves(0)
  <2>1. << >> \in Seq(Accounts) /\ Distinct(<< >>) /\ Members(<< >>) = {}
    BY DEF Distinct, Members
  <2>2. First(list, 0) \ {user} = {}
    BY DEF First
  <2> QED BY <1>4, <2>1, <2>2, Zenon
<1>7. ASSUME NEW k \in Nat, k < n, Leaves(k) PROVE Leaves(k + 1)
  <2> DEFINE q == g[1 .. k]
             u == list[k + 1]
  <2>1. u \in Accounts /\ u \notin First(list, k) /\ First(list, k + 1) = First(list, k) \cup {u}
    BY <1>7, FirstGrows
  <2>2. q \in Seq(Accounts) /\ Distinct(q) /\ Members(q) = First(list, k) \ {user}
    BY <1>7
  <2>3. g[1 .. k + 1] = Leaving(q, u, user)
    BY <1>5, <1>7
  <2> HIDE DEF q, u
  <2>4. u \notin Members(q)
    BY <2>1, <2>2
  <2>5. /\ Leaving(q, u, user) \in Seq(Accounts) /\ Distinct(Leaving(q, u, user))
        /\ Members(Leaving(q, u, user)) = (First(list, k) \cup {u}) \ {user}
    <3>1. CASE u = user
      BY <2>2, <3>1, Zenon DEF Leaving
    <3>2. CASE u # user
      <4>1. Leaving(q, u, user) = Append(q, u)
        BY <3>2 DEF Leaving
      <4>2. /\ Append(q, u) \in Seq(Accounts) /\ Distinct(Append(q, u))
            /\ Members(Append(q, u)) = Members(q) \cup {u}
        BY <2>1, <2>2, <2>4, AppendDistinct
      <4>3. Members(q) \cup {u} = (First(list, k) \cup {u}) \ {user}
        BY <2>2, <3>2
      <4> QED BY <4>1, <4>2, <4>3, Zenon
    <3> QED BY <3>1, <3>2
  <2> QED BY <2>1, <2>3, <2>5, Zenon
<1> HIDE DEF Leaves
<1>8. \A k \in 0 .. n : k \in Good
  <2>1. 0 \in Good
    BY <1>3, <1>6
  <2>2. \A k \in Nat : k < n /\ k \in Good => k + 1 \in Good
    BY <1>3, <1>7
  <2> HIDE DEF Good
  <2> QED BY <1>3, <2>1, <2>2, UpTo
<1>9. Leaves(n)
  BY <1>3, <1>8
<1>10. First(list, n) = Members(list)
  BY DEF First, Members
<1> QED BY <1>2, <1>3, <1>9, <1>10 DEF Leaves

-----------------------------------------------------------------------------
(* The first k of a list without repetitions are k users.                  *)
LEMMA CountFirst ==
  ASSUME NEW list \in Seq(Accounts), Distinct(list)
  PROVE  \A k \in 0 .. Len(list) :
           IsFiniteSet(First(list, k)) /\ Cardinality(First(list, k)) = k
<1> DEFINE n == Len(list)
           Counts(k) == IsFiniteSet(First(list, k)) /\ Cardinality(First(list, k)) = k
           Good == {k \in 0 .. n : Counts(k)}
<1>1. n \in Nat
  BY LenProperties
<1>2. Counts(0)
  <2>1. First(list, 0) = {}
    BY DEF First
  <2> QED BY <2>1, FS_EmptySet
<1>3. ASSUME NEW k \in Nat, k < n, Counts(k) PROVE Counts(k + 1)
  <2> DEFINE T == First(list, k)
             u == list[k + 1]
  <2>1. u \notin T /\ First(list, k + 1) = T \cup {u}
    BY <1>3, FirstGrows
  <2>2. IsFiniteSet(T) /\ Cardinality(T) = k
    BY <1>3
  <2> HIDE DEF T, u
  <2>3. IsFiniteSet(T \cup {u}) /\ Cardinality(T \cup {u}) = k + 1
    BY <2>1, <2>2, FS_AddElement
  <2> QED BY <2>1, <2>3
<1> HIDE DEF Counts
<1>4. \A k \in 0 .. n : k \in Good
  <2>1. 0 \in Good
    BY <1>1, <1>2
  <2>2. \A k \in Nat : k < n /\ k \in Good => k + 1 \in Good
    BY <1>1, <1>3
  <2> HIDE DEF Good
  <2> QED BY <1>1, <2>1, <2>2, UpTo
<1> QED BY <1>4 DEF Counts

(* So is the whole list as many users as it is long.                       *)
LEMMA CountMembers ==
  ASSUME NEW list \in Seq(Accounts), Distinct(list)
  PROVE  IsFiniteSet(Members(list)) /\ Cardinality(Members(list)) = Len(list)
<1>1. Len(list) \in 0 .. Len(list) /\ First(list, Len(list)) = Members(list)
  BY LenProperties DEF First, Members
<1> QED BY <1>1, CountFirst

(* The cut keeps the front of a list, up to the limit.                     *)
LEMMA BoundedKeeps ==
  ASSUME NEW sorted \in Seq(Accounts)
  PROVE  LET b == Bounded(sorted)
         IN  /\ b \in Seq(Accounts)
             /\ Len(b) = IF Len(sorted) < LEADERBOARD_LIMIT THEN Len(sorted) ELSE LEADERBOARD_LIMIT
             /\ \A i \in 1 .. Len(b) : b[i] = sorted[i]
<1> DEFINE k == IF Len(sorted) < LEADERBOARD_LIMIT THEN Len(sorted) ELSE LEADERBOARD_LIMIT
<1>1. k \in Nat /\ k <= Len(sorted) /\ Len(sorted) \in Nat
  BY LimitsAssumption, LenProperties
<1>2. Bounded(sorted) = SubSeq(sorted, 1, k)
  BY DEF Bounded
<1>3. \A i \in 1 .. k : sorted[i] \in Accounts
  BY <1>1, ElementOfSeq
<1> HIDE DEF k
<1>4. /\ SubSeq(sorted, 1, k) \in Seq(Accounts)
      /\ Len(SubSeq(sorted, 1, k)) = IF 1 <= k THEN k - 1 + 1 ELSE 0
      /\ \A i \in 1 .. k - 1 + 1 : SubSeq(sorted, 1, k)[i] = sorted[1 + i - 1]
  BY <1>1, <1>3, SubSeqProperties
<1>5. Len(SubSeq(sorted, 1, k)) = k
  BY <1>1, <1>4
<1>6. \A i \in 1 .. k : i \in 1 .. k - 1 + 1 /\ 1 + i - 1 = i
  BY <1>1
<1>7. \A i \in 1 .. k : SubSeq(sorted, 1, k)[i] = sorted[i]
  BY <1>4, <1>6
<1> QED BY <1>2, <1>4, <1>5, <1>7 DEF k

(* What a list must be for the board to be right: ranked, of users with a  *)
(* result, no longer than the limit; and whoever has a result and is not   *)
(* on it is outranked by all of a full list.                               *)
OnTop(list, stats, m) ==
  /\ list \in Seq(Accounts) /\ Len(list) <= LEADERBOARD_LIMIT
  /\ Ranked(stats, m, list)
  /\ \A v \in Members(list) : stats[v] # None
  /\ \A v \in Accounts : stats[v] # None /\ v \notin Members(list) =>
       /\ Len(list) = LEADERBOARD_LIMIT
       /\ \A w \in Members(list) : Outranks(stats, m, w, v)

(* A user whose score does not fall, put back in and cut: the list is      *)
(* right for the new scores.  It could not be if scores fell, because a    *)
(* user that was cut off earlier would have to come back.                  *)
LEMMA UpdateKeepsTop ==
  ASSUME NEW stats \in Stats, NEW m \in Metrics, NEW list, OnTop(list, stats, m),
         NEW user \in Accounts, NEW new \in UserStats,
         new[m] >= StatsOf(stats, user)[m],
         NEW stats2, stats2 = [stats EXCEPT ![user] = new]
  PROVE  OnTop(Bounded(Reinsert(stats2, m, Append(WithoutUser(list, user), user))), stats2, m)
<1> DEFINE others == Members(list) \ {user}
           ext == Append(WithoutUser(list, user), user)
           out == Reinsert(stats2, m, ext)
           b   == Bounded(out)
           lim == LEADERBOARD_LIMIT
<1>1. /\ stats2 \in Stats
      /\ stats2[user] = new /\ new # None
      /\ \A v \in Accounts : v # user => stats2[v] = stats[v]
  BY LimitsAssumption DEF Stats
<1>2. list \in Seq(Accounts) /\ Distinct(list) /\ Members(list) \subseteq Accounts
  <2>1. list \in Seq(Accounts) /\ Ranked(stats, m, list)
    BY DEF OnTop
  <2> QED BY <2>1, RankedDistinct, ElementOfSeq DEF Members
<1>3. ext \in Seq(Accounts) /\ Distinct(ext) /\ Members(ext) = others \cup {user}
  <2> DEFINE w == WithoutUser(list, user)
  <2>1. w \in Seq(Accounts) /\ Distinct(w) /\ Members(w) = others
    BY <1>2, WithoutLeaves
  <2> HIDE DEF w
  <2>2. user \notin Members(w)
    BY <2>1
  <2>3. ext = Append(w, user)
    BY DEF w
  <2> QED BY <2>1, <2>2, <2>3, AppendDistinct
<1> HIDE DEF ext
<1>4. out \in Seq(Accounts) /\ Ranked(stats2, m, out) /\ Members(out) = others \cup {user}
  BY <1>1, <1>3, ReinsertRanks
<1> HIDE DEF out
<1>5. Distinct(out)
  BY <1>1, <1>4, RankedDistinct
<1>6. /\ b \in Seq(Accounts)
      /\ Len(b) = IF Len(out) < lim THEN Len(out) ELSE lim
      /\ \A i \in 1 .. Len(b) : b[i] = out[i]
  BY <1>4, BoundedKeeps
<1> HIDE DEF b
<1>7. Len(out) \in Nat /\ lim \in Nat /\ Len(b) \in Nat /\ Len(b) <= Len(out) /\ Len(b) <= lim
  <2>1. Len(out) \in Nat /\ lim \in Nat
    BY <1>4, LimitsAssumption, LenProperties
  <2> QED BY <1>6, <2>1
<1>8. Ranked(stats2, m, b)
  <2> SUFFICES ASSUME NEW i \in 1 .. Len(b), NEW j \in 1 .. Len(b), i < j
               PROVE  Outranks(stats2, m, b[i], b[j])
    BY DEF Ranked
  <2>1. i \in 1 .. Len(out) /\ j \in 1 .. Len(out)
    BY <1>7
  <2>2. Outranks(stats2, m, out[i], out[j])
    BY <1>4, <2>1 DEF Ranked
  <2> QED BY <1>6, <2>2
<1>9. Members(b) \subseteq Members(out)
  <2>1. \A i \in 1 .. Len(b) : i \in 1 .. Len(out)
    BY <1>7
  <2> QED BY <1>6, <2>1 DEF Members
<1>10. \A v \in Members(b) : stats2[v] # None
  <2>1. \A v \in Members(list) : stats[v] # None
    BY DEF OnTop
  <2> QED BY <1>1, <1>2, <1>4, <1>9, <2>1
<1>11. ASSUME NEW v \in Accounts, stats2[v] # None, v \notin Members(b), v \in Members(out)
       PROVE  Len(b) = lim /\ \A w \in Members(b) : Outranks(stats2, m, w, v)
  <2>1. PICK j \in 1 .. Len(out) : v = out[j]
    BY <1>11 DEF Members
  <2>2. ~ (j <= Len(b))
    <3>1. j <= Len(b) => j \in 1 .. Len(b)
      BY <1>7
    <3> QED BY <1>6, <1>11, <2>1, <3>1 DEF Members
  <2>3. Len(b) = lim
    BY <1>6, <1>7, <2>2
  <2>4. \A i \in 1 .. Len(b) : Outranks(stats2, m, b[i], v)
    <3> SUFFICES ASSUME NEW i \in 1 .. Len(b) PROVE Outranks(stats2, m, b[i], v)
      OBVIOUS
    <3>1. i \in 1 .. Len(out) /\ i < j
      BY <1>7, <2>2
    <3>2. Outranks(stats2, m, out[i], out[j])
      BY <1>4, <3>1 DEF Ranked
    <3> QED BY <1>6, <2>1, <3>2
  <2> QED BY <2>3, <2>4 DEF Members
<1>12. ASSUME NEW v \in Accounts, stats2[v] # None, v \notin Members(out)
       PROVE  Len(b) = lim /\ \A w \in Members(b) : Outranks(stats2, m, w, v)
  <2>1. v # user /\ v \notin Members(list) /\ stats2[v] = stats[v]
    BY <1>1, <1>4, <1>12
  <2>2. Len(list) = lim /\ \A w \in Members(list) : Outranks(stats, m, w, v)
    BY <1>12, <2>1 DEF OnTop
  <2>3. \A w \in others : Outranks(stats2, m, w, v)
    <3> SUFFICES ASSUME NEW w \in others PROVE Outranks(stats2, m, w, v)
      OBVIOUS
    <3>1. w \in Accounts /\ w # user /\ stats2[w] = stats[w] /\ Outranks(stats, m, w, v)
      BY <1>1, <1>2, <2>2
    <3>2. StatsOf(stats2, w) = StatsOf(stats, w) /\ StatsOf(stats2, v) = StatsOf(stats, v)
      BY <2>1, <3>1 DEF StatsOf
    <3> QED BY <3>1, <3>2 DEF Outranks
  <2>4. Cardinality(Members(list)) = lim /\ IsFiniteSet(Members(list))
    BY <1>2, <2>2, CountMembers
  <2>5. Cardinality(Members(out)) = Len(out)
    BY <1>4, <1>5, CountMembers
  <2>6. CASE user \in Members(list)
    <3>1. Members(out) = Members(list)
      BY <1>4, <2>6
    <3>2. Len(out) = lim
      BY <2>4, <2>5, <3>1
    <3>3. Outranks(stats2, m, user, v)
      <4> DEFINE old == StatsOf(stats, user)[m]
                 now2 == StatsOf(stats2, user)[m]
                 his == StatsOf(stats, v)[m]
      <4>1. old \in Nat /\ now2 \in Nat /\ his \in Nat
        BY <1>1, ScoresAreNumbers
      <4>2. now2 >= old
        BY <1>1 DEF StatsOf
      <4>3. StatsOf(stats2, v)[m] = his
        BY <2>1 DEF StatsOf
      <4>4. old > his \/ (old = his /\ user < v)
        BY <2>2, <2>6 DEF Outranks
      <4> HIDE DEF old, now2, his
      <4>5. now2 > his \/ (now2 = his /\ user < v)
        BY <4>1, <4>2, <4>4
      <4> QED BY <4>3, <4>5 DEF Outranks, now2
    <3>4. \A w \in Members(out) : Outranks(stats2, m, w, v)
      BY <1>4, <2>3, <3>3
    <3> QED BY <1>6, <1>7, <1>9, <3>2, <3>4
  <2>7. CASE user \notin Members(list)
    <3>1. Members(out) = Members(list) \cup {user} /\ others = Members(list)
      BY <1>4, <2>7
    <3>2. Len(out) = lim + 1
      <4>1. Cardinality(Members(list) \cup {user}) = Cardinality(Members(list)) + 1
        BY <2>4, <2>7, FS_AddElement
      <4> QED BY <2>4, <2>5, <3>1, <4>1
    <3>3. Len(b) = lim
      BY <1>6, <1>7, <3>2
    <3>4. ASSUME NEW w \in Members(b) PROVE Outranks(stats2, m, w, v)
      <4>1. CASE w = user
        <5> DEFINE last == out[lim + 1]
        <5>1. PICK i \in 1 .. lim : out[i] = user
          BY <1>6, <3>3, <3>4, <4>1 DEF Members
        <5>2. i \in 1 .. Len(out) /\ lim + 1 \in 1 .. Len(out) /\ i < lim + 1
          BY <1>7, <3>2
        <5>3. Outranks(stats2, m, user, last)
          BY <1>4, <5>1, <5>2 DEF Ranked
        <5>4. last \in Members(out) /\ last # user
          BY <1>5, <5>1, <5>2 DEF Members, Distinct
        <5> HIDE DEF last
        <5>5. last \in others /\ last \in Accounts
          BY <1>2, <1>4, <5>4
        <5>6. Outranks(stats2, m, last, v)
          BY <2>3, <5>5
        <5> QED BY <1>1, <4>1, <5>3, <5>5, <5>6, OutrankingOrders
      <4>2. CASE w # user
        BY <1>4, <1>9, <2>3, <3>4, <4>2
      <4> QED BY <4>1, <4>2
    <3> QED BY <3>3, <3>4
  <2> QED BY <2>6, <2>7
<1>13. OnTop(b, stats2, m)
  BY <1>6, <1>7, <1>8, <1>10, <1>11, <1>12 DEF OnTop
<1> QED BY <1>13 DEF b, out, ext

(* A list that is right is the ranking.                                    *)
LEMMA TopIsRanking ==
  ASSUME NEW stats \in Stats, NEW m \in Metrics, NEW list, OnTop(list, stats, m),
         NEW entries, Len(entries) = Len(list),
         \A i \in 1 .. Len(list) : entries[i].user = list[i]
  PROVE  IsRanking(entries, stats, m)
<1> DEFINE users == {u \in Accounts : stats[u] # None}
           Over(u) == {v \in users : Outranks(stats, m, v, u)}
           Place(u) == 1 + Cardinality(Over(u))
           best == {u \in users : Place(u) <= LEADERBOARD_LIMIT}
           n == Len(list)
<1>1. /\ list \in Seq(Accounts) /\ Distinct(list) /\ n \in Nat
      /\ \A i \in 1 .. n : list[i] \in Accounts /\ stats[list[i]] # None
      /\ LEADERBOARD_LIMIT \in Nat /\ n <= LEADERBOARD_LIMIT
  <2>1. list \in Seq(Accounts) /\ Ranked(stats, m, list) /\ n <= LEADERBOARD_LIMIT
        /\ \A v \in Members(list) : stats[v] # None
    BY DEF OnTop
  <2>2. Distinct(list) /\ n \in Nat /\ \A i \in 1 .. n : list[i] \in Accounts
    BY <2>1, RankedDistinct, ElementOfSeq, LenProperties
  <2> QED BY <2>1, <2>2, LimitsAssumption DEF Members
<1>2. /\ \A x \in Accounts : ~ Outranks(stats, m, x, x)
      /\ \A x, y \in Accounts : Outranks(stats, m, x, y) => ~ Outranks(stats, m, y, x)
  BY OutrankingOrders
<1>3. \A i \in 1 .. n : Over(list[i]) = First(list, i - 1)
  <2> SUFFICES ASSUME NEW i \in 1 .. n PROVE Over(list[i]) = First(list, i - 1)
    OBVIOUS
  <2>1. ASSUME NEW v \in First(list, i - 1) PROVE v \in Over(list[i])
    <3>1. PICK j \in 1 .. i - 1 : v = list[j]
      BY <2>1 DEF First
    <3>2. j \in 1 .. n /\ j < i
      BY <1>1
    <3> QED BY <1>1, <3>1, <3>2 DEF OnTop, Ranked
  <2>2. ASSUME NEW v \in Over(list[i]) PROVE v \in First(list, i - 1)
    <3>1. v \in Accounts /\ stats[v] # None /\ Outranks(stats, m, v, list[i])
      BY <2>2
    <3>2. v \in Members(list)
      <4>1. SUFFICES ASSUME v \notin Members(list) PROVE FALSE
        OBVIOUS
      <4>2. Outranks(stats, m, list[i], v)
        BY <3>1, <4>1 DEF OnTop, Members
      <4> QED BY <1>1, <1>2, <3>1, <4>2
    <3>3. PICK j \in 1 .. n : v = list[j]
      BY <3>2 DEF Members
    <3>4. ~ (i < j)
      <4>1. SUFFICES ASSUME i < j PROVE FALSE
        OBVIOUS
      <4>2. Outranks(stats, m, list[i], v)
        BY <3>3, <4>1 DEF OnTop, Ranked
      <4> QED BY <1>1, <1>2, <3>1, <4>2
    <3>5. i # j
      BY <1>1, <1>2, <3>1, <3>3
    <3>6. j \in 1 .. i - 1
      BY <1>1, <3>4, <3>5
    <3> QED BY <3>3, <3>6 DEF First
  <2> HIDE DEF Over
  <2> QED BY <2>1, <2>2
<1>4. \A i \in 1 .. n : Place(list[i]) = i
  <2> SUFFICES ASSUME NEW i \in 1 .. n PROVE 1 + Cardinality(Over(list[i])) = i
    OBVIOUS
  <2>1. i - 1 \in 0 .. Len(list)
    BY <1>1
  <2>2. Cardinality(First(list, i - 1)) = i - 1
    BY <1>1, <2>1, CountFirst
  <2>3. Cardinality(Over(list[i])) = i - 1
    BY <1>3, <2>2
  <2> HIDE DEF Over
  <2> QED BY <1>1, <2>3
<1>5. \A u \in users : u \notin Members(list) => ~ (Place(u) <= LEADERBOARD_LIMIT)
  <2> SUFFICES ASSUME NEW u \in users, u \notin Members(list)
               PROVE  ~ (Place(u) <= LEADERBOARD_LIMIT)
    OBVIOUS
  <2>1. n = LEADERBOARD_LIMIT /\ \A w \in Members(list) : Outranks(stats, m, w, u)
    BY DEF OnTop
  <2>2. Members(list) \subseteq Over(u)
    BY <1>1, <2>1 DEF Members
  <2>3. IsFiniteSet(Over(u))
    <3>1. Over(u) \subseteq Accounts
      OBVIOUS
    <3> HIDE DEF Over
    <3> QED BY <3>1, AccountsAssumption, FS_Subset
  <2>4. Cardinality(Members(list)) = n
    BY <1>1, CountMembers
  <2> HIDE DEF Over
  <2>5. Cardinality(Members(list)) <= Cardinality(Over(u)) /\ Cardinality(Over(u)) \in Nat
    BY <2>2, <2>3, FS_Subset, FS_CardinalityType
  <2> QED BY <1>1, <2>1, <2>4, <2>5
<1>6. best = Members(list)
  <2>1. \A u \in Members(list) : u \in users /\ Place(u) <= LEADERBOARD_LIMIT
    <3> SUFFICES ASSUME NEW i \in 1 .. n
                 PROVE  list[i] \in users /\ Place(list[i]) <= LEADERBOARD_LIMIT
      BY DEF Members
    <3>1. Place(list[i]) = i /\ i <= LEADERBOARD_LIMIT
      BY <1>1, <1>4
    <3> HIDE DEF Place
    <3> QED BY <1>1, <3>1
  <2> HIDE DEF Place
  <2> QED BY <1>5, <2>1
<1>7. Len(entries) = Cardinality(best)
  BY <1>1, <1>6, CountMembers
<1>8. \A u \in best : entries[Place(u)].user = u
  <2> SUFFICES ASSUME NEW u \in best PROVE entries[Place(u)].user = u
    OBVIOUS
  <2>1. PICK i \in 1 .. n : u = list[i]
    BY <1>6 DEF Members
  <2>2. Place(u) = i
    BY <1>4, <2>1
  <2> HIDE DEF Place
  <2> QED BY <2>1, <2>2
<1> QED BY <1>7, <1>8, Zenon DEF IsRanking

-----------------------------------------------------------------------------
(* A piece of a sequence.                                                  *)
LEMMA PieceOf ==
  ASSUME NEW S, NEW full \in Seq(S), NEW a \in Nat, NEW b \in Nat, a <= b, b <= Len(full)
  PROVE  LET p == SubSeq(full, a + 1, b)
         IN  /\ p \in Seq(S) /\ Len(p) = b - a
             /\ \A i \in 1 .. b - a : p[i] = full[a + i]
<1> DEFINE p == SubSeq(full, a + 1, b)
<1>1. Len(full) \in Nat /\ \A i \in a + 1 .. b : full[i] \in S
  <2>1. Len(full) \in Nat
    BY LenProperties
  <2>2. \A i \in a + 1 .. b : i \in 1 .. Len(full)
    BY <2>1
  <2> QED BY <2>1, <2>2, ElementOfSeq
<1>2. a + 1 \in Int /\ b \in Int
  OBVIOUS
<1>3. /\ p \in Seq(S)
      /\ Len(p) = IF a + 1 <= b THEN b - (a + 1) + 1 ELSE 0
      /\ \A i \in 1 .. b - (a + 1) + 1 : p[i] = full[(a + 1) + i - 1]
  BY <1>1, <1>2, SubSeqProperties
<1> HIDE DEF p
<1>4. Len(p) = b - a
  BY <1>3
<1>5. \A i \in 1 .. b - a : i \in 1 .. b - (a + 1) + 1 /\ (a + 1) + i - 1 = a + i
  OBVIOUS
<1> QED BY <1>3, <1>4, <1>5 DEF p

(* Two pieces that meet are one.                                           *)
LEMMA PiecesJoin ==
  ASSUME NEW S, NEW full \in Seq(S), NEW a \in Nat, NEW b \in Nat, a <= b, b <= Len(full)
  PROVE  SubSeq(full, 1, a) \o SubSeq(full, a + 1, b) = SubSeq(full, 1, b)
<1> DEFINE x == SubSeq(full, 0 + 1, a)
           y == SubSeq(full, a + 1, b)
           z == SubSeq(full, 0 + 1, b)
           xy == x \o y
<1>1. Len(full) \in Nat /\ a <= Len(full)
  <2>1. Len(full) \in Nat
    BY LenProperties
  <2> QED BY <2>1
<1>2. x \in Seq(S) /\ Len(x) = a - 0 /\ \A i \in 1 .. a - 0 : x[i] = full[0 + i]
  BY <1>1, PieceOf
<1>3. y \in Seq(S) /\ Len(y) = b - a /\ \A i \in 1 .. b - a : y[i] = full[a + i]
  BY PieceOf
<1>4. z \in Seq(S) /\ Len(z) = b - 0 /\ \A i \in 1 .. b - 0 : z[i] = full[0 + i]
  BY <1>1, PieceOf
<1>5. SubSeq(full, 1, a) = x /\ SubSeq(full, 1, b) = z
  OBVIOUS
<1> HIDE DEF x, y, z
<1>6. /\ xy \in Seq(S) /\ Len(xy) = Len(x) + Len(y)
      /\ \A i \in 1 .. Len(x) + Len(y) : xy[i] = IF i <= Len(x) THEN x[i] ELSE y[i - Len(x)]
  BY <1>2, <1>3, ConcatProperties
<1> HIDE DEF xy
<1>7. Len(x) = a /\ Len(xy) = b /\ Len(z) = b
  BY <1>2, <1>3, <1>4, <1>6
<1>8. \A i \in 1 .. b : xy[i] = z[i]
  <2> SUFFICES ASSUME NEW i \in 1 .. b PROVE xy[i] = z[i]
    OBVIOUS
  <2>1. z[i] = full[i]
    <3>1. i \in 1 .. b - 0 /\ 0 + i = i
      OBVIOUS
    <3> QED BY <1>4, <3>1
  <2>2. xy[i] = IF i <= a THEN x[i] ELSE y[i - a]
    <3>1. i \in 1 .. Len(x) + Len(y)
      BY <1>2, <1>3
    <3> QED BY <1>6, <1>7, <3>1
  <2>3. CASE i <= a
    <3>1. i \in 1 .. a - 0 /\ 0 + i = i
      BY <2>3
    <3> QED BY <1>2, <2>1, <2>2, <2>3, <3>1
  <2>4. CASE ~ (i <= a)
    <3>1. i - a \in 1 .. b - a /\ a + (i - a) = i
      BY <2>4
    <3> QED BY <1>3, <2>1, <2>2, <2>4, <3>1
  <2> QED BY <2>3, <2>4
<1>9. xy = z
  BY <1>4, <1>6, <1>7, <1>8, SeqEqual
<1> QED BY <1>5, <1>9 DEF xy

(* The states of the loop that joins a sequence of sequences.              *)
IsFlatten(seqs, f) ==
  f = [i \in 1 .. Len(seqs) |-> IF i = 1 THEN seqs[i] ELSE f[i - 1] \o seqs[i]]

(* The joined sequence is read off them.                                   *)
LEMMA FlattenUnfolds ==
  ASSUME NEW seqs, Len(seqs) # 0
  PROVE  FlattenSeq(seqs) = (CHOOSE f : IsFlatten(seqs, f))[Len(seqs)]
BY DEF FlattenSeq, IsFlatten

(* What the loop computes, from states that satisfy its equation.          *)
LEMMA FlattenIs ==
  ASSUME NEW seqs, NEW n \in Nat \ {0}, Len(seqs) = n, NEW w, IsFlatten(seqs, w)
  PROVE  FlattenSeq(seqs) = w[n]
<1> DEFINE f == CHOOSE h : IsFlatten(seqs, h)
           Good == {k \in 0 .. n : k > 0 => f[k] = w[k]}
<1>1. IsFlatten(seqs, f)
  OBVIOUS
<1>2. FlattenSeq(seqs) = f[n]
  BY FlattenUnfolds
<1> HIDE DEF f
<1>3. \A i \in 1 .. n : /\ f[i] = IF i = 1 THEN seqs[i] ELSE f[i - 1] \o seqs[i]
                        /\ w[i] = IF i = 1 THEN seqs[i] ELSE w[i - 1] \o seqs[i]
  BY <1>1 DEF IsFlatten
<1>4. 0 \in Good
  OBVIOUS
<1>5. ASSUME NEW k \in Nat, k < n, k \in Good PROVE k + 1 \in Good
  <2>1. k + 1 \in 1 .. n /\ (k + 1) - 1 = k /\ (k + 1 = 1 <=> k = 0) /\ k + 1 \in 0 .. n
    BY <1>5
  <2>2. f[k + 1] = IF k = 0 THEN seqs[k + 1] ELSE f[k] \o seqs[k + 1]
    BY <1>3, <2>1
  <2>3. w[k + 1] = IF k = 0 THEN seqs[k + 1] ELSE w[k] \o seqs[k + 1]
    BY <1>3, <2>1
  <2>4. k # 0 => f[k] = w[k]
    BY <1>5
  <2>5. f[k + 1] = w[k + 1]
    BY <2>2, <2>3, <2>4, Zenon
  <2> QED BY <2>1, <2>5
<1> HIDE DEF Good
<1>6. \A k \in 0 .. n : k \in Good
  BY <1>4, <1>5, UpTo
<1>7. n \in Good /\ n > 0
  BY <1>6
<1> QED BY <1>2, <1>7 DEF Good

(* A list is what its pages add up to, whatever their size.                *)
LEMMA PagesCover ==
  ASSUME NEW S, NEW full \in Seq(S), Len(full) <= LEADERBOARD_LIMIT,
         NEW n \in 1 .. MAX_PAGE_SIZE
  PROVE  FlattenSeq([k \in 1 .. LEADERBOARD_LIMIT |-> Page(full, (k - 1) * n, n)]) = full
<1> DEFINE lim == LEADERBOARD_LIMIT
           len == Len(full)
           seqs == [k \in 1 .. lim |-> Page(full, (k - 1) * n, n)]
           Cut(i) == IF i * n < len THEN i * n ELSE len
           w == [k \in 1 .. lim |-> SubSeq(full, 1, Cut(k))]
<1>1. lim \in Nat \ {0} /\ len \in Nat /\ n \in Nat \ {0} /\ n <= MAX_PAGE_SIZE
      /\ MAX_PAGE_SIZE \in Nat
  BY LimitsAssumption, LenProperties
<1>2. \A i \in Nat : i * n \in Nat /\ Cut(i) \in Nat /\ Cut(i) <= len
  <2>1. \A i \in Nat : i * n \in Nat
    BY <1>1
  <2> QED BY <1>1, <2>1
<1>3. \A i \in Nat : (i + 1) * n = i * n + n /\ Cut(i) <= Cut(i + 1)
  <2>1. \A i \in Nat : (i + 1) * n = i * n + n
    BY <1>1
  <2> QED BY <1>1, <1>2, <2>1
<1>4. ASSUME NEW i \in Nat
      PROVE  Page(full, i * n, n) = SubSeq(full, Cut(i) + 1, Cut(i + 1))
  <2>1. Page(full, i * n, n) = SubSeq(full, i * n + 1, Cut(i + 1))
    <3>1. (IF n < MAX_PAGE_SIZE THEN n ELSE MAX_PAGE_SIZE) = n
      BY <1>1
    <3>2. Page(full, i * n, n)
            = SubSeq(full, i * n + 1, IF i * n + n < Len(full) THEN i * n + n ELSE Len(full))
      BY <3>1, Zenon DEF Page
    <3> QED BY <1>3, <3>2
  <2>2. CASE i * n <= len
    <3>1. Cut(i) = i * n
      BY <1>1, <1>2, <2>2
    <3> HIDE DEF Cut
    <3> QED BY <2>1, <3>1
  <2>3. CASE ~ (i * n <= len)
    <3> DEFINE a == i * n
    <3>1. a \in Nat /\ Cut(i) = len /\ Cut(i + 1) = len /\ len < a
      BY <1>1, <1>2, <1>3, <2>3
    <3>2. /\ SubSeq(full, a + 1, len) \in Seq(S)
          /\ Len(SubSeq(full, a + 1, len)) = IF a + 1 <= len THEN len - (a + 1) + 1 ELSE 0
      <4>1. \A j \in a + 1 .. len : full[j] \in S
        BY <1>1, <3>1
      <4>2. a + 1 \in Int /\ len \in Int
        BY <1>1, <3>1
      <4> HIDE DEF a, len
      <4> QED BY <4>1, <4>2, SubSeqProperties
    <3>3. SubSeq(full, len + 1, len) \in Seq(S) /\ Len(SubSeq(full, len + 1, len)) = len - len
      BY <1>1, PieceOf
    <3>4. Len(SubSeq(full, a + 1, len)) = 0 /\ Len(SubSeq(full, len + 1, len)) = 0
      <4> HIDE DEF a
      <4> QED BY <1>1, <3>1, <3>2, <3>3
    <3> HIDE DEF a, Cut
    <3>5. SubSeq(full, a + 1, len) = SubSeq(full, len + 1, len)
      <4>1. \A q \in Seq(S) : Len(q) = 0 => q = << >>
        OBVIOUS
      <4> QED BY <3>2, <3>3, <3>4, <4>1
    <3> QED BY <2>1, <3>1, <3>5 DEF a
  <2> QED BY <2>2, <2>3
<1>5. Len(seqs) = lim
  BY <1>1
<1>6. ASSUME NEW k \in 1 .. lim
      PROVE  w[k] = IF k = 1 THEN seqs[k] ELSE w[k - 1] \o seqs[k]
  <2> DEFINE i == k - 1
  <2>1. i \in Nat /\ i + 1 = k
    BY <1>1
  <2>2. seqs[k] = SubSeq(full, Cut(i) + 1, Cut(k))
    <3>1. seqs[k] = Page(full, i * n, n)
      OBVIOUS
    <3> HIDE DEF seqs, i, Cut
    <3> QED BY <1>4, <2>1, <3>1
  <2>3. w[k] = SubSeq(full, 1, Cut(k))
    OBVIOUS
  <2>4. CASE k = 1
    <3>1. i = 0 /\ 0 * n = 0
      BY <1>1, <2>4
    <3>2. Cut(i) = 0
      BY <1>1, <3>1
    <3> HIDE DEF Cut, w, seqs, i
    <3>3. seqs[k] = SubSeq(full, 0 + 1, Cut(k)) /\ 0 + 1 = 1
      BY <2>2, <3>2
    <3> QED BY <2>3, <2>4, <3>3
  <2>5. CASE k # 1
    <3>1. i \in 1 .. lim
      BY <1>1, <2>5
    <3>2. w[i] = SubSeq(full, 1, Cut(i))
      BY <3>1
    <3>3. Cut(i) \in Nat /\ Cut(k) \in Nat /\ Cut(i) <= Cut(k) /\ Cut(k) <= Len(full)
      <4>1. k \in Nat
        BY <1>1
      <4>2. Cut(i) <= Cut(i + 1)
        BY <1>3, <2>1
      <4> HIDE DEF Cut, i
      <4> QED BY <1>2, <2>1, <4>1, <4>2
    <3> HIDE DEF Cut, w, seqs
    <3>4. SubSeq(full, 1, Cut(i)) \o SubSeq(full, Cut(i) + 1, Cut(k)) = SubSeq(full, 1, Cut(k))
      BY <3>3, PiecesJoin
    <3> QED BY <2>2, <2>3, <2>5, <3>2, <3>4
  <2> QED BY <2>4, <2>5
<1>7. IsFlatten(seqs, w)
  <2>1. w = [k \in 1 .. Len(seqs) |-> w[k]]
    BY <1>5
  <2> HIDE DEF w, seqs
  <2> QED BY <1>5, <1>6, <2>1 DEF IsFlatten
<1>8. w[lim] = full
  <2>1. lim \in 1 .. lim /\ lim * n >= lim
    BY <1>1
  <2>2. Cut(lim) = len
    BY <1>1, <1>2, <2>1
  <2>3. w[lim] = SubSeq(full, 1, len)
    BY <2>1, <2>2
  <2>4. /\ SubSeq(full, 0 + 1, len) \in Seq(S) /\ Len(SubSeq(full, 0 + 1, len)) = len - 0
        /\ \A i \in 1 .. len - 0 : SubSeq(full, 0 + 1, len)[i] = full[0 + i]
    BY <1>1, PieceOf
  <2> DEFINE z == SubSeq(full, 1, len)
  <2>5. z = SubSeq(full, 0 + 1, len)
    OBVIOUS
  <2> HIDE DEF z
  <2>6. z \in Seq(S) /\ Len(z) = Len(full) /\ \A i \in 1 .. Len(z) : z[i] = full[i]
    <3>1. len - 0 = len /\ \A i \in 1 .. len : 0 + i = i
      BY <1>1
    <3> QED BY <2>4, <2>5, <3>1
  <2>7. z = full
    BY <2>6, SeqEqual
  <2> QED BY <2>3, <2>7 DEF z
<1> HIDE DEF w, seqs
<1>9. FlattenSeq(seqs) = w[lim]
  BY <1>1, <1>5, <1>7, FlattenIs
<1> QED BY <1>8, <1>9 DEF seqs

-----------------------------------------------------------------------------
(* A list as the entries a client sees.                                    *)
LEMMA EntriesOf ==
  ASSUME NEW stats \in Stats, NEW list \in Seq(Accounts)
  PROVE  LET e == Entries(stats, list)
         IN  /\ e \in Seq(SeasonLeaderboardEntry) /\ Len(e) = Len(list)
             /\ \A i \in 1 .. Len(list) : e[i] = Entry(stats, list[i]) /\ e[i].user = list[i]
<1> DEFINE e == Entries(stats, list)
<1>1. /\ Len(list) \in Nat /\ DOMAIN list = 1 .. Len(list)
      /\ \A i \in 1 .. Len(list) : list[i] \in Accounts
  BY LenProperties, ElementOfSeq
<1>2. e = [i \in 1 .. Len(list) |-> Entry(stats, list[i])]
  BY <1>1 DEF Entries
<1>3. \A u \in Accounts : Entry(stats, u) \in SeasonLeaderboardEntry /\ Entry(stats, u).user = u
  <2> SUFFICES ASSUME NEW u \in Accounts
               PROVE  Entry(stats, u) \in SeasonLeaderboardEntry /\ Entry(stats, u).user = u
    OBVIOUS
  <2>1. StatsOf(stats, u) \in UserStats
    BY ScoresAreNumbers DEF Metrics
  <2> QED BY <2>1 DEF Entry, SeasonLeaderboardEntry, UserStats
<1>4. \A i \in 1 .. Len(list) : e[i] = Entry(stats, list[i])
  BY <1>2
<1>5. e \in Seq(SeasonLeaderboardEntry) /\ Len(e) = Len(list)
  <2>1. \A i \in 1 .. Len(list) : Entry(stats, list[i]) \in SeasonLeaderboardEntry
    BY <1>1, <1>3
  <2> HIDE DEF e
  <2> QED BY <1>1, <1>2, <2>1
<1> QED BY <1>1, <1>3, <1>4, <1>5

(* A page of entries is the entries of a page.                             *)
LEMMA EntriesOfPage ==
  ASSUME NEW stats \in Stats, NEW list \in Seq(Accounts), NEW offset \in Nat,
         NEW limit \in Nat
  PROVE  Entries(stats, Page(list, offset, limit)) = Page(Entries(stats, list), offset, limit)
<1> DEFINE e == Entries(stats, list)
           n == IF limit < MAX_PAGE_SIZE THEN limit ELSE MAX_PAGE_SIZE
           to == IF offset + n < Len(list) THEN offset + n ELSE Len(list)
           p == SubSeq(list, offset + 1, to)
           q == SubSeq(e, offset + 1, to)
<1>1. /\ e \in Seq(SeasonLeaderboardEntry) /\ Len(e) = Len(list)
      /\ \A i \in 1 .. Len(list) : e[i] = Entry(stats, list[i])
  BY EntriesOf
<1>2. Page(list, offset, limit) = p /\ Page(e, offset, limit) = q
  <2> HIDE DEF e
  <2> QED BY <1>1, Zenon DEF Page, e
<1> HIDE DEF e
<1>3. to \in Nat /\ to <= Len(list) /\ Len(list) \in Nat
  BY LimitsAssumption, LenProperties
<1> HIDE DEF to
<1>4. \A i \in offset + 1 .. to : i \in 1 .. Len(list) /\ list[i] \in Accounts
                                  /\ e[i] \in SeasonLeaderboardEntry
  <2>1. \A i \in offset + 1 .. to : i \in 1 .. Len(list)
    BY <1>3
  <2> QED BY <1>1, <2>1, ElementOfSeq
<1>5. offset + 1 \in Int /\ to \in Int
  BY <1>3
<1> DEFINE len == IF offset + 1 <= to THEN to - (offset + 1) + 1 ELSE 0
<1>6. /\ p \in Seq(Accounts) /\ Len(p) = len
      /\ \A i \in 1 .. to - (offset + 1) + 1 : p[i] = list[(offset + 1) + i - 1]
  BY <1>4, <1>5, SubSeqProperties
<1>7. /\ q \in Seq(SeasonLeaderboardEntry) /\ Len(q) = len
      /\ \A i \in 1 .. to - (offset + 1) + 1 : q[i] = e[(offset + 1) + i - 1]
  BY <1>4, <1>5, SubSeqProperties
<1> HIDE DEF p, q
<1> DEFINE r == Entries(stats, p)
<1>8. /\ r \in Seq(SeasonLeaderboardEntry) /\ Len(r) = len
      /\ \A i \in 1 .. Len(p) : r[i] = Entry(stats, p[i])
  BY <1>6, EntriesOf
<1> HIDE DEF r
<1>9. \A i \in 1 .. Len(r) : r[i] = q[i]
  <2> SUFFICES ASSUME NEW i \in 1 .. Len(r) PROVE r[i] = q[i]
    OBVIOUS
  <2> DEFINE j == (offset + 1) + i - 1
  <2>1. i \in 1 .. Len(p) /\ i \in 1 .. to - (offset + 1) + 1
    BY <1>3, <1>6, <1>8
  <2>2. j \in offset + 1 .. to
    BY <1>3, <2>1
  <2>3. p[i] = list[j] /\ q[i] = e[j]
    BY <1>6, <1>7, <2>1
  <2> HIDE DEF j
  <2>4. e[j] = Entry(stats, list[j])
    BY <1>1, <1>4, <2>2
  <2> QED BY <1>8, <2>1, <2>3, <2>4
<1>10. r = q
  BY <1>7, <1>8, <1>9, SeqEqual
<1> QED BY <1>2, <1>10 DEF r, e

-----------------------------------------------------------------------------
(* The archive of a season is the entries of a list that was right when    *)
(* the season ended, by statistics that do not change any more.            *)
Frozen(s, m) ==
  \E list : /\ OnTop(list, seasonStats[s], m)
            /\ seasonArchive[s].rankings[m] = Entries(seasonStats[s], list)

(* The inductive invariant of the boards.                                  *)
BoardInv ==
  /\ BoardTypeOK
  /\ Len(seasonStats) = Len(seasonArchive) + 1
  /\ \A m \in Metrics : /\ OnTop(index[m], userStats, m)
                        /\ OnTop(seasonIndex[m], seasonStats[SeasonId], m)
  /\ \A s \in 1 .. Len(seasonArchive), m \in Metrics : Frozen(s, m)

(* An empty list is right when nobody has a result.                        *)
LEMMA EmptyIsTop ==
  ASSUME NEW m \in Metrics
  PROVE  /\ NoEntries \in Stats /\ EmptyIndex \in [Metrics -> Seq(Accounts)]
         /\ OnTop(EmptyIndex[m], NoEntries, m)
<1>1. NoEntries \in Stats /\ \A v \in Accounts : NoEntries[v] = None
  BY DEF NoEntries, Stats
<1>2. EmptyIndex \in [Metrics -> Seq(Accounts)] /\ EmptyIndex[m] = << >>
  BY DEF EmptyIndex
<1>3. OnTop(<< >>, NoEntries, m)
  BY <1>1, LimitsAssumption DEF OnTop, Ranked, Members
<1> QED BY <1>1, <1>2, <1>3

(* The statistics after a result.                                          *)
After(s, won) == IF won THEN AfterWin(s) ELSE AfterLoss(s)

(* A result lowers neither of the scores that rank.                        *)
LEMMA ScoresNeverFall ==
  ASSUME NEW s \in UserStats, NEW won \in BOOLEAN, NEW m \in Metrics
  PROVE  After(s, won) \in UserStats /\ After(s, won)[m] >= s[m]
<1>1. /\ s.total_wins \in Nat /\ s.total_losses \in Nat
      /\ s.current_streak \in Nat /\ s.best_streak \in Nat
      /\ s = [total_wins |-> s.total_wins, total_losses |-> s.total_losses,
              current_streak |-> s.current_streak, best_streak |-> s.best_streak]
  BY DEF UserStats
<1> DEFINE w == s.total_wins
           l == s.total_losses
           c == s.current_streak
           b == s.best_streak
           high == IF c + 1 > b THEN c + 1 ELSE b
<1>2. high \in Nat /\ high >= b /\ w + 1 \in Nat /\ w + 1 >= w /\ c + 1 \in Nat
      /\ l + 1 \in Nat /\ b >= b /\ w >= w
  <2>1. w \in Nat /\ l \in Nat /\ c \in Nat /\ b \in Nat
    BY <1>1
  <2> HIDE DEF w, l, c, b
  <2> QED BY <2>1
<1>3. /\ DOMAIN s = {"total_wins", "total_losses", "current_streak", "best_streak"}
      /\ s = [f \in DOMAIN s |-> s[f]]
  BY DEF UserStats
<1>4. /\ AfterWin(s) = [f \in DOMAIN s |-> AfterWin(s)[f]] /\ DOMAIN AfterWin(s) = DOMAIN s
      /\ AfterWin(s).total_wins = w + 1 /\ AfterWin(s).total_losses = l
      /\ AfterWin(s).current_streak = c + 1
  BY <1>3 DEF AfterWin
<1>5. AfterWin(s).best_streak = high
  BY <1>3 DEF AfterWin
<1>6. /\ AfterLoss(s) = [f \in DOMAIN s |-> AfterLoss(s)[f]]
      /\ AfterLoss(s).total_wins = w /\ AfterLoss(s).total_losses = l + 1
      /\ AfterLoss(s).current_streak = 0 /\ AfterLoss(s).best_streak = b
  BY <1>3 DEF AfterLoss
<1> HIDE DEF high
<1>7. AfterWin(s) \in UserStats /\ AfterWin(s).total_wins >= w /\ AfterWin(s).best_streak >= b
  BY <1>1, <1>2, <1>3, <1>4, <1>5 DEF UserStats
<1>8. AfterLoss(s) \in UserStats /\ AfterLoss(s).total_wins >= w /\ AfterLoss(s).best_streak >= b
  BY <1>1, <1>2, <1>3, <1>6 DEF UserStats
<1>9. AfterWin(s)[m] >= s[m] /\ AfterLoss(s)[m] >= s[m]
  BY <1>7, <1>8 DEF Metrics
<1> QED BY <1>7, <1>8, <1>9 DEF After

(* A result keeps a pair of lists right.                                   *)
LEMMA ResultKeepsTop ==
  ASSUME NEW stats \in Stats, NEW idx \in [Metrics -> Seq(Accounts)],
         \A m \in Metrics : OnTop(idx[m], stats, m),
         NEW user \in Accounts, NEW won \in BOOLEAN,
         NEW stats2, stats2 = [stats EXCEPT ![user] = After(StatsOf(stats, user), won)]
  PROVE  /\ stats2 \in Stats
         /\ UpdateIndex(stats2, idx, user) \in [Metrics -> Seq(Accounts)]
         /\ \A m \in Metrics : OnTop(UpdateIndex(stats2, idx, user)[m], stats2, m)
<1> DEFINE new == After(StatsOf(stats, user), won)
           list(m) == Bounded(Reinsert(stats2, m, Append(WithoutUser(idx[m], user), user)))
<1>1. \A m \in Metrics : new \in UserStats /\ new[m] >= StatsOf(stats, user)[m]
  BY ScoresAreNumbers, ScoresNeverFall
<1>2. new \in UserStats
  BY <1>1 DEF Metrics
<1> HIDE DEF new
<1>3. stats2 = [stats EXCEPT ![user] = new]
  BY DEF new
<1>4. stats2 \in Stats
  BY <1>2, <1>3 DEF Stats
<1>5. \A m \in Metrics : OnTop(list(m), stats2, m)
  BY <1>1, <1>2, <1>3, UpdateKeepsTop
<1>6. UpdateIndex(stats2, idx, user) = [m \in Metrics |-> list(m)]
  BY DEF UpdateIndex
<1> HIDE DEF list
<1>7. \A m \in Metrics : list(m) \in Seq(Accounts)
  BY <1>5 DEF OnTop
<1> QED BY <1>4, <1>5, <1>6, <1>7

(* A result keeps the boards right.                                        *)
LEMMA RecordKeepsBoards ==
  ASSUME BoardInv, NEW user \in Accounts, NEW won \in BOOLEAN, RecordResult(user, won)
  PROVE  BoardInv'
<1> DEFINE k == SeasonId
           lifetime == [userStats EXCEPT ![user] = After(StatsOf(userStats, user), won)]
           old      == seasonStats[k]
           season   == [old EXCEPT ![user] = After(StatsOf(old, user), won)]
<1>1. /\ userStats' = lifetime
      /\ index' = UpdateIndex(lifetime, index, user)
      /\ seasonStats' = [seasonStats EXCEPT ![k] = season]
      /\ seasonIndex' = UpdateIndex(season, seasonIndex, user)
      /\ seasonArchive' = seasonArchive
  BY DEF RecordResult, After
<1>2. /\ userStats \in Stats /\ seasonStats \in Seq(Stats)
      /\ index \in [Metrics -> Seq(Accounts)] /\ seasonIndex \in [Metrics -> Seq(Accounts)]
      /\ seasonArchive \in Seq(SeasonArchive) /\ Len(seasonStats) = Len(seasonArchive) + 1
      /\ \A m \in Metrics : OnTop(index[m], userStats, m) /\ OnTop(seasonIndex[m], old, m)
  BY DEF BoardInv, BoardTypeOK, Stats
<1>3. /\ k = Len(seasonStats) /\ Len(seasonArchive) \in Nat /\ k \in 1 .. Len(seasonStats)
      /\ old \in Stats
  <2>1. Len(seasonArchive) \in Nat /\ k = Len(seasonStats) /\ k \in 1 .. Len(seasonStats)
    BY <1>2, LenProperties DEF SeasonId
  <2> QED BY <1>2, <2>1, ElementOfSeq
<1> HIDE DEF old
<1>4. /\ lifetime \in Stats
      /\ UpdateIndex(lifetime, index, user) \in [Metrics -> Seq(Accounts)]
      /\ \A m \in Metrics : OnTop(UpdateIndex(lifetime, index, user)[m], lifetime, m)
  BY <1>2, ResultKeepsTop
<1>5. /\ season \in Stats
      /\ UpdateIndex(season, seasonIndex, user) \in [Metrics -> Seq(Accounts)]
      /\ \A m \in Metrics : OnTop(UpdateIndex(season, seasonIndex, user)[m], season, m)
  BY <1>2, <1>3, ResultKeepsTop
<1> HIDE DEF lifetime, season
<1>6. /\ seasonStats' \in Seq(Stats) /\ Len(seasonStats') = Len(seasonStats)
      /\ seasonStats'[k] = season
      /\ \A s \in 1 .. Len(seasonStats) : s # k => seasonStats'[s] = seasonStats[s]
  <2> HIDE DEF k
  <2> QED BY <1>1, <1>2, <1>3, <1>5, ExceptSeq
<1>7. SeasonId' = k
  BY <1>3, <1>6 DEF SeasonId
<1>8. BoardTypeOK'
  BY <1>1, <1>2, <1>4, <1>5, <1>6 DEF BoardTypeOK, Stats
<1>9. \A m \in Metrics : /\ OnTop(index'[m], userStats', m)
                         /\ OnTop(seasonIndex'[m], seasonStats'[k], m)
  <2> HIDE DEF k
  <2> QED BY <1>1, <1>4, <1>5, <1>6
<1>10. ASSUME NEW s \in 1 .. Len(seasonArchive), NEW m \in Metrics PROVE Frozen(s, m)'
  <2>1. Frozen(s, m)
    BY DEF BoardInv
  <2>2. s \in 1 .. Len(seasonStats) /\ s # k
    BY <1>2, <1>3
  <2>3. seasonStats'[s] = seasonStats[s]
    BY <1>6, <2>2
  <2> QED BY <1>1, <2>1, <2>3 DEF Frozen
<1> HIDE DEF k
<1> QED BY <1>1, <1>2, <1>6, <1>7, <1>8, <1>9, <1>10 DEF BoardInv

(* The archive that a reset writes is the two lists with their scores.     *)
LEMMA SnapshotIs ==
  ASSUME BoardInv, ledger \in Nat
  PROVE  /\ Snapshot \in SeasonArchive
         /\ \A m \in Metrics :
              Snapshot.rankings[m] = Entries(seasonStats[SeasonId], seasonIndex[m])
<1> DEFINE old  == seasonStats[SeasonId]
           rows == [m \in Metrics |-> Entries(old, seasonIndex[m])]
           seen == UNION {ToSet(seasonIndex[m]) : m \in Metrics}
           count == Cardinality(seen)
<1>1. /\ seasonStats \in Seq(Stats) /\ seasonIndex \in [Metrics -> Seq(Accounts)]
      /\ seasonArchive \in Seq(SeasonArchive) /\ Len(seasonStats) = Len(seasonArchive) + 1
  BY DEF BoardInv, BoardTypeOK, Stats
<1>2. old \in Stats
  <2>1. SeasonId \in 1 .. Len(seasonStats)
    BY <1>1, LenProperties DEF SeasonId
  <2> QED BY <1>1, <2>1, ElementOfSeq
<1>3. \A m \in Metrics : ToSet(seasonIndex[m]) \subseteq Accounts
  <2> SUFFICES ASSUME NEW m \in Metrics PROVE ToSet(seasonIndex[m]) \subseteq Accounts
    OBVIOUS
  <2>1. seasonIndex[m] \in Seq(Accounts)
    BY <1>1
  <2>2. \A i \in DOMAIN seasonIndex[m] : seasonIndex[m][i] \in Accounts
    BY <2>1, LenProperties, ElementOfSeq
  <2> QED BY <2>2 DEF ToSet
<1>4. seen \subseteq Accounts
  BY <1>3
<1> HIDE DEF seen
<1>5. count \in Nat
  BY <1>4, AccountsAssumption, FS_Subset, FS_CardinalityType
<1> HIDE DEF old, count
<1>6. \A m \in Metrics : rows[m] = Entries(old, seasonIndex[m])
                         /\ rows[m] \in Seq(SeasonLeaderboardEntry)
  BY <1>1, <1>2, EntriesOf
<1>7. rows \in [Metrics -> Seq(SeasonLeaderboardEntry)]
  BY <1>6
<1>8. Snapshot = [ended_at_ledger |-> ledger, rankings |-> rows, participant_count |-> count]
  BY DEF Snapshot, old, count, seen
<1> HIDE DEF rows
<1>9. Snapshot \in SeasonArchive /\ Snapshot.rankings = rows
  BY <1>5, <1>7, <1>8 DEF SeasonArchive
<1> QED BY <1>6, <1>9 DEF old

(* A reset keeps the boards right: the lists of the season that ends are   *)
(* the ones its archive is made from.                                      *)
LEMMA ResetKeepsBoards ==
  ASSUME BoardInv, ledger \in Nat, reset_leaderboard_season
  PROVE  BoardInv'
<1> DEFINE k == SeasonId
<1>1. /\ userStats' = userStats /\ index' = index /\ seasonIndex' = EmptyIndex
      /\ seasonArchive' = Append(seasonArchive, Snapshot)
      /\ seasonStats' = Append(seasonStats, NoEntries)
  BY DEF reset_leaderboard_season
<1>2. /\ userStats \in Stats /\ seasonStats \in Seq(Stats)
      /\ index \in [Metrics -> Seq(Accounts)] /\ seasonIndex \in [Metrics -> Seq(Accounts)]
      /\ seasonArchive \in Seq(SeasonArchive) /\ Len(seasonStats) = Len(seasonArchive) + 1
      /\ \A m \in Metrics : OnTop(index[m], userStats, m) /\ OnTop(seasonIndex[m], seasonStats[k], m)
  BY DEF BoardInv, BoardTypeOK, Stats
<1>3. k = Len(seasonStats) /\ Len(seasonArchive) \in Nat /\ k = Len(seasonArchive) + 1
  BY <1>2, LenProperties DEF SeasonId
<1>4. /\ NoEntries \in Stats /\ EmptyIndex \in [Metrics -> Seq(Accounts)]
      /\ \A m \in Metrics : OnTop(EmptyIndex[m], NoEntries, m)
  BY EmptyIsTop DEF Metrics
<1>5. /\ Snapshot \in SeasonArchive
      /\ \A m \in Metrics : Snapshot.rankings[m] = Entries(seasonStats[k], seasonIndex[m])
  BY SnapshotIs
<1> HIDE DEF k
<1>6. /\ seasonStats' \in Seq(Stats) /\ Len(seasonStats') = k + 1
      /\ seasonStats'[k + 1] = NoEntries
      /\ \A s \in 1 .. k : seasonStats'[s] = seasonStats[s]
  BY <1>1, <1>2, <1>3, <1>4, AppendProperties
<1>7. /\ seasonArchive' \in Seq(SeasonArchive) /\ Len(seasonArchive') = k
      /\ seasonArchive'[k] = Snapshot
      /\ \A s \in 1 .. Len(seasonArchive) : seasonArchive'[s] = seasonArchive[s]
  BY <1>1, <1>2, <1>3, <1>5, AppendProperties
<1>8. SeasonId' = k + 1
  BY <1>6 DEF SeasonId
<1>9. BoardTypeOK'
  BY <1>1, <1>2, <1>4, <1>6, <1>7 DEF BoardTypeOK, Stats
<1>10. \A m \in Metrics : /\ OnTop(index'[m], userStats', m)
                          /\ OnTop(seasonIndex'[m], seasonStats'[k + 1], m)
  BY <1>1, <1>2, <1>4, <1>6
<1>11. ASSUME NEW s \in 1 .. Len(seasonArchive'), NEW m \in Metrics PROVE Frozen(s, m)'
  <2>1. s \in 1 .. k /\ seasonStats'[s] = seasonStats[s]
    BY <1>6, <1>7, <1>11
  <2>2. CASE s = k
    <3>1. OnTop(seasonIndex[m], seasonStats'[s], m)
      BY <1>2, <2>1, <2>2
    <3>2. seasonArchive'[s].rankings[m] = Entries(seasonStats'[s], seasonIndex[m])
      BY <1>5, <1>7, <2>1, <2>2
    <3> QED BY <3>1, <3>2 DEF Frozen
  <2>3. CASE s # k
    <3>1. s \in 1 .. Len(seasonArchive)
      BY <1>3, <2>1, <2>3
    <3>2. Frozen(s, m) /\ seasonArchive'[s] = seasonArchive[s]
      BY <1>7, <3>1 DEF BoardInv
    <3> QED BY <2>1, <3>2 DEF Frozen
  <2> QED BY <2>2, <2>3
<1>12. Len(seasonStats') = Len(seasonArchive') + 1
  BY <1>6, <1>7
<1> QED BY <1>8, <1>9, <1>10, <1>11, <1>12 DEF BoardInv

(* Every step keeps the boards right.                                      *)
LEMMA NextBoardInv ==
  ASSUME BoardInv, ledger \in Nat, [Next]_vars
  PROVE  BoardInv'
<1>1. CASE UNCHANGED boardVars
  <2>1. /\ userStats' = userStats /\ seasonStats' = seasonStats /\ index' = index
        /\ seasonIndex' = seasonIndex /\ seasonArchive' = seasonArchive
    BY <1>1 DEF boardVars
  <2> QED BY <2>1 DEF BoardInv, BoardTypeOK, SeasonId, Frozen
<1>2. CASE BoardNext
  <2>1. ASSUME NEW u \in Accounts, UpdateStatsWin(u) \/ UpdateStatsLoss(u) PROVE BoardInv'
    BY <2>1, RecordKeepsBoards DEF UpdateStatsWin, UpdateStatsLoss
  <2>2. CASE reset_leaderboard_season
    BY <2>2, ResetKeepsBoards
  <2> QED BY <1>2, <2>1, <2>2 DEF BoardNext
<1>3. UNCHANGED boardVars \/ BoardNext
  BY DEF Next, Calls, vars
<1> QED BY <1>1, <1>2, <1>3

(* The boards are right at first.                                          *)
LEMMA InitBoardInv == Init => BoardInv
<1> SUFFICES ASSUME Init PROVE BoardInv
  OBVIOUS
<1>1. /\ userStats = NoEntries /\ seasonStats = <<NoEntries>> /\ index = EmptyIndex
      /\ seasonIndex = EmptyIndex /\ seasonArchive = << >>
  BY DEF Init, BoardInit
<1>2. /\ NoEntries \in Stats /\ EmptyIndex \in [Metrics -> Seq(Accounts)]
      /\ \A m \in Metrics : OnTop(EmptyIndex[m], NoEntries, m)
  BY EmptyIsTop DEF Metrics
<1>3. /\ seasonStats \in Seq(Stats) /\ Len(seasonStats) = 1 /\ seasonStats[1] = NoEntries
      /\ seasonArchive \in Seq(SeasonArchive) /\ Len(seasonArchive) = 0
  BY <1>1, <1>2
<1>4. SeasonId = 1
  BY <1>3 DEF SeasonId
<1>5. BoardTypeOK
  BY <1>1, <1>2, <1>3 DEF BoardTypeOK, Stats
<1>6. \A m \in Metrics : /\ OnTop(index[m], userStats, m)
                         /\ OnTop(seasonIndex[m], seasonStats[1], m)
  BY <1>1, <1>2, <1>3
<1> QED BY <1>3, <1>4, <1>5, <1>6 DEF BoardInv

(* The inductive invariants hold together.                                 *)
LEMMA BoardInvariant == Spec => [](AdminInv /\ BoardInv)
<1>1. AdminInv => ledger \in Nat
  BY DEF AdminInv, GovTypeOK, BaseTypeOK
<1>2. AdminInv /\ BoardInv /\ [Next]_vars => BoardInv'
  BY <1>1, NextBoardInv
<1> QED BY <1>2, AdminInvariant, InitBoardInv, PTL DEF Spec

(* The types of the whole administrative surface hold in every state.      *)
THEOREM AdministrationTyped == Spec => []TypeOK
<1>1. AdminInv /\ BoardInv => TypeOK
  BY DEF AdminInv, BoardInv, TypeOK, DatesHonest, SignaturesSound, CountersSound
<1> QED BY <1>1, BoardInvariant, PTL

-----------------------------------------------------------------------------
(* The active season, read in pages of one size, is its list.              *)
LEMMA ActiveRead ==
  ASSUME BoardInv, NEW m \in Metrics, NEW n \in 1 .. MAX_PAGE_SIZE
  PROVE  Read(m, SeasonId, n) = Entries(seasonStats[SeasonId], seasonIndex[m])
<1> DEFINE k == SeasonId
           old == seasonStats[k]
           list == seasonIndex[m]
           full == Entries(old, list)
<1>1. /\ seasonStats \in Seq(Stats) /\ OnTop(list, old, m)
      /\ seasonArchive \in Seq(SeasonArchive) /\ Len(seasonStats) = Len(seasonArchive) + 1
  BY DEF BoardInv, BoardTypeOK, Stats
<1>2. old \in Stats
  <2>1. k \in 1 .. Len(seasonStats)
    BY <1>1, LenProperties DEF SeasonId
  <2> QED BY <1>1, <2>1, ElementOfSeq
<1>3. list \in Seq(Accounts) /\ Len(list) <= LEADERBOARD_LIMIT
  BY <1>1 DEF OnTop
<1>4. \A o \in Nat : GetSeasonLeaderboard(m, k, o, n) = Entries(old, Page(list, o, n))
  BY DEF GetSeasonLeaderboard
<1> HIDE DEF k, old, list
<1>5. full \in Seq(SeasonLeaderboardEntry) /\ Len(full) = Len(list)
  BY <1>2, <1>3, EntriesOf
<1>6. n \in Nat /\ n > 0
  BY LimitsAssumption
<1>7. \A j \in 1 .. LEADERBOARD_LIMIT : (j - 1) * n \in Nat
  BY <1>6, LimitsAssumption
<1>8. \A j \in 1 .. LEADERBOARD_LIMIT :
        GetSeasonLeaderboard(m, k, (j - 1) * n, n) = Page(full, (j - 1) * n, n)
  <2> SUFFICES ASSUME NEW j \in 1 .. LEADERBOARD_LIMIT
               PROVE  GetSeasonLeaderboard(m, k, (j - 1) * n, n) = Page(full, (j - 1) * n, n)
    OBVIOUS
  <2> DEFINE o == (j - 1) * n
  <2>1. o \in Nat
    BY <1>7
  <2> HIDE DEF o
  <2>2. GetSeasonLeaderboard(m, k, o, n) = Page(full, o, n)
    BY <1>2, <1>3, <1>4, <1>6, <2>1, EntriesOfPage
  <2> QED BY <2>2 DEF o
<1>9. Read(m, k, n) = FlattenSeq([j \in 1 .. LEADERBOARD_LIMIT |-> Page(full, (j - 1) * n, n)])
  BY <1>8 DEF Read
<1> HIDE DEF full
<1>10. Read(m, k, n) = full
  BY <1>3, <1>5, <1>9, PagesCover
<1> QED BY <1>10 DEF full, list, old, k

(* An ended season, read in pages of one size, is its archive.             *)
LEMMA EndedRead ==
  ASSUME BoardInv, NEW m \in Metrics, NEW n \in 1 .. MAX_PAGE_SIZE,
         NEW s \in 1 .. Len(seasonArchive), NEW list,
         OnTop(list, seasonStats[s], m),
         seasonArchive[s].rankings[m] = Entries(seasonStats[s], list)
  PROVE  Read(m, s, n) = Entries(seasonStats[s], list)
<1> DEFINE full == seasonArchive[s].rankings[m]
<1>1. /\ seasonStats \in Seq(Stats)
      /\ seasonArchive \in Seq(SeasonArchive) /\ Len(seasonStats) = Len(seasonArchive) + 1
  BY DEF BoardInv, BoardTypeOK, Stats
<1>2. /\ seasonStats[s] \in Stats /\ s # SeasonId /\ s \in DOMAIN seasonArchive
  <2>1. s \in 1 .. Len(seasonStats) /\ s # SeasonId /\ s \in DOMAIN seasonArchive
    BY <1>1, LenProperties DEF SeasonId
  <2> QED BY <1>1, <2>1, ElementOfSeq
<1>3. list \in Seq(Accounts) /\ Len(list) <= LEADERBOARD_LIMIT
  BY DEF OnTop
<1>4. full \in Seq(SeasonLeaderboardEntry) /\ Len(full) = Len(list)
  BY <1>2, <1>3, EntriesOf
<1>5. \A o : GetSeasonLeaderboard(m, s, o, n) = Page(full, o, n)
  BY <1>2 DEF GetSeasonLeaderboard
<1>6. Read(m, s, n) = FlattenSeq([j \in 1 .. LEADERBOARD_LIMIT |-> Page(full, (j - 1) * n, n)])
  BY <1>5 DEF Read
<1> HIDE DEF full
<1>7. Read(m, s, n) = full
  BY <1>3, <1>4, <1>6, PagesCover
<1> QED BY <1>7 DEF full

(* The lists, read in pages of any size, are exactly the best users in     *)
(* order (_update_leaderboards, _update_season_leaderboards).              *)
THEOREM RankingsExact == Spec => []RankingExact
<1>1. BoardInv => RankingExact
  <2> SUFFICES ASSUME BoardInv, NEW m \in Metrics
               PROVE  /\ IsRanking([i \in DOMAIN index[m] |-> [user |-> index[m][i]]], userStats, m)
                      /\ \A n \in 1 .. MAX_PAGE_SIZE :
                           IsRanking(Read(m, SeasonId, n), seasonStats[SeasonId], m)
    BY DEF RankingExact
  <2>1. /\ userStats \in Stats /\ OnTop(index[m], userStats, m)
        /\ seasonStats \in Seq(Stats) /\ OnTop(seasonIndex[m], seasonStats[SeasonId], m)
        /\ seasonArchive \in Seq(SeasonArchive) /\ Len(seasonStats) = Len(seasonArchive) + 1
    BY DEF BoardInv, BoardTypeOK, Stats
  <2>2. IsRanking([i \in DOMAIN index[m] |-> [user |-> index[m][i]]], userStats, m)
    <3> DEFINE list == index[m]
               e == [i \in DOMAIN list |-> [user |-> list[i]]]
    <3>1. list \in Seq(Accounts)
      BY <2>1 DEF OnTop
    <3>2. OnTop(list, userStats, m)
      BY <2>1
    <3> HIDE DEF list
    <3>3. DOMAIN list = 1 .. Len(list) /\ Len(list) \in Nat
      BY <3>1, LenProperties
    <3>4. \A i \in 1 .. Len(list) : e[i].user = list[i]
      BY <3>3
    <3>5. Len(e) = Len(list)
      BY <3>3
    <3> HIDE DEF e
    <3>6. IsRanking(e, userStats, m)
      BY <2>1, <3>2, <3>4, <3>5, TopIsRanking
    <3> QED BY <3>6 DEF e, list
  <2>3. ASSUME NEW n \in 1 .. MAX_PAGE_SIZE
        PROVE  IsRanking(Read(m, SeasonId, n), seasonStats[SeasonId], m)
    <3> DEFINE old == seasonStats[SeasonId]
               list == seasonIndex[m]
               r == Read(m, SeasonId, n)
    <3>1. old \in Stats
      <4>1. SeasonId \in 1 .. Len(seasonStats)
        BY <2>1, LenProperties DEF SeasonId
      <4> QED BY <2>1, <4>1, ElementOfSeq
    <3>2. list \in Seq(Accounts) /\ OnTop(list, old, m)
      BY <2>1 DEF OnTop
    <3>3. r = Entries(old, list)
      BY ActiveRead
    <3> HIDE DEF old, list, r
    <3>4. Len(r) = Len(list) /\ \A i \in 1 .. Len(list) : r[i].user = list[i]
      BY <3>1, <3>2, <3>3, EntriesOf
    <3>5. IsRanking(r, old, m)
      BY <3>1, <3>2, <3>4, TopIsRanking
    <3> QED BY <3>5 DEF r, old
  <2> QED BY <2>2, <2>3
<1> QED BY <1>1, BoardInvariant, PTL

(* An ended season still reads as its final ranking and scores, in pages   *)
(* of any size (reset_leaderboard_season, get_season_leaderboard_by_wins). *)
THEOREM EndedSeasonsNeverChange == Spec => []EndedSeasonsKept
<1>1. BoardInv => EndedSeasonsKept
  <2> SUFFICES ASSUME BoardInv, NEW s \in 1 .. SeasonId - 1, NEW m \in Metrics,
                      NEW n \in 1 .. MAX_PAGE_SIZE
               PROVE  /\ IsRanking(Read(m, s, n), seasonStats[s], m)
                      /\ \A i \in DOMAIN Read(m, s, n) :
                           Read(m, s, n)[i] = Entry(seasonStats[s], Read(m, s, n)[i].user)
    BY DEF EndedSeasonsKept
  <2> DEFINE r == Read(m, s, n)
             old == seasonStats[s]
  <2>1. /\ seasonStats \in Seq(Stats) /\ seasonArchive \in Seq(SeasonArchive)
        /\ Len(seasonStats) = Len(seasonArchive) + 1
    BY DEF BoardInv, BoardTypeOK, Stats
  <2>2. s \in 1 .. Len(seasonArchive) /\ s \in 1 .. Len(seasonStats)
    BY <2>1, LenProperties DEF SeasonId
  <2>3. PICK list : /\ OnTop(list, old, m)
                    /\ seasonArchive[s].rankings[m] = Entries(old, list)
    BY <2>2 DEF BoardInv, Frozen
  <2>4. old \in Stats
    BY <2>1, <2>2, ElementOfSeq
  <2>5. r = Entries(old, list)
    BY <2>2, <2>3, EndedRead
  <2> HIDE DEF r, old
  <2>6. list \in Seq(Accounts)
    BY <2>3 DEF OnTop
  <2>7. /\ r \in Seq(SeasonLeaderboardEntry) /\ Len(r) = Len(list)
        /\ \A i \in 1 .. Len(list) : r[i] = Entry(old, list[i]) /\ r[i].user = list[i]
    BY <2>4, <2>5, <2>6, EntriesOf
  <2>8. DOMAIN r = 1 .. Len(list)
    BY <2>7, LenProperties
  <2>9. IsRanking(r, old, m)
    BY <2>3, <2>4, <2>7, TopIsRanking
  <2>10. \A i \in DOMAIN r : r[i] = Entry(old, r[i].user)
    BY <2>7, <2>8
  <2> QED BY <2>9, <2>10 DEF r, old
<1> QED BY <1>1, BoardInvariant, PTL
=============================================================================
