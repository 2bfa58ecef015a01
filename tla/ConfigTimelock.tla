--------------------------- MODULE ConfigTimelock ----------------------------
(***************************************************************************)
(* Configuration (contracts/src/config.rs).  Ten settings change through a *)
(* timelock: the admin schedules a payload, anybody applies it once the    *)
(* delay has passed, the admin may cancel it before that.  The others      *)
(* change at once.                                                         *)
(***************************************************************************)
EXTENDS Contract

CONSTANTS
  CONFIG_TIMELOCK_LEDGERS,
  Offers          \* Offers[kind]: the payloads the admin tries

VARIABLES
  config,         \* the value in force, by kind
  pendingConfig   \* DataKeyScoped::PendingConfigChange, by kind, or None

configVars == <<config, pendingConfig>>

Optional(S) == S \cup {None}

(* A cap is absent or at least MIN_CAP_VALUE. *)
ValidCap == Optional(Nat \ {0})

(* Pending winnings never expire, or not before 128 ledgers. *)
ValidExpiry == {l \in Nat : l # 0 => 128 <= l /\ l <= 1000000}

(* The validators, one per timelocked kind.  They look at one setting at a *)
(* time: a minimum bet above the maximum stake passes.                     *)
ValidPayloads ==
  [Windows               |-> {w \in [bet : 1 .. 1440, run : 1 .. 2880] : w.bet < w.run},
   MaxStake              |-> ValidCap,
   MinBet                |-> ValidCap,
   MaxUserRoundExposure  |-> ValidCap,
   MaxPendingWinnings    |-> ValidCap,
   OracleStaleThreshold  |-> 60 .. 86400,
   OracleMaxDeviationBps |-> Optional(1 .. 100000),
   OracleTimestampSkew   |-> 0 .. 86400,
   ProtocolFeeBps        |-> Optional(1 .. 1000),
   PendingWinningsExpiry |-> ValidExpiry]

TimelockedKinds == DOMAIN ValidPayloads

(* What a read returns while nothing is stored. *)
DefaultConfig ==
  [Windows |-> [bet |-> 6, run |-> 12], MaxStake |-> None, MinBet |-> None,
   MaxUserRoundExposure |-> None, MaxPendingWinnings |-> None,
   OracleStaleThreshold |-> 3600, OracleMaxDeviationBps |-> None,
   OracleTimestampSkew |-> 300, ProtocolFeeBps |-> None,
   PendingWinningsExpiry |-> 0,
   FeeModel |-> "FeeOnPot", CloseBufferLedgers |-> 0, MinParticipants |-> None,
   MaxPrecisionParticipants |-> 1000, PrecisionPayoutPolicy |-> "Equal",
   MintLimit |-> 0, EpochMintBudget |-> 0, ArchiveRetention |-> 128,
   DisputeLedgers |-> 0, EarlyCashoutBps |-> None,
   InsuranceSplitBps |-> 0, InsuranceCoverageBps |-> 0]

Kinds == DOMAIN DefaultConfig

ASSUME TimelockAssumption == CONFIG_TIMELOCK_LEDGERS \in Nat \ {0}
ASSUME OffersAssumption   == DOMAIN Offers = Kinds /\ Offers.EpochMintBudget \subseteq Int

PendingConfigChange(kind) ==
  [payload : ValidPayloads[kind], activation_ledger : Nat, scheduled_at_ledger : Nat]

ConfigTypeOK ==
  /\ DOMAIN config = Kinds
  /\ DOMAIN pendingConfig = TimelockedKinds
  /\ \A k \in TimelockedKinds :
       /\ config[k] \in ValidPayloads[k]
       /\ pendingConfig[k] # None => pendingConfig[k] \in PendingConfigChange(k)

ConfigInit ==
  /\ config = DefaultConfig
  /\ pendingConfig = [k \in TimelockedKinds |-> None]

-----------------------------------------------------------------------------
(* A scheduled change that replaces the pending one and inherits its date. *)
FaultScheduleReplaces(kind, payload) ==
  LET p == pendingConfig[kind]
      due == IF p = None THEN ledger + CONFIG_TIMELOCK_LEDGERS ELSE p.activation_ledger
  IN  /\ Spend("schedule")
      /\ EnsureNotPaused
      /\ pendingConfig' = [pendingConfig EXCEPT ![kind] =
           [payload |-> payload, activation_ledger |-> due, scheduled_at_ledger |-> ledger]]
      /\ UNCHANGED <<ledger, runtimeMode, seats, balance, config>>

(* _schedule_config_change: the admin, one pending change per kind. *)
Schedule(kind, payload) ==
  /\ Spend("schedule")
  /\ EnsureNotPaused
  /\ pendingConfig[kind] = None
  /\ pendingConfig' = [pendingConfig EXCEPT ![kind] =
       [payload             |-> payload,
        activation_ledger   |-> ledger + CONFIG_TIMELOCK_LEDGERS,
        scheduled_at_ledger |-> ledger]]
  /\ UNCHANGED <<ledger, runtimeMode, seats, balance, config>>

ScheduleValid(kind, payload) == payload \in ValidPayloads[kind] /\ Schedule(kind, payload)

schedule_windows(w)                  == ScheduleValid("Windows", w)
schedule_max_stake(v)                == ScheduleValid("MaxStake", v)
schedule_min_bet(v)                  == ScheduleValid("MinBet", v)
schedule_max_user_exposure(v)        == ScheduleValid("MaxUserRoundExposure", v)
schedule_max_pending_winnings(v)     == ScheduleValid("MaxPendingWinnings", v)
schedule_oracle_stale_threshold(s)   == ScheduleValid("OracleStaleThreshold", s)
schedule_oracle_deviation_bps(b)     == ScheduleValid("OracleMaxDeviationBps", b)
schedule_oracle_timestamp_skew(s)    == ScheduleValid("OracleTimestampSkew", s)
schedule_protocol_fee_bps(b)         == ScheduleValid("ProtocolFeeBps", b)
schedule_pending_winnings_expiry(l)  == ScheduleValid("PendingWinningsExpiry", l)

(* _apply_config_payload validates again before it writes. *)
ApplyPayload(kind, payload) ==
  /\ payload \in ValidPayloads[kind]
  /\ config' = [config EXCEPT ![kind] = payload]

(* Open to anybody, in Normal mode only: an incident holds changes back. *)
apply_scheduled_changes(kind) ==
  /\ EnsureNormalMode
  /\ pendingConfig[kind] # None
  /\ ledger >= pendingConfig[kind].activation_ledger
  /\ ApplyPayload(kind, pendingConfig[kind].payload)
  /\ pendingConfig' = [pendingConfig EXCEPT ![kind] = None]
  /\ UNCHANGED baseVars

(* A cancellation that is accepted after the change came due. *)
FaultCancelDue(kind) ==
  /\ EnsureNotPaused
  /\ pendingConfig[kind] # None
  /\ pendingConfig' = [pendingConfig EXCEPT ![kind] = None]
  /\ UNCHANGED <<baseVars, config>>

(* The admin backs out, but not of a change that is due. *)
cancel_config_change(kind) ==
  /\ EnsureNotPaused
  /\ pendingConfig[kind] # None
  /\ ledger < pendingConfig[kind].activation_ledger
  /\ pendingConfig' = [pendingConfig EXCEPT ![kind] = None]
  /\ UNCHANGED <<baseVars, config>>

-----------------------------------------------------------------------------
MAX_DISPUTE_LEDGERS == 120960

CallKindOf(kind) == IF kind \in {"MintLimit", "EpochMintBudget"} THEN "mintlimit" ELSE "setting"

(* The settings without a timelock: admin, unless fully paused. *)
SetNow(kind, value) ==
  /\ Spend(CallKindOf(kind))
  /\ EnsureNotPaused
  /\ config' = [config EXCEPT ![kind] = value]
  /\ UNCHANGED <<ledger, runtimeMode, seats, balance, pendingConfig>>

set_fee_model(m) ==
  m \in {"FeeOnPot", "FeeOnWinnings"} /\ SetNow("FeeModel", m)
set_close_buffer_ledgers(b) ==
  b \in 0 .. 1440 /\ SetNow("CloseBufferLedgers", b)
set_min_participants(n) ==
  n \in Optional(1 .. 10000) /\ SetNow("MinParticipants", n)
set_max_precision_participants(n) ==
  n \in 1 .. 10000 /\ SetNow("MaxPrecisionParticipants", n)
set_precision_payout_policy(p) ==
  p \in {"Equal", "StakeWeighted"} /\ SetNow("PrecisionPayoutPolicy", p)
set_mint_limit(n) ==
  n \in Nat /\ SetNow("MintLimit", n)
set_epoch_mint_budget(b) ==
  b >= 0 /\ SetNow("EpochMintBudget", b)
set_archive_retention(n) ==
  n \in 1 .. 10000 /\ SetNow("ArchiveRetention", n)
set_dispute_ledgers(n) ==
  n \in 0 .. MAX_DISPUTE_LEDGERS /\ SetNow("DisputeLedgers", n)
set_early_cashout_bps(b) ==
  b \in Optional(1 .. 1000) /\ SetNow("EarlyCashoutBps", b)
set_insurance_split_bps(b) ==
  b \in 0 .. 5000 /\ SetNow("InsuranceSplitBps", b)
set_insurance_coverage_bps(b) ==
  b \in 0 .. 10000 /\ SetNow("InsuranceCoverageBps", b)

ConfigNext ==
  \/ \E v \in Offers.Windows                  : schedule_windows(v)
  \/ \E v \in Offers.MaxStake                 : schedule_max_stake(v)
  \/ \E v \in Offers.MinBet                   : schedule_min_bet(v)
  \/ \E v \in Offers.MaxUserRoundExposure     : schedule_max_user_exposure(v)
  \/ \E v \in Offers.MaxPendingWinnings       : schedule_max_pending_winnings(v)
  \/ \E v \in Offers.OracleStaleThreshold     : schedule_oracle_stale_threshold(v)
  \/ \E v \in Offers.OracleMaxDeviationBps    : schedule_oracle_deviation_bps(v)
  \/ \E v \in Offers.OracleTimestampSkew      : schedule_oracle_timestamp_skew(v)
  \/ \E v \in Offers.ProtocolFeeBps           : schedule_protocol_fee_bps(v)
  \/ \E v \in Offers.PendingWinningsExpiry    : schedule_pending_winnings_expiry(v)
  \/ \E v \in Offers.FeeModel                 : set_fee_model(v)
  \/ \E v \in Offers.CloseBufferLedgers       : set_close_buffer_ledgers(v)
  \/ \E v \in Offers.MinParticipants          : set_min_participants(v)
  \/ \E v \in Offers.MaxPrecisionParticipants : set_max_precision_participants(v)
  \/ \E v \in Offers.PrecisionPayoutPolicy    : set_precision_payout_policy(v)
  \/ \E v \in Offers.MintLimit                : set_mint_limit(v)
  \/ \E v \in Offers.EpochMintBudget          : set_epoch_mint_budget(v)
  \/ \E v \in Offers.ArchiveRetention         : set_archive_retention(v)
  \/ \E v \in Offers.DisputeLedgers           : set_dispute_ledgers(v)
  \/ \E v \in Offers.EarlyCashoutBps          : set_early_cashout_bps(v)
  \/ \E v \in Offers.InsuranceSplitBps        : set_insurance_split_bps(v)
  \/ \E v \in Offers.InsuranceCoverageBps     : set_insurance_coverage_bps(v)
  \/ \E k \in TimelockedKinds : apply_scheduled_changes(k) \/ cancel_config_change(k)
=============================================================================
