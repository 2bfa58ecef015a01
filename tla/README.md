# Xelma prediction market: a TLA+ verification project

Xelma is a Soroban (Stellar) contract in Rust.  Users stake virtual XLM on the
price of XLM in *rounds*; an oracle reports the final price; the contract pays
the winners, keeps a fee, and archives the round.  The code is in
`contracts/src/` of the repository.  This directory holds TLA+ models of it,
the TLC runs that check them, and proofs checked by TLAPS.

An entrypoint of a Soroban contract is one atomic transaction, and an
entrypoint that returns an error (or panics) reverts everything it wrote.  So
an entrypoint is one action, and an error is an action that is not enabled.
What is hard here is not threads but **order**: calls of users, admin, oracle
and bystanders interleave in any order with the closing of ledgers, two rounds
can be in flight at once, and configuration and runtime mode change between
any two calls.

## The system and its parts

| Part | State it keeps | Operations | What makes it correct |
|---|---|---|---|
| Rounds and stakes (`betting.rs`, `storage.rs`) | `ActiveRound`, `LastRoundId`, `RoundStartLedger`, `Position`, `PrecisionPosition`, `PrecisionCommitment`, `RoundParticipants` | `create_round`, `create_next_from_template`, `place_bet`, `place_precision_prediction`, `predict_price`, `commit_prediction`, `reveal_prediction`, `cash_out_early` | pools equal positions; the participant list names exactly the stake keys; no stake after the close; a start ledger names one round |
| Settlement (`settlement.rs`) | outcomes, statistics, pending winnings | `resolve_round`, `resolve_round_multi`, `cancel_round` | value is conserved; a round credits a user once; statistics agree with outcomes |
| Dispute window (`settlement.rs`) | `PendingDisputes` | staging in `resolve_round`, `void_round`, `finalize_round` | a staged result is frozen; void and finalize exclude each other; a newer round is not disturbed |
| Archive (`settlement.rs`) | `ArchivedRound`, `RecentArchivedRoundIds`, `CancelledRound`, `UserArchivedRoundIds` | `_archive_round`, `set_archive_retention` | index, summaries and markers agree; the limit holds |
| Settlement math (`settlement_math.rs`, `config.rs`) | none | fee and payout functions, payout engine | the pot is handed out; engine and contract agree |
| Wallets (`common.rs`, `settlement.rs`, `admin.rs`) | `Balance`, `PendingWinnings`, `PendingWinningsUpdatedAt` | `mint_initial`, `claim_winnings`, `claim_many`, `reclaim_expired_pending_winnings` | nothing overdrawn; pending winnings reach a wallet |
| Fee and insurance (`config.rs`, `insurance.rs`) | treasury, fund | `_collect_protocol_fee`, coverage in `cancel_round`, `withdraw_protocol_fee`, `withdraw_insurance_fund`, `top_up_insurance_fund` | the fund is not overdrawn and pays what it deducts |
| Oracle acceptance (`settlement.rs`, `admin.rs`) | heartbeat and its gate, deviation settings, one-shot overrides, price samples | the guards of `resolve_round` and `resolve_round_multi`, `update_oracle_heartbeat`, the `arm_` and `set_` entrypoints | a price outside the band settles a round only under an override, once; a lying minority of feeds cannot move the median |
| Runtime modes (`admin.rs`) | `Paused` | `pause_contract`, `unpause_contract`, `set_runtime_mode`, two governance actions | what a mode forbids does not happen, but for the entrypoints that never ask for it; with two seats one alone changes it through `set_runtime_mode` only |
| Configuration (`config.rs`) | configuration keys, `PendingConfigChange` | setters, `schedule_*`, `apply_scheduled_changes`, `cancel_config_change` | a timelocked setting changes only to what was on display for the whole delay; a change that is due cannot be withdrawn |
| Governance (`governance.rs`) | the two seats, `GovProposal`, `GovProposalTtlLedgers` | `propose`, `approve`, `execute`, `cancel` and the effect of ten actions | money and the admin key move only by a proposal two different seats signed, once, before it expires |
| Constitution (`governance.rs`) | `ConstitutionMetadata`, `Amendment` | `establish_constitution`, `propose_amendment`, `veto_amendment`, `activate_amendment`, `get_amendment` | activation comes after the veto window and the timelock; an outcome is final |
| Oracle rotation (`contract.rs`) | `Oracle`, `OracleRotationProposal` | propose, accept, cancel, the query that removes an expired proposal | a new oracle was on display for the whole delay |
| Access control (`access_control.rs`) | the switch, two lists | add to and remove from either list, the check before a call | nobody is on both lists |
| Mint limits (`betting.rs`) | `LedgerMintCounter`, the two temporary epoch entries | `mint_initial`, `set_mint_limit`, `set_epoch_mint_budget` | limit and budget hold across ledgers, epochs and changes |
| Leaderboards and seasons (`leaderboard.rs`) | statistics, four bounded indexes, `SeasonArchive` | a win, a loss, `reset_leaderboard_season`, the paged season queries | an index is the exact ranking; an ended season stays as it ended |
| Queries (`queries.rs`) | none | getters, pagination, `simulate_payout` | a preview is what the settlement would pay |
| Oracle committee, schema migrations, collateral, replay engine | see *Not modelled* | | |

How they interact: `betting` moves value from wallets into a round;
`settlement` moves it from the round into pending winnings, treasury and fund
and hands the round to the archive; claims move pending winnings to wallets.
All parts read the same configuration keys at the time of the call.  The
administrative parts share the clock, the mode, the two seats and the balances:
governance overwrites settings that the timelock guards, seats that proposals
were signed under, and the oracle that a rotation is about to replace.  Nothing
calls back into the contract.

The hard behaviours, at their lines, are the `hazards` of `PROJECT.json`.

## Modules

`SettlementMath` - fee and payout arithmetic as operators.  Every division
rounds down as the code's does.  Used by `PayoutEngine` and `Market`.

`PayoutEngine` (`MC_PayoutEngine`) - the pure engine of `settlement_math.rs`
next to the loops of `settlement.rs` that really pay.  A behaviour picks one
input; the properties compare the two with each other and with reference
definitions.  The engine of the replay tool is the same source file.  A third
computation, `simulate_payout` of `queries.rs`, is there as `PreviewUpdown`,
`PreviewShares` and `PreviewPrecision`, and `PreviewAgrees` compares it with
what the settlement pays.

`Archive` (`MC_Archive`) - `_archive_round` with its prune loop.  The loop
removes the front of the index twice per pass, so `k` passes consume `2k`
entries and delete every other summary; `PrunePasses`, `Pruned` and `Kept`
state exactly that.  The index and the summaries are therefore cut at different
rates.  What holds is that a write keeps the *summary* of its own round; that
the round is also in the index, as its last entry, holds under a limit above one
only (`WriteKeepsNewest`).

`Market` (`MC_Market`) - what moves value: rounds, stakes, both settlements,
disputes, cancellation with coverage, claims, fees, the two withdrawals by call
and by executed proposal, pauses, configuration.  Of governance it leaves out
`SetTreasuryAddress`, which loses the fee balance, and the seats (see its
abstractions).  It instantiates `Archive` for the end of a round and takes its
arithmetic from `SettlementMath`.  Variables are named after the storage keys
they stand for and actions after the entrypoints; a helper of the code that
several entrypoints share (`_accumulate_pending`, `_collect_protocol_fee`,
`_persist_user_outcome`, `_complete_settlement`, ...) is one operator used by
all of them.

`OracleGate` - which reported prices settle a round.  The oracle service makes
reports for the round it sees; every report ever made may be delivered at any
later time and any number of times, to `resolve_round` or
`resolve_round_multi`.  State: the clock (ledgers that may take longer than the
nominal five seconds), the gate's settings, the heartbeat, the two one-shot
overrides, the active round reduced to what the gate reads, consumed nonces
and the ring of settlement prices.  `reported`, `settled` and `arms` are
history.  A rejected call changes nothing, because the host rolls it back, so
the order of the checks does not matter and each entrypoint is one action whose
guard is the conjunction of its checks; the checks both share are `Bound`, and
what both do with an accepted price is `Accept`.  A signature is a flag of the
report.  A report for another network or contract has `here = FALSE`.  The
nonce is modelled although no behaviour depends on it: a consumed nonce belongs
to a round that is never active again.  The runbook's matrix also denies a
fresh but degraded heartbeat in strict mode; the code, and so the model, treats
status 1 like status 0.

The administrative surface is one system in several modules:

* `Contract` - what its parts share: clock, runtime mode, seats, balances, and
  the bounds (`quota`).
* `ConfigTimelock` extends it with the settings, their validators and the
  pending changes; `OracleRotation` with the oracle and the proposed one;
  `Constitution` with the amendments.
* `Governance` extends all three, because an executed proposal writes to the
  state of each, with the proposals, the fee treasury and the insurance fund.
  `execute` has one alternative of `Effect` per action of `GovAction`.
* `Admission` - the access lists, and `mint_initial` with its limits, whose
  epoch counters are temporary entries that lapse.
* `Leaderboard` - statistics, the four indexes, seasons and their pages.
* `Administration` (`MC_Administration`) composes them.  Three variables are
  history: `shownSince` (since when a pending change has been on display),
  `seated` (who ever held a seat) and `minted` (mints since the limit or the
  budget last started anew).  They depend on no guard and no guard on them; the
  properties compare the code's own dates and counters with them.

Abstractions there: that the host authenticates a caller is taken as given, so
an action has the authenticated account as a parameter where it matters; a
ledger lasts one second, so that delays in ledgers and in seconds are one
clock; settings keep their validators and their full ranges, and the payloads
tried are `Offers`; a settlement is a fee collected (`CollectProtocolFee`) and a
result recorded (`UpdateStatsWin`, `UpdateStatsLoss`); what an amendment would
change is left out, because the code stores it and applies it nowhere.

Theorems and their proofs are in modules of their own:

* `SumTheorems` - finite sums, folds, loops over a sequence and two forms of
  induction; no model.
* `SettlementProofs` - the arithmetic of `SettlementMath`.
* `ArchiveProofs` - `Archive`.
* `PayoutProofs` - `PayoutEngine`: the engine, the settlement and its preview.
* `MarketProofs`, `MarketStepProofs` - `Market`: types, round identity, stakes,
  pools and money; then the action properties and the record they leave.
* `OracleGateProofs` - `OracleGate`.
* `AdministrationProofs` - the administrative surface.

An action property of `Market` or `Administration` is a formula about one step
(`SignedByTwo`) and the property that every step obeys it (`DualControl`); the
proofs are about the first.

Abstractions of `Market`, all deliberate:

* A commitment's hash is the price it binds; revealing another price is not
  enabled.  Salts and hash domains are left out.
* Addresses are numbers, because settlement sorts participants and gives the
  remainder of a pot to the first.  The participant list is a set.
* Access control may refuse any call; the model allows them all, so refusals
  are behaviours that do not take the step.
* Which oracle payload is accepted is the business of `OracleGate`; `Market`
  lets any non-zero price settle a round that is over.
* Stored amounts are checked against `I128Max`; intermediate products
  (`stake * pot`) are not.  A product overflow would be an error, that is, a
  step that is not enabled.
* A timelocked key changes in Normal mode only, as `apply_scheduled_changes`
  requires; the delay itself is not modelled, so a change may come at any time.
* Of `governance::execute` `Market` has what moves value or gates it, as actions
  that are possible at any time and in any mode: `execute_withdraw_fee`,
  `execute_withdraw_insurance_fund` (each shared with the direct call, which
  adds the gate), `execute_set_protocol_fee_bps`, and the two mode changes in
  `set_runtime_mode`.  The insurance rates are set under the same gate by
  proposal and by call (`update_config`).  Left to `Governance`: the seats, who
  signs and when a proposal expires, that the direct withdrawals are closed once
  an approver is named, `SetAdmin` and `SetOracle` (here the admin is one
  address), and `SetTreasuryAddress`, so conservation of value is stated for a
  contract in which nobody executes that one.
* Storage TTL, events, and the `legacy-map-settlement` feature (off by
  default) are left out.
* An operator whose name starts with `Fault` is a plausible mistake in the
  operator that follows it.  Nothing refers to it; replacing the operator by it
  must make TLC find the property named in `PROJECT.json` violated.

## Runs

`cd tla; tlc -workers 2 -config <cfg> <module>`.

| Run | Instance | What it shows |
|---|---|---|
| `archive` | 5 rounds, any end order, limits 1..3 | index and summaries stay consistent; a write respects the limit and keeps the summary of its own round, which is listed last when the limit is above one |
| `engine` | up to 3 participants, 3 stakes, 3 guesses, fee rate unset or 10%, band unset or 1 | the scan finds exactly the closest guesses, engine, contract and preview agree, a pot is handed out to the last unit (Up/Down: less than a unit per winner is lost), winners keep their stake under FeeOnWinnings |
| `settle` | 3 users, 1 round of either mode, stakes 10 and 15, early exit at 10%, direct and committed guesses, fee model or payout policy changes | pools match positions, value conserved (Precision: exactly), nobody credited twice, no late stake or guess |
| `dispute` | 2 users, 2 overlapping rounds, window of 2 ledgers that may be switched off | frozen results, no revival, statistics and histories match outcomes |
| `lifecycle` | 2 users, 2 rounds, both modes, 3 runtime modes, template, minimum of 2 participants, retention 1 | type invariant, stakes recoverable (no dispute window), participants match stakes, start ledgers unique |
| `insurance` | 2 users, 1 round of either mode, 3 runtime modes, window of 1 ledger, early exit at 50%, fee split 30%, coverage 40%, expiry 1 ledger, fee 10% or unset, executed proposals | fund never overdrawn, value and coverage conserved, pending winnings go home; in a full pause no round opens, nothing staged or pending moves out, a round ends by cancellation only, and wallets, treasury and fee change by an executed proposal only; outside Normal no stake is added |
| `liveness` | 2 users, 1 Up/Down round, with and without window, Normal and ClaimsOnly | every stake settles, every winning arrives |
| `oracle` | 3 rounds, 3 reports, 3 ledgers of 7 seconds; one feed at the start price, five feeds of which four agree out of band and one is far off; start price or TWAP of 2 samples as reference, quorum of 3 or 5, attestation and confidence required, a heartbeat that lapses, one arming of each override (arming again is covered by `OverridesAreOneShot` only), pauses | a price settles the round it was reported for and no round twice; an arming serves one settlement; the ring holds the latest prices; a majority of feeds brackets the median and a quorum of different sources agrees with it; a late round can still be settled |
| `administration` | 3 accounts, 14 scenarios (see *Bounds*) | with an approver seated, money and the admin key move only by a proposal two seats signed, and executed or cancelled proposals stay so; timelocked settings, the oracle and amendments change only after full notice, and a due change binds; the state stays well typed and every setting inside its validator; faucet limits hold; rankings are exact in every page size and ended seasons keep theirs |

Three disagreements between the code and its documents are kept as runs
that TLC must refute (`expect: violation`):

* `stranded` - finalizing a disputed round deletes a newer active round.  Its
  stakes are then in no live round: not settleable, not cancellable, not
  voidable.  Theorem `StakesNeverStranded` shows the dispute window is needed
  for it.
* `archive_retention` - the prune loop deletes one summary per two index
  entries, so summaries accumulate past the limit.  The same loop shortens the
  index too far, where `STORAGE_DESIGN.md:74` says "one per excess entry": at
  limit 2 the index `[1, 2]` and round 3 give `[3]`; at limit 1 the index `[1]`
  and round 2 give an empty one, and the list of recent rounds is empty right
  after a settlement.
* `paused_governance` - `governance::execute` has no runtime-mode gate: a
  withdrawal approved before a full pause charges the treasury and credits a
  wallet during it, and a fee proposal changes the fee.  `admin.rs`, the
  emergency drill and the operator runbook say that FullyPaused stops
  everything.  `PauseHolds` says what does stop.

Others met while modelling are in the models as the code has them, without a
run of their own:

* `cancel_round` has no runtime-mode gate either, though
  `docs/EMERGENCY_DRILL.md:21` and `admin.rs:907` list it as blocked in a full
  pause; `PauseHolds` states it as the one way a round can then end.
* `set_runtime_mode` lacks the check for an approver that the comment at
  `admin.rs:928-934` claims for all three mode controls, so the admin alone can
  still pause and unpause.
* `commit_prediction` ignores the Precision participant cap of
  `types.rs:84`; only `place_precision_prediction` checks it.
* `resolve_round` checks the heartbeat first without looking at strict mode or
  the override (`settlement.rs:523`), so an armed heartbeat override never helps
  it, only `resolve_round_multi`; `docs/ORACLE_OPERATOR_RUNBOOK.md:331` says it
  always allows.
* A settlement inside the deviation band leaves the deviation override armed
  (`settlement.rs:711`); the runbook (552) says it does not outlive a settlement.
* `resolve_round_multi` measures deviation from the start price even when the
  TWAP is the configured reference (`settlement.rs:1097`), so it can settle at a
  price the single feed could not; its comment (1089) claims the opposite.
* Strict mode rejects a missing confidence only if a minimum
  confidence is set too.
* `get_amendment` stores `Expired` for a pending amendment from the very ledger
  at which it could be activated (`governance.rs:657`), so anybody's read can end
  it; its lifecycle comment says it may be activated after the timelock.
* The governance action `SetTreasuryAddress` stores an address under the key of
  the fee balance (`governance.rs:304`): the balance is lost, and withdrawals
  and every later settlement with a fee trap.
* A fee set by proposal takes effect at once and leaves an older scheduled fee
  pending, which may then overwrite it; a rotation proposed before an executed
  `SetOracle` may likewise still be accepted after it.
* If the admin and the approver are the same account, no proposal can be
  approved until the approver is replaced.
* The epoch counters of the faucet are temporary entries.  An epoch that outlives
  them starts the budget again in mid-epoch.  `FaucetWithinBudget` counts from
  the lapse.
* A denylisted user cannot reveal a commitment or cash out early
  (`betting.rs:653`, `760`), although the stake is already in the round.
* The validators look at one setting at a time: a minimum bet above the maximum
  stake, or a close buffer as long as the betting window, passes.
* `simulate_payout` does not look at the minimum of participants, below which a
  settlement refunds everybody; `PreviewAgrees` is stated for rounds that reach
  it.
* The cursor leaderboards (`queries.rs:833`, exported in `contract.rs`) sort by
  score and find the cursor by address, and rank only the participants of the
  active round, so following `next_cursor` may skip or repeat users;
  `tests/leaderboard.rs:122` expects the next user, and `README.md:593`
  documents offsets.  The lifetime indexes that `Leaderboard` shows to be
  exact are kept up to date but no exported query reads them.
* A page of the Precision cursor query that contains only unrevealed commitments
  returns no cursor and so ends the paging early.

### Bounds

`MaxRounds`, `MaxLedger`, `Amounts`, `Prices`, `Configs`, `MaxEntries`,
`RoundIds`, `Retentions`, `MaxReports`, `MaxArms`, `Quotas` are named constants.  They are chosen so that the
interesting cases happen: stakes 10 and 15 (7 and 10 with insurance) with rates of 10% to 50% make
fees, forfeits, coverage and rounding dust non-zero; two prices give up, down
and unchanged, and guesses that tie and that do not; windows of 1 and 2 ledgers
give a betting, a reveal and a settlement phase and both sides of every
boundary; two rounds are enough for an old and a new one to overlap, and no
action looks at more than two; five archived rounds with a limit down to one
make the prune loop run several passes after the limit is lowered.  In `insurance`
two exits that forfeit half a stake each bring the treasury to one `Amount`, so
that a withdrawal can be executed, and the fund is topped up by one.

The administrative parts are bounded by `Quotas`, a set of scenarios: a
behaviour begins with one of them and may make each kind of call as often as
that scenario says (`Spend`).  The product of all parts would be far out of
reach and mostly independent; each scenario instead combines the parts that
touch the same state: proposals that withdraw while seats change hands, modes
by the admin and by proposal, the timelock with pauses and with a fee set by
proposal, rotations over one another and with an oracle set by proposal,
amendments, lists with mints, the faucet across ledgers and epochs with limits
that change, results over two seasons.  Approving, executing, cancelling,
applying and accepting are not bounded.  Delays are 2 ledgers, a proposal
lives 1 or 2, an epoch is 3 and a temporary entry lives 4 ledgers, and a
scenario has up to 5 ledgers, so that everything comes due, expires and lapses,
in either order with the calls.  Three accounts are two seats and a newcomer,
and one more than the two places on a leaderboard, so that users are cut off and
return.

All runs
set `CHECK_DEADLOCK FALSE`: when the ledgers and calls of the model are used up
and everything is settled, the system may stop.

### Fairness

`LiveSpec` assumes weak fairness of `Tick` (ledgers close), of `resolve_round`
with some price (the operator runbook makes reporting a duty), of
`finalize_round` (anybody may call it and winners want it called) and of
`claim_winnings` per user (the claimant's own interest).  Nobody is obliged to
stake, cancel, void, pause or unpause.  The run stays within Normal and
ClaimsOnly, because FullyPaused for ever stops settlement by design, and
properties exclude rounds whose end lies beyond `MaxLedger`.  Liveness of
Precision rounds is not checked: deciding whether a settlement is enabled
makes TLC evaluate the whole Precision payout in every state.

## Proofs

TLAPS checks these for every value of the constants the named assumptions
allow, so for any number of users, rounds, reports, proposals and ledgers.  The
assumptions (`UsersAssumption`, `AmountsAssumption`, `BoundsAssumption`,
`ConfigAssumption`, `OptionAssumption`, `RetentionAssumption`, `NoneAssumption`;
`EngineAssumption`; `GateAssumption`; `AccountsAssumption`, `TimelockAssumption`, `OffersAssumption`,
`OracleAssumption`, `ChartersAssumption`, `GovActionsAssumption`,
`GovNumbersAssumption`, `FaucetAssumption`, `LimitsAssumption`) say what kind of
value a constant is, that finite sets (users, accounts) are finite and that
`None` is none of the values it stands apart from.  TLC evaluates all of them in the runs.

**Sums and folds** (`SumTheorems`).  The community modules define a sum as a
fold, and a fold as a recursive function on subsets.  The module proves that
such a function exists and is unique on a finite set, then that sums add,
scale, restrict and change term by term as expected.  The library's induction
rules take a predicate, which the provers cannot instantiate;
`FiniteSubsetInduction` and `LeastNatural` take a set instead and are proved
from well-foundedness.  A `FoldLeft` over a sequence is unfolded into a table of
its prefixes, which exists and is computed front to back (`LoopExists`,
`LoopPrefixes`).  Everything about pools, pots, medians and rankings rests on
this.

**Settlement arithmetic** (`SettlementProofs`).  Fee plus rest is the pot and
nothing is negative under either model (`UpdownFeeConserves`,
`PrecisionFeeConserves`); under FeeOnWinnings a winner gets at least the stake
(`WinnerKeepsStake`); the shares of a Precision pot add up to it exactly
(`PrecisionPotHandedOut`) and the Up/Down shares fall short by less than one
unit per winner (`UpdownSharesFit`).  The argument is non-linear arithmetic
about rounding down, broken into lemmas on `\div`, and then the sum lemmas.

**Payout engine** (`PayoutProofs`), for any number of participants, stakes,
guesses, prices, bands and rates up to the whole pot.  The difficulty is in the
loops: the pass that pays a Precision round keeps the winners so far and their
distance, and forgets them when a closer guess turns up.  `ScanIs` unfolds it into
the table of its prefixes and proves by induction that after `k` participants it
holds exactly `Closest(entries, final, k)` and the `Least` distance among them;
`ClosestGrows` is the step.  The preview's loop keeps the winners as a mask and
as a list: `PreviewScanIs` carries in addition that the list `Lists` the mask in
ascending order, which is what makes the n-th listed share the share of the n-th
masked participant (`ListPlaces`, `SharesAreListed`), and its sum the sum over
the winners (`ListSum`).  With the settlement arithmetic this gives
`EngineIsSettlement`, `PreviewIsSettlement`, `BandsOnlyAddWinners`,
`NothingLeftOver` and `WinnersNeverLose`.

**Archive** (`ArchiveProofs`).  `ArchiveSound` (`TypeOK`, `IndexSound`,
`MarkersAgree`) needs a strengthening: only rounds that ended have a summary or
an index entry; without it a second entry of the same id could not be excluded.
`WriteSound` adds the action property `WriteKeepsNewest`: the prune spares the
new entry because under a limit above one two entries per pass never reach the
end of the index (`PruneSplits`).

**Market** (`MarketProofs`, `MarketStepProofs`).  Four layers, each inductive with the ones before it:

1. `TypeOK` (`MarketTyped`), one lemma per action, with the facts about shared
   helpers as lemmas of their own.
2. `RoundIdentity`: it relates `lastRoundId`, the start-ledger map, the active
   round and the staged rounds.  Each step opens a round, changes its pools,
   closes it, stages it or closes a staged one (`RoundSteps`), and the later
   proofs go through these five instead of the entrypoints.
   `StartLedgersUnique` and `RoundsNeverRevive` follow, and
   `StakesNeverStranded` under the assumption that no configuration has a
   dispute window.
3. `StakeInv`: `ParticipantsMatchStakes` (`ParticipantsAreStakers`) is inductive
   only together with facts about keys that a settlement relies on without
   checking them: stakes are positive, a round not yet created has no keys, an
   unrevealed commitment has no prediction beside it, who has an outcome has
   left the round.
4. `MoneyInv`: `PoolsSum`, the pools as sums over all users
   (`PoolsAreStakes`), is what bounds a payout by the pot, and with it
   `BooksSound` is inductive (`NothingOverdrawn`).

From `MoneyInv` the steps: `PausesHold` (each action that never asks for the mode
is shown to do no more than the property allows: `StoppedStep`, with
`ProposalPays` and `CancelIsOpen`), `BettingCloses`, `CreditsHappenOnce`,
`PendingFindsHome`, `DisputesFrozen`, and `ValueIsConserved`, for which every
step is one of six kinds (`MoneySteps`) and the value staked in all rounds is a
sum of sums.  `PastOnRecord` (`RecordsMatchOutcomes`) is an invariant about the
counters and the history that those steps leave.

**Oracle gate** (`OracleGateProofs`).  `GateInv` has the types, what is known of
the active round, that a report carries the start ledger of the round it was made
for, which no later round shares, and that settled rounds are past.  `PricesFindTheirRound` is part of it;
`RoundsNeverStick`, `OverridesAreOneShot` and `RingHoldsLatest` follow.
`QuorumIsReal` counts sources through a bijection with the surviving feeds.
`MedianHolds` proves the insertion sort: inserting at the first larger element
keeps a list sorted and every price in it, and no majority of a sorted list lies
on one side of its middle alone.

**Administration** (`AdministrationProofs`).  `AccessListsNeverOverlap` is
inductive as it stands.  The rest comes from `AdminInv`: types
(`GovTypeOK`, `AdmissionTypeOK`, `SettingsSound`), `DatesHonest` (the
date stored with a pending change or a proposed oracle is the one since which it
has been on display),
`SignaturesSound` (an approved proposal has two different signers that were
seated), `AmendmentsDated` (every amendment was dated by the constitution in
force) and `CountersSound` (the faucet's temporary counters
against the history of mints, also after they lapse).  From it
`SettingsGiveNotice`, `DueChangesTakeEffect`, `OracleGivesNotice`,
`AmendmentsGiveNotice`, `ProposalsKeepTheirFate`, `TwoMustSign` and
`FaucetNeverOverruns`.

The leaderboards have their own invariant, `BoardInv`: every list is `OnTop` of
its statistics (in order, within the limit, only users with a result, and a user
that is left out is outranked by everybody on a full list), and the archive of
every ended season is the entries of such a list (`Frozen`).  A result keeps it
(`UpdateKeepsTop`): taking one user out, sorting the rest in and cutting is
enough only because neither score ever falls (`ScoresNeverFall`) - a user cut off
earlier could otherwise be owed a place the list has forgotten.  `TopIsRanking`
leads from there to the reference definition by counting who outranks whom, and
`PagesCover` joins the pages of any size back into the list.  The results are
`RankingsExact`, `EndedSeasonsNeverChange` and, with `AdminInv`,
`AdministrationTyped`.

Only proved, because the proof says more than a run: `Archive`'s `TypeOK` and
`MarkersAgree`, and `AccessListsDisjoint`.

Only model-checked: liveness and everything that needs `ENABLED`, which the
prover does not support.

## Not modelled, and the plan

Not modelled:

* Oracle committee (`oracle_committee.rs`): bookkeeping of signers and votes
  that no entrypoint calls at this commit.
* Schema migrations: one-shot data moves that never raise the version above the
  current one.  Storage TTL of persistent entries: the host archives and
  restores them outside the contract's control flow.
* The getters that project one stored entry, and the cursor queries (the
  disagreements met there are listed above).
* The collateral adapter: no entrypoint uses it at this commit.
* The replay engine: an offline tool that feeds recorded rounds to
  `settlement_math.rs`, whose arithmetic `PayoutEngine` covers.
* The `legacy-map-settlement` feature, off by default.

Order of what is left:

1. Liveness of two rounds with a cap on pending winnings: claims unblock a
   settlement that the cap held back.
2. An abstract ledger (value per owner, moved but never made) that `Market`
   implements, and refinement of `Market` by a composition with `OracleGate`.
