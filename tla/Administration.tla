--------------------------- MODULE Administration ----------------------------
(***************************************************************************)
(* The administrative surface as one system: configuration, oracle         *)
(* rotation, constitution, governance, admission and leaderboards act on   *)
(* the same clock, runtime mode, seats, settings and balances.  What the   *)
(* properties need to remember is kept in variables of its own.            *)
(***************************************************************************)
EXTENDS Governance, Admission, Leaderboard

VARIABLES
  shownSince,   \* since which ledger each pending change has been on display
  seated,       \* every account that ever held a seat
  minted        \* mints counted against the limit and the budget in force

historyVars == <<shownSince, seated, minted>>
vars == <<allGovVars, admissionVars, boardVars, historyVars>>

TypeOK ==
  /\ GovTypeOK /\ AdmissionTypeOK /\ BoardTypeOK
  /\ shownSince \in [TimelockedKinds \cup {"Oracle"} -> Nat]
  /\ seated \subseteq Accounts
  /\ minted \in [inLedger : Nat, inEpoch : Nat]

Init ==
  /\ BaseInit /\ ConfigInit /\ RotationInit /\ ConstitutionInit /\ GovInit
  /\ AdmissionInit /\ BoardInit
  /\ shownSince = [k \in TimelockedKinds \cup {"Oracle"} |-> 0]
  /\ seated = {Deployer}
  /\ minted = [inLedger |-> 0, inEpoch |-> 0]

-----------------------------------------------------------------------------
(* History. *)
MintStep ==
  /\ UNCHANGED <<treasury, insuranceFund>>
  /\ \E u \in Accounts : balance[u] = None /\ balance'[u] = INITIAL_AMOUNT

Lapsed(entry, entryNext) == IsLive(entry) /\ entryNext = entry /\ ledger' > entry.live_until

LimitRestarts == ledger' # ledger \/ config'.MintLimit # config.MintLimit

(* A budget starts anew with the epoch, with a new amount, and when the    *)
(* network drops one of the two temporary entries it is kept in.           *)
BudgetRestarts ==
  \/ CurrentEpoch' # CurrentEpoch
  \/ config'.EpochMintBudget # config.EpochMintBudget
  \/ Lapsed(epochKey, epochKey') \/ Lapsed(consumedKey, consumedKey')

Remember ==
  /\ shownSince' = [k \in DOMAIN shownSince |->
       LET same == IF k = "Oracle" THEN rotation' = rotation
                   ELSE pendingConfig'[k] = pendingConfig[k]
       IN  IF same THEN shownSince[k] ELSE ledger]
  /\ seated' = seated \cup {admin'} \cup ({govApprover'} \ {None})
  /\ LET n == IF MintStep THEN 1 ELSE 0
     IN  minted' = [inLedger |-> IF LimitRestarts THEN 0 ELSE minted.inLedger + n,
                    inEpoch  |-> IF BudgetRestarts THEN 0 ELSE minted.inEpoch + n]

Calls ==
  \/ GovNext       /\ UNCHANGED <<admissionVars, boardVars>>
  \/ AdmissionNext /\ UNCHANGED <<rotationVars, constitutionVars, govVars, boardVars>>
  \/ BoardNext     /\ UNCHANGED <<configVars, rotationVars, constitutionVars, govVars,
                                  admissionVars>>

Next == Calls /\ Remember

Spec == Init /\ [][Next]_vars

-----------------------------------------------------------------------------
(* What a step may do is a formula of its own; the property after it says  *)
(* that every step of the specification obeys it.                          *)

(* Governance *)

(* This step executes an approved proposal for an action of type t. *)
Executes(t, Authorised(_)) ==
  \E i \in DOMAIN proposals :
    /\ proposals[i].status = "Approved" /\ proposals'[i].status = "Executed"
    /\ proposals[i].action.type = t /\ Authorised(proposals[i].action)
    /\ proposals[i].proposer # proposals[i].approver
    /\ {proposals[i].proposer, proposals[i].approver} \subseteq seated

(* The recipient the action names is paid exactly what left the pot. *)
Pays(a, before, after) ==
  /\ a.amount = before - after
  /\ balance' = [balance EXCEPT ![a.recipient] = BalanceOf(a.recipient) + a.amount]

SignedByTwo ==
  GovApproverSet =>
    /\ admin' # admin => Executes("SetAdmin", LAMBDA a : a.account = admin')
    /\ (treasury \in Nat /\ treasury' \in Nat /\ treasury' < treasury) =>
         Executes("WithdrawProtocolFee", LAMBDA a : Pays(a, treasury, treasury'))
    /\ insuranceFund' < insuranceFund =>
         Executes("WithdrawInsuranceFund", LAMBDA a : Pays(a, insuranceFund, insuranceFund'))

(* While an approver is configured, the admin key changes hands, and money *)
(* leaves the fee treasury or the insurance fund, only by executing a      *)
(* proposal for exactly that, signed by two different accounts that each   *)
(* held a seat, and each proposal does so once (governance::execute; the   *)
(* direct withdrawals are closed by _is_gov_approver_set).                 *)
DualControl == [][SignedByTwo]_vars

KeepsProposals ==
  \A i \in DOMAIN proposals :
    /\ i \in DOMAIN proposals'
    /\ proposals[i].status \in {"Executed", "Cancelled"} => proposals'[i] = proposals[i]
    /\ proposals'[i].action = proposals[i].action
    /\ proposals'[i].proposer = proposals[i].proposer
    /\ proposals'[i].status = "Executed" =>
         proposals[i].status = "Executed" \/ ledger <= proposals[i].expires_at_ledger

(* A proposal that was executed or cancelled stays so, and what was        *)
(* proposed, by whom and until when never changes afterwards, whoever      *)
(* takes the seats (governance::propose, approve, execute, cancel).        *)
ProposalsFinal == [][KeepsProposals]_vars

(* What the emergency drill and the mode matrix in admin.rs say of a full  *)
(* pause: it rejects every mutating operation, so that no money moves and  *)
(* no setting changes.  execute of an approved proposal asks for no mode.  *)
PauseFreezesAll ==
  [][runtimeMode = "FullyPaused" =>
       UNCHANGED <<balance, treasury, insuranceFund, config>>]_vars

-----------------------------------------------------------------------------
(* Notice *)

GivesConfigNotice ==
  \A k \in TimelockedKinds : config'[k] # config[k] =>
    \/ /\ pendingConfig[k] # None
       /\ pendingConfig[k].payload = config'[k]
       /\ ledger - shownSince[k] >= CONFIG_TIMELOCK_LEDGERS
    \/ /\ k = "ProtocolFeeBps"
       /\ Executes("SetProtocolFeeBps", LAMBDA a : a.bps = config'[k])

(* A timelocked setting changes only to the payload that has been on       *)
(* display, unaltered, for the whole delay, whatever was scheduled,        *)
(* cancelled or paused meanwhile; the fee may also be set by an executed   *)
(* proposal (_schedule_config_change, apply_scheduled_changes, execute).   *)
ConfigNotice == [][GivesConfigNotice]_vars

BindsDueChange ==
  \A k \in TimelockedKinds :
    LET p == pendingConfig[k]
    IN  (/\ p # None /\ pendingConfig'[k] # p
         /\ ledger >= p.scheduled_at_ledger + CONFIG_TIMELOCK_LEDGERS)
        => pendingConfig'[k] = None /\ config'[k] = p.payload

(* A change that is due can no longer be withdrawn or replaced: the next   *)
(* thing that happens to it is that it takes effect, however late          *)
(* (cancel_config_change, apply_scheduled_changes).                        *)
DueChangeBinds == [][BindsDueChange]_vars

GivesOracleNotice ==
  oracle' # oracle =>
    \/ /\ rotation # None
       /\ rotation.new_oracle = oracle'
       /\ ledger - shownSince["Oracle"] >= MIN_ROTATION_DELAY_SECONDS
    \/ Executes("SetOracle", LAMBDA a : a.account = oracle')

(* The oracle is replaced only by the account that has been on display for *)
(* the whole rotation delay, even if one rotation was proposed over        *)
(* another, or by an executed proposal (accept_oracle_rotation, execute).  *)
OracleNotice == [][GivesOracleNotice]_vars

GivesAmendmentNotice ==
  \A i \in DOMAIN amendments :
    amendments'[i].status # amendments[i].status =>
      /\ amendments[i].status = "Pending"
      /\ amendments'[i].status = "Activated" =>
           ledger > amendments[i].created_at_ledger
                      + constitution.veto_window_ledgers + constitution.timelock_ledgers

(* An amendment is activated only after its veto window and then its       *)
(* timelock have passed in full, and one that was vetoed, activated or     *)
(* found expired stays so (veto_amendment, activate_amendment).            *)
AmendmentNotice == [][GivesAmendmentNotice]_vars

-----------------------------------------------------------------------------
(* Admission *)

(* No account is on both lists, in whatever order it was added and removed *)
(* (add_allowlisted and add_denylisted clear the other marker).            *)
AccessListsDisjoint == allowlisted \cap denylisted = {}

(* Within a ledger, and while the limit stays the same, no more users are  *)
(* minted for than it allows (mint_initial, LedgerMintCounter).            *)
FaucetWithinLimit == config.MintLimit > 0 => minted.inLedger <= config.MintLimit

(* Within an epoch no more is minted than the budget, while the budget     *)
(* stays the same and the network drops neither counter (mint_initial).    *)
FaucetWithinBudget ==
  config.EpochMintBudget > 0 => minted.inEpoch * INITIAL_AMOUNT <= config.EpochMintBudget

(* Neither bound on the faucet is exceeded, in whatever order mints,       *)
(* ledgers, epochs and changes of the bounds come.                         *)
FaucetBounded == FaucetWithinLimit /\ FaucetWithinBudget

-----------------------------------------------------------------------------
(* Leaderboards *)

(* The reference: the LEADERBOARD_LIMIT best of the users with statistics, *)
(* each in the place given by how many outrank it.                         *)
IsRanking(entries, stats, metric) ==
  LET users == {u \in Accounts : stats[u] # None}
      place(u) == 1 + Cardinality({v \in users : Outranks(stats, metric, v, u)})
      best == {u \in users : place(u) <= LEADERBOARD_LIMIT}
  IN  /\ Len(entries) = Cardinality(best)
      /\ \A u \in best : entries[place(u)].user = u

(* A season's list as a client reads it, n entries at a time. *)
Read(metric, season, n) ==
  FlattenSeq([k \in 1 .. LEADERBOARD_LIMIT |->
                GetSeasonLeaderboard(metric, season, (k - 1) * n, n)])

(* The lifetime lists and the active season's, read in pages of any size,  *)
(* are exactly the best users in order, although a result only moves one   *)
(* user and a user that was cut off may return (_update_leaderboards,      *)
(* _update_season_leaderboards, get_season_leaderboard_by_wins).           *)
RankingExact ==
  \A m \in Metrics :
    /\ IsRanking([i \in DOMAIN index[m] |-> [user |-> index[m][i]]], userStats, m)
    /\ \A n \in 1 .. MAX_PAGE_SIZE :
         IsRanking(Read(m, SeasonId, n), seasonStats[SeasonId], m)

(* An ended season still reads as the final ranking and scores of that     *)
(* season, whatever was played since and in pages of any size              *)
(* (reset_leaderboard_season, get_season_leaderboard_by_wins, _by_streak). *)
EndedSeasonsKept ==
  \A s \in 1 .. SeasonId - 1, m \in Metrics, n \in 1 .. MAX_PAGE_SIZE :
    LET served == Read(m, s, n)
    IN  /\ IsRanking(served, seasonStats[s], m)
        /\ \A i \in DOMAIN served : served[i] = Entry(seasonStats[s], served[i].user)
=============================================================================
