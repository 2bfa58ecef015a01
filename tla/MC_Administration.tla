-------------------------- MODULE MC_Administration --------------------------
(***************************************************************************)
(* Small instances of the administrative surface.  Quotas is a set of      *)
(* scenarios: each gives the calls it is about a few turns and the others  *)
(* none, so that a run covers their union and not their product.           *)
(***************************************************************************)
EXTENDS Administration

MCAccounts == 1 .. 3

(* A second value for every setting; for a few an invalid one as well. *)
MCOffers ==
  [Windows |-> {[bet |-> 3, run |-> 9], [bet |-> 9, run |-> 9]}, MaxStake |-> {50, 0},
   MinBet |-> {60}, MaxUserRoundExposure |-> {70}, MaxPendingWinnings |-> {80},
   OracleStaleThreshold |-> {60, 59}, OracleMaxDeviationBps |-> {500},
   OracleTimestampSkew |-> {0}, ProtocolFeeBps |-> {100, 200},
   PendingWinningsExpiry |-> {128},
   FeeModel |-> {"FeeOnWinnings"}, CloseBufferLedgers |-> {2}, MinParticipants |-> {2},
   MaxPrecisionParticipants |-> {3}, PrecisionPayoutPolicy |-> {"StakeWeighted"},
   MintLimit |-> {0, 1, 2}, EpochMintBudget |-> {0, 20}, ArchiveRetention |-> {1},
   DisputeLedgers |-> {5}, EarlyCashoutBps |-> {100},
   InsuranceSplitBps |-> {5000}, InsuranceCoverageBps |-> {10000}]

MCGovActions ==
  {[type |-> "PauseProtocol"], [type |-> "UnpauseProtocol"],
   [type |-> "SetProtocolFeeBps", bps |-> 300],
   [type |-> "WithdrawProtocolFee", recipient |-> 3, amount |-> 2],
   [type |-> "WithdrawInsuranceFund", recipient |-> 3, amount |-> 2],
   [type |-> "SetTreasuryAddress", account |-> 3],
   [type |-> "SetAdmin", account |-> 3], [type |-> "SetOracle", account |-> 3],
   [type |-> "SetInsuranceSplitBps", bps |-> 5000],
   [type |-> "SetInsuranceCoverageBps", bps |-> 10001],
   [type |-> "SetInsuranceCoverageBps", bps |-> 1]}

MCCharters == {[veto_window_ledgers |-> 1, timelock_ledgers |-> 1],
               [veto_window_ledgers |-> 0, timelock_ledgers |-> 1]}

NoCalls == [k \in CallKinds |-> 0]

MCQuotas ==
  { \* proposals that move money and the admin seat, while seats change hands
    [NoCalls EXCEPT !.ledger = 2, !.seat = 2, !.SetAdmin = 1, !.WithdrawProtocolFee = 1],
    [NoCalls EXCEPT !.ledger = 2, !.seat = 1, !.WithdrawInsuranceFund = 2, !.treasury = 1],
    [NoCalls EXCEPT !.seat = 1, !.SetTreasuryAddress = 1, !.WithdrawProtocolFee = 1,
                    !.treasury = 2],
    \* modes and insurance rates, with and without a proposal
    [NoCalls EXCEPT !.seat = 1, !.mode = 1, !.PauseProtocol = 1, !.UnpauseProtocol = 1],
    [NoCalls EXCEPT !.seat = 1, !.mode = 1, !.SetInsuranceSplitBps = 1, !.treasury = 1],
    [NoCalls EXCEPT !.seat = 1, !.setting = 1, !.SetInsuranceCoverageBps = 1],
    \* the timelock, with pauses and with a fee set by proposal
    [NoCalls EXCEPT !.ledger = 4, !.schedule = 2, !.mode = 1],
    [NoCalls EXCEPT !.ledger = 3, !.schedule = 1, !.seat = 1, !.SetProtocolFeeBps = 1],
    \* rotations proposed over one another, and an oracle set by proposal
    [NoCalls EXCEPT !.ledger = 4, !.rotation = 2, !.mode = 1],
    [NoCalls EXCEPT !.ledger = 4, !.rotation = 1, !.seat = 1, !.SetOracle = 1],
    \* amendments
    [NoCalls EXCEPT !.ledger = 4, !.amendment = 3, !.seat = 1],
    \* lists, and a faucet whose limits change across ledgers and epochs
    [NoCalls EXCEPT !.access = 4, !.mint = 3],
    [NoCalls EXCEPT !.ledger = 5, !.mint = 3, !.mintlimit = 2, !.treasury = 1],
    \* results over two seasons
    [NoCalls EXCEPT !.result = 5, !.season = 2] }

(* A withdrawal is proposed and the contract fully paused meanwhile. *)
PauseQuotas == {[NoCalls EXCEPT !.seat = 1, !.mode = 1, !.WithdrawProtocolFee = 1]}
=============================================================================
