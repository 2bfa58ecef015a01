------------------------------ MODULE MC_Market ------------------------------
(***************************************************************************)
(* Small instances of the market.  Rates and stakes are chosen so that     *)
(* fees, forfeits, coverage and the dust of a division are all non-zero.   *)
(***************************************************************************)
EXTENDS Market

Base ==
  [windows |-> [bet |-> 1, run |-> 2], closeBuffer |-> 0, minBet |-> None,
   maxStake |-> None, maxExposure |-> None, maxPrecision |-> 3,
   maxPending |-> None, feeBps |-> 1000, feeModel |-> "FeeOnPot",
   payoutPolicy |-> "Equal", disputeLedgers |-> 0, minParticipants |-> None,
   cashoutBps |-> None, expiry |-> 0, splitBps |-> 0, coverageBps |-> 0,
   eligible |-> {}, retention |-> 2, template |-> None]

MCUsers == 1 .. 3
MCPair  == 1 .. 2

(* One round of either mode: the fee model, or the payout policy, changes  *)
(* while it is open.                                                       *)
SettleConfigs ==
  LET c == [Base EXCEPT !.cashoutBps = 1000, !.maxExposure = 15,
                        !.maxStake = 15, !.minBet = 5]
  IN  {c, [c EXCEPT !.feeModel = "FeeOnWinnings"],
       [c EXCEPT !.payoutPolicy = "StakeWeighted"]}

(* Two rounds overlap: one in its dispute window, a newer one open.  The   *)
(* admin may turn the window off meanwhile, but not the staged deadline.   *)
DisputeConfigs ==
  LET c == [Base EXCEPT !.disputeLedgers = 2]
  IN  {c, [c EXCEPT !.disputeLedgers = 0]}

(* Two rounds in a row: templates, cancellation, the refund below the      *)
(* participant minimum, the archive limit, pauses.                         *)
LifecycleConfigs ==
  {[Base EXCEPT !.retention = 1, !.minParticipants = 2,
                !.template = [start_price |-> 2, mode |-> "UpDown"]]}

(* Fees split with the fund, insured cancellations, a dispute window and   *)
(* expiring winnings, all under pauses and executed proposals.  Exits that *)
(* forfeit half a stake make the treasury large enough to pay from.        *)
InsuranceConfigs ==
  LET c == [Base EXCEPT !.cashoutBps = 5000, !.splitBps = 3000, !.expiry = 1,
                        !.coverageBps = 4000, !.eligible = {"OracleFailure"},
                        !.disputeLedgers = 1]
  IN  {c, [c EXCEPT !.feeBps = None]}

(* Liveness: with and without a dispute window. *)
LiveConfigs == {Base, [Base EXCEPT !.disputeLedgers = 1]}
=============================================================================
