----------------------------- MODULE Governance ------------------------------
(***************************************************************************)
(* Dual-approval governance (governance.rs) over what it controls: runtime *)
(* mode, fee, admin and oracle addresses, the fee treasury and the         *)
(* insurance fund.  One seat proposes, the other approves, either one      *)
(* executes, all before the proposal's expiry.                             *)
(***************************************************************************)
EXTENDS ConfigTimelock, OracleRotation, Constitution, FiniteSetsExt

CONSTANTS
  GovActions,        \* the actions that are proposed
  DEFAULT_GOV_PROPOSAL_TTL_LEDGERS,
  ProposalTtls,      \* custom_ttl, and the defaults the admin tries to set
  Amounts,           \* amounts withdrawn or accrued
  FeesAtStart,       \* treasury and fund when the behaviour starts
  AnAddress          \* what SetTreasuryAddress stores under the fee key

VARIABLES
  proposals,         \* DataKeyScoped::GovProposal; NextGovProposalId is Len + 1
  proposalTtl,       \* DataKeyCore::GovProposalTtlLedgers
  treasury,          \* DataKeyCore::ProtocolFeeTreasury
  insuranceFund      \* the insurance fund's balance

govVars == <<proposals, proposalTtl, treasury, insuranceFund>>
allGovVars == <<baseVars, configVars, rotationVars, constitutionVars, govVars>>

GovProposal ==
  [proposer : Accounts, approver : Accounts \cup {None}, action : GovActions,
   created_at_ledger : Nat, expires_at_ledger : Nat,
   status : {"Pending", "Approved", "Executed", "Cancelled"}]

ASSUME GovActionsAssumption ==
  \A a \in GovActions :
    /\ a.type \in GovActionTypes
    /\ a.type \in {"SetAdmin", "SetOracle"} => a.account \in Accounts
    /\ a.type \in {"WithdrawProtocolFee", "WithdrawInsuranceFund"} =>
         a.recipient \in Accounts /\ a.amount \in Int
    /\ a.type \in {"SetInsuranceSplitBps", "SetInsuranceCoverageBps"} => a.bps \in Nat
ASSUME GovNumbersAssumption ==
  /\ DEFAULT_GOV_PROPOSAL_TTL_LEDGERS \in Nat \ {0}
  /\ ProposalTtls \subseteq Nat /\ Amounts \subseteq Nat
  /\ FeesAtStart \in Nat /\ AnAddress \notin Nat

GovTypeOK ==
  /\ BaseTypeOK /\ ConfigTypeOK /\ RotationTypeOK /\ ConstitutionTypeOK
  /\ proposals \in Seq(GovProposal)
  /\ proposalTtl \in Nat \ {0}
  /\ treasury \in Nat \cup {AnAddress}
  /\ insuranceFund \in Nat

GovInit ==
  /\ proposals = <<>>
  /\ proposalTtl = DEFAULT_GOV_PROPOSAL_TTL_LEDGERS
  /\ treasury = FeesAtStart
  /\ insuranceFund = FeesAtStart

-----------------------------------------------------------------------------
(* Calls that leave everything outside governance's own state alone. *)
OnlyProposals == UNCHANGED <<configVars, rotationVars, constitutionVars,
                             ledger, runtimeMode, seats, balance, treasury, insuranceFund>>

set_gov_proposal_ttl(ttl) ==
  /\ Spend("seat")
  /\ ttl > 0
  /\ proposalTtl' = ttl
  /\ UNCHANGED proposals
  /\ OnlyProposals

propose(proposer, action, custom_ttl) ==
  /\ Spend(action.type)
  /\ IsAuthorizedGovUser(proposer)
  /\ LET ttl == IF custom_ttl = None THEN proposalTtl ELSE custom_ttl
     IN  proposals' = Append(proposals,
           [proposer |-> proposer, approver |-> None, action |-> action,
            created_at_ledger |-> ledger, expires_at_ledger |-> ledger + ttl,
            status |-> "Pending"])
  /\ UNCHANGED proposalTtl
  /\ OnlyProposals

Live(p) == ledger <= p.expires_at_ledger

(* An approval that the proposer may give. *)
FaultApprovesOwn(user, i) ==
  /\ IsAuthorizedGovUser(user)
  /\ Live(proposals[i])
  /\ proposals[i].status = "Pending"
  /\ proposals' = [proposals EXCEPT ![i].approver = user, ![i].status = "Approved"]
  /\ UNCHANGED <<proposalTtl, quota>>
  /\ OnlyProposals

(* An expired proposal is refused; the Expired status written on that path *)
(* is rolled back with the call.                                           *)
approve(user, i) ==
  /\ IsAuthorizedGovUser(user)
  /\ Live(proposals[i])
  /\ proposals[i].status = "Pending"
  /\ proposals[i].proposer # user
  /\ proposals' = [proposals EXCEPT ![i].approver = user, ![i].status = "Approved"]
  /\ UNCHANGED <<proposalTtl, quota>>
  /\ OnlyProposals

(* A cancellation that also takes back an executed proposal. *)
FaultCancelsExecuted(user, i) ==
  /\ IsAuthorizedGovUser(user)
  /\ proposals[i].status # "Cancelled"
  /\ proposals' = [proposals EXCEPT ![i].status = "Cancelled"]
  /\ UNCHANGED <<proposalTtl, quota>>
  /\ OnlyProposals

(* Either seat, also after the expiry. *)
cancel(user, i) ==
  /\ IsAuthorizedGovUser(user)
  /\ proposals[i].status \notin {"Executed", "Cancelled"}
  /\ proposals' = [proposals EXCEPT ![i].status = "Cancelled"]
  /\ UNCHANGED <<proposalTtl, quota>>
  /\ OnlyProposals

-----------------------------------------------------------------------------
(* The effect of each action on the state it controls. *)
KeepsMoney  == UNCHANGED <<treasury, insuranceFund, balance>>
KeepsPolicy == UNCHANGED <<runtimeMode, config, oracle, admin>>

SetMode(mode) ==
  /\ runtimeMode' = mode
  /\ KeepsMoney /\ UNCHANGED <<config, oracle, admin>>

(* Bypasses the timelock, and leaves a pending fee change in place. *)
SetFee(bps) ==
  /\ ApplyPayload("ProtocolFeeBps", bps)
  /\ KeepsMoney /\ UNCHANGED <<runtimeMode, oracle, admin>>

SetInsurance(kind, bps, limit) ==
  /\ EnsureNotPaused
  /\ bps <= limit
  /\ config' = [config EXCEPT ![kind] = bps]
  /\ KeepsMoney /\ UNCHANGED <<runtimeMode, oracle, admin>>

(* A key that holds an address cannot be read as a balance: the call traps. *)
WithdrawFee(recipient, amount) ==
  /\ treasury # AnAddress
  /\ amount > 0 /\ amount <= treasury
  /\ treasury' = treasury - amount
  /\ Credit(recipient, amount)
  /\ UNCHANGED insuranceFund

(* A withdrawal that is not checked against what is there. *)
FaultOverdraws(recipient, amount) ==
  /\ amount > 0
  /\ insuranceFund' = insuranceFund - amount
  /\ Credit(recipient, amount)
  /\ UNCHANGED treasury

WithdrawFund(recipient, amount) ==
  /\ amount > 0 /\ amount <= insuranceFund
  /\ insuranceFund' = insuranceFund - amount
  /\ Credit(recipient, amount)
  /\ UNCHANGED treasury

(* Stores an address under the key of the fee balance, which is lost. *)
SetTreasuryAddress ==
  /\ treasury' = AnAddress
  /\ KeepsPolicy /\ UNCHANGED <<insuranceFund, balance>>

Effect(a) ==
  \/ a.type = "PauseProtocol"         /\ SetMode("FullyPaused")
  \/ a.type = "UnpauseProtocol"       /\ SetMode("Normal")
  \/ a.type = "SetProtocolFeeBps"     /\ SetFee(a.bps)
  \/ a.type = "WithdrawProtocolFee"   /\ WithdrawFee(a.recipient, a.amount) /\ KeepsPolicy
  \/ a.type = "WithdrawInsuranceFund" /\ WithdrawFund(a.recipient, a.amount) /\ KeepsPolicy
  \/ a.type = "SetTreasuryAddress"    /\ SetTreasuryAddress
  \/ a.type = "SetAdmin"  /\ admin' = a.account  /\ KeepsMoney
     /\ UNCHANGED <<runtimeMode, config, oracle>>
  \/ a.type = "SetOracle" /\ oracle' = a.account /\ KeepsMoney
     /\ UNCHANGED <<runtimeMode, config, admin>>
  \/ a.type = "SetInsuranceSplitBps"    /\ SetInsurance("InsuranceSplitBps", a.bps, 5000)
  \/ a.type = "SetInsuranceCoverageBps" /\ SetInsurance("InsuranceCoverageBps", a.bps, 10000)

(* Open to either seat, not only to one that signed, in every mode.  The   *)
(* two insurance settings also need the admin's own signature on the call. *)
execute(user, i) ==
  /\ IsAuthorizedGovUser(user)
  /\ Live(proposals[i])
  /\ proposals[i].status = "Approved"
  /\ Effect(proposals[i].action)
  /\ proposals' = [proposals EXCEPT ![i].status = "Executed"]
  /\ UNCHANGED <<ledger, govApprover, quota, pendingConfig, rotation,
                 constitutionVars, proposalTtl>>

-----------------------------------------------------------------------------
(* Money moved without a proposal. *)
OnlyMoney == UNCHANGED <<configVars, rotationVars, constitutionVars, proposals,
                         proposalTtl, ledger, runtimeMode, seats>>

(* The admin's direct withdrawals, closed once there is an approver. *)
withdraw_protocol_fee(recipient, amount) ==
  /\ Spend("treasury")
  /\ ~GovApproverSet
  /\ EnsureNotPaused
  /\ WithdrawFee(recipient, amount)
  /\ OnlyMoney

withdraw_insurance_fund(recipient, amount) ==
  /\ Spend("treasury")
  /\ ~GovApproverSet
  /\ EnsureNotPaused
  /\ WithdrawFund(recipient, amount)
  /\ OnlyMoney

(* A settlement's fee, split between the fund and the treasury; the        *)
(* settlement traps once the treasury's key holds an address.              *)
CollectProtocolFee(fee) ==
  /\ Spend("treasury")
  /\ EnsureNotPaused
  /\ treasury # AnAddress /\ fee > 0
  /\ LET share == (fee * config.InsuranceSplitBps) \div 10000
     IN  /\ insuranceFund' = insuranceFund + share
         /\ treasury' = treasury + (fee - share)
  /\ UNCHANGED balance
  /\ OnlyMoney

OwnNext ==
  \/ \E t \in ProposalTtls : set_gov_proposal_ttl(t)
  \/ \E u \in Accounts, a \in GovActions, t \in ProposalTtls \cup {None} : propose(u, a, t)
  \/ \E u \in Accounts, i \in DOMAIN proposals :
       approve(u, i) \/ execute(u, i) \/ cancel(u, i)
  \/ \E u \in Accounts, n \in Amounts :
       withdraw_protocol_fee(u, n) \/ withdraw_insurance_fund(u, n)
  \/ \E n \in Amounts : CollectProtocolFee(n)

GovNext ==
  \/ OwnNext
  \/ BaseNext         /\ UNCHANGED <<configVars, rotationVars, constitutionVars, govVars>>
  \/ ConfigNext       /\ UNCHANGED <<rotationVars, constitutionVars, govVars>>
  \/ RotationNext     /\ UNCHANGED <<configVars, constitutionVars, govVars>>
  \/ ConstitutionNext /\ UNCHANGED <<configVars, rotationVars, govVars>>
=============================================================================
