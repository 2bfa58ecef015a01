------------------------------ MODULE Contract -------------------------------
(***************************************************************************)
(* What every administrative component of the contract shares: the ledger  *)
(* clock, the runtime mode, the two seats (admin and governance approver)  *)
(* and the vXLM balances.  A transaction runs alone and either commits or  *)
(* is rolled back, so a rejected call is an action that is not enabled.    *)
(*                                                                         *)
(* The storage schema never disables a call here: initialize stores the    *)
(* current version and no migration goes above it.                         *)
(***************************************************************************)
EXTENDS Integers, FiniteSets

CONSTANTS
  None,        \* an absent storage entry
  Accounts,    \* addresses, ordered as integers
  Deployer,    \* the admin given to initialize
  Quotas       \* bounds: how often each kind of call may still happen

VARIABLES
  ledger,       \* env.ledger().sequence()
  runtimeMode,  \* DataKeyCore::Paused
  admin,        \* DataKeyCore::Admin
  govApprover,  \* DataKeyCore::GovApprover, or None
  balance,      \* DataKeyScoped::Balance, None where there is no entry
  quota         \* the bounds of this behaviour that are not used up

seats    == <<admin, govApprover>>
baseVars == <<ledger, runtimeMode, admin, govApprover, balance, quota>>

RuntimeModes == {"Normal", "ClaimsOnly", "FullyPaused"}

GovActionTypes ==
  {"PauseProtocol", "UnpauseProtocol", "SetProtocolFeeBps", "WithdrawProtocolFee",
   "SetTreasuryAddress", "SetAdmin", "SetOracle", "WithdrawInsuranceFund",
   "SetInsuranceSplitBps", "SetInsuranceCoverageBps"}

(* The kinds of calls that are bounded; proposals by the action proposed. *)
CallKinds ==
  {"ledger", "mode", "seat", "schedule", "setting", "treasury", "amendment",
   "rotation", "access", "mintlimit", "mint", "result", "season"} \cup GovActionTypes

ASSUME AccountsAssumption ==
  /\ Accounts \subseteq Nat /\ IsFiniteSet(Accounts)
  /\ Deployer \in Accounts /\ None \notin Nat
ASSUME QuotasAssumption   == Quotas \subseteq [CallKinds -> Nat]

BaseTypeOK ==
  /\ ledger \in Nat
  /\ runtimeMode \in RuntimeModes
  /\ admin \in Accounts
  /\ govApprover \in Accounts \cup {None}
  /\ balance \in [Accounts -> Nat \cup {None}]
  /\ quota \in [CallKinds -> Nat]

(* A call of this kind is made: one fewer may follow. *)
Spend(kind) ==
  /\ quota[kind] > 0
  /\ quota' = [quota EXCEPT ![kind] = @ - 1]

EnsureNotPaused  == runtimeMode # "FullyPaused"
EnsureNormalMode == runtimeMode = "Normal"

(* env.ledger().timestamp(): one second to a ledger, for delays in seconds. *)
Timestamp == ledger

BalanceOf(user) == IF balance[user] = None THEN 0 ELSE balance[user]

Credit(user, amount) == balance' = [balance EXCEPT ![user] = BalanceOf(user) + amount]

-----------------------------------------------------------------------------
BaseInit ==
  /\ ledger = 0
  /\ runtimeMode = "Normal"
  /\ admin = Deployer
  /\ govApprover = None
  /\ balance = [u \in Accounts |-> None]
  /\ quota \in Quotas

Tick ==
  /\ Spend("ledger")
  /\ ledger' = ledger + 1
  /\ UNCHANGED <<runtimeMode, seats, balance>>

GovApproverSet == govApprover # None

IsAuthorizedGovUser(user) == user \in {admin, govApprover}

(* The admin alone names, and later replaces, the second seat; there is no *)
(* way to remove it.                                                       *)
set_gov_approver(user) ==
  /\ Spend("seat")
  /\ govApprover' = user
  /\ UNCHANGED <<ledger, runtimeMode, admin, balance>>

(* pause_contract and unpause_contract, closed to the admin alone once     *)
(* there is an approver.                                                   *)
pause_contract ==
  /\ Spend("mode")
  /\ ~GovApproverSet
  /\ runtimeMode' = "FullyPaused"
  /\ UNCHANGED <<ledger, seats, balance>>

unpause_contract ==
  /\ Spend("mode")
  /\ ~GovApproverSet
  /\ runtimeMode' = "Normal"
  /\ UNCHANGED <<ledger, seats, balance>>

(* The third mode control does not look at the approver. *)
set_runtime_mode(mode) ==
  /\ Spend("mode")
  /\ runtimeMode' = mode
  /\ UNCHANGED <<ledger, seats, balance>>

BaseNext ==
  \/ Tick
  \/ \E u \in Accounts : set_gov_approver(u)
  \/ pause_contract
  \/ unpause_contract
  \/ \E m \in RuntimeModes : set_runtime_mode(m)
=============================================================================
