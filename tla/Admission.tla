------------------------------ MODULE Admission ------------------------------
(***************************************************************************)
(* Who may take part, and how fast new balances appear: the access lists   *)
(* (access_control.rs) and the faucet with its per-ledger limit and its    *)
(* epoch budget (betting.rs).  The faucet's counters live in temporary     *)
(* storage: an entry lapses TEMP_TTL_LEDGERS after it was created, and     *)
(* writing to a live entry does not prolong it.                            *)
(***************************************************************************)
EXTENDS ConfigTimelock

CONSTANTS
  EPOCH_LEDGERS,
  INITIAL_AMOUNT,     \* what a new user is given
  TEMP_TTL_LEDGERS    \* life of a temporary entry, set by the network

VARIABLES
  accessEnabled,      \* DataKeyCore::AccessControlEnabled
  allowlisted,        \* DataKeyScoped::Allowlisted
  denylisted,         \* DataKeyScoped::Denylisted
  ledgerMints,        \* LedgerMintCounter of the latest ledger that has one
  epochKey,           \* EpMintEpc, temporary
  consumedKey         \* EpMintCsm, temporary

accessVars  == <<accessEnabled, allowlisted, denylisted>>
faucetVars  == <<ledgerMints, epochKey, consumedKey>>
admissionVars == <<accessVars, faucetVars>>

TempEntry == [value : Nat, live_until : Nat]

ASSUME FaucetAssumption ==
  /\ EPOCH_LEDGERS \in Nat \ {0} /\ INITIAL_AMOUNT \in Nat \ {0}
  /\ TEMP_TTL_LEDGERS \in Nat \ {0} /\ None \notin TempEntry

AdmissionTypeOK ==
  /\ accessEnabled \in BOOLEAN
  /\ allowlisted \subseteq Accounts /\ denylisted \subseteq Accounts
  /\ ledgerMints \in [ledger : Nat, count : Nat]
  /\ epochKey \in TempEntry \cup {None} /\ consumedKey \in TempEntry \cup {None}

AdmissionInit ==
  /\ accessEnabled = FALSE
  /\ allowlisted = {} /\ denylisted = {}
  /\ ledgerMints = [ledger |-> 0, count |-> 0]
  /\ epochKey = None /\ consumedKey = None

-----------------------------------------------------------------------------
(* Every change of the lists: the admin, unless fully paused. *)
ChangeLists ==
  /\ Spend("access")
  /\ EnsureNotPaused
  /\ UNCHANGED <<ledger, runtimeMode, seats, balance, configVars, faucetVars>>

set_access_control_enabled(enabled) ==
  /\ ChangeLists
  /\ accessEnabled' = enabled
  /\ UNCHANGED <<allowlisted, denylisted>>

add_allowlisted(user) ==
  /\ ChangeLists
  /\ allowlisted' = allowlisted \cup {user}
  /\ denylisted'  = denylisted \ {user}
  /\ UNCHANGED accessEnabled

remove_allowlisted(user) ==
  /\ ChangeLists
  /\ allowlisted' = allowlisted \ {user}
  /\ UNCHANGED <<accessEnabled, denylisted>>

add_denylisted(user) ==
  /\ ChangeLists
  /\ denylisted'  = denylisted \cup {user}
  /\ allowlisted' = allowlisted \ {user}
  /\ UNCHANGED accessEnabled

remove_denylisted(user) ==
  /\ ChangeLists
  /\ denylisted' = denylisted \ {user}
  /\ UNCHANGED <<accessEnabled, allowlisted>>

(* _enforce_access_control: a ban wins, then the allowlist if it is on. *)
Admitted(user) == user \notin denylisted /\ (accessEnabled => user \in allowlisted)

-----------------------------------------------------------------------------
(* Reading and writing a temporary entry. *)
IsLive(entry)         == entry # None /\ ledger <= entry.live_until
ValueOf(entry)        == IF IsLive(entry) THEN entry.value ELSE 0
Written(entry, value) ==
  [value |-> value,
   live_until |-> IF IsLive(entry) THEN entry.live_until ELSE ledger + TEMP_TTL_LEDGERS - 1]

CurrentEpoch == ledger \div EPOCH_LEDGERS

MintsInLedger == IF ledgerMints.ledger = ledger THEN ledgerMints.count ELSE 0

(* The per-ledger limit; 0 turns it off, and mints then go uncounted. *)
CountAgainstLimit ==
  IF config.MintLimit = 0 THEN UNCHANGED ledgerMints
  ELSE /\ MintsInLedger < config.MintLimit
       /\ ledgerMints' = [ledger |-> ledger, count |-> MintsInLedger + 1]

(* A budget that never records which epoch the consumed amount belongs to. *)
FaultEpochNotStored ==
  LET consumed == IF ValueOf(epochKey) = CurrentEpoch THEN ValueOf(consumedKey) ELSE 0
  IN  IF config.EpochMintBudget = 0 THEN UNCHANGED <<epochKey, consumedKey>>
      ELSE /\ consumed + INITIAL_AMOUNT <= config.EpochMintBudget
           /\ consumedKey' = Written(consumedKey, consumed + INITIAL_AMOUNT)
           /\ UNCHANGED epochKey

(* The epoch budget.  A missing epoch entry reads as epoch 0, and the       *)
(* consumed amount counts only if it belongs to the current epoch.          *)
CountAgainstBudget ==
  LET stored   == ValueOf(epochKey)
      consumed == IF stored = CurrentEpoch THEN ValueOf(consumedKey) ELSE 0
  IN  IF config.EpochMintBudget = 0 THEN UNCHANGED <<epochKey, consumedKey>>
      ELSE /\ consumed + INITIAL_AMOUNT <= config.EpochMintBudget
           /\ consumedKey' = Written(consumedKey, consumed + INITIAL_AMOUNT)
           /\ epochKey' = IF stored = CurrentEpoch THEN epochKey
                          ELSE Written(epochKey, CurrentEpoch)

(* Once per user: whoever already has a balance entry, from a mint or from *)
(* a payment, is given nothing.                                            *)
mint_initial(user) ==
  /\ Spend("mint")
  /\ EnsureNormalMode
  /\ Admitted(user)
  /\ balance[user] = None
  /\ CountAgainstLimit
  /\ CountAgainstBudget
  /\ balance' = [balance EXCEPT ![user] = INITIAL_AMOUNT]
  /\ UNCHANGED <<ledger, runtimeMode, seats, configVars, accessVars>>

AdmissionNext ==
  \/ \E b \in BOOLEAN : set_access_control_enabled(b)
  \/ \E u \in Accounts :
       \/ add_allowlisted(u) \/ remove_allowlisted(u)
       \/ add_denylisted(u)  \/ remove_denylisted(u)
       \/ mint_initial(u)
=============================================================================
