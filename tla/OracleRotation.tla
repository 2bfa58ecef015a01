--------------------------- MODULE OracleRotation ----------------------------
(***************************************************************************)
(* The two-step replacement of the oracle address (contract.rs): the admin *)
(* proposes, anybody accepts after a delay and before the expiry.          *)
(***************************************************************************)
EXTENDS Contract

CONSTANTS
  FirstOracle,                 \* the oracle given to initialize
  MIN_ROTATION_DELAY_SECONDS,
  RotationExpiries             \* the expires_in_seconds tried

VARIABLES
  oracle,     \* DataKeyCore::Oracle
  rotation    \* DataKeyCore::OracleRotationProposal, or None

rotationVars == <<oracle, rotation>>

OracleRotationProposal == [new_oracle : Accounts, proposed_at : Nat, expires_at : Nat]

ASSUME OracleAssumption ==
  /\ FirstOracle \in Accounts \ {Deployer}
  /\ MIN_ROTATION_DELAY_SECONDS \in Nat \ {0} /\ RotationExpiries \subseteq Nat

RotationTypeOK ==
  /\ oracle \in Accounts
  /\ rotation \in OracleRotationProposal \cup {None}

(* initialize refuses an oracle that is the admin; nothing later does. *)
RotationInit == oracle = FirstOracle /\ rotation = None

(* A second proposal that keeps the date of the one it replaces. *)
FaultKeepsProposedAt(new_oracle, expires_in) ==
  /\ Spend("rotation")
  /\ EnsureNotPaused
  /\ expires_in >= MIN_ROTATION_DELAY_SECONDS
  /\ rotation' = [new_oracle  |-> new_oracle,
                  proposed_at |-> IF rotation = None THEN Timestamp ELSE rotation.proposed_at,
                  expires_at  |-> Timestamp + expires_in]
  /\ UNCHANGED <<ledger, runtimeMode, seats, balance, oracle>>

(* Overwrites a pending proposal. *)
propose_oracle_rotation(new_oracle, expires_in) ==
  /\ Spend("rotation")
  /\ EnsureNotPaused
  /\ expires_in >= MIN_ROTATION_DELAY_SECONDS
  /\ rotation' = [new_oracle  |-> new_oracle,
                  proposed_at |-> Timestamp,
                  expires_at  |-> Timestamp + expires_in]
  /\ UNCHANGED <<ledger, runtimeMode, seats, balance, oracle>>

(* The removal of an expired proposal is undone with the failed call. *)
accept_oracle_rotation ==
  /\ EnsureNotPaused
  /\ rotation # None
  /\ Timestamp >= rotation.proposed_at + MIN_ROTATION_DELAY_SECONDS
  /\ Timestamp <= rotation.expires_at
  /\ oracle' = rotation.new_oracle
  /\ rotation' = None
  /\ UNCHANGED baseVars

cancel_oracle_rotation ==
  /\ EnsureNotPaused
  /\ rotation # None
  /\ rotation' = None
  /\ UNCHANGED <<baseVars, oracle>>

(* A query that removes what it finds expired. *)
get_oracle_rotation_proposal ==
  /\ rotation # None
  /\ Timestamp > rotation.expires_at
  /\ rotation' = None
  /\ UNCHANGED <<baseVars, oracle>>

RotationNext ==
  \/ \E o \in Accounts, s \in RotationExpiries : propose_oracle_rotation(o, s)
  \/ accept_oracle_rotation
  \/ cancel_oracle_rotation
  \/ get_oracle_rotation_proposal
=============================================================================
