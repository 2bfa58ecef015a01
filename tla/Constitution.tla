---------------------------- MODULE Constitution -----------------------------
(***************************************************************************)
(* The on-chain constitution (governance.rs): amendments with a veto       *)
(* window and a timelock.  The value an amendment carries is never written *)
(* to a setting, so it is left out.                                        *)
(***************************************************************************)
EXTENDS Contract, Sequences

CONSTANT
  Charters       \* the (veto window, timelock) pairs that may be established

VARIABLES
  constitution,  \* DataKeyExt::ConstitutionMetadata, or None
  amendments     \* DataKeyExt::Amendment; NextAmendmentId is Len + 1

constitutionVars == <<constitution, amendments>>

ConstitutionMetadata == [veto_window_ledgers : Nat, timelock_ledgers : Nat]

Amendment ==
  [proposer : Accounts, created_at_ledger : Nat, veto_deadline_ledger : Nat,
   activation_deadline_ledger : Nat,
   status : {"Pending", "Vetoed", "Activated", "Expired"}]

ASSUME ChartersAssumption == Charters \subseteq ConstitutionMetadata

ConstitutionTypeOK ==
  /\ constitution \in ConstitutionMetadata \cup {None}
  /\ amendments \in Seq(Amendment)

ConstitutionInit == constitution = None /\ amendments = <<>>

(* Once, by the admin. dual_approval_required is stored and read nowhere. *)
establish_constitution(charter) ==
  /\ Spend("amendment")
  /\ constitution = None
  /\ constitution' = charter
  /\ UNCHANGED <<ledger, runtimeMode, seats, balance, amendments>>

(* A timelock counted from the proposal, so that it runs inside the veto   *)
(* window instead of after it.                                             *)
FaultTimelockFromProposal(proposer) ==
  /\ Spend("amendment")
  /\ IsAuthorizedGovUser(proposer)
  /\ constitution # None
  /\ amendments' = Append(amendments,
       [proposer |-> proposer, created_at_ledger |-> ledger,
        veto_deadline_ledger |-> ledger + constitution.veto_window_ledgers,
        activation_deadline_ledger |-> ledger + constitution.timelock_ledgers,
        status |-> "Pending"])
  /\ UNCHANGED <<ledger, runtimeMode, seats, balance, constitution>>

propose_amendment(proposer) ==
  /\ Spend("amendment")
  /\ IsAuthorizedGovUser(proposer)
  /\ constitution # None
  /\ LET veto_deadline == ledger + constitution.veto_window_ledgers
     IN  amendments' = Append(amendments,
           [proposer |-> proposer, created_at_ledger |-> ledger,
            veto_deadline_ledger |-> veto_deadline,
            activation_deadline_ledger |-> veto_deadline + constitution.timelock_ledgers,
            status |-> "Pending"])
  /\ UNCHANGED <<ledger, runtimeMode, seats, balance, constitution>>

SetAmendmentStatus(i, status) ==
  /\ amendments' = [amendments EXCEPT ![i].status = status]
  /\ UNCHANGED <<baseVars, constitution>>

veto_amendment(vetoer, i) ==
  /\ IsAuthorizedGovUser(vetoer)
  /\ ledger <= amendments[i].veto_deadline_ledger
  /\ amendments[i].status = "Pending"
  /\ SetAmendmentStatus(i, "Vetoed")

activate_amendment(activator, i) ==
  /\ IsAuthorizedGovUser(activator)
  /\ ledger > amendments[i].activation_deadline_ledger
  /\ amendments[i].status = "Pending"
  /\ SetAmendmentStatus(i, "Activated")

(* A query, and the only place that stores Expired: it does so from the    *)
(* very ledger at which the amendment could be activated.                  *)
get_amendment(i) ==
  /\ amendments[i].status = "Pending"
  /\ ledger > amendments[i].activation_deadline_ledger
  /\ SetAmendmentStatus(i, "Expired")

ConstitutionNext ==
  \/ \E c \in Charters : establish_constitution(c)
  \/ \E u \in Accounts : propose_amendment(u)
  \/ \E u \in Accounts, i \in DOMAIN amendments :
       veto_amendment(u, i) \/ activate_amendment(u, i)
  \/ \E i \in DOMAIN amendments : get_amendment(i)
=============================================================================
