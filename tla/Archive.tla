------------------------------- MODULE Archive -------------------------------
(***************************************************************************)
(* The archive of finished rounds: one summary per round, an index of the  *)
(* recent ones in the order they ended, and a marker for cancelled rounds. *)
(* A write that makes the index longer than the retention limit prunes it. *)
(* Summaries are reduced to their status; the rest is copied data.         *)
(***************************************************************************)
EXTENDS Integers, Sequences, FiniteSets

CONSTANTS RoundIds, Retentions, None

ASSUME RetentionAssumption == Retentions \subseteq Nat \ {0}

VARIABLES
  archivedRound,   \* ArchivedRound(id): the status, or None
  cancelledRound,  \* the ids with a CancelledRound(id) marker
  recentArchived,  \* RecentArchivedRoundIds
  retention,       \* ArchiveRetention
  ended            \* the rounds that are over

vars == <<archivedRound, cancelledRound, recentArchived, retention, ended>>

Status == {"Resolved", "Cancelled", "FallbackRefund", "Voided"}

ASSUME NoneAssumption == None \notin Status

TypeOK ==
  /\ archivedRound \in [RoundIds -> Status \cup {None}]
  /\ cancelledRound \subseteq RoundIds
  /\ recentArchived \in Seq(RoundIds)
  /\ retention \in Retentions
  /\ ended \subseteq RoundIds

Init ==
  /\ archivedRound = [id \in RoundIds |-> None]
  /\ cancelledRound = {}
  /\ recentArchived = << >>
  /\ retention \in Retentions
  /\ ended = {}

(* Fault: the loop stops one entry early. *)
FaultOnePassShort(len, limit) == IF len > limit THEN (len - limit) \div 2 ELSE 0

(***************************************************************************)
(* The prune loop.  Each pass forgets the round at the front of the index  *)
(* and then removes the front of the index twice, so k passes consume 2k   *)
(* entries and forget every other one of them.                             *)
(***************************************************************************)
PrunePasses(len, limit) == IF len > limit THEN (len - limit + 1) \div 2 ELSE 0

Pruned(index, limit) ==
  {index[2 * i - 1] : i \in 1 .. PrunePasses(Len(index), limit)}

(* Fault: the index is cut by one entry per pass while the summaries still *)
(* go as if it were two, so the two are cut at different rates.            *)
FaultOneRemoved(index, limit) ==
  SubSeq(index, PrunePasses(Len(index), limit) + 1, Len(index))

Kept(index, limit) ==
  SubSeq(index, 2 * PrunePasses(Len(index), limit) + 1, Len(index))

MarkersAfter(id, status, pruned) ==
  IF status = "Cancelled" THEN (cancelledRound \ pruned) \cup {id}
  ELSE cancelledRound \ pruned

ArchiveRound(id, status) ==
  LET index  == Append(recentArchived, id)
      pruned == Pruned(index, retention)
  IN  /\ archivedRound' = [r \in RoundIds |->
                             IF r \in pruned THEN None
                             ELSE IF r = id THEN status ELSE archivedRound[r]]
      /\ recentArchived' = Kept(index, retention)
      /\ cancelledRound' = MarkersAfter(id, status, pruned)

(* A round reaches its end once; which one ends next is not ordered by id. *)
EndRound(id, status) ==
  /\ id \notin ended
  /\ ended' = ended \cup {id}
  /\ ArchiveRound(id, status)
  /\ UNCHANGED retention

set_archive_retention(limit) ==
  /\ retention' = limit
  /\ UNCHANGED <<archivedRound, cancelledRound, recentArchived, ended>>

Next ==
  \/ \E id \in RoundIds, status \in Status : EndRound(id, status)
  \/ \E limit \in Retentions : set_archive_retention(limit)

Spec == Init /\ [][Next]_vars
-----------------------------------------------------------------------------
Archived == {id \in RoundIds : archivedRound[id] # None}

(* Every entry of the index has a summary behind it and no round is listed *)
(* twice: a page of recent rounds never has a hole or a repetition.        *)
IndexSound ==
  /\ \A i \in 1 .. Len(recentArchived) : archivedRound[recentArchived[i]] # None
  /\ \A i, j \in 1 .. Len(recentArchived) :
       recentArchived[i] = recentArchived[j] => i = j

(* The cancelled marker of a round exists exactly as long as its archived  *)
(* summary says Cancelled: the prune leaves no orphaned marker, and        *)
(* is_round_cancelled and get_archived_round never disagree.               *)
MarkersAgree == cancelledRound = {id \in RoundIds : archivedRound[id] = "Cancelled"}

(* A write to the archive, in _archive_round, leaves the index within the  *)
(* limit, however far that was lowered before, and keeps the summary of    *)
(* the round that has just ended.  The round is also the last entry of the *)
(* index, but only under a limit above one: at limit 1 the second removal  *)
(* of a pass may take it out of the index, which is then empty.            *)
WriteKeepsNewest ==
  [][\A id \in ended' \ ended :
       /\ Len(recentArchived') <= retention
       /\ archivedRound'[id] # None
       /\ retention > 1 => /\ recentArchived' # << >>
                           /\ recentArchived'[Len(recentArchived')] = id]_vars

(* What STORAGE_DESIGN.md says of the prune: the number of summaries never *)
(* exceeds the retention limit after a round has ended.                    *)
SummariesBounded ==
  [][archivedRound' # archivedRound =>
       Cardinality(Archived') <= retention]_vars
=============================================================================
