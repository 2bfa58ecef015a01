----------------------------- MODULE Leaderboard -----------------------------
(***************************************************************************)
(* Lifetime and season rankings (leaderboard.rs, and the statistics of     *)
(* settlement.rs that feed them).  Four bounded indexes are kept by taking *)
(* the user out, putting it back in order and cutting the list; a reset    *)
(* freezes the season's two into an archive.                               *)
(***************************************************************************)
EXTENDS Contract, SequencesExt

CONSTANTS
  LEADERBOARD_LIMIT,
  MAX_PAGE_SIZE

VARIABLES
  userStats,     \* DataKeyScoped::UserStats, lifetime
  seasonStats,   \* SeasonUserStats(season, user), by season
  index,         \* the lifetime indexes, by metric
  seasonIndex,   \* the active season's indexes, by metric
  seasonArchive  \* SeasonArchive(season) of the seasons that ended

boardVars == <<userStats, seasonStats, index, seasonIndex, seasonArchive>>

Metrics == {"total_wins", "best_streak"}

UserStats == [total_wins : Nat, total_losses : Nat, current_streak : Nat, best_streak : Nat]

NoStats == [total_wins |-> 0, total_losses |-> 0, current_streak |-> 0, best_streak |-> 0]

(* SeasonId: 1 at first, one more with every reset. *)
SeasonId == Len(seasonStats)

ASSUME LimitsAssumption ==
  /\ LEADERBOARD_LIMIT \in Nat \ {0} /\ MAX_PAGE_SIZE \in Nat \ {0}
  /\ None \notin UserStats

SeasonLeaderboardEntry == [user : Accounts, wins : Nat, best_streak : Nat]

SeasonArchive ==
  [ended_at_ledger : Nat, rankings : [Metrics -> Seq(SeasonLeaderboardEntry)],
   participant_count : Nat]

BoardTypeOK ==
  /\ userStats \in [Accounts -> UserStats \cup {None}]
  /\ seasonStats \in Seq([Accounts -> UserStats \cup {None}])
  /\ index \in [Metrics -> Seq(Accounts)]
  /\ seasonIndex \in [Metrics -> Seq(Accounts)]
  /\ seasonArchive \in Seq(SeasonArchive)

NoEntries == [u \in Accounts |-> None]
EmptyIndex == [m \in Metrics |-> <<>>]

BoardInit ==
  /\ userStats = NoEntries
  /\ seasonStats = <<NoEntries>>
  /\ index = EmptyIndex
  /\ seasonIndex = EmptyIndex
  /\ seasonArchive = <<>>

-----------------------------------------------------------------------------
StatsOf(stats, user) == IF stats[user] = None THEN NoStats ELSE stats[user]

AfterWin(s) ==
  LET streak == s.current_streak + 1
  IN  [s EXCEPT !.total_wins = @ + 1, !.current_streak = streak,
                !.best_streak = IF streak > @ THEN streak ELSE @]

AfterLoss(s) == [s EXCEPT !.total_losses = @ + 1, !.current_streak = 0]

(* The order of a ranking: the metric downwards, the address upwards. *)
Outranks(stats, metric, u, v) ==
  LET mu == StatsOf(stats, u)[metric]
      mv == StatsOf(stats, v)[metric]
  IN  mu > mv \/ (mu = mv /\ u < v)

(* Insertion sort: in front of the first one it outranks, or at the end. *)
Reinsert(stats, metric, addresses) ==
  LET Insert(sorted, u) ==
        LET i == SelectInSeq(sorted, LAMBDA v : Outranks(stats, metric, u, v))
        IN  IF i = 0 THEN Append(sorted, u) ELSE InsertAt(sorted, i, u)
  IN  FoldLeft(Insert, <<>>, addresses)

Bounded(sorted) ==
  SubSeq(sorted, 1, IF Len(sorted) < LEADERBOARD_LIMIT THEN Len(sorted) ELSE LEADERBOARD_LIMIT)

(* The others, in the order they have. *)
WithoutUser(list, user) ==
  FoldLeft(LAMBDA filtered, u : IF u # user THEN Append(filtered, u) ELSE filtered, <<>>, list)

(* An update that leaves a user on the list where it stands. *)
FaultStaysInPlace(stats, idx, user) ==
  [m \in Metrics |->
     IF Contains(idx[m], user) THEN idx[m]
     ELSE Bounded(Reinsert(stats, m, Append(idx[m], user)))]

(* Both indexes, against statistics that are already updated. *)
UpdateIndex(stats, idx, user) ==
  [m \in Metrics |-> Bounded(Reinsert(stats, m, Append(WithoutUser(idx[m], user), user)))]

(* Statistics first, then the lifetime indexes, then the same for the      *)
(* season that is active now.                                              *)
RecordResult(user, won) ==
  LET After(s) == IF won THEN AfterWin(s) ELSE AfterLoss(s)
      lifetime == [userStats EXCEPT ![user] = After(StatsOf(userStats, user))]
      season   == [seasonStats[SeasonId] EXCEPT ![user] =
                     After(StatsOf(seasonStats[SeasonId], user))]
  IN  /\ Spend("result")
      /\ userStats'   = lifetime
      /\ index'       = UpdateIndex(lifetime, index, user)
      /\ seasonStats' = [seasonStats EXCEPT ![SeasonId] = season]
      /\ seasonIndex' = UpdateIndex(season, seasonIndex, user)
      /\ UNCHANGED <<ledger, runtimeMode, seats, balance, seasonArchive>>

(* Settlement needs the contract not fully paused. *)
UpdateStatsWin(user)  == EnsureNotPaused /\ RecordResult(user, TRUE)
UpdateStatsLoss(user) == EnsureNotPaused /\ RecordResult(user, FALSE)

-----------------------------------------------------------------------------
Entry(stats, user) ==
  [user |-> user, wins |-> StatsOf(stats, user).total_wins,
   best_streak |-> StatsOf(stats, user).best_streak]

Entries(stats, list) == [i \in DOMAIN list |-> Entry(stats, list[i])]

(* A reset that takes the scores from the lifetime statistics. *)
FaultArchivesLifetime ==
  [ended_at_ledger   |-> ledger,
   rankings          |-> [m \in Metrics |-> Entries(userStats, seasonIndex[m])],
   participant_count |-> Cardinality(UNION {ToSet(seasonIndex[m]) : m \in Metrics})]

(* The snapshot; participant_count counts the users on either list. *)
Snapshot ==
  [ended_at_ledger   |-> ledger,
   rankings          |-> [m \in Metrics |-> Entries(seasonStats[SeasonId], seasonIndex[m])],
   participant_count |-> Cardinality(UNION {ToSet(seasonIndex[m]) : m \in Metrics})]

reset_leaderboard_season ==
  /\ Spend("season")
  /\ EnsureNotPaused
  /\ seasonArchive' = Append(seasonArchive, Snapshot)
  /\ seasonStats'   = Append(seasonStats, NoEntries)
  /\ seasonIndex'   = EmptyIndex
  /\ UNCHANGED <<ledger, runtimeMode, seats, balance, userStats, index>>

(* A page of a list, from a 0-based offset; empty past the end. *)
Page(list, offset, limit) ==
  LET n == IF limit < MAX_PAGE_SIZE THEN limit ELSE MAX_PAGE_SIZE
  IN  SubSeq(list, offset + 1, IF offset + n < Len(list) THEN offset + n ELSE Len(list))

(* get_season_leaderboard_by_wins and _by_streak: the live index for the   *)
(* active season, the archive for an ended one, nothing for a future one.  *)
GetSeasonLeaderboard(metric, season, offset, limit) ==
  IF season = SeasonId
  THEN Entries(seasonStats[season], Page(seasonIndex[metric], offset, limit))
  ELSE IF season \in DOMAIN seasonArchive
       THEN Page(seasonArchive[season].rankings[metric], offset, limit)
       ELSE <<>>

BoardNext ==
  \/ \E u \in Accounts : UpdateStatsWin(u) \/ UpdateStatsLoss(u)
  \/ reset_leaderboard_season
=============================================================================
