----------------------------- MODULE OracleGate -----------------------------
(***************************************************************************)
(* Which reported prices settle a round.  The oracle service reports       *)
(* prices for the round it sees; a report may arrive late, twice, or after *)
(* the round it was meant for is gone.  resolve_round takes one price,     *)
(* resolve_round_multi the median of several feeds; both check heartbeat,  *)
(* time, deviation and replay, with two one-shot overrides of the admin.   *)
(* An accepted price ends the active round; what is paid then is Market.   *)
(***************************************************************************)
EXTENDS SettlementMath, SequencesExt

CONSTANTS
  Prices,       \* start prices
  Reports,      \* what the oracle service may report
  Gates,        \* the gate settings the admin moves between
  RuntimeModes, \* the runtime modes the admin moves between
  Statuses,     \* the heartbeat statuses reported: 0 active, 1 degraded, 2 offline
  CloseTimes,   \* seconds a ledger may take
  RunWindow,    \* ledgers from the start of a round to its end
  MAX_TWAP_WINDOW_SAMPLES,
  MaxLedger,    \* bound: ledger sequence
  MaxRounds,    \* bound: rounds created
  MaxReports,   \* bound: reports made
  MaxArms       \* bound: times an override is armed

VARIABLES
  ledger, now,       \* env.ledger().sequence() and .timestamp()
  runtimeMode,       \* Paused
  gate,              \* the settings the gate reads
  heartbeat,         \* OracleHeartbeat, or None
  devOverride,       \* OracleDeviationOverrideArmed
  hbOverride,        \* HbGateConfig.override_armed
  lastRoundId,       \* LastRoundId
  activeRound,       \* ActiveRound, or None
  startLedgers,      \* the ledgers with a RoundStartLedger key
  consumedNonces,    \* ConsumedOracleNonce(round_id, nonce)
  samples,           \* the ring of settlement prices
  reported,          \* history: the reports the oracle service has made
  settled,           \* history: the settlements, in order
  arms               \* history: how often either override was armed

envVars   == <<ledger, now, runtimeMode, gate>>
hbVars    == <<heartbeat, hbOverride>>
roundVars == <<lastRoundId, activeRound, startLedgers>>

vars == <<envVars, hbVars, roundVars, devOverride, consumedNonces, samples,
          reported, settled, arms>>

SECONDS_PER_LEDGER == 5
MAX_ORACLE_OBSERVATIONS == 32

(* What _validate_quorum_config lets through: at least three feeds agree. *)
QuorumConfig ==
  {q \in [min_observations : 3 .. MAX_ORACLE_OBSERVATIONS,
          quorum_threshold : 3 .. MAX_ORACLE_OBSERVATIONS,
          outlier_threshold_bps : 1 .. BPS_DENOMINATOR] :
     q.quorum_threshold <= q.min_observations}

(* twapWindow is None when the reference is the start price. *)
Gate ==
  [maxDeviation     : Nat \cup {None},       \* OracleMaxDeviationBps
   twapWindow       : 2 .. MAX_TWAP_WINDOW_SAMPLES \cup {None}, \* DeviationConfig
   minConfidence    : 0 .. BPS_DENOMINATOR \cup {None},
   strictConfidence : BOOLEAN,               \* OracleStrictMode
   attestation      : BOOLEAN,               \* an attestation key is set
   skew             : Nat,                   \* seconds
   staleAfter       : Nat,                   \* OracleStaleThreshold
   strictHeartbeat  : BOOLEAN,               \* HbGateConfig.strict_mode
   grace            : Nat,                   \* HbGateConfig.grace_seconds
   quorum           : QuorumConfig \cup {None}]

Feed   == [source : Nat, price : Nat]
Report == [kind : {"single", "multi"}, feeds : Seq(Feed), here : BOOLEAN,
           confidence : Nat \cup {None}, attested : BOOLEAN]

ASSUME GateAssumption ==
  /\ Gates \subseteq Gate
  /\ Reports \subseteq Report
  /\ Prices \subseteq Nat
  /\ CloseTimes \subseteq Nat
  /\ RuntimeModes \subseteq {"Normal", "ClaimsOnly", "FullyPaused"}
  /\ None \notin Nat
  /\ {RunWindow, MAX_TWAP_WINDOW_SAMPLES, MaxLedger, MaxRounds, MaxReports, MaxArms} \subseteq Nat

Payload == [report : Reports, timestamp : Nat, round_id : Nat, nonce : Nat,
            meant : 1 .. MaxRounds]

TypeOK ==
  /\ ledger \in 0 .. MaxLedger /\ now \in Nat
  /\ runtimeMode \in RuntimeModes
  /\ gate \in Gates
  /\ heartbeat \in [timestamp : Nat, status : Statuses] \cup {None}
  /\ devOverride \in BOOLEAN /\ hbOverride \in BOOLEAN
  /\ lastRoundId \in 0 .. MaxRounds
  /\ activeRound \in [round_id : 1 .. MaxRounds, price_start : Prices,
                      start_ledger : 0 .. MaxLedger, start_timestamp : Nat,
                      end_ledger : Nat] \cup {None}
  /\ startLedgers \subseteq 0 .. MaxLedger
  /\ consumedNonces \subseteq (1 .. MaxRounds) \X Nat
  /\ samples \in Seq(Nat) /\ Len(samples) <= MAX_TWAP_WINDOW_SAMPLES
  /\ reported \subseteq Payload

Init ==
  /\ ledger = 0 /\ now = 0
  /\ runtimeMode = "Normal"
  /\ gate \in Gates
  /\ heartbeat = None
  /\ devOverride = FALSE /\ hbOverride = FALSE
  /\ lastRoundId = 0
  /\ activeRound = None
  /\ startLedgers = {}
  /\ consumedNonces = {}
  /\ samples = << >>
  /\ reported = {}
  /\ settled = << >>
  /\ arms = [dev |-> 0, hb |-> 0]
-----------------------------------------------------------------------------
NotPaused == runtimeMode # "FullyPaused"

(* _check_heartbeat_health_blocked *)
HeartbeatBlocked ==
  \/ heartbeat = None
  \/ heartbeat.status = 2
  \/ now > heartbeat.timestamp + gate.staleAfter + gate.grace

(* The second look, in strict mode, is the one that knows the override. *)
StrictHeartbeatBlocks == gate.strictHeartbeat /\ HeartbeatBlocked

(* Fault: a report that settles is not tied to a round. *)
FaultAnyRound(p) == TRUE

(* A report names its round by the ledger the round started at. *)
RoundMatches(p) == p.round_id = activeRound.start_ledger /\ p.report.here

(* When the round should end, at the nominal pace of the ledgers. *)
RoundEndEstimate ==
  activeRound.start_timestamp
    + (activeRound.end_ledger - activeRound.start_ledger) * SECONDS_PER_LEDGER

(* Fault: the absolute freshness check the window replaced is still there. *)
FaultAlsoFresh(timestamp) ==
  /\ timestamp <= now /\ now <= timestamp + gate.skew
  /\ activeRound.start_timestamp - gate.skew <= timestamp
  /\ timestamp <= RoundEndEstimate + gate.skew

(***************************************************************************)
(* The price must be from the round: between its start and its estimated   *)
(* end, give or take the skew, and not from the future.                    *)
(***************************************************************************)
TimestampInWindow(timestamp) ==
  /\ timestamp <= now
  /\ activeRound.start_timestamp - gate.skew <= timestamp
  /\ timestamp <= RoundEndEstimate + gate.skew

ConfidenceAccepted(confidence) ==
  gate.minConfidence # None =>
    IF confidence = None THEN ~ gate.strictConfidence
    ELSE gate.minConfidence <= confidence /\ confidence <= BPS_DENOMINATOR

DeviationBps(price, reference) ==
  (Distance(price, reference) * BPS_DENOMINATOR) \div reference

(* Whether the price leaves the band around the reference. *)
OutOfBand(price, reference) ==
  gate.maxDeviation # None /\ DeviationBps(price, reference) > gate.maxDeviation

(* _twap_reference_price: the mean of the last settlement prices. *)
TwapKnown == Len(samples) >= gate.twapWindow

TwapReference ==
  LET last == SubSeq(samples, Len(samples) - gate.twapWindow + 1, Len(samples))
  IN  SumFunction(last) \div gate.twapWindow

(* Fault: the front of the ring is kept and the new price dropped. *)
FaultRingFull(ring, price) ==
  IF Len(ring) < MAX_TWAP_WINDOW_SAMPLES THEN Append(ring, price) ELSE ring

(* _record_twap_sample *)
SamplesAfter(ring, price) ==
  LET all == Append(ring, price)
  IN  IF Len(all) > MAX_TWAP_WINDOW_SAMPLES
      THEN SubSeq(all, Len(all) - MAX_TWAP_WINDOW_SAMPLES + 1, Len(all)) ELSE all
-----------------------------------------------------------------------------
(* The insertion sort of resolve_round_multi. *)
InsertPrice(sorted, price) ==
  LET later == {j \in DOMAIN sorted : price < sorted[j]}
  IN  InsertAt(sorted, IF later = {} THEN Len(sorted) + 1 ELSE Min(later), price)

SortedPrices(feeds) ==
  FoldLeft(LAMBDA sorted, feed : InsertPrice(sorted, feed.price), << >>, feeds)

(* Fault: indices of the sorted prices are taken to start at one. *)
FaultMedianShifted(feeds) == SortedPrices(feeds)[(Len(feeds) + 3) \div 2]

MedianPrice(feeds) ==
  LET n == Len(feeds)
      sorted == SortedPrices(feeds)
  IN  IF n % 2 = 1 THEN sorted[n \div 2 + 1]
      ELSE (sorted[n \div 2] + sorted[n \div 2 + 1]) \div 2

SourcesDistinct(feeds) ==
  \A i, j \in DOMAIN feeds : feeds[i].source = feeds[j].source => i = j

(* Fault: an outlier counts towards the quorum. *)
FaultOutliersCount(feeds, median) == DOMAIN feeds

(* The feeds that agree with the median. *)
Survivors(feeds, median) ==
  {i \in DOMAIN feeds :
     DeviationBps(feeds[i].price, median) <= gate.quorum.outlier_threshold_bps}
-----------------------------------------------------------------------------
(* The ledger closes, after SECONDS_PER_LEDGER or later. *)
Tick ==
  /\ ledger < MaxLedger
  /\ ledger' = ledger + 1
  /\ \E s \in CloseTimes : now' = now + s
  /\ UNCHANGED <<runtimeMode, gate, hbVars, roundVars, devOverride, consumedNonces,
                 samples, reported, settled, arms>>

set_runtime_mode(mode) ==
  /\ mode # runtimeMode
  /\ runtimeMode' = mode
  /\ UNCHANGED <<ledger, now, gate, hbVars, roundVars, devOverride, consumedNonces,
                 samples, reported, settled, arms>>

TimelockedKeys == {"maxDeviation", "skew", "staleAfter"}

(* One setting changes; a timelocked one only in the Normal mode. *)
update_gate(g) ==
  /\ g # gate
  /\ \E key \in DOMAIN gate :
       /\ g = [gate EXCEPT ![key] = g[key]]
       /\ IF key \in TimelockedKeys THEN runtimeMode = "Normal" ELSE NotPaused
  /\ gate' = g
  /\ UNCHANGED <<ledger, now, runtimeMode, hbVars, roundVars, devOverride,
                 consumedNonces, samples, reported, settled, arms>>

(* Not gated by the runtime mode. *)
update_oracle_heartbeat(status) ==
  /\ heartbeat' = [timestamp |-> now, status |-> status]
  /\ UNCHANGED <<envVars, hbOverride, roundVars, devOverride, consumedNonces,
                 samples, reported, settled, arms>>

arm_oracle_deviation_override ==
  /\ NotPaused
  /\ arms.dev + arms.hb < MaxArms
  /\ devOverride' = TRUE
  /\ arms' = [arms EXCEPT !.dev = arms.dev + 1]
  /\ UNCHANGED <<envVars, hbVars, roundVars, consumedNonces, samples, reported,
                 settled>>

arm_hb_override ==
  /\ NotPaused
  /\ arms.dev + arms.hb < MaxArms
  /\ hbOverride' = TRUE
  /\ arms' = [arms EXCEPT !.hb = arms.hb + 1]
  /\ UNCHANGED <<envVars, heartbeat, roundVars, devOverride, consumedNonces,
                 samples, reported, settled>>

StartLedgerFree == ledger \notin startLedgers

create_round(start_price) ==
  /\ start_price >= 1
  /\ NotPaused
  /\ activeRound = None
  /\ StartLedgerFree
  /\ lastRoundId < MaxRounds
  /\ lastRoundId' = lastRoundId + 1
  /\ activeRound' = [round_id |-> lastRoundId + 1, price_start |-> start_price,
                     start_ledger |-> ledger, start_timestamp |-> now,
                     end_ledger |-> ledger + RunWindow]
  /\ startLedgers' = startLedgers \cup {ledger}
  /\ UNCHANGED <<envVars, hbVars, devOverride, consumedNonces, samples, reported,
                 settled, arms>>

(* A round also ends without a price. *)
cancel_round ==
  /\ activeRound # None
  /\ activeRound' = None
  /\ UNCHANGED <<envVars, hbVars, lastRoundId, startLedgers, devOverride,
                 consumedNonces, samples, reported, settled, arms>>

(* The oracle service reports on the round it sees, with a nonce of its own. *)
MakeReport(report) ==
  /\ activeRound # None
  /\ Cardinality(reported) < MaxReports
  /\ reported' = reported \cup
       {[report |-> report, timestamp |-> now, round_id |-> activeRound.start_ledger,
         nonce |-> Cardinality(reported) + 1, meant |-> activeRound.round_id]}
  /\ UNCHANGED <<envVars, hbVars, roundVars, devOverride, consumedNonces, samples,
                 settled, arms>>
-----------------------------------------------------------------------------
RoundOver == ledger >= activeRound.end_ledger

(* Fault: the override outlives the settlement it served. *)
FaultOverrideKept(over) == devOverride' = devOverride

ConsumeDeviationOverride(over) == devOverride' = IF over THEN FALSE ELSE devOverride

(* What both entrypoints check before they look at the price. *)
Bound(p) ==
  /\ NotPaused
  /\ activeRound # None
  /\ RoundMatches(p)
  /\ TimestampInWindow(p.timestamp)
  /\ <<activeRound.round_id, p.nonce>> \notin consumedNonces
  /\ (StrictHeartbeatBlocks => hbOverride)
  /\ RoundOver

(* What both do with a price they accept: _settle_round_with_price follows. *)
Accept(p, price, over) ==
  /\ (over => devOverride)
  /\ ConsumeDeviationOverride(over)
  /\ hbOverride' = IF StrictHeartbeatBlocks THEN FALSE ELSE hbOverride
  /\ consumedNonces' = consumedNonces \cup {<<activeRound.round_id, p.nonce>>}
  /\ samples' = SamplesAfter(samples, price)
  /\ activeRound' = None
  /\ settled' = Append(settled, [round_id |-> activeRound.round_id, payload |-> p,
                                 price |-> price, over |-> over,
                                 forced |-> StrictHeartbeatBlocks,
                                 quorum |-> gate.quorum])
  /\ UNCHANGED <<envVars, heartbeat, lastRoundId, startLedgers, reported, arms>>

(* The band of a single price, around the start price or the TWAP. *)
SingleFeedReference ==
  IF gate.twapWindow = None THEN activeRound.price_start ELSE TwapReference

(* The checks of resolve_round; the first, in any mode, of the heartbeat   *)
(* does not know the override.                                             *)
SingleFeedAccepted(p) ==
  /\ p.report.feeds[1].price # 0
  /\ ~ HeartbeatBlocked
  /\ Bound(p)
  /\ (gate.attestation => p.report.attested)
  /\ gate.maxDeviation # None =>
       (gate.twapWindow # None => TwapKnown) /\ SingleFeedReference # 0
  /\ (OutOfBand(p.report.feeds[1].price, SingleFeedReference) => devOverride)
  /\ ConfidenceAccepted(p.report.confidence)

resolve_round(p) ==
  LET price == p.report.feeds[1].price
  IN  /\ p.report.kind = "single"
      /\ SingleFeedAccepted(p)
      /\ Accept(p, price, OutOfBand(price, SingleFeedReference))

resolve_round_multi(p) ==
  LET feeds  == p.report.feeds
      n      == Len(feeds)
      median == MedianPrice(feeds)
  IN  /\ p.report.kind = "multi"
      /\ n > 0 /\ \A i \in DOMAIN feeds : feeds[i].price # 0
      /\ gate.quorum # None
      /\ Bound(p)
      /\ gate.quorum.min_observations <= n /\ n <= MAX_ORACLE_OBSERVATIONS
      /\ SourcesDistinct(feeds)
      /\ median # 0
      /\ (gate.maxDeviation # None => activeRound.price_start # 0)
      /\ Cardinality(Survivors(feeds, median)) >= gate.quorum.quorum_threshold
      /\ Accept(p, median, OutOfBand(median, activeRound.price_start))

Next ==
  \/ Tick
  \/ \E mode \in RuntimeModes : set_runtime_mode(mode)
  \/ \E g \in Gates : update_gate(g)
  \/ \E status \in Statuses : update_oracle_heartbeat(status)
  \/ arm_oracle_deviation_override
  \/ arm_hb_override
  \/ \E price \in Prices : create_round(price)
  \/ cancel_round
  \/ \E report \in Reports : MakeReport(report)
  \/ \E p \in reported : resolve_round(p)
  \/ \E p \in reported : resolve_round_multi(p)

Spec == Init /\ [][Next]_vars
-----------------------------------------------------------------------------
Uses(flag) == Cardinality({i \in DOMAIN settled : settled[i][flag]})

(* An override the admin arms serves one settlement: out-of-band prices,   *)
(* and settlements over a failed heartbeat, never outnumber the arming     *)
(* calls, over any number of rounds and re-armings.                        *)
OverridesServeOnce ==
  /\ Uses("over") + (IF devOverride THEN 1 ELSE 0) <= arms.dev
  /\ Uses("forced") + (IF hbOverride THEN 1 ELSE 0) <= arms.hb

(* A price settles the round it was reported for, and no round is settled  *)
(* twice: a report that arrives late or twice never reaches a later round, *)
(* also when a round was cancelled and replaced.                           *)
PriceMeantForRound ==
  \A i \in DOMAIN settled :
    /\ settled[i].payload.meant = settled[i].round_id
    /\ \A j \in DOMAIN settled : settled[i].round_id = settled[j].round_id => i = j

(* The ring holds the most recent settlement prices in order, so that the  *)
(* TWAP reference lags the market by the window and no more.               *)
SamplesAreLatest ==
  LET n    == Len(settled)
      kept == IF n < MAX_TWAP_WINDOW_SAMPLES THEN n ELSE MAX_TWAP_WINDOW_SAMPLES
  IN  samples = [i \in 1 .. kept |-> settled[n - kept + i].price]

(* A round never becomes impossible to settle: however late it is, with a  *)
(* healthy heartbeat and the start price as the reference there is a       *)
(* price of the round's own time that resolve_round accepts.               *)
NeverStuck ==
  (activeRound # None /\ RoundOver /\ NotPaused /\ ~ HeartbeatBlocked
     /\ gate.twapWindow = None)
  => \E t \in 0 .. now :
       SingleFeedAccepted(
         [report    |-> [kind  |-> "single", here |-> TRUE, attested |-> TRUE,
                         feeds |-> <<[source |-> 1, price |-> activeRound.price_start]>>,
                         confidence |-> BPS_DENOMINATOR],
          timestamp |-> t, round_id |-> activeRound.start_ledger,
          nonce |-> 0, meant |-> activeRound.round_id])

MultiSettled ==
  {i \in DOMAIN settled : settled[i].payload.report.kind = "multi"}

(* A settlement by several feeds: any majority of them brackets the price, *)
(* so a minority that is wrong cannot move it past the others.             *)
MedianBracketed ==
  \A i \in MultiSettled :
    LET feeds == settled[i].payload.report.feeds
    IN  \A S \in SUBSET (DOMAIN feeds) :
          2 * Cardinality(S) > Len(feeds) =>
            /\ \E k \in S : feeds[k].price <= settled[i].price
            /\ \E k \in S : feeds[k].price >= settled[i].price

(* As many different sources as the quorum asks for, and never fewer than  *)
(* three, reported a price that agrees with the one the round settled at.  *)
QuorumOfSources ==
  \A i \in MultiSettled :
    LET feeds    == settled[i].payload.report.feeds
        q        == settled[i].quorum
        agreeing == {k \in DOMAIN feeds :
                       DeviationBps(feeds[k].price, settled[i].price)
                         <= q.outlier_threshold_bps}
    IN  Cardinality({feeds[k].source : k \in agreeing}) >= q.quorum_threshold
=============================================================================
