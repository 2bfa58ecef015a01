-------------------------- MODULE OracleGateProofs ---------------------------
(***************************************************************************)
(* The oracle gate, for any reports, gates, rounds and bounds: a report    *)
(* settles only the round it was made for, an armed override serves once,  *)
(* the ring holds the latest prices, a settlement by several feeds has its *)
(* quorum of sources and a median that every majority of them brackets,    *)
(* and no round becomes impossible to settle.                              *)
(***************************************************************************)
EXTENDS OracleGate, SumTheorems, SequenceTheorems

(* The prices a report can settle a round at.                              *)
ReportPrices ==
  {r.feeds[1].price : r \in Reports} \cup {MedianPrice(r.feeds) : r \in Reports}

(* The settlements the gate can record.                                    *)
Settlement ==
  [round_id : 1 .. MaxRounds, payload : Payload, price : ReportPrices,
   over : BOOLEAN, forced : BOOLEAN, quorum : QuorumConfig \cup {None}]

(* The rounds the gate can hold active.                                    *)
ActiveRounds ==
  [round_id : 1 .. MaxRounds, price_start : Prices, start_ledger : 0 .. MaxLedger,
   start_timestamp : Nat, end_ledger : Nat]

(* The types the arguments below use.                                      *)
Typed ==
  /\ ledger \in 0 .. MaxLedger /\ now \in Nat
  /\ gate \in Gates
  /\ devOverride \in BOOLEAN /\ hbOverride \in BOOLEAN
  /\ lastRoundId \in 0 .. MaxRounds
  /\ activeRound \in ActiveRounds \cup {None}
  /\ reported \subseteq Payload /\ IsFiniteSet(reported)
  /\ settled \in Seq(Settlement)
  /\ arms \in [dev : Nat, hb : Nat]

(* The active round is the last one created, and its start ledger is taken.*)
RoundFacts ==
  activeRound # None =>
    /\ activeRound.round_id = lastRoundId
    /\ activeRound.start_ledger \in startLedgers
    /\ activeRound.price_start >= 1
    /\ activeRound.start_timestamp <= now
    /\ activeRound.start_ledger <= activeRound.end_ledger

(* A report carries the start ledger of the round it was made for, which   *)
(* no later round shares, and a nonce of its own, from one.                *)
ReportFacts ==
  \A p \in reported :
    /\ p.round_id \in startLedgers
    /\ p.nonce >= 1
    /\ (activeRound # None /\ p.round_id = activeRound.start_ledger)
          => p.meant = activeRound.round_id

(* No nonce is ever consumed at zero.                                      *)
NoncesFromOne == \A r \in 1 .. MaxRounds : <<r, 0>> \notin consumedNonces

(* A settled round is no longer active and was never active again.         *)
SettledPast ==
  \A i \in DOMAIN settled :
    /\ settled[i].round_id <= lastRoundId
    /\ activeRound # None => settled[i].round_id # activeRound.round_id

(* The inductive invariant of the gate.                                    *)
GateInv ==
  /\ Typed
  /\ RoundFacts
  /\ ReportFacts
  /\ NoncesFromOne
  /\ SettledPast
  /\ PriceMeantForRound

(* What Gates, Reports and the bounds are.                                 *)
LEMMA GateConstants ==
  /\ MaxRounds \in Nat /\ MaxLedger \in Nat /\ RunWindow \in Nat
  /\ MAX_TWAP_WINDOW_SAMPLES \in Nat
  /\ Prices \subseteq Nat /\ CloseTimes \subseteq Nat
  /\ \A g \in Gates : g \in Gate
  /\ \A r \in Reports : r \in Report
BY GateAssumption

(* Initially there is no round, no report and no settlement.               *)
LEMMA InitGateInv == Init => GateInv
<1> SUFFICES ASSUME Init PROVE GateInv
  OBVIOUS
<1>1. DOMAIN settled = {} /\ settled \in Seq(Settlement)
  BY DEF Init
<1>2. Typed
  <2>1. 0 \in 0 .. MaxLedger /\ 0 \in 0 .. MaxRounds /\ 0 \in Nat
    BY GateConstants
  <2>2. [dev |-> 0, hb |-> 0] \in [dev : Nat, hb : Nat]
    OBVIOUS
  <2>3. IsFiniteSet({})
    BY FS_EmptySet
  <2> QED BY <1>1, <2>1, <2>2, <2>3, Zenon DEF Init, Typed
<1>3. RoundFacts /\ ReportFacts /\ NoncesFromOne
  BY DEF Init, RoundFacts, ReportFacts, NoncesFromOne
<1>4. SettledPast /\ PriceMeantForRound
  BY <1>1 DEF SettledPast, PriceMeantForRound
<1> QED BY <1>2, <1>3, <1>4 DEF GateInv

(* What either entrypoint does when it accepts report p at a price.        *)
Settles(p, price, over) ==
  /\ p \in reported
  /\ price \in ReportPrices
  /\ over \in BOOLEAN
  /\ Bound(p)
  /\ Accept(p, price, over)

(* Either resolution, when it succeeds, settles the active round at some   *)
(* price.                                                                  *)
LEMMA ResolveSettles ==
  ASSUME Typed, NEW p \in reported, resolve_round(p) \/ resolve_round_multi(p)
  PROVE  \E price, over : Settles(p, price, over)
<1>1. p.report \in Reports
  BY DEF Typed, Payload
<1>2. CASE resolve_round(p)
  <2> DEFINE price == p.report.feeds[1].price
             over  == OutOfBand(price, SingleFeedReference)
  <2>1. price \in ReportPrices /\ over \in BOOLEAN
    BY <1>1 DEF ReportPrices, OutOfBand
  <2>2. Bound(p) /\ Accept(p, price, over)
    BY <1>2 DEF resolve_round, SingleFeedAccepted
  <2> HIDE DEF price, over
  <2> QED BY <2>1, <2>2 DEF Settles
<1>3. CASE resolve_round_multi(p)
  <2> DEFINE price == MedianPrice(p.report.feeds)
             over  == OutOfBand(price, activeRound.price_start)
  <2>1. price \in ReportPrices /\ over \in BOOLEAN
    BY <1>1 DEF ReportPrices, OutOfBand
  <2>2. Bound(p) /\ Accept(p, price, over)
    BY <1>3 DEF resolve_round_multi
  <2> HIDE DEF price, over
  <2> QED BY <2>1, <2>2 DEF Settles
<1> QED BY <1>2, <1>3

(* A settlement appends one outcome, of the active round.                  *)
LEMMA SettlementAppended ==
  ASSUME Typed, NEW p, NEW price, NEW over, Settles(p, price, over)
  PROVE  \E s \in Settlement :
           /\ settled' = Append(settled, s)
           /\ s.round_id = activeRound.round_id /\ s.payload = p /\ s.price = price
           /\ s.over = over /\ s.forced = StrictHeartbeatBlocks /\ s.quorum = gate.quorum
           /\ settled' \in Seq(Settlement)
           /\ Len(settled) \in Nat /\ Len(settled') = Len(settled) + 1
           /\ DOMAIN settled = 1 .. Len(settled) /\ DOMAIN settled' = 1 .. Len(settled) + 1
           /\ \A i \in DOMAIN settled : settled'[i] = settled[i]
           /\ settled'[Len(settled) + 1] = s
<1> DEFINE s == [round_id |-> activeRound.round_id, payload |-> p, price |-> price,
                 over |-> over, forced |-> StrictHeartbeatBlocks, quorum |-> gate.quorum]
<1>1. activeRound \in ActiveRounds /\ p \in Payload /\ price \in ReportPrices /\ over \in BOOLEAN
  BY DEF Settles, Bound, Typed
<1>2. gate.quorum \in QuorumConfig \cup {None}
  BY GateConstants DEF Typed, Gate
<1>3. StrictHeartbeatBlocks \in BOOLEAN
  <2>1. gate.strictHeartbeat \in BOOLEAN
    BY GateConstants DEF Typed, Gate
  <2> QED BY <2>1 DEF StrictHeartbeatBlocks
<1>4. s \in Settlement
  BY <1>1, <1>2, <1>3 DEF ActiveRounds, Settlement
<1>5. settled' = Append(settled, s)
  BY DEF Settles, Accept
<1>6. settled \in Seq(Settlement)
  BY DEF Typed
<1>7. /\ s.round_id = activeRound.round_id /\ s.payload = p /\ s.price = price
      /\ s.over = over /\ s.forced = StrictHeartbeatBlocks /\ s.quorum = gate.quorum
  OBVIOUS
<1> HIDE DEF s
<1>8. /\ settled' \in Seq(Settlement) /\ Len(settled') = Len(settled) + 1
      /\ \A i \in 1 .. Len(settled) : settled'[i] = settled[i]
      /\ settled'[Len(settled) + 1] = s
  BY <1>4, <1>5, <1>6, AppendProperties
<1>9. /\ DOMAIN settled = 1 .. Len(settled) /\ DOMAIN settled' = 1 .. Len(settled')
      /\ Len(settled) \in Nat
  BY <1>6, <1>8, LenProperties
<1> QED BY <1>4, <1>5, <1>7, <1>8, <1>9

(* A settlement preserves the invariant: the report names the start ledger *)
(* of the active round, so it was made for that round, which no earlier    *)
(* settlement ended.                                                       *)
LEMMA SettlesGateInv ==
  ASSUME GateInv, NEW p, NEW price, NEW over, Settles(p, price, over)
  PROVE  GateInv'
<1> USE DEF GateInv
<1>1. PICK s \in Settlement :
           /\ settled' = Append(settled, s)
           /\ s.round_id = activeRound.round_id /\ s.payload = p /\ s.price = price
           /\ s.over = over /\ s.forced = StrictHeartbeatBlocks /\ s.quorum = gate.quorum
           /\ settled' \in Seq(Settlement)
           /\ Len(settled) \in Nat /\ Len(settled') = Len(settled) + 1
           /\ DOMAIN settled = 1 .. Len(settled) /\ DOMAIN settled' = 1 .. Len(settled) + 1
           /\ \A i \in DOMAIN settled : settled'[i] = settled[i]
           /\ settled'[Len(settled) + 1] = s
  BY SettlementAppended
<1>2. /\ activeRound # None /\ activeRound \in ActiveRounds /\ activeRound' = None
      /\ UNCHANGED <<ledger, now, gate, lastRoundId, startLedgers, reported, arms>>
      /\ p \in reported /\ p.round_id = activeRound.start_ledger
  BY DEF Settles, Bound, RoundMatches, Accept, envVars, Typed
<1>3. activeRound.round_id \in 1 .. MaxRounds
  BY <1>2 DEF ActiveRounds
<1>4. Typed'
  <2>1. devOverride' \in BOOLEAN /\ hbOverride' \in BOOLEAN
    BY DEF Settles, Accept, ConsumeDeviationOverride, Typed
  <2> QED BY <1>1, <1>2, <2>1 DEF Typed
<1>5. RoundFacts'
  BY <1>2 DEF RoundFacts
<1>6. ReportFacts'
  BY <1>2 DEF ReportFacts
<1>7. NoncesFromOne'
  <2>1. consumedNonces' = consumedNonces \cup {<<activeRound.round_id, p.nonce>>}
    BY DEF Settles, Accept
  <2>2. p.nonce # 0
    BY <1>2 DEF ReportFacts, Typed, Payload
  <2>3. \A r \in 1 .. MaxRounds : <<r, 0>> # <<activeRound.round_id, p.nonce>>
    BY <2>2
  <2> QED BY <2>1, <2>3 DEF NoncesFromOne
<1>8. SettledPast'
  <2>1. \A i \in DOMAIN settled' : settled'[i].round_id <= lastRoundId
    BY <1>1, <1>2 DEF SettledPast, RoundFacts, Typed
  <2> QED BY <2>1, <1>2 DEF SettledPast
<1>9. PriceMeantForRound'
  <2>1. p.meant = activeRound.round_id
    BY <1>2 DEF ReportFacts
  <2>2. \A i \in DOMAIN settled' : settled'[i].payload.meant = settled'[i].round_id
    BY <1>1, <2>1 DEF PriceMeantForRound
  <2>3. \A i, j \in DOMAIN settled' : settled'[i].round_id = settled'[j].round_id => i = j
    BY <1>1, <1>2 DEF PriceMeantForRound, SettledPast
  <2> QED BY <2>2, <2>3 DEF PriceMeantForRound
<1> QED BY <1>4, <1>5, <1>6, <1>7, <1>8, <1>9

(* Every other step leaves the settlements alone.                          *)
LEMMA OtherSteps ==
  ASSUME Typed, [Next]_vars
  PROVE  \/ \E p \in reported : resolve_round(p) \/ resolve_round_multi(p)
         \/ UNCHANGED <<settled, samples, consumedNonces>>
<1>1. CASE UNCHANGED vars
  BY <1>1 DEF vars
<1>2. CASE Tick
  BY <1>2 DEF Tick
<1>3. ASSUME NEW mode \in RuntimeModes, set_runtime_mode(mode)
      PROVE  UNCHANGED <<settled, samples, consumedNonces>>
  BY <1>3 DEF set_runtime_mode
<1>4. ASSUME NEW g \in Gates, update_gate(g)
      PROVE  UNCHANGED <<settled, samples, consumedNonces>>
  BY <1>4 DEF update_gate
<1>5. ASSUME NEW status \in Statuses, update_oracle_heartbeat(status)
      PROVE  UNCHANGED <<settled, samples, consumedNonces>>
  BY <1>5 DEF update_oracle_heartbeat
<1>6. CASE arm_oracle_deviation_override
  BY <1>6 DEF arm_oracle_deviation_override
<1>7. CASE arm_hb_override
  BY <1>7 DEF arm_hb_override
<1>8. ASSUME NEW price \in Prices, create_round(price)
      PROVE  UNCHANGED <<settled, samples, consumedNonces>>
  BY <1>8 DEF create_round
<1>9. CASE cancel_round
  BY <1>9 DEF cancel_round
<1>10. ASSUME NEW report \in Reports, MakeReport(report)
       PROVE  UNCHANGED <<settled, samples, consumedNonces>>
  BY <1>10 DEF MakeReport
<1> QED BY <1>1, <1>2, <1>3, <1>4, <1>5, <1>6, <1>7, <1>8, <1>9, <1>10 DEF Next

(* A created round takes the next id and a start ledger no report names.   *)
LEMMA CreateGateInv ==
  ASSUME GateInv, NEW price \in Prices, create_round(price)
  PROVE  GateInv'
<1> USE DEF GateInv
<1> DEFINE round == [round_id |-> lastRoundId + 1, price_start |-> price,
                     start_ledger |-> ledger, start_timestamp |-> now,
                     end_ledger |-> ledger + RunWindow]
<1>1. /\ activeRound' = round /\ lastRoundId' = lastRoundId + 1 /\ lastRoundId < MaxRounds
      /\ startLedgers' = startLedgers \cup {ledger} /\ ledger \notin startLedgers /\ price >= 1
      /\ UNCHANGED <<ledger, now, gate, devOverride, hbOverride, consumedNonces, reported,
                     settled, arms>>
  BY DEF create_round, StartLedgerFree, envVars, hbVars
<1>2. round \in ActiveRounds /\ lastRoundId + 1 \in 0 .. MaxRounds
  BY <1>1, GateConstants DEF ActiveRounds, Typed
<1>3. /\ round.round_id = lastRoundId + 1 /\ round.price_start = price
      /\ round.start_ledger = ledger /\ round.start_timestamp = now
      /\ round.end_ledger = ledger + RunWindow
  OBVIOUS
<1> HIDE DEF round
<1>4. Typed'
  BY <1>1, <1>2 DEF Typed
<1>5. RoundFacts'
  BY <1>1, <1>3, GateConstants DEF RoundFacts, Typed
<1>6. ReportFacts'
  BY <1>1, <1>3 DEF ReportFacts
<1>7. NoncesFromOne' /\ PriceMeantForRound'
  BY <1>1 DEF NoncesFromOne, PriceMeantForRound
<1>8. SettledPast'
  <2>1. \A i \in DOMAIN settled : settled[i].round_id \in Nat
    <3>1. \A i \in 1 .. Len(settled) : settled[i] \in Settlement
      BY ElementOfSeq DEF Typed
    <3> QED BY <3>1, LenProperties DEF Typed, Settlement
  <2> QED BY <1>1, <1>3, <2>1 DEF SettledPast, Typed
<1> QED BY <1>4, <1>5, <1>6, <1>7, <1>8

(* A report carries the start ledger and the id of the active round.       *)
LEMMA ReportGateInv ==
  ASSUME GateInv, NEW report \in Reports, MakeReport(report)
  PROVE  GateInv'
<1> USE DEF GateInv
<1> DEFINE p == [report |-> report, timestamp |-> now, round_id |-> activeRound.start_ledger,
                 nonce |-> Cardinality(reported) + 1, meant |-> activeRound.round_id]
<1>1. /\ activeRound # None /\ reported' = reported \cup {p}
      /\ UNCHANGED <<ledger, now, gate, devOverride, hbOverride, lastRoundId, activeRound,
                     startLedgers, consumedNonces, settled, arms>>
  BY DEF MakeReport, envVars, hbVars, roundVars
<1>2. Cardinality(reported) \in Nat
  BY FS_CardinalityType DEF Typed
<1>3. activeRound \in ActiveRounds
  BY <1>1 DEF Typed
<1>4. p \in Payload
  BY <1>2, <1>3 DEF Payload, ActiveRounds, Typed
<1>5. p.round_id = activeRound.start_ledger /\ p.nonce >= 1 /\ p.meant = activeRound.round_id
  BY <1>2
<1> HIDE DEF p
<1>6. Typed'
  <2>1. IsFiniteSet(reported')
    BY <1>1, FS_AddElement DEF Typed
  <2> QED BY <1>1, <1>4, <2>1 DEF Typed
<1>7. RoundFacts'
  BY <1>1 DEF RoundFacts
<1>8. ReportFacts'
  BY <1>1, <1>5 DEF ReportFacts, RoundFacts
<1>9. NoncesFromOne' /\ SettledPast' /\ PriceMeantForRound'
  BY <1>1 DEF NoncesFromOne, SettledPast, PriceMeantForRound
<1> QED BY <1>6, <1>7, <1>8, <1>9

(* A step that changes only the environment, the flags or ends the round.  *)
LEMMA QuietGateInv ==
  ASSUME GateInv,
         UNCHANGED <<lastRoundId, startLedgers, consumedNonces, reported, settled>>,
         activeRound' \in {activeRound, None},
         ledger' \in 0 .. MaxLedger, now' \in Nat, now <= now', gate' \in Gates,
         devOverride' \in BOOLEAN, hbOverride' \in BOOLEAN, arms' \in [dev : Nat, hb : Nat]
  PROVE  GateInv'
<1> USE DEF GateInv
<1>1. Typed'
  BY DEF Typed
<1>2. RoundFacts'
  BY DEF RoundFacts, Typed, ActiveRounds
<1>3. ReportFacts'
  BY DEF ReportFacts
<1>4. NoncesFromOne' /\ SettledPast' /\ PriceMeantForRound'
  BY DEF NoncesFromOne, SettledPast, PriceMeantForRound
<1> QED BY <1>1, <1>2, <1>3, <1>4

(* Every step keeps the invariant of the gate.                             *)
LEMMA NextGateInv == GateInv /\ [Next]_vars => GateInv'
<1> SUFFICES ASSUME GateInv, [Next]_vars PROVE GateInv'
  OBVIOUS
<1>1. /\ ledger \in 0 .. MaxLedger /\ now \in Nat /\ now <= now /\ gate \in Gates
      /\ devOverride \in BOOLEAN /\ hbOverride \in BOOLEAN /\ arms \in [dev : Nat, hb : Nat]
      /\ activeRound \in {activeRound, None} /\ None \in {activeRound, None}
  BY DEF GateInv, Typed
<1>2. CASE UNCHANGED vars
  BY <1>1, <1>2, QuietGateInv DEF vars, envVars, hbVars, roundVars
<1>3. CASE Tick
  <2>1. PICK s \in CloseTimes : now' = now + s
    BY <1>3 DEF Tick
  <2>2. now' \in Nat /\ now <= now' /\ ledger' \in 0 .. MaxLedger
    BY <1>1, <1>3, <2>1, GateConstants DEF Tick
  <2>3. UNCHANGED <<lastRoundId, startLedgers, consumedNonces, reported, settled, activeRound,
                    gate, devOverride, hbOverride, arms>>
    BY <1>3 DEF Tick, hbVars, roundVars
  <2> QED BY <1>1, <2>2, <2>3, QuietGateInv
<1>4. ASSUME NEW mode \in RuntimeModes, set_runtime_mode(mode)
      PROVE  GateInv'
  BY <1>1, <1>4, QuietGateInv DEF set_runtime_mode, hbVars, roundVars
<1>5. ASSUME NEW g \in Gates, update_gate(g)
      PROVE  GateInv'
  BY <1>1, <1>5, QuietGateInv DEF update_gate, hbVars, roundVars
<1>6. ASSUME NEW status \in Statuses, update_oracle_heartbeat(status)
      PROVE  GateInv'
  BY <1>1, <1>6, QuietGateInv DEF update_oracle_heartbeat, envVars, roundVars
<1>7. CASE arm_oracle_deviation_override
  <2>1. arms' \in [dev : Nat, hb : Nat]
    BY <1>1, <1>7 DEF arm_oracle_deviation_override
  <2> QED BY <1>1, <1>7, <2>1, QuietGateInv
         DEF arm_oracle_deviation_override, envVars, hbVars, roundVars
<1>8. CASE arm_hb_override
  <2>1. arms' \in [dev : Nat, hb : Nat]
    BY <1>1, <1>8 DEF arm_hb_override
  <2> QED BY <1>1, <1>8, <2>1, QuietGateInv DEF arm_hb_override, envVars, roundVars
<1>9. ASSUME NEW price \in Prices, create_round(price)
      PROVE  GateInv'
  BY <1>9, CreateGateInv
<1>10. CASE cancel_round
  BY <1>1, <1>10, QuietGateInv DEF cancel_round, envVars, hbVars
<1>11. ASSUME NEW report \in Reports, MakeReport(report)
       PROVE  GateInv'
  BY <1>11, ReportGateInv
<1>12. ASSUME NEW p \in reported, resolve_round(p) \/ resolve_round_multi(p)
       PROVE  GateInv'
  BY <1>12, ResolveSettles, SettlesGateInv DEF GateInv
<1> QED
  BY <1>2, <1>3, <1>4, <1>5, <1>6, <1>7, <1>8, <1>9, <1>10, <1>11, <1>12 DEF Next

(* The invariant of the gate always holds.                                 *)
LEMMA GateInvariant == Spec => []GateInv
BY InitGateInv, NextGateInv, PTL DEF Spec

(* A reported price settles the round it was reported for and no other,    *)
(* and no round is settled twice, in every behaviour of resolve_round and  *)
(* resolve_round_multi: the start ledger a report carries is never shared. *)
THEOREM PricesFindTheirRound == Spec => []PriceMeantForRound
<1>1. GateInv => PriceMeantForRound
  BY DEF GateInv
<1> QED BY <1>1, GateInvariant, PTL

(* However late a round is, with a healthy heartbeat and the start price   *)
(* as the reference, the start price of its own time settles it.           *)
THEOREM RoundsNeverStick == Spec => []NeverStuck
<1>1. GateInv => NeverStuck
  <2> SUFFICES ASSUME GateInv, activeRound # None, RoundOver, NotPaused, ~ HeartbeatBlocked,
                      gate.twapWindow = None
               PROVE  \E t \in 0 .. now :
       SingleFeedAccepted(
         [report    |-> [kind  |-> "single", here |-> TRUE, attested |-> TRUE,
                         feeds |-> <<[source |-> 1, price |-> activeRound.price_start]>>,
                         confidence |-> BPS_DENOMINATOR],
          timestamp |-> t, round_id |-> activeRound.start_ledger,
          nonce |-> 0, meant |-> activeRound.round_id])
    BY DEF NeverStuck
  <2> DEFINE t == activeRound.start_timestamp
             q == [report    |-> [kind  |-> "single", here |-> TRUE, attested |-> TRUE,
                         feeds |-> <<[source |-> 1, price |-> activeRound.price_start]>>,
                         confidence |-> BPS_DENOMINATOR],
                   timestamp |-> t, round_id |-> activeRound.start_ledger,
                   nonce |-> 0, meant |-> activeRound.round_id]
             x == activeRound.price_start
  <2>1. /\ activeRound \in ActiveRounds /\ gate \in Gate /\ now \in Nat
        /\ x \in Nat /\ x >= 1 /\ t \in Nat /\ t <= now
        /\ activeRound.start_ledger <= activeRound.end_ledger
        /\ activeRound.start_ledger \in Nat /\ activeRound.end_ledger \in Nat
    <3>1. activeRound \in ActiveRounds /\ gate \in Gate /\ now \in Nat
      BY GateConstants DEF GateInv, Typed
    <3>2. x \in Nat /\ t \in Nat
      BY <3>1, GateConstants DEF ActiveRounds
    <3>3. activeRound.start_ledger \in Nat /\ activeRound.end_ledger \in Nat
      BY <3>1, GateConstants DEF ActiveRounds
    <3>4. x >= 1 /\ t <= now /\ activeRound.start_ledger <= activeRound.end_ledger
      BY DEF GateInv, RoundFacts
    <3> QED BY <3>1, <3>2, <3>3, <3>4
  <2>2. /\ q.report.feeds[1].price = x /\ q.round_id = activeRound.start_ledger
        /\ q.report.here = TRUE /\ q.timestamp = t /\ q.nonce = 0 /\ q.report.attested = TRUE
        /\ q.report.confidence = BPS_DENOMINATOR
    OBVIOUS
  <2> HIDE DEF q
  <2>3. TimestampInWindow(t)
    <3>1. gate.skew \in Nat
      BY <2>1 DEF Gate
    <3>2. RoundEndEstimate >= t /\ RoundEndEstimate \in Int
      BY <2>1 DEF RoundEndEstimate, SECONDS_PER_LEDGER
    <3> QED BY <2>1, <3>1, <3>2 DEF TimestampInWindow
  <2>4. <<activeRound.round_id, 0>> \notin consumedNonces
    BY <2>1 DEF GateInv, NoncesFromOne, ActiveRounds
  <2>5. Bound(q)
    BY <2>2, <2>3, <2>4 DEF Bound, RoundMatches, StrictHeartbeatBlocks
  <2>6. SingleFeedReference = x
    BY DEF SingleFeedReference
  <2>7. ~ OutOfBand(x, x)
    <3>1. DeviationBps(x, x) = 0
      BY <2>1 DEF DeviationBps, Distance, BPS_DENOMINATOR
    <3>2. gate.maxDeviation # None => gate.maxDeviation \in Nat
      BY <2>1 DEF Gate
    <3> QED BY <3>1, <3>2 DEF OutOfBand
  <2>8. ConfidenceAccepted(BPS_DENOMINATOR)
    <3>1. BPS_DENOMINATOR # None
      BY GateAssumption DEF BPS_DENOMINATOR
    <3>2. gate.minConfidence # None => gate.minConfidence \in 0 .. BPS_DENOMINATOR
      BY <2>1 DEF Gate
    <3>3. BPS_DENOMINATOR \in Nat
      BY DEF BPS_DENOMINATOR
    <3>4. /\ BPS_DENOMINATOR <= BPS_DENOMINATOR
          /\ (gate.minConfidence # None => gate.minConfidence <= BPS_DENOMINATOR)
      BY <3>2, <3>3
    <3> QED BY <3>1, <3>4 DEF ConfidenceAccepted
  <2>9. SingleFeedAccepted(q)
    BY <2>1, <2>2, <2>5, <2>6, <2>7, <2>8 DEF SingleFeedAccepted
  <2>10. t \in 0 .. now
    BY <2>1
  <2> HIDE DEF t
  <2> QED BY <2>9, <2>10 DEF q
<1> QED BY <1>1, GateInvariant, PTL

(* One more settlement: the set of those with a flag gains the new index   *)
(* when the flag is set.                                                   *)
LEMMA FlagCount ==
  ASSUME NEW n \in Nat, NEW f, NEW g, NEW b \in BOOLEAN,
         \A i \in 1 .. n : g[i] = f[i], g[n + 1] = b
  PROVE  /\ Cardinality({i \in 1 .. n : f[i]}) \in Nat
         /\ Cardinality({i \in 1 .. n + 1 : g[i]})
              = Cardinality({i \in 1 .. n : f[i]}) + (IF b THEN 1 ELSE 0)
<1> DEFINE F == {i \in 1 .. n : f[i]}
           G == {i \in 1 .. n + 1 : g[i]}
<1>1. IsFiniteSet(F)
  BY FS_Interval, FS_Subset
<1>2. n + 1 \notin F
  OBVIOUS
<1>3. G = IF b THEN F \cup {n + 1} ELSE F
  <2>1. \A i : i \in 1 .. n + 1 <=> i \in 1 .. n \/ i = n + 1
    OBVIOUS
  <2> QED BY <2>1
<1> HIDE DEF F, G
<1>4. Cardinality(F) \in Nat
  BY <1>1, FS_CardinalityType
<1>5. Cardinality(F \cup {n + 1}) = Cardinality(F) + 1
  BY <1>1, <1>2, FS_AddElement
<1>6. Cardinality(G) = Cardinality(F) + (IF b THEN 1 ELSE 0)
  BY <1>3, <1>4, <1>5
<1> QED BY <1>4, <1>6 DEF F, G

(* An armed override is spent by the settlement it serves.                 *)
LEMMA SettlesOverrides ==
  ASSUME GateInv, OverridesServeOnce, NEW p, NEW price, NEW over, Settles(p, price, over)
  PROVE  OverridesServeOnce'
<1>1. PICK s \in Settlement :
           /\ settled' = Append(settled, s)
           /\ s.round_id = activeRound.round_id /\ s.payload = p /\ s.price = price
           /\ s.over = over /\ s.forced = StrictHeartbeatBlocks /\ s.quorum = gate.quorum
           /\ settled' \in Seq(Settlement)
           /\ Len(settled) \in Nat /\ Len(settled') = Len(settled) + 1
           /\ DOMAIN settled = 1 .. Len(settled) /\ DOMAIN settled' = 1 .. Len(settled) + 1
           /\ \A i \in DOMAIN settled : settled'[i] = settled[i]
           /\ settled'[Len(settled) + 1] = s
  BY SettlementAppended DEF GateInv
<1> DEFINE n == Len(settled)
           old(flag) == [i \in 1 .. n |-> settled[i][flag]]
           new(flag) == [i \in 1 .. n + 1 |-> settled'[i][flag]]
<1>2. ASSUME NEW flag \in {"over", "forced"}
      PROVE  /\ Uses(flag) \in Nat
             /\ Uses(flag)' = Uses(flag) + (IF s[flag] THEN 1 ELSE 0)
  <2>1. s[flag] \in BOOLEAN
    BY <1>2 DEF Settlement
  <2>2. Uses(flag) = Cardinality({i \in 1 .. n : old(flag)[i]})
    <3>1. {i \in DOMAIN settled : settled[i][flag]} = {i \in 1 .. n : old(flag)[i]}
      BY <1>1
    <3> QED BY <3>1 DEF Uses
  <2>3. Uses(flag)' = Cardinality({i \in 1 .. n + 1 : new(flag)[i]})
    <3>1. {i \in DOMAIN settled' : settled'[i][flag]} = {i \in 1 .. n + 1 : new(flag)[i]}
      BY <1>1
    <3> QED BY <3>1 DEF Uses
  <2>4. (\A i \in 1 .. n : new(flag)[i] = old(flag)[i]) /\ new(flag)[n + 1] = s[flag]
    BY <1>1
  <2>5. n \in Nat
    BY <1>1
  <2>6. /\ Cardinality({i \in 1 .. n : old(flag)[i]}) \in Nat
        /\ Cardinality({i \in 1 .. n + 1 : new(flag)[i]})
             = Cardinality({i \in 1 .. n : old(flag)[i]}) + (IF s[flag] THEN 1 ELSE 0)
    <3> HIDE DEF n, old, new
    <3> QED BY <2>1, <2>4, <2>5, FlagCount, Zenon
  <2> HIDE DEF n, old, new
  <2> QED BY <2>2, <2>3, <2>6
<1>3. /\ devOverride \in BOOLEAN /\ hbOverride \in BOOLEAN /\ arms.dev \in Nat /\ arms.hb \in Nat
  BY DEF GateInv, Typed
<1>4. /\ arms' = arms /\ (over => devOverride) /\ (StrictHeartbeatBlocks => hbOverride)
      /\ devOverride' = IF over THEN FALSE ELSE devOverride
      /\ hbOverride' = IF StrictHeartbeatBlocks THEN FALSE ELSE hbOverride
  BY DEF Settles, Accept, Bound, ConsumeDeviationOverride
<1>5. Uses("over")' + (IF devOverride' THEN 1 ELSE 0) <= arms.dev
  <2>1. Uses("over")' = Uses("over") + (IF over THEN 1 ELSE 0) /\ Uses("over") \in Nat
    BY <1>1, <1>2
  <2>2. Uses("over") + (IF devOverride THEN 1 ELSE 0) <= arms.dev
    BY DEF OverridesServeOnce
  <2> QED BY <1>3, <1>4, <2>1, <2>2
<1>6. Uses("forced")' + (IF hbOverride' THEN 1 ELSE 0) <= arms.hb
  <2>1. /\ Uses("forced")' = Uses("forced") + (IF StrictHeartbeatBlocks THEN 1 ELSE 0)
        /\ Uses("forced") \in Nat
    BY <1>1, <1>2
  <2>2. Uses("forced") + (IF hbOverride THEN 1 ELSE 0) <= arms.hb
    BY DEF OverridesServeOnce
  <2> QED BY <1>3, <1>4, <2>1, <2>2
<1> QED BY <1>4, <1>5, <1>6 DEF OverridesServeOnce

(* Only the arming calls set an override.                                  *)
LEMMA FlagSteps ==
  ASSUME Typed, [Next]_vars
  PROVE  \/ \E p \in reported : resolve_round(p) \/ resolve_round_multi(p)
         \/ UNCHANGED <<devOverride, hbOverride, arms>>
         \/ devOverride' = TRUE /\ arms' = [arms EXCEPT !.dev = arms.dev + 1] /\ UNCHANGED hbOverride
         \/ hbOverride' = TRUE /\ arms' = [arms EXCEPT !.hb = arms.hb + 1] /\ UNCHANGED devOverride
<1> USE DEF envVars, hbVars, roundVars
<1>1. CASE UNCHANGED vars
  BY <1>1 DEF vars
<1>2. CASE Tick
  BY <1>2 DEF Tick
<1>3. ASSUME NEW mode \in RuntimeModes, set_runtime_mode(mode)
      PROVE  UNCHANGED <<devOverride, hbOverride, arms>>
  BY <1>3 DEF set_runtime_mode
<1>4. ASSUME NEW g \in Gates, update_gate(g)
      PROVE  UNCHANGED <<devOverride, hbOverride, arms>>
  BY <1>4 DEF update_gate
<1>5. ASSUME NEW status \in Statuses, update_oracle_heartbeat(status)
      PROVE  UNCHANGED <<devOverride, hbOverride, arms>>
  BY <1>5 DEF update_oracle_heartbeat
<1>6. CASE arm_oracle_deviation_override
  BY <1>6 DEF arm_oracle_deviation_override
<1>7. CASE arm_hb_override
  BY <1>7 DEF arm_hb_override
<1>8. ASSUME NEW price \in Prices, create_round(price)
      PROVE  UNCHANGED <<devOverride, hbOverride, arms>>
  BY <1>8 DEF create_round
<1>9. CASE cancel_round
  BY <1>9 DEF cancel_round
<1>10. ASSUME NEW report \in Reports, MakeReport(report)
       PROVE  UNCHANGED <<devOverride, hbOverride, arms>>
  BY <1>10 DEF MakeReport
<1> QED BY <1>1, <1>2, <1>3, <1>4, <1>5, <1>6, <1>7, <1>8, <1>9, <1>10 DEF Next

(* Every step keeps the uses of an override, and the one still armed,      *)
(* within the count of arming calls.                                       *)
LEMMA NextOverrides ==
  ASSUME GateInv, OverridesServeOnce, [Next]_vars
  PROVE  OverridesServeOnce'
<1>1. CASE \E p \in reported : resolve_round(p) \/ resolve_round_multi(p)
  BY <1>1, ResolveSettles, SettlesOverrides DEF GateInv
<1>2. CASE ~ \E p \in reported : resolve_round(p) \/ resolve_round_multi(p)
  <2>1. settled' = settled
    BY <1>2, OtherSteps DEF GateInv
  <2>2. Uses("over")' = Uses("over") /\ Uses("forced")' = Uses("forced")
    BY <2>1 DEF Uses
  <2>3. Uses("over") \in Nat /\ Uses("forced") \in Nat
    <3>1. IsFiniteSet(DOMAIN settled)
      BY LenProperties, FS_Interval DEF GateInv, Typed
    <3> QED BY <3>1, FS_Subset, FS_CardinalityType DEF Uses
  <2>4. /\ devOverride \in BOOLEAN /\ hbOverride \in BOOLEAN /\ arms.dev \in Nat /\ arms.hb \in Nat
        /\ arms \in [dev : Nat, hb : Nat]
    BY DEF GateInv, Typed
  <2>5. \/ UNCHANGED <<devOverride, hbOverride, arms>>
        \/ devOverride' = TRUE /\ arms' = [arms EXCEPT !.dev = arms.dev + 1] /\ UNCHANGED hbOverride
        \/ hbOverride' = TRUE /\ arms' = [arms EXCEPT !.hb = arms.hb + 1] /\ UNCHANGED devOverride
    BY <1>2, FlagSteps DEF GateInv
  <2> QED BY <2>2, <2>3, <2>4, <2>5 DEF OverridesServeOnce
<1> QED BY <1>1, <1>2

(* The admin's deviation and heartbeat overrides serve one settlement per  *)
(* arming call, over any number of rounds and re-armings.                  *)
THEOREM OverridesAreOneShot == Spec => []OverridesServeOnce
<1>1. Init => OverridesServeOnce
  <2> SUFFICES ASSUME Init PROVE OverridesServeOnce
    OBVIOUS
  <2>1. Uses("over") = 0 /\ Uses("forced") = 0
    <3>1. DOMAIN settled = {}
      BY DEF Init
    <3> QED BY <3>1, FS_EmptySet DEF Uses
  <2> QED BY <2>1 DEF Init, OverridesServeOnce
<1> QED BY <1>1, NextOverrides, GateInvariant, PTL DEF Spec

(* A function on 1 .. n is a sequence of length n.                         *)
LEMMA FunctionIsSeq ==
  ASSUME NEW S, NEW n \in Nat, NEW f \in [1 .. n -> S]
  PROVE  f \in Seq(S) /\ Len(f) = n
<1>1. f \in Seq(S)
  OBVIOUS
<1>2. DOMAIN f = 1 .. Len(f) /\ Len(f) \in Nat /\ DOMAIN f = 1 .. n
  BY <1>1, LenProperties
<1> QED BY <1>1, <1>2

(* How many of n settlement prices the ring keeps.                         *)
Kept(n) == IF n < MAX_TWAP_WINDOW_SAMPLES THEN n ELSE MAX_TWAP_WINDOW_SAMPLES

(* The ring holds the latest of the first n prices of Q.                   *)
HoldsLatest(ring, n, Q, S) ==
  /\ ring \in [1 .. Kept(n) -> S]
  /\ \A i \in 1 .. Kept(n) : ring[i] = Q[n - Kept(n) + i]

(* One more price: the oldest sample leaves the ring when it is full.      *)
LEMMA RingStep ==
  ASSUME NEW n \in Nat, NEW S, NEW Q, NEW ring, \A i \in 1 .. n + 1 : Q[i] \in S,
         HoldsLatest(ring, n, Q, S)
  PROVE  HoldsLatest(SamplesAfter(ring, Q[n + 1]), n + 1, Q, S)
<1> DEFINE k == Kept(n)
           m == Kept(n + 1)
           after == SamplesAfter(ring, Q[n + 1])
<1> SUFFICES after \in [1 .. m -> S] /\ \A i \in 1 .. m : after[i] = Q[(n + 1) - m + i]
  BY DEF HoldsLatest
<1>0. ring \in [1 .. k -> S] /\ \A i \in 1 .. k : ring[i] = Q[n - k + i]
  BY DEF HoldsLatest
<1> DEFINE M == MAX_TWAP_WINDOW_SAMPLES
           all == Append(ring, Q[n + 1])
<1>1. /\ M \in Nat /\ k \in Nat /\ k <= n /\ k <= M
      /\ k = (IF n < M THEN n ELSE M) /\ m = (IF n + 1 < M THEN n + 1 ELSE M)
  BY GateConstants DEF Kept
<1> HIDE DEF k, m
<1>2. ring \in Seq(S) /\ Len(ring) = k
  BY <1>0, <1>1, FunctionIsSeq
<1>3. /\ all \in Seq(S) /\ Len(all) = k + 1
      /\ \A i \in 1 .. k : all[i] = Q[n - k + i]
      /\ all[k + 1] = Q[n + 1]
  <2>1. /\ all \in Seq(S) /\ Len(all) = k + 1
        /\ \A i \in 1 .. k : all[i] = ring[i]
        /\ all[k + 1] = Q[n + 1]
    BY <1>2, AppendProperties
  <2>2. \A i \in 1 .. k : ring[i] = Q[n - k + i]
    BY <1>0
  <2> QED BY <2>1, <2>2
<1>4. \A i \in 1 .. k + 1 : all[i] = Q[n - k + i] /\ all[i] \in S
  <2>1. \A i \in 1 .. k + 1 : i \in 1 .. k \/ i = k + 1
    BY <1>1
  <2>2. n - k + (k + 1) = n + 1
    BY <1>1
  <2>3. \A i \in 1 .. k + 1 : all[i] \in S
    BY <1>3, ElementOfSeq
  <2> QED BY <1>3, <2>1, <2>2, <2>3
<1>5. after = IF k + 1 > M THEN SubSeq(all, k + 1 - M + 1, k + 1) ELSE all
  <2>1. after = IF Len(all) > M THEN SubSeq(all, Len(all) - M + 1, Len(all)) ELSE all
    BY DEF SamplesAfter
  <2>2. Len(all) = k + 1
    BY <1>3
  <2> HIDE DEF all
  <2> QED BY <1>1, <2>1, <2>2
<1> HIDE DEF all, after
<1>6. CASE k + 1 > M
  <2>1. k = M /\ m = M /\ n >= M
    BY <1>1, <1>6
  <2>2. after = SubSeq(all, 2, M + 1)
    <3>1. k + 1 - M + 1 = 2
      BY <1>1, <2>1
    <3> QED BY <1>5, <1>6, <2>1, <3>1
  <2>3. /\ after \in Seq(S) /\ Len(after) = M
        /\ \A i \in 1 .. M : after[i] = all[i + 1]
    <3>1. \A i \in 2 .. M + 1 : all[i] \in S
      BY <1>1, <1>4, <2>1
    <3>2. /\ SubSeq(all, 2, M + 1) \in Seq(S)
          /\ Len(SubSeq(all, 2, M + 1)) = IF 2 <= M + 1 THEN M + 1 - 2 + 1 ELSE 0
          /\ \A i \in 1 .. M + 1 - 2 + 1 : SubSeq(all, 2, M + 1)[i] = all[2 + i - 1]
      BY <1>1, <3>1, SubSeqProperties
    <3>3. \A i \in 1 .. M : i \in 1 .. M + 1 - 2 + 1 /\ 2 + i - 1 = i + 1
      BY <1>1
    <3> QED BY <1>1, <2>2, <3>2, <3>3
  <2>4. \A i \in 1 .. M : all[i + 1] = Q[(n + 1) - M + i]
    <3>1. \A i \in 1 .. M : i + 1 \in 1 .. k + 1 /\ n - k + (i + 1) = (n + 1) - M + i
      BY <1>1, <2>1
    <3> QED BY <1>4, <3>1
  <2> QED BY <2>1, <2>3, <2>4, LenProperties
<1>7. CASE ~ (k + 1 > M)
  <2>1. k = n /\ m = n + 1 /\ after = all
    BY <1>1, <1>5, <1>7
  <2>2. \A i \in 1 .. n + 1 : n - k + i = (n + 1) - m + i
    BY <2>1
  <2>3. \A i \in 1 .. m : after[i] = Q[(n + 1) - m + i]
    BY <1>4, <2>1, <2>2
  <2> QED BY <1>3, <2>1, <2>3, LenProperties
<1> QED BY <1>6, <1>7

(* A settlement's price enters the ring.                                   *)
LEMMA SettlesSamples ==
  ASSUME GateInv, SamplesAreLatest, NEW p, NEW price, NEW over, Settles(p, price, over)
  PROVE  SamplesAreLatest'
<1>1. PICK s \in Settlement :
           /\ settled' = Append(settled, s)
           /\ s.round_id = activeRound.round_id /\ s.payload = p /\ s.price = price
           /\ s.over = over /\ s.forced = StrictHeartbeatBlocks /\ s.quorum = gate.quorum
           /\ settled' \in Seq(Settlement)
           /\ Len(settled) \in Nat /\ Len(settled') = Len(settled) + 1
           /\ DOMAIN settled = 1 .. Len(settled) /\ DOMAIN settled' = 1 .. Len(settled) + 1
           /\ \A i \in DOMAIN settled : settled'[i] = settled[i]
           /\ settled'[Len(settled) + 1] = s
  BY SettlementAppended DEF GateInv
<1> DEFINE n == Len(settled)
           Q == [i \in 1 .. n + 1 |-> settled'[i].price]
           k == Kept(n)
           m == Kept(n + 1)
<1>2. n \in Nat
  BY <1>1
<1>3. (\A i \in 1 .. n + 1 : Q[i] \in ReportPrices) /\ Q[n + 1] = price
  <2>1. \A i \in 1 .. n + 1 : settled'[i] \in Settlement
    BY <1>1, ElementOfSeq
  <2> QED BY <1>1, <2>1 DEF Settlement
<1>4. k \in Nat /\ k <= n /\ m \in Nat /\ m <= n + 1
  BY <1>2, GateConstants DEF Kept
<1>5. samples \in [1 .. k -> ReportPrices] /\ \A i \in 1 .. k : samples[i] = Q[n - k + i]
  <2>1. \A i \in 1 .. k : n - k + i \in 1 .. n /\ n - k + i \in 1 .. n + 1
    BY <1>2, <1>4
  <2>2. samples = [i \in 1 .. k |-> settled[n - k + i].price]
    BY DEF SamplesAreLatest, Kept
  <2>3. \A i \in 1 .. n : Q[i] = settled[i].price
    BY <1>1
  <2> HIDE DEF n, Q, k
  <2> QED BY <1>3, <2>1, <2>2, <2>3
<1>6. samples' = SamplesAfter(samples, Q[n + 1])
  BY <1>3 DEF Settles, Accept
<1>7. samples' \in [1 .. m -> ReportPrices] /\ \A i \in 1 .. m : samples'[i] = Q[(n + 1) - m + i]
  <2>1. HoldsLatest(samples, n, Q, ReportPrices)
    BY <1>5 DEF HoldsLatest
  <2>2. HoldsLatest(samples', n + 1, Q, ReportPrices)
    <3> HIDE DEF n, Q, k, m
    <3> QED BY <1>2, <1>3, <1>6, <2>1, RingStep
  <2> QED BY <2>2 DEF HoldsLatest
<1>8. \A i \in 1 .. m : Q[(n + 1) - m + i] = settled'[(n + 1) - m + i].price
  <2>1. \A i \in 1 .. m : (n + 1) - m + i \in 1 .. n + 1
    BY <1>2, <1>4
  <2> QED BY <2>1
<1>9. Len(settled') = n + 1
  BY <1>1
<1>10. samples' = [i \in 1 .. m |-> settled'[(n + 1) - m + i].price]
  <2> HIDE DEF n, Q, m
  <2> QED BY <1>7, <1>8
<1>11. samples' = [i \in 1 .. Kept(Len(settled')) |->
                     settled'[Len(settled') - Kept(Len(settled')) + i].price]
  <2>1. m = Kept(Len(settled'))
    BY <1>9
  <2>2. n + 1 = Len(settled')
    BY <1>9
  <2> HIDE DEF n, m
  <2> QED BY <1>2, <1>4, <1>10, <2>1, <2>2
<1> QED BY <1>11, Zenon DEF SamplesAreLatest, Kept

(* The ring of samples is the window of the latest settlement prices, in   *)
(* order, whatever sequence of rounds filled it.                           *)
THEOREM RingHoldsLatest == Spec => []SamplesAreLatest
<1>1. Init => SamplesAreLatest
  <2> SUFFICES ASSUME Init PROVE SamplesAreLatest
    OBVIOUS
  <2>1. Len(settled) = 0 /\ Kept(0) = 0
    BY GateConstants DEF Init, Kept
  <2>2. samples = [i \in 1 .. 0 |-> settled[0 - 0 + i].price]
    BY DEF Init
  <2> QED BY <2>1, <2>2 DEF SamplesAreLatest, Kept
<1>2. ASSUME GateInv, SamplesAreLatest, [Next]_vars PROVE SamplesAreLatest'
  <2>1. CASE \E p \in reported : resolve_round(p) \/ resolve_round_multi(p)
    BY <1>2, <2>1, ResolveSettles, SettlesSamples DEF GateInv
  <2>2. CASE UNCHANGED <<settled, samples, consumedNonces>>
    BY <1>2, <2>2 DEF SamplesAreLatest
  <2> QED BY <1>2, <2>1, <2>2, OtherSteps DEF GateInv
<1> QED BY <1>1, <1>2, GateInvariant, PTL DEF Spec

(* What a step adds to the settlements: nothing, a single price, or the    *)
(* median of the feeds of a report that resolve_round_multi accepts.       *)
LEMMA SettledSteps ==
  ASSUME Typed, [Next]_vars
  PROVE  \/ settled' = settled
         \/ \E s \in Settlement :
              /\ DOMAIN settled' = 1 .. Len(settled) + 1 /\ DOMAIN settled = 1 .. Len(settled)
              /\ Len(settled) \in Nat
              /\ \A i \in DOMAIN settled : settled'[i] = settled[i]
              /\ settled'[Len(settled) + 1] = s
              /\ \/ s.payload.report.kind = "single"
                 \/ /\ resolve_round_multi(s.payload)
                    /\ s.price = MedianPrice(s.payload.report.feeds) /\ s.quorum = gate.quorum
<1>1. CASE \E p \in reported : resolve_round(p)
  <2>1. PICK p \in reported : resolve_round(p)
    BY <1>1
  <2>2. PICK price, over : Settles(p, price, over)
    BY <2>1, ResolveSettles
  <2>3. p.report.kind = "single"
    BY <2>1 DEF resolve_round
  <2> QED BY <2>2, <2>3, SettlementAppended
<1>2. CASE \E p \in reported : resolve_round_multi(p)
  <2>1. PICK p \in reported : resolve_round_multi(p)
    BY <1>2
  <2> DEFINE price == MedianPrice(p.report.feeds)
             over  == OutOfBand(price, activeRound.price_start)
  <2>2. Settles(p, price, over)
    <3>1. p.report \in Reports
      BY DEF Typed, Payload
    <3>2. price \in ReportPrices /\ over \in BOOLEAN
      BY <3>1 DEF ReportPrices, OutOfBand
    <3>3. Bound(p) /\ Accept(p, price, over)
      BY <2>1 DEF resolve_round_multi
    <3> HIDE DEF price, over
    <3> QED BY <3>2, <3>3 DEF Settles
  <2>3. price = MedianPrice(p.report.feeds)
    OBVIOUS
  <2> HIDE DEF price, over
  <2> QED BY <2>1, <2>2, <2>3, SettlementAppended
<1> QED BY <1>1, <1>2, OtherSteps

(* Feeds that agree and have sources of their own are as many sources.     *)
LEMMA SourcesCount ==
  ASSUME NEW S, IsFiniteSet(S), NEW f, \A i, j \in S : f[i] = f[j] => i = j
  PROVE  Cardinality({f[i] : i \in S}) = Cardinality(S)
<1> DEFINE T == {f[i] : i \in S}
           g == [i \in S |-> f[i]]
<1>1. g \in Bijection(S, T)
  <2>1. g \in [S -> T] /\ \A i, j \in S : g[i] = g[j] => i = j
    OBVIOUS
  <2>2. \A t \in T : \E i \in S : g[i] = t
    OBVIOUS
  <2> HIDE DEF g, T
  <2> QED BY <2>1, <2>2 DEF Bijection, Injection, Surjection, IsInjective
<1> QED BY <1>1, FS_Bijection DEF ExistsBijection

(* The quorum of one settlement.                                           *)
HasQuorum(s) ==
  s.payload.report.kind = "multi" =>
    LET feeds    == s.payload.report.feeds
        agreeing == {k \in DOMAIN feeds :
                       DeviationBps(feeds[k].price, s.price) <= s.quorum.outlier_threshold_bps}
    IN  Cardinality({feeds[k].source : k \in agreeing}) >= s.quorum.quorum_threshold

(* The quorum property, settlement by settlement.                          *)
LEMMA QuorumPointwise == QuorumOfSources <=> \A i \in DOMAIN settled : HasQuorum(settled[i])
BY DEF QuorumOfSources, MultiSettled, HasQuorum

(* resolve_round_multi counts the feeds within the outlier threshold, and  *)
(* has refused two feeds of one source.                                    *)
LEMMA MultiHasQuorum ==
  ASSUME Typed, NEW s \in Settlement, resolve_round_multi(s.payload),
         s.price = MedianPrice(s.payload.report.feeds), s.quorum = gate.quorum
  PROVE  HasQuorum(s)
<1> DEFINE feeds == s.payload.report.feeds
           median == s.price
           agreeing == {k \in DOMAIN feeds :
                          DeviationBps(feeds[k].price, median) <= s.quorum.outlier_threshold_bps}
<1>1. agreeing = Survivors(feeds, median)
  BY DEF Survivors
<1>2. Cardinality(Survivors(feeds, median)) >= gate.quorum.quorum_threshold /\ SourcesDistinct(feeds)
  BY DEF resolve_round_multi
<1>3. IsFiniteSet(agreeing)
  <2>1. feeds \in Seq(Feed)
    BY GateConstants DEF Settlement, Payload, Report
  <2>2. IsFiniteSet(DOMAIN feeds)
    BY <2>1, LenProperties, FS_Interval
  <2> QED BY <2>2, FS_Subset
<1> DEFINE source == [k \in agreeing |-> feeds[k].source]
<1>4. \A i, j \in agreeing : source[i] = source[j] => i = j
  BY <1>2 DEF SourcesDistinct
<1>5. {source[k] : k \in agreeing} = {feeds[k].source : k \in agreeing}
  OBVIOUS
<1>6. Cardinality({source[k] : k \in agreeing}) = Cardinality(agreeing)
  <2> HIDE DEF agreeing, source
  <2> QED BY <1>3, <1>4, SourcesCount
<1>7. Cardinality({feeds[k].source : k \in agreeing}) >= s.quorum.quorum_threshold
  BY <1>1, <1>2, <1>5, <1>6
<1> QED BY <1>7, Zenon DEF HasQuorum

(* Every settlement of resolve_round_multi rests on as many different      *)
(* sources, within the outlier threshold of the settled price, as the      *)
(* quorum in force asked for, however the admin moves the quorum later.    *)
THEOREM QuorumIsReal == Spec => []QuorumOfSources
<1>1. Init => QuorumOfSources
  BY DEF Init, QuorumOfSources, MultiSettled
<1>2. ASSUME GateInv, QuorumOfSources, [Next]_vars PROVE QuorumOfSources'
  <2>1. \A i \in DOMAIN settled : HasQuorum(settled[i])
    BY <1>2, QuorumPointwise
  <2>2. \A i \in DOMAIN settled' : HasQuorum(settled'[i])
    <3>1. CASE settled' = settled
      BY <2>1, <3>1
    <3>2. ASSUME NEW s \in Settlement,
                 DOMAIN settled' = 1 .. Len(settled) + 1, DOMAIN settled = 1 .. Len(settled),
                 Len(settled) \in Nat,
                 \A i \in DOMAIN settled : settled'[i] = settled[i],
                 settled'[Len(settled) + 1] = s,
                 \/ s.payload.report.kind = "single"
                 \/ /\ resolve_round_multi(s.payload)
                    /\ s.price = MedianPrice(s.payload.report.feeds) /\ s.quorum = gate.quorum
          PROVE  \A i \in DOMAIN settled' : HasQuorum(settled'[i])
      <4>1. HasQuorum(s)
        <5>1. CASE s.payload.report.kind = "single"
          BY <5>1 DEF HasQuorum
        <5> QED BY <1>2, <3>2, <5>1, MultiHasQuorum DEF GateInv
      <4>2. \A i \in DOMAIN settled' : i \in DOMAIN settled \/ i = Len(settled) + 1
        BY <3>2
      <4> QED BY <2>1, <3>2, <4>1, <4>2
    <3> QED BY <1>2, <3>1, <3>2, SettledSteps DEF GateInv
  <2>3. QuorumOfSources' <=> \A i \in DOMAIN settled' : HasQuorum(settled'[i])
    BY DEF QuorumOfSources, MultiSettled, HasQuorum
  <2> QED BY <2>2, <2>3
<1> QED BY <1>1, <1>2, GateInvariant, PTL DEF Spec
-----------------------------------------------------------------------------
(* Prices in order.                                                        *)
Nondecreasing(s) == \A i, j \in 1 .. Len(s) : i <= j => s[i] <= s[j]

(* The place the insertion sort puts a price at: after every price that is *)
(* not greater, before every price that is.                                *)
InsertPosition(s, price) ==
  LET later == {j \in DOMAIN s : price < s[j]}
  IN  IF later = {} THEN Len(s) + 1 ELSE Min(later)

(* The insertion position splits a sorted list: nothing before it is       *)
(* dearer, nothing from it on is cheaper.                                  *)
LEMMA PositionSplits ==
  ASSUME NEW s \in Seq(Nat), Nondecreasing(s), NEW price \in Nat
  PROVE  /\ InsertPosition(s, price) \in 1 .. Len(s) + 1
         /\ \A j \in 1 .. Len(s) : j < InsertPosition(s, price) => s[j] <= price
         /\ \A j \in 1 .. Len(s) : j >= InsertPosition(s, price) => price <= s[j]
<1> DEFINE later == {j \in DOMAIN s : price < s[j]}
           pos == InsertPosition(s, price)
<1>1. DOMAIN s = 1 .. Len(s) /\ Len(s) \in Nat /\ \A j \in 1 .. Len(s) : s[j] \in Nat
  BY LenProperties, ElementOfSeq
<1>2. CASE later = {}
  <2>1. pos = Len(s) + 1
    BY <1>2, Zenon DEF InsertPosition
  <2>2. \A j \in 1 .. Len(s) : s[j] <= price
    BY <1>1, <1>2
  <2> HIDE DEF pos
  <2>3. /\ pos \in 1 .. Len(s) + 1
        /\ \A j \in 1 .. Len(s) : j < pos => s[j] <= price
        /\ \A j \in 1 .. Len(s) : j >= pos => price <= s[j]
    BY <1>1, <2>1, <2>2
  <2> QED BY <2>3 DEF pos
<1>3. CASE later # {}
  <2>1. pos = Min(later)
    BY <1>3, Zenon DEF InsertPosition
  <2>2. later \subseteq Nat
    BY <1>1
  <2>3. pos \in later /\ \A y \in later : pos <= y
    <3> HIDE DEF later, pos
    <3> QED BY <1>3, <2>1, <2>2, MinIsLeast
  <2> HIDE DEF pos
  <2>4. pos \in 1 .. Len(s) /\ price < s[pos]
    BY <1>1, <2>3
  <2>5. \A j \in 1 .. Len(s) : j < pos => s[j] <= price
    BY <1>1, <2>3, <2>4
  <2>6. \A j \in 1 .. Len(s) : j >= pos => price <= s[j]
    <3>1. \A j \in 1 .. Len(s) : j >= pos => s[pos] <= s[j]
      BY <2>4 DEF Nondecreasing
    <3> QED BY <1>1, <2>4, <3>1
  <2> QED BY <1>1, <2>4, <2>5, <2>6 DEF pos
<1> QED BY <1>2, <1>3

(* One step of the insertion sort over the feeds with indices in s.        *)
SortStep(feeds, g, s) ==
  IF s = {} THEN << >> ELSE InsertPrice(g[s \ {Max(s)}], feeds[Max(s)].price)

(* A table of the sorted prices of every prefix the fold visits.           *)
IsSort(feeds, g) == g = [s \in SUBSET (DOMAIN feeds) |-> SortStep(feeds, g, s)]

(* The sorted prices are read off such a table.                            *)
LEMMA SortUnfolds ==
  ASSUME NEW feeds
  PROVE  SortedPrices(feeds) = (CHOOSE g : IsSort(feeds, g))[DOMAIN feeds]
BY DEF SortedPrices, FoldLeft, MapThenFoldSet, IsSort, SortStep

(* A price inserted into a sequence of prices.                             *)
LEMMA InsertPriceType ==
  ASSUME NEW s \in Seq(Nat), NEW price \in Nat
  PROVE  /\ InsertPosition(s, price) \in 1 .. Len(s) + 1
         /\ InsertPrice(s, price) = InsertAt(s, InsertPosition(s, price), price)
         /\ InsertPrice(s, price) \in Seq(Nat)
<1> DEFINE later == {j \in DOMAIN s : price < s[j]}
           pos == InsertPosition(s, price)
<1>1. DOMAIN s = 1 .. Len(s) /\ Len(s) \in Nat
  BY LenProperties
<1>2. pos \in 1 .. Len(s) + 1
  <2>1. CASE later = {}
    <3>1. pos = Len(s) + 1
      BY <2>1, Zenon DEF InsertPosition
    <3> QED BY <1>1, <3>1
  <2>2. CASE later # {}
    <3>1. pos = Min(later)
      BY <2>2, Zenon DEF InsertPosition
    <3>2. later \subseteq Nat /\ later \subseteq 1 .. Len(s)
      BY <1>1
    <3>3. Min(later) \in later
      <4> HIDE DEF later
      <4> QED BY <2>2, <3>2, MinIsLeast
    <3>4. pos \in 1 .. Len(s)
      <4> HIDE DEF later, pos
      <4> QED BY <3>1, <3>2, <3>3
    <3> QED BY <1>1, <3>4
  <2> QED BY <2>1, <2>2
<1>3. InsertPrice(s, price) = InsertAt(s, pos, price)
  BY Zenon DEF InsertPrice, InsertPosition
<1> HIDE DEF pos
<1>4. InsertAt(s, pos, price) \in Seq(Nat)
  BY <1>2, InsertAtProperties
<1> QED BY <1>2, <1>3, <1>4 DEF pos

(* The insertion sort is well defined.                                     *)
LEMMA SortExists ==
  ASSUME NEW feeds \in Seq(Feed)
  PROVE  IsSort(feeds, CHOOSE g : IsSort(feeds, g))
<1> DEFINE D == DOMAIN feeds
           K == [base   |-> << >>,
                 choose |-> [s \in SUBSET D |-> Max(s)],
                 step   |-> [t \in (SUBSET D) \X Seq(Nat) |->
                               InsertPrice(t[2], feeds[Max(t[1])].price)]]
<1>1. /\ D = 1 .. Len(feeds) /\ Len(feeds) \in Nat /\ IsFiniteSet(D)
      /\ \A i \in D : feeds[i].price \in Nat
  <2>1. D = 1 .. Len(feeds) /\ Len(feeds) \in Nat
    BY LenProperties
  <2>2. \A i \in 1 .. Len(feeds) : feeds[i] \in Feed
    BY ElementOfSeq
  <2>3. IsFiniteSet(D)
    BY <2>1, FS_Interval
  <2> QED BY <2>1, <2>2, <2>3 DEF Feed
<1>2. \A s \in SUBSET D : s # {} => Max(s) \in s
  BY <1>1, MaxIsGreatest
<1>3. /\ K.base = << >>
      /\ \A s \in SUBSET D : K.choose[s] = Max(s)
      /\ \A s \in SUBSET D : \A q \in Seq(Nat) :
           K.step[<<s, q>>] = InsertPrice(q, feeds[Max(s)].price)
  OBVIOUS
<1> HIDE DEF K
<1>4. IsChoice(D, K.choose)
  BY <1>2, <1>3 DEF IsChoice
<1>5. PICK g : IsFold(D, K, g)
  BY <1>1, <1>4, FoldExists
<1>6. \A s \in SUBSET D : g[s] = FoldStep(K, g, s)
  BY <1>5, FoldAt
<1>7. \A s \in SUBSET D : g[s] \in Seq(Nat)
  <2> DEFINE Good == {s \in SUBSET D : g[s] \in Seq(Nat)}
  <2>1. ASSUME NEW s \in SUBSET D, \A t \in SUBSET s : t # s => t \in Good
        PROVE  s \in Good
    <3>1. CASE s = {}
      <4>1. g[s] = << >>
        BY <1>3, <1>6, <3>1 DEF FoldStep
      <4>2. << >> \in Seq(Nat)
        OBVIOUS
      <4>3. g[s] \in Seq(Nat)
        BY <4>1, <4>2
      <4> QED BY <4>3
    <3>2. CASE s # {}
      <4>1. Max(s) \in s /\ feeds[Max(s)].price \in Nat
        BY <1>1, <1>2, <3>2
      <4>2. g[s \ {Max(s)}] \in Seq(Nat)
        BY <2>1, <4>1
      <4>3. g[s] = InsertPrice(g[s \ {Max(s)}], feeds[Max(s)].price)
        BY <1>3, <1>6, <3>2, <4>2 DEF FoldStep
      <4>4. g[s] \in Seq(Nat)
        BY <4>1, <4>2, <4>3, InsertPriceType
      <4> QED BY <4>4
    <3> QED BY <3>1, <3>2
  <2> HIDE DEF Good
  <2>2. \A s \in SUBSET D : s \in Good
    BY <1>1, <2>1, FiniteSubsetInduction
  <2> QED BY <2>2 DEF Good
<1>8. \A s \in SUBSET D : g[s] = SortStep(feeds, g, s)
  <2> SUFFICES ASSUME NEW s \in SUBSET D PROVE g[s] = SortStep(feeds, g, s)
    OBVIOUS
  <2>1. CASE s = {}
    BY <1>3, <1>6, <2>1 DEF FoldStep, SortStep
  <2>2. CASE s # {}
    <3>1. g[s \ {Max(s)}] \in Seq(Nat)
      BY <1>7
    <3> QED BY <1>3, <1>6, <2>2, <3>1 DEF FoldStep, SortStep
  <2> QED BY <2>1, <2>2
<1>9. IsSort(feeds, g)
  <2>1. g = [s \in SUBSET D |-> g[s]]
    BY <1>5 DEF IsFold
  <2> QED BY <1>8, <2>1 DEF IsSort
<1> QED BY <1>9

(* place says where in out the price of each of the first k feeds is.      *)
Places(feeds, k, out, place) ==
  /\ place \in [1 .. k -> 1 .. k]
  /\ \A i, j \in 1 .. k : place[i] = place[j] => i = j
  /\ \A i \in 1 .. k : out[place[i]] = feeds[i].price

(* out is the sorted sequence of the prices of the first k feeds.          *)
SortsPrefix(feeds, k, out) ==
  /\ out \in Seq(Nat) /\ Len(out) = k /\ Nondecreasing(out)
  /\ \E place : Places(feeds, k, out, place)

(* Inserting the next price into a sorted prefix gives the next sorted     *)
(* prefix.                                                                 *)
LEMMA InsertSorts ==
  ASSUME NEW feeds \in Seq(Feed), NEW k \in Nat, k + 1 <= Len(feeds), NEW out,
         SortsPrefix(feeds, k, out)
  PROVE  SortsPrefix(feeds, k + 1, InsertPrice(out, feeds[k + 1].price))
<1> DEFINE price == feeds[k + 1].price
           pos == InsertPosition(out, price)
           new == InsertPrice(out, price)
<1>1. price \in Nat
  <2>1. k + 1 \in 1 .. Len(feeds)
    BY LenProperties
  <2>2. feeds[k + 1] \in Feed
    BY <2>1, ElementOfSeq
  <2> QED BY <2>2 DEF Feed
<1>2. out \in Seq(Nat) /\ Len(out) = k /\ Nondecreasing(out) /\ \A j \in 1 .. k : out[j] \in Nat
  BY ElementOfSeq DEF SortsPrefix
<1>3. PICK place : Places(feeds, k, out, place)
  BY DEF SortsPrefix
<1> HIDE DEF price, pos, new
<1>4. /\ pos \in 1 .. k + 1
      /\ \A j \in 1 .. k : j < pos => out[j] <= price
      /\ \A j \in 1 .. k : j >= pos => price <= out[j]
  BY <1>1, <1>2, PositionSplits DEF pos
<1>5. new = InsertAt(out, pos, price)
  BY <1>1, <1>2, InsertPriceType DEF pos, new
<1>6. /\ new \in Seq(Nat) /\ Len(new) = k + 1
      /\ \A j \in 1 .. k : j < pos => new[j] = out[j]
      /\ new[pos] = price
      /\ \A j \in 1 .. k : j >= pos => new[j + 1] = out[j]
  <2>1. pos \in 1 .. Len(out) + 1 /\ out \in Seq(Nat)
    BY <1>2, <1>4
  <2>2. /\ new \in Seq(Nat) /\ Len(new) = Len(out) + 1
        /\ \A j \in 1 .. Len(out) : j < pos => new[j] = out[j]
        /\ new[pos] = price
        /\ \A j \in 1 .. Len(out) : j >= pos => new[j + 1] = out[j]
    <3>1. new \in Seq(Nat) /\ Inserted(out, pos, price, new)
      BY <1>1, <1>5, <2>1, InsertAtProperties
    <3> QED BY <3>1 DEF Inserted
  <2> QED BY <1>2, <2>2
<1>7. Nondecreasing(new)
  <2>1. \A j \in 1 .. k + 1 : \/ j < pos /\ j \in 1 .. k
                              \/ j = pos
                              \/ j > pos /\ j - 1 \in 1 .. k /\ j - 1 >= pos /\ (j - 1) + 1 = j
    BY <1>4
  <2> DEFINE val(j) == new[j]
  <2>2. \A j \in 1 .. k + 1 : /\ new[j] \in Nat
                              /\ j < pos => new[j] = out[j] /\ new[j] <= price
                              /\ j > pos => new[j] = out[j - 1] /\ price <= new[j]
    <3> SUFFICES ASSUME NEW j \in 1 .. k + 1
                 PROVE  /\ new[j] \in Nat
                        /\ j < pos => new[j] = out[j] /\ new[j] <= price
                        /\ j > pos => new[j] = out[j - 1] /\ price <= new[j]
      OBVIOUS
    <3>1. CASE j < pos /\ j \in 1 .. k
      BY <1>2, <1>4, <1>6, <3>1
    <3>2. CASE j = pos
      BY <1>1, <1>4, <1>6, <3>2
    <3>3. CASE j > pos /\ j - 1 \in 1 .. k /\ j - 1 >= pos /\ (j - 1) + 1 = j
      <4>1. new[(j - 1) + 1] = out[j - 1] /\ price <= out[j - 1] /\ out[j - 1] \in Nat
        BY <1>2, <1>4, <1>6, <3>3
      <4> QED BY <1>4, <3>3, <4>1
    <3> QED BY <2>1, <3>1, <3>2, <3>3
  <2>3. \A i, j \in 1 .. k : i <= j => out[i] <= out[j]
    BY <1>2 DEF Nondecreasing
  <2> SUFFICES ASSUME NEW i \in 1 .. k + 1, NEW j \in 1 .. k + 1, i <= j
               PROVE  new[i] <= new[j]
    BY <1>6 DEF Nondecreasing
  <2>4. new[i] \in Nat /\ new[j] \in Nat
    BY <2>2
  <2>5. CASE j < pos
    <3>1. i \in 1 .. k /\ j \in 1 .. k /\ i < pos
      BY <1>4, <2>5
    <3>2. new[i] = out[i] /\ new[j] = out[j] /\ out[i] <= out[j]
      BY <1>6, <2>3, <2>5, <3>1
    <3> QED BY <3>2
  <2>6. CASE i > pos
    <3>1. i - 1 \in 1 .. k /\ j - 1 \in 1 .. k /\ i - 1 <= j - 1 /\ j > pos
      BY <1>4, <2>6
    <3>2. new[i] = out[i - 1] /\ new[j] = out[j - 1]
      BY <2>2, <2>6, <3>1
    <3>3. out[i - 1] <= out[j - 1]
      BY <2>3, <3>1
    <3> QED BY <3>2, <3>3
  <2>7. CASE i <= pos /\ pos <= j
    <3>1. new[i] <= price
      BY <1>1, <1>4, <1>6, <2>2, <2>7
    <3>2. price <= new[j]
      BY <1>1, <1>4, <1>6, <2>2, <2>7
    <3> QED BY <1>1, <2>4, <3>1, <3>2
  <2> QED BY <1>4, <2>5, <2>6, <2>7
<1>8. \E p : Places(feeds, k + 1, new, p)
  <2> DEFINE p == [i \in 1 .. k + 1 |->
                     IF i = k + 1 THEN pos ELSE IF place[i] < pos THEN place[i] ELSE place[i] + 1]
  <2>1. /\ \A i \in 1 .. k : place[i] \in 1 .. k
        /\ \A i, j \in 1 .. k : place[i] = place[j] => i = j
        /\ \A i \in 1 .. k : out[place[i]] = feeds[i].price
    BY <1>3 DEF Places
  <2>2. \A i \in 1 .. k + 1 : i = k + 1 \/ i \in 1 .. k
    OBVIOUS
  <2>3. \A i \in 1 .. k + 1 : p[i] \in 1 .. k + 1
    BY <1>4, <2>1, <2>2
  <2>4. \A i, j \in 1 .. k + 1 : p[i] = p[j] => i = j
    BY <1>4, <2>1, <2>2
  <2>5. \A i \in 1 .. k + 1 : new[p[i]] = feeds[i].price
    <3> SUFFICES ASSUME NEW i \in 1 .. k + 1 PROVE new[p[i]] = feeds[i].price
      OBVIOUS
    <3>1. CASE i = k + 1
      BY <1>6, <3>1 DEF price
    <3>2. CASE i \in 1 .. k
      <4>1. place[i] \in 1 .. k /\ out[place[i]] = feeds[i].price /\ i # k + 1
        BY <2>1, <3>2
      <4>2. p[i] = IF place[i] < pos THEN place[i] ELSE place[i] + 1
        BY <4>1
      <4>3. /\ place[i] < pos => new[place[i]] = out[place[i]]
            /\ place[i] >= pos => new[place[i] + 1] = out[place[i]]
        BY <1>6, <4>1
      <4>4. place[i] < pos \/ place[i] >= pos
        BY <1>4, <4>1
      <4> HIDE DEF p
      <4>5. CASE place[i] < pos
        BY <4>1, <4>2, <4>3, <4>5
      <4>6. CASE ~ (place[i] < pos)
        BY <4>1, <4>2, <4>3, <4>4, <4>6
      <4> QED BY <4>5, <4>6
    <3> QED BY <2>2, <3>1, <3>2
  <2>6. p \in [1 .. k + 1 -> 1 .. k + 1]
    BY <2>3
  <2> HIDE DEF p
  <2> QED BY <2>4, <2>5, <2>6 DEF Places
<1> QED BY <1>6, <1>7, <1>8 DEF SortsPrefix, new, price

(* The insertion sort of resolve_round_multi sorts: its result is ordered  *)
(* and places every feed's price.                                          *)
LEMMA SortSorts ==
  ASSUME NEW feeds \in Seq(Feed)
  PROVE  SortsPrefix(feeds, Len(feeds), SortedPrices(feeds))
<1> DEFINE g == CHOOSE h : IsSort(feeds, h)
           n == Len(feeds)
<1>1. n \in Nat /\ DOMAIN feeds = 1 .. n
  BY LenProperties
<1>2. SortedPrices(feeds) = g[1 .. n]
  BY <1>1, SortUnfolds
<1>3. IsSort(feeds, g)
  BY SortExists
<1> HIDE DEF g, n
<1>4. \A s \in SUBSET (1 .. n) : g[s] = SortStep(feeds, g, s)
  <2> DEFINE T == [s \in SUBSET (1 .. n) |-> SortStep(feeds, g, s)]
  <2>1. g = T
    BY <1>1, <1>3 DEF IsSort
  <2>2. \A s \in SUBSET (1 .. n) : T[s] = SortStep(feeds, g, s)
    OBVIOUS
  <2> HIDE DEF T
  <2> QED BY <2>1, <2>2
<1>5. SortsPrefix(feeds, 0, g[1 .. 0])
  <2>1. 1 .. 0 = {} /\ {} \in SUBSET (1 .. n)
    OBVIOUS
  <2>2. g[1 .. 0] = << >>
    BY <1>4, <2>1 DEF SortStep
  <2>3. Places(feeds, 0, << >>, << >>)
    BY <2>1 DEF Places
  <2>4. << >> \in Seq(Nat) /\ Len(<< >>) = 0 /\ Nondecreasing(<< >>)
    BY DEF Nondecreasing
  <2> QED BY <2>2, <2>3, <2>4 DEF SortsPrefix
<1>6. ASSUME NEW k \in Nat, k + 1 <= n, SortsPrefix(feeds, k, g[1 .. k])
      PROVE  SortsPrefix(feeds, k + 1, g[1 .. k + 1])
  <2> DEFINE s == 1 .. k + 1
  <2>1. s \in SUBSET (1 .. n) /\ s # {} /\ s \subseteq 1 .. k + 1 /\ k + 1 \in Nat
    <3>1. \A i \in s : i \in 1 .. n
      BY <1>1, <1>6
    <3>2. k + 1 \in s
      OBVIOUS
    <3> QED BY <3>1, <3>2
  <2>2. Max(s) = k + 1
    <3>1. Max(s) \in s /\ \A y \in s : Max(s) >= y
      <4> HIDE DEF s
      <4> QED BY <2>1, MaxIsGreatest
    <3> QED BY <3>1
  <2>3. s \ {k + 1} = 1 .. k
    OBVIOUS
  <2>4. g[s] = InsertPrice(g[s \ {Max(s)}], feeds[Max(s)].price)
    <3> HIDE DEF s
    <3> QED BY <1>4, <2>1 DEF SortStep
  <2>5. g[s] = InsertPrice(g[1 .. k], feeds[k + 1].price)
    <3> HIDE DEF s
    <3> QED BY <2>2, <2>3, <2>4
  <2> QED BY <1>6, <2>5, InsertSorts DEF n
<1>7. SortsPrefix(feeds, n, g[1 .. n])
  <2> DEFINE Bad == {k \in 0 .. n : ~ SortsPrefix(feeds, k, g[1 .. k])}
  <2> SUFFICES ASSUME n \in Bad PROVE FALSE
    BY <1>1
  <2>1. PICK k \in Bad : \A j \in Bad : k <= j
    <3>1. Bad \subseteq Nat /\ Bad # {}
      BY <1>1
    <3> HIDE DEF Bad
    <3> QED BY <3>1, LeastNatural
  <2>2. k # 0
    BY <1>5, <2>1
  <2>3. k - 1 \in Nat /\ k - 1 \in 0 .. n /\ (k - 1) + 1 = k /\ k - 1 \notin Bad /\ k <= n
    BY <1>1, <2>1, <2>2
  <2>4. SortsPrefix(feeds, k - 1, g[1 .. k - 1])
    BY <2>3
  <2>5. SortsPrefix(feeds, (k - 1) + 1, g[1 .. (k - 1) + 1])
    BY <1>6, <2>3, <2>4
  <2>6. SortsPrefix(feeds, k, g[1 .. k])
    BY <2>3, <2>5
  <2> QED BY <2>1, <2>6
<1> QED BY <1>2, <1>7 DEF n

(* More than half of the positions do not fit into half of them.           *)
LEMMA MajorityPlaced ==
  ASSUME NEW n \in Nat, NEW S, S \subseteq 1 .. n, NEW place \in [1 .. n -> 1 .. n],
         \A i, j \in 1 .. n : place[i] = place[j] => i = j,
         NEW a \in Nat, NEW b \in Nat, \A i \in S : place[i] \in a .. b,
         2 * (b - a + 1) <= n
  PROVE  ~ (2 * Cardinality(S) > n)
<1> DEFINE T == a .. b
           f == [i \in S |-> place[i]]
<1>1. IsFiniteSet(T) /\ Cardinality(T) = IF a > b THEN 0 ELSE b - a + 1
  BY FS_Interval
<1>2. f \in [S -> T] /\ \A i, j \in S : f[i] = f[j] => i = j
  OBVIOUS
<1>3. IsFiniteSet(S) /\ Cardinality(S) <= Cardinality(T)
  <2> HIDE DEF f, T
  <2>1. f \in Injection(S, T)
    BY <1>2 DEF Injection, IsInjective
  <2> QED BY <1>1, <2>1, FS_Injection
<1>4. Cardinality(S) \in Nat
  BY <1>3, FS_CardinalityType
<1> QED BY <1>1, <1>3, <1>4

(* The median of a report lies between the prices of any majority.         *)
LEMMA MedianBrackets ==
  ASSUME NEW feeds \in Seq(Feed), Len(feeds) > 0
  PROVE  /\ MedianPrice(feeds) \in Nat
         /\ \A S \in SUBSET (DOMAIN feeds) :
              2 * Cardinality(S) > Len(feeds) =>
                /\ \E k \in S : feeds[k].price <= MedianPrice(feeds)
                /\ \E k \in S : feeds[k].price >= MedianPrice(feeds)
<1> DEFINE n == Len(feeds)
           out == SortedPrices(feeds)
           median == MedianPrice(feeds)
<1>1. n \in Nat /\ n > 0 /\ DOMAIN feeds = 1 .. n
  BY LenProperties
<1>2. out \in Seq(Nat) /\ Len(out) = n /\ Nondecreasing(out)
  BY SortSorts DEF SortsPrefix
<1>3. PICK place : Places(feeds, n, out, place)
  BY SortSorts DEF SortsPrefix
<1>4. median = IF n % 2 = 1 THEN out[n \div 2 + 1] ELSE (out[n \div 2] + out[n \div 2 + 1]) \div 2
  BY Zenon DEF MedianPrice
<1> HIDE DEF n, out, median
<1>5. (\A j \in 1 .. n : out[j] \in Nat) /\ \A i, j \in 1 .. n : i <= j => out[i] <= out[j]
  BY <1>2, ElementOfSeq DEF Nondecreasing
<1>6. /\ place \in [1 .. n -> 1 .. n]
      /\ \A i, j \in 1 .. n : place[i] = place[j] => i = j
      /\ \A i \in 1 .. n : out[place[i]] = feeds[i].price /\ place[i] \in 1 .. n
  BY <1>3 DEF Places
<1>7. \E a, b \in 1 .. n : /\ median \in Nat /\ out[a] <= median /\ median <= out[b]
                           /\ 2 * (n - a) <= n /\ 2 * (b - 1) <= n
  <2> DEFINE h == n \div 2
  <2>1. h \in Nat /\ (n % 2 = 1 => n = 2 * h + 1) /\ (n % 2 # 1 => n = 2 * h)
    BY <1>1
  <2> HIDE DEF h
  <2>2. CASE n % 2 = 1
    <3>1. h + 1 \in 1 .. n /\ median = out[h + 1]
      BY <1>1, <1>4, <2>1, <2>2 DEF h
    <3>2. median \in Nat /\ out[h + 1] <= median /\ median <= out[h + 1]
      BY <1>5, <3>1
    <3>3. 2 * (n - (h + 1)) <= n /\ 2 * ((h + 1) - 1) <= n
      BY <2>1, <2>2
    <3> QED BY <3>1, <3>2, <3>3
  <2>3. CASE n % 2 # 1
    <3>1. h \in 1 .. n /\ h + 1 \in 1 .. n /\ median = (out[h] + out[h + 1]) \div 2
      BY <1>1, <1>4, <2>1, <2>3 DEF h
    <3>2. out[h] \in Nat /\ out[h + 1] \in Nat /\ out[h] <= out[h + 1]
      BY <1>5, <3>1
    <3>3. \A x, y \in Nat : x <= y => /\ (x + y) \div 2 \in Nat
                                      /\ x <= (x + y) \div 2 /\ (x + y) \div 2 <= y
      OBVIOUS
    <3>4. median \in Nat /\ out[h] <= median /\ median <= out[h + 1]
      BY <3>1, <3>2, <3>3
    <3>5. 2 * (n - h) <= n /\ 2 * ((h + 1) - 1) <= n
      BY <2>1, <2>3
    <3> QED BY <3>1, <3>4, <3>5
  <2> QED BY <2>2, <2>3
<1>8. PICK a \in 1 .. n, b \in 1 .. n : /\ median \in Nat /\ out[a] <= median /\ median <= out[b]
                                        /\ 2 * (n - a) <= n /\ 2 * (b - 1) <= n
  BY <1>7
<1>9. ASSUME NEW S \in SUBSET (1 .. n), 2 * Cardinality(S) > n
      PROVE  \E k \in S : feeds[k].price <= median
  <2> SUFFICES ASSUME \A k \in S : ~ (feeds[k].price <= median) PROVE FALSE
    OBVIOUS
  <2>1. \A k \in S : place[k] \in a + 1 .. n
    <3> SUFFICES ASSUME NEW k \in S PROVE place[k] \in a + 1 .. n
      OBVIOUS
    <3>1. place[k] \in 1 .. n /\ out[place[k]] = feeds[k].price /\ out[place[k]] \in Nat
      BY <1>5, <1>6
    <3>2. place[k] <= a => out[place[k]] <= out[a]
      BY <1>5, <3>1
    <3>3. out[a] \in Nat
      BY <1>5
    <3> QED BY <1>1, <1>8, <3>1, <3>2, <3>3
  <2>2. a + 1 \in Nat /\ n \in Nat /\ 2 * (n - (a + 1) + 1) <= n
    BY <1>1, <1>8
  <2> QED BY <1>1, <1>6, <1>9, <2>1, <2>2, MajorityPlaced
<1>10. ASSUME NEW S \in SUBSET (1 .. n), 2 * Cardinality(S) > n
      PROVE  \E k \in S : feeds[k].price >= median
  <2> SUFFICES ASSUME \A k \in S : ~ (feeds[k].price >= median) PROVE FALSE
    OBVIOUS
  <2>1. \A k \in S : place[k] \in 1 .. b - 1
    <3> SUFFICES ASSUME NEW k \in S PROVE place[k] \in 1 .. b - 1
      OBVIOUS
    <3>1. place[k] \in 1 .. n /\ out[place[k]] = feeds[k].price /\ out[place[k]] \in Nat
      BY <1>5, <1>6
    <3>2. b <= place[k] => out[b] <= out[place[k]]
      BY <1>5, <3>1
    <3>3. out[b] \in Nat
      BY <1>5
    <3> QED BY <1>1, <1>8, <3>1, <3>2, <3>3
  <2>2. 1 \in Nat /\ b - 1 \in Nat /\ 2 * ((b - 1) - 1 + 1) <= n
    BY <1>1, <1>8
  <2> QED BY <1>1, <1>6, <1>10, <2>1, <2>2, MajorityPlaced
<1> QED BY <1>1, <1>8, <1>9, <1>10 DEF n, median

(* The bracket of one settlement.                                          *)
Bracketed(s) ==
  s.payload.report.kind = "multi" =>
    LET feeds == s.payload.report.feeds
    IN  \A S \in SUBSET (DOMAIN feeds) :
          2 * Cardinality(S) > Len(feeds) =>
            /\ \E k \in S : feeds[k].price <= s.price
            /\ \E k \in S : feeds[k].price >= s.price

(* A settlement by several feeds is bracketed: every majority of its feeds *)
(* has one at or below the settled price and one at or above.              *)
LEMMA MultiBracketed ==
  ASSUME NEW s \in Settlement, resolve_round_multi(s.payload),
         s.price = MedianPrice(s.payload.report.feeds)
  PROVE  Bracketed(s)
<1> DEFINE feeds == s.payload.report.feeds
<1>1. feeds \in Seq(Feed)
  BY GateConstants DEF Settlement, Payload, Report
<1>2. Len(feeds) > 0
  BY DEF resolve_round_multi
<1>3. s.price = MedianPrice(feeds)
  OBVIOUS
<1>4. \A S \in SUBSET (DOMAIN feeds) :
        2 * Cardinality(S) > Len(feeds) =>
          /\ \E k \in S : feeds[k].price <= s.price
          /\ \E k \in S : feeds[k].price >= s.price
  <2> HIDE DEF feeds
  <2> QED BY <1>1, <1>2, <1>3, MedianBrackets
<1> QED BY <1>4, Zenon DEF Bracketed

(* A settlement by several feeds stays between the prices of any majority  *)
(* of them, for any number of feeds: the insertion sort and the two middle *)
(* elements of resolve_round_multi compute a median.                       *)
THEOREM MedianHolds == Spec => []MedianBracketed
<1>1. Init => MedianBracketed
  BY DEF Init, MedianBracketed, MultiSettled
<1>2. ASSUME GateInv, MedianBracketed, [Next]_vars PROVE MedianBracketed'
  <2>1. \A i \in DOMAIN settled : Bracketed(settled[i])
    BY <1>2 DEF MedianBracketed, MultiSettled, Bracketed
  <2>2. \A i \in DOMAIN settled' : Bracketed(settled'[i])
    <3>1. CASE settled' = settled
      BY <2>1, <3>1
    <3>2. ASSUME NEW s \in Settlement,
                 DOMAIN settled' = 1 .. Len(settled) + 1, DOMAIN settled = 1 .. Len(settled),
                 Len(settled) \in Nat,
                 \A i \in DOMAIN settled : settled'[i] = settled[i],
                 settled'[Len(settled) + 1] = s,
                 \/ s.payload.report.kind = "single"
                 \/ /\ resolve_round_multi(s.payload)
                    /\ s.price = MedianPrice(s.payload.report.feeds) /\ s.quorum = gate.quorum
          PROVE  \A i \in DOMAIN settled' : Bracketed(settled'[i])
      <4>1. Bracketed(s)
        <5>1. CASE s.payload.report.kind = "single"
          BY <5>1 DEF Bracketed
        <5> QED BY <3>2, <5>1, MultiBracketed
      <4>2. \A i \in DOMAIN settled' : i \in DOMAIN settled \/ i = Len(settled) + 1
        BY <3>2
      <4> QED BY <2>1, <3>2, <4>1, <4>2
    <3> QED BY <1>2, <3>1, <3>2, SettledSteps DEF GateInv
  <2>3. MedianBracketed' <=> \A i \in DOMAIN settled' : Bracketed(settled'[i])
    BY DEF MedianBracketed, MultiSettled, Bracketed
  <2> QED BY <2>2, <2>3
<1> QED BY <1>1, <1>2, GateInvariant, PTL DEF Spec
=============================================================================
