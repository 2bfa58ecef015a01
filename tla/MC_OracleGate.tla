---------------------------- MODULE MC_OracleGate ----------------------------
(***************************************************************************)
(* A small instance of the oracle gate, with a band of 15% around the      *)
(* reference price.                                                        *)
(***************************************************************************)
EXTENDS OracleGate

BaseGate ==
  [maxDeviation |-> 1500, twapWindow |-> None, minConfidence |-> None,
   strictConfidence |-> FALSE, attestation |-> FALSE, skew |-> 5,
   staleAfter |-> 100, strictHeartbeat |-> FALSE, grace |-> 0, quorum |-> None]

Quorum(n) == [min_observations |-> n, quorum_threshold |-> n,
              outlier_threshold_bps |-> 1000]

Single(price, confidence) ==
  [kind |-> "single", feeds |-> <<[source |-> 1, price |-> price]>>, here |-> TRUE,
   confidence |-> confidence, attested |-> TRUE]

Multi(sources, prices) ==
  [kind |-> "multi", here |-> TRUE, confidence |-> None, attested |-> FALSE,
   feeds |-> [i \in DOMAIN prices |-> [source |-> sources[i], price |-> prices[i]]]]

(* Both ways of settling, three gates that differ in reference and quorum, *)
(* a heartbeat that can lapse.  The single price is the start price; four  *)
(* of the five feeds agree, out of band with the start price.              *)
OracleGates ==
  LET g == [BaseGate EXCEPT !.quorum = Quorum(3), !.staleAfter = 10,
                            !.strictHeartbeat = TRUE, !.attestation = TRUE,
                            !.minConfidence = 9000]
  IN  {g, [g EXCEPT !.twapWindow = 2], [g EXCEPT !.quorum = Quorum(5)]}

OracleReports == {Single(20, 9500), Multi(<<1, 2, 3, 4, 5>>, <<60, 30, 33, 30, 30>>)}
=============================================================================
