---------------------------- MODULE PayoutProofs -----------------------------
(***************************************************************************)
(* Theorems about the payout engine, the settlement and its preview, for   *)
(* any number of participants, stakes, guesses, prices, rates and bands.   *)
(***************************************************************************)
EXTENDS PayoutEngine, SettlementProofs

(* The inputs a behaviour can have picked.                                 *)
InputOK == input = None \/ input \in PrecisionInput \/ input \in UpdownInput

(* Only such inputs are ever settled.                                      *)
LEMMA InputInvariant == Spec => []InputOK
<1>1. Init => InputOK
  BY DEF Init, InputOK
<1>2. InputOK /\ [Next]_input => InputOK'
  BY DEF InputOK, Next, SettlePrecision, SettleUpdown
<1> QED BY <1>1, <1>2, PTL DEF Spec

(* A bounded sequence that is not empty, element by element.               *)
LEMMA BoundedIs ==
  ASSUME NEW S, NEW q \in BoundedSeq(S, MaxEntries) \ {<< >>}
  PROVE  /\ q \in Seq(S) /\ Len(q) \in Nat \ {0} /\ DOMAIN q = 1 .. Len(q)
         /\ \A i \in DOMAIN q : q[i] \in S
         /\ IsFiniteSet(DOMAIN q)
<1>1. PICK k \in 0 .. MaxEntries : q \in [1 .. k -> S]
  BY DEF BoundedSeq, SeqOf
<1>2. k \in Nat /\ DOMAIN q = 1 .. k
  BY <1>1, EngineAssumption
<1>3. q \in Seq(S) /\ Len(q) = k
  BY <1>1, <1>2
<1>4. k # 0
  <2> SUFFICES ASSUME k = 0 PROVE FALSE
    OBVIOUS
  <2>1. Len(q) = 0 /\ q \in Seq(S)
    BY <1>3
  <2>2. q = << >>
    BY <2>1, EmptySeq
  <2> QED BY <2>2
<1>5. IsFiniteSet(1 .. k)
  BY <1>2, FS_Interval
<1> QED BY <1>1, <1>2, <1>3, <1>4, <1>5

(* What is known of a Precision input.                                     *)
LEMMA PrecisionIs ==
  ASSUME InputOK, IsPrecision
  PROVE  /\ input \in PrecisionInput
         /\ input.entries \in Seq(Entry) /\ Len(input.entries) \in Nat \ {0}
         /\ DOMAIN input.entries = 1 .. Len(input.entries) /\ IsFiniteSet(DOMAIN input.entries)
         /\ \A i \in DOMAIN input.entries :
              /\ input.entries[i].amount \in Nat \ {0} /\ input.entries[i].predicted_price \in Nat
              /\ input.entries[i].revealed \in BOOLEAN
         /\ input.final \in Nat /\ input.bps \in Rate \cup {None} /\ input.band \in Nat \cup {None}
         /\ input.policy \in {"Equal", "StakeWeighted"}
<1>1. input \in PrecisionInput
  <2>1. input \notin UpdownInput
    BY DEF IsPrecision, UpdownInput
  <2> QED BY <2>1 DEF InputOK, IsPrecision
<1>2. /\ input.entries \in BoundedSeq(Entry, MaxEntries) \ {<< >>}
      /\ input.final \in Finals /\ input.bps \in Rates /\ input.band \in Bands
      /\ input.policy \in {"Equal", "StakeWeighted"}
  BY <1>1 DEF PrecisionInput
<1> DEFINE q == input.entries
<1>3. /\ q \in Seq(Entry) /\ Len(q) \in Nat \ {0} /\ DOMAIN q = 1 .. Len(q)
      /\ \A i \in DOMAIN q : q[i] \in Entry
      /\ IsFiniteSet(DOMAIN q)
  BY <1>2, BoundedIs
<1> HIDE DEF q
<1>4. ASSUME NEW i \in DOMAIN q
      PROVE  /\ q[i].amount \in Nat \ {0} /\ q[i].predicted_price \in Nat
             /\ q[i].revealed \in BOOLEAN
  BY <1>3, <1>4, EngineAssumption DEF Entry
<1>5. input.final \in Nat /\ input.bps \in Rate \cup {None} /\ input.band \in Nat \cup {None}
  BY <1>2, EngineAssumption DEF Rate
<1> QED BY <1>1, <1>2, <1>3, <1>4, <1>5 DEF q

(* What is known of an Up/Down input.                                      *)
LEMMA UpdownIs ==
  ASSUME InputOK, IsUpdown
  PROVE  /\ input \in UpdownInput
         /\ input.positions \in Seq(UpDownPosition) /\ Len(input.positions) \in Nat \ {0}
         /\ DOMAIN input.positions = 1 .. Len(input.positions)
         /\ IsFiniteSet(DOMAIN input.positions)
         /\ \A i \in DOMAIN input.positions :
              input.positions[i].amount \in Nat \ {0} /\ input.positions[i].side_up \in BOOLEAN
         /\ input.start \in Nat /\ input.final \in Nat /\ input.bps \in Rate \cup {None}
<1>1. input \in UpdownInput
  <2>1. input \notin PrecisionInput
    BY DEF IsUpdown, PrecisionInput
  <2> QED BY <2>1 DEF InputOK, IsUpdown
<1>2. /\ input.positions \in BoundedSeq(UpDownPosition, MaxEntries) \ {<< >>}
      /\ input.start \in StartPrices /\ input.final \in Finals /\ input.bps \in Rates
  BY <1>1 DEF UpdownInput
<1> DEFINE q == input.positions
<1>3. /\ q \in Seq(UpDownPosition) /\ Len(q) \in Nat \ {0} /\ DOMAIN q = 1 .. Len(q)
      /\ \A i \in DOMAIN q : q[i] \in UpDownPosition
      /\ IsFiniteSet(DOMAIN q)
  BY <1>2, BoundedIs
<1> HIDE DEF q
<1>4. ASSUME NEW i \in DOMAIN q PROVE q[i].amount \in Nat \ {0} /\ q[i].side_up \in BOOLEAN
  BY <1>3, <1>4, EngineAssumption DEF UpDownPosition
<1>5. input.start \in Nat /\ input.final \in Nat /\ input.bps \in Rate \cup {None}
  BY <1>2, EngineAssumption DEF Rate
<1> QED BY <1>1, <1>3, <1>4, <1>5 DEF q

-----------------------------------------------------------------------------
(* Up/Down rounds. *)

(* The positions on one side.                                              *)
Side(positions, up) == {i \in DOMAIN positions : positions[i].side_up = up}

(* What everybody staked.                                                  *)
Amounts(q) == [i \in DOMAIN q |-> q[i].amount]

(* The two pools are sums of stakes and make up the pot; a position on a   *)
(* side makes its pool positive.                                           *)
LEMMA PoolsAddUp ==
  ASSUME NEW positions, IsFiniteSet(DOMAIN positions),
         \A i \in DOMAIN positions :
           positions[i].amount \in Nat \ {0} /\ positions[i].side_up \in BOOLEAN
  PROVE  /\ \A up \in BOOLEAN : /\ PoolOf(positions, up) \in Nat
                                /\ Side(positions, up) # {} => PoolOf(positions, up) > 0
         /\ Total(positions) = PoolOf(positions, TRUE) + PoolOf(positions, FALSE)
<1> DEFINE D == DOMAIN positions
           stake == Amounts(positions)
           part(up) == [i \in D |-> IF i \in Side(positions, up) THEN stake[i] ELSE 0]
<1>1. \A i \in D : stake[i] \in Nat \ {0}
  BY DEF Amounts
<1>2. \A up \in BOOLEAN : PoolOf(positions, up) = SumFunctionOnSet(stake, Side(positions, up))
  BY DEF PoolOf, Side, Amounts
<1>3. Total(positions) = SumFunctionOnSet(stake, D)
  BY DEF Total, SumFunction, Amounts
<1>4. \A up \in BOOLEAN : Side(positions, up) \in SUBSET D /\ IsFiniteSet(Side(positions, up))
  <2>1. \A up \in BOOLEAN : Side(positions, up) \in SUBSET D
    BY DEF Side
  <2> QED BY <2>1, FS_Subset
<1>5. \A i \in D : i \in Side(positions, TRUE) <=> i \notin Side(positions, FALSE)
  BY DEF Side
<1> HIDE DEF stake
<1>6. ASSUME NEW up \in BOOLEAN
      PROVE  /\ SumFunctionOnSet(stake, Side(positions, up)) \in Nat
             /\ Side(positions, up) # {} => SumFunctionOnSet(stake, Side(positions, up)) > 0
  <2> DEFINE W == Side(positions, up)
  <2>1. IsFiniteSet(W) /\ \A i \in W : stake[i] \in Nat \ {0}
    BY <1>1, <1>4
  <2> HIDE DEF W
  <2>2. SumFunctionOnSet(stake, W) \in Nat /\ \A i \in W : stake[i] <= SumFunctionOnSet(stake, W)
    BY <2>1, SumNat
  <2>3. W # {} => SumFunctionOnSet(stake, W) > 0
    BY <2>1, <2>2
  <2> QED BY <2>2, <2>3 DEF W
<1>7. ASSUME NEW up \in BOOLEAN
      PROVE  SumFunctionOnSet(part(up), D) = SumFunctionOnSet(stake, Side(positions, up))
  <2> DEFINE W == Side(positions, up)
             g == part(up)
  <2>1. /\ \A x \in W : stake[x] \in Int /\ g[x] = stake[x]
        /\ \A x \in D \ W : g[x] = 0
    BY <1>1, <1>4
  <2>2. W \in SUBSET D
    BY <1>4
  <2> HIDE DEF g, W
  <2>3. SumFunctionOnSet(g, D) = SumFunctionOnSet(stake, W)
    BY <2>1, <2>2, SumRestricts
  <2> QED BY <2>3 DEF g, W
<1>8. SumFunctionOnSet(stake, D) = SumFunctionOnSet(part(TRUE), D) + SumFunctionOnSet(part(FALSE), D)
  <2> DEFINE f == part(TRUE)
             g == part(FALSE)
  <2>1. \A x \in D : f[x] \in Int /\ g[x] \in Int /\ stake[x] = f[x] + g[x]
    <3> SUFFICES ASSUME NEW x \in D
                 PROVE  f[x] \in Int /\ g[x] \in Int /\ stake[x] = f[x] + g[x]
      OBVIOUS
    <3>1. /\ f[x] = IF x \in Side(positions, TRUE) THEN stake[x] ELSE 0
          /\ g[x] = IF x \in Side(positions, FALSE) THEN stake[x] ELSE 0
      OBVIOUS
    <3> HIDE DEF f, g
    <3>2. stake[x] \in Nat
      BY <1>1
    <3>3. CASE x \in Side(positions, TRUE)
      <4>1. f[x] = stake[x] /\ g[x] = 0
        BY <1>5, <3>1, <3>3, Zenon
      <4> QED BY <3>2, <4>1
    <3>4. CASE x \notin Side(positions, TRUE)
      <4>1. f[x] = 0 /\ g[x] = stake[x]
        BY <1>5, <3>1, <3>4, Zenon
      <4> QED BY <3>2, <4>1
    <3> QED BY <3>3, <3>4
  <2> HIDE DEF f, g
  <2>2. SumFunctionOnSet(stake, D) = SumFunctionOnSet(f, D) + SumFunctionOnSet(g, D)
    BY <2>1, SumAdds
  <2> QED BY <2>2 DEF f, g
<1> HIDE DEF part
<1> QED BY <1>2, <1>3, <1>6, <1>7, <1>8

(* A contest: what one of the two sides won, and what it shares.           *)
LEMMA ContestIs ==
  ASSUME InputOK, IsContest
  PROVE  LET up == input.final > input.start
         IN  /\ IsUpdown /\ up \in BOOLEAN
             /\ PoolOf(input.positions, up) \in Nat \ {0}
             /\ PoolOf(input.positions, ~ up) \in Nat \ {0}
             /\ Total(input.positions)
                  = PoolOf(input.positions, up) + PoolOf(input.positions, ~ up)
<1> DEFINE up == input.final > input.start
<1>1. IsUpdown /\ PoolOf(input.positions, TRUE) > 0 /\ PoolOf(input.positions, FALSE) > 0
  BY DEF IsContest
<1>2. /\ PoolOf(input.positions, TRUE) \in Nat /\ PoolOf(input.positions, FALSE) \in Nat
      /\ Total(input.positions)
           = PoolOf(input.positions, TRUE) + PoolOf(input.positions, FALSE)
  BY <1>1, UpdownIs, PoolsAddUp
<1>3. \A b \in BOOLEAN :
        /\ PoolOf(input.positions, b) \in Nat \ {0} /\ PoolOf(input.positions, ~ b) \in Nat \ {0}
        /\ Total(input.positions) = PoolOf(input.positions, b) + PoolOf(input.positions, ~ b)
  <2> DEFINE P(b) == PoolOf(input.positions, b)
             t == Total(input.positions)
  <2>1. P(TRUE) \in Nat \ {0} /\ P(FALSE) \in Nat \ {0} /\ t = P(TRUE) + P(FALSE)
        /\ t = P(FALSE) + P(TRUE)
    <3> DEFINE a == PoolOf(input.positions, TRUE)
               c == PoolOf(input.positions, FALSE)
    <3>1. a > 0 /\ c > 0 /\ a \in Nat /\ c \in Nat /\ t = a + c
      BY <1>1, <1>2, Zenon
    <3> HIDE DEF a, c, t
    <3>2. a \in Nat \ {0} /\ c \in Nat \ {0} /\ t = a + c /\ t = c + a
      BY <3>1
    <3> QED BY <3>2, Zenon DEF a, c
  <2> HIDE DEF P, t
  <2>2. \A b \in BOOLEAN : P(b) \in Nat \ {0} /\ P(~ b) \in Nat \ {0} /\ t = P(b) + P(~ b)
    BY <2>1, Zenon
  <2> QED BY <2>2 DEF P, t
<1>4. up \in BOOLEAN
  OBVIOUS
<1> HIDE DEF up
<1>5. /\ PoolOf(input.positions, up) \in Nat \ {0} /\ PoolOf(input.positions, ~ up) \in Nat \ {0}
      /\ Total(input.positions) = PoolOf(input.positions, up) + PoolOf(input.positions, ~ up)
  BY <1>3, <1>4, Zenon
<1> QED BY <1>1, <1>4, <1>5, Zenon DEF up

(* Under FeeOnWinnings an Up/Down winner never gets back less than the     *)
(* stake (_record_winnings_indexed with _apply_protocol_fee_updown).       *)
THEOREM WinnersNeverLose == Spec => []WinnersKeepStake
<1>1. InputOK => WinnersKeepStake
  <2> SUFFICES ASSUME InputOK, IsContest,
                      NEW i \in DOMAIN input.positions,
                      input.positions[i].side_up = (input.final > input.start)
               PROVE  UpdownCredits(input, "FeeOnWinnings").payout[i] >= input.positions[i].amount
    BY DEF WinnersKeepStake
  <2> DEFINE up == input.final > input.start
             winning == PoolOf(input.positions, up)
             losing == PoolOf(input.positions, ~ up)
             net == ProtocolFeeUpdown(input.bps, "FeeOnWinnings", winning, losing)
             stake == input.positions[i].amount
             pay == UpdownWinnerPayout(stake, winning, net.winning + net.losing)
  <2>1. winning \in Nat \ {0} /\ losing \in Nat
    BY ContestIs
  <2>2. stake \in Nat /\ input.bps \in Rate \cup {None}
    BY UpdownIs DEF IsContest
  <2>3. UpdownCredits(input, "FeeOnWinnings").payout[i] = pay
    BY DEF UpdownCredits
  <2> HIDE DEF winning, losing, stake
  <2>4. pay >= stake
    BY <2>1, <2>2, WinnerKeepsStake
  <2> QED BY <2>3, <2>4 DEF stake
<1> QED BY <1>1, InputInvariant, PTL

-----------------------------------------------------------------------------
(* The credits of an Up/Down round once it is known which side won.        *)
CreditsFor(in, model, up) ==
  LET winning == PoolOf(in.positions, up)
      net     == ProtocolFeeUpdown(in.bps, model, winning, PoolOf(in.positions, ~ up))
  IN  [fee    |-> net.fee,
       payout |-> [i \in DOMAIN in.positions |->
                     IF in.positions[i].side_up = up
                     THEN UpdownWinnerPayout(in.positions[i].amount, winning,
                                             net.winning + net.losing)
                     ELSE 0]]

(* They are the settlement's.                                              *)
LEMMA CreditsAre ==
  ASSUME NEW in, NEW model, NEW up, up = (in.final > in.start)
  PROVE  UpdownCredits(in, model) = CreditsFor(in, model, up)
BY DEF UpdownCredits, CreditsFor

(* The engine's fee is the settlement's under FeeOnPot.                    *)
LEMMA EngineUpdownFee ==
  ASSUME NEW winning, NEW losing, NEW bps
  PROVE  ComputeUpdownFee(winning, losing, bps)
           = ProtocolFeeUpdown(bps, "FeeOnPot", winning, losing)
BY DEF ComputeUpdownFee, ProtocolFeeUpdown, UpdownFee

(* Which way the price went.                                               *)
LEMMA DirectionIs ==
  ASSUME NEW start \in Nat, NEW final \in Nat
  PROVE  /\ final > start => PriceDirection(start, final) = "Up"
         /\ final < start => PriceDirection(start, final) = "Down"
         /\ final = start => PriceDirection(start, final) = "Unchanged"
BY DEF PriceDirection

(* In a contest the engine credits what the settlement does.               *)
LEMMA ContestAgrees ==
  ASSUME InputOK, IsContest
  PROVE  ComputeUpdownPayouts(input) = UpdownCredits(input, "FeeOnPot").payout
<1> DEFINE q == input.positions
           up == PoolOf(q, TRUE)
           down == PoolOf(q, FALSE)
           direction == PriceDirection(input.start, input.final)
           w == IF direction = "Up" THEN up ELSE down
           l == IF direction = "Up" THEN down ELSE up
           net == ComputeUpdownFee(w, l, input.bps)
           pay(i) == UpdownWinnerPayout(q[i].amount, w, net.winning + net.losing)
           c == [i \in DOMAIN q |-> IF q[i].side_up = (direction = "Up") THEN pay(i) ELSE 0]
<1>1. /\ IsUpdown /\ input.start # input.final /\ up > 0 /\ down > 0
      /\ input.start \in Nat /\ input.final \in Nat
  BY UpdownIs DEF IsContest
<1>2. up \in Nat /\ down \in Nat
  BY <1>1, UpdownIs, PoolsAddUp
<1>3. direction # "Unchanged" /\ ~ IsOneSidedPool(up, down) /\ w # 0
  <2>1. direction = "Up" \/ direction = "Down"
    BY <1>1, DirectionIs
  <2> HIDE DEF direction, up, down
  <2>2. up # 0 /\ down # 0
    BY <1>1, <1>2
  <2>3. ~ IsOneSidedPool(up, down)
    BY <2>2 DEF IsOneSidedPool
  <2> QED BY <2>1, <2>2, <2>3
<1>4. ComputeUpdownPayouts(input) = c
  <2>1. ComputeUpdownPayouts(input) =
          [i \in DOMAIN q |->
             IF direction = "Unchanged" \/ IsOneSidedPool(up, down) \/ w = 0
             THEN q[i].amount
             ELSE IF q[i].side_up = (direction = "Up") THEN pay(i) ELSE 0]
    BY DEF ComputeUpdownPayouts
  <2> HIDE DEF pay, direction, up, down, w, q
  <2> QED BY <1>3, <2>1
<1>5. net = ProtocolFeeUpdown(input.bps, "FeeOnPot", w, l)
  BY EngineUpdownFee
<1>6. CASE input.final > input.start
  <2>1. direction = "Up"
    BY <1>1, <1>6, DirectionIs
  <2>2. TRUE = (input.final > input.start)
    BY <1>6
  <2>3. UpdownCredits(input, "FeeOnPot") = CreditsFor(input, "FeeOnPot", TRUE)
    BY <2>2, CreditsAre
  <2> HIDE DEF direction
  <2>4. w = up /\ l = down /\ (~ TRUE) = FALSE /\ (direction = "Up") = TRUE
    BY <2>1
  <2>5. c = CreditsFor(input, "FeeOnPot", TRUE).payout
    BY <1>5, <2>4 DEF CreditsFor
  <2> QED BY <1>4, <2>3, <2>5
<1>7. CASE ~ (input.final > input.start)
  <2>1. direction = "Down"
    BY <1>1, <1>7, DirectionIs
  <2>2. FALSE = (input.final > input.start)
    BY <1>7
  <2>3. UpdownCredits(input, "FeeOnPot") = CreditsFor(input, "FeeOnPot", FALSE)
    BY <2>2, CreditsAre
  <2> HIDE DEF direction
  <2>4. w = down /\ l = up /\ (~ FALSE) = TRUE /\ (direction = "Up") = FALSE
    BY <2>1
  <2>5. c = CreditsFor(input, "FeeOnPot", FALSE).payout
    BY <1>5, <2>4 DEF CreditsFor
  <2> QED BY <1>4, <2>3, <2>5
<1> QED BY <1>6, <1>7

(* The pot of a contest is handed out except for less than a unit per      *)
(* winner.                                                                 *)
LEMMA ContestHandsOut ==
  ASSUME InputOK, IsContest, NEW model \in FeeModels
  PROVE  LET c    == UpdownCredits(input, model)
             dust == Total(input.positions) - (SumFunction(c.payout) + c.fee)
             up   == input.final > input.start
         IN  /\ 0 <= dust
             /\ dust < Cardinality({i \in DOMAIN input.positions :
                                      input.positions[i].side_up = up})
<1> DEFINE q == input.positions
           D == DOMAIN q
           up == input.final > input.start
           W == Side(q, up)
           winning == PoolOf(q, up)
           losing == PoolOf(q, ~ up)
           net == ProtocolFeeUpdown(input.bps, model, winning, losing)
           pot == net.winning + net.losing
           stake == Amounts(q)
           paid == [i \in W |-> UpdownWinnerPayout(stake[i], winning, pot)]
           c == UpdownCredits(input, model)
           total == Total(q)
<1>1. /\ IsUpdown /\ winning \in Nat \ {0} /\ losing \in Nat \ {0} /\ total = winning + losing
  BY ContestIs
<1>2. /\ IsFiniteSet(D) /\ \A i \in D : q[i].amount \in Nat
      /\ input.bps \in Rate \cup {None}
  BY <1>1, UpdownIs
<1>3. W \in SUBSET D /\ IsFiniteSet(W) /\ \A i \in W : stake[i] \in Nat
  <2>1. W \in SUBSET D
    BY DEF Side
  <2> QED BY <1>2, <2>1, FS_Subset DEF Amounts
<1>4. winning = SumFunctionOnSet(stake, W)
  BY DEF PoolOf, Side, Amounts
<1>5. c.fee = net.fee /\ DOMAIN c.payout = D
      /\ \A i \in D : c.payout[i] = IF i \in W THEN paid[i] ELSE 0
  BY DEF UpdownCredits, Amounts, Side
<1>6. W = {i \in DOMAIN input.positions : input.positions[i].side_up = up}
  BY DEF Side
<1> HIDE DEF W, winning, losing, stake, c, up, D, total
<1>7. /\ net.winning \in Nat /\ net.losing \in Nat /\ net.fee \in Nat
      /\ net.winning + net.losing + net.fee = winning + losing
  BY <1>1, <1>2, UpdownFeeConserves DEF FeeModels
<1> DEFINE fee == net.fee
<1>8. pot \in Nat /\ fee \in Nat /\ pot + fee = total
  <2> DEFINE a == net.winning
             b == net.losing
  <2>1. a \in Nat /\ b \in Nat /\ fee \in Nat /\ a + b + fee = winning + losing
    BY <1>7
  <2> HIDE DEF a, b, fee, net
  <2>2. a + b \in Nat /\ fee \in Nat /\ (a + b) + fee = total
    BY <1>1, <2>1
  <2> QED BY <2>2 DEF a, b
<1> HIDE DEF net, pot, fee
<1>9. \A i \in W : paid[i] = UpdownWinnerPayout(stake[i], winning, pot)
  OBVIOUS
<1> HIDE DEF paid
<1> DEFINE s == SumFunctionOnSet(paid, W)
<1>10. /\ \A i \in W : paid[i] \in Nat
       /\ s \in Nat /\ s <= pot /\ pot - s < Cardinality(W)
  BY <1>1, <1>3, <1>4, <1>8, <1>9, UpdownSharesFit
<1>11. SumFunction(c.payout) = s
  <2> DEFINE g == c.payout
  <2>1. (\A x \in W : paid[x] \in Int /\ g[x] = paid[x]) /\ \A x \in D \ W : g[x] = 0
    BY <1>3, <1>5, <1>10
  <2> HIDE DEF g
  <2>2. SumFunctionOnSet(g, D) = SumFunctionOnSet(paid, W)
    BY <1>2, <1>3, <2>1, SumRestricts
  <2> QED BY <1>5, <2>2 DEF SumFunction, g
<1>12. Cardinality(W) \in Nat
  BY <1>3, FS_CardinalityType
<1> HIDE DEF s
<1> DEFINE n == Cardinality(W)
<1>13. 0 <= total - (s + fee) /\ total - (s + fee) < n
  <2> HIDE DEF n
  <2>1. n \in Nat /\ s \in Nat /\ s <= pot /\ pot - s < n
    BY <1>10, <1>12 DEF n
  <2> QED BY <1>8, <2>1
<1> QED BY <1>5, <1>6, <1>11, <1>13 DEF c, total, fee, up, q

(* What the preview of an Up/Down round shows once it is known which side  *)
(* won and that nothing is refunded.                                       *)
PreviewFor(in, model, winning, losing, up) ==
  LET net == ProtocolFeeUpdown(in.bps, model, winning, losing)
  IN  [fee    |-> net.fee,
       payout |-> [i \in DOMAIN in.positions |->
                     IF in.positions[i].side_up = up
                     THEN (in.positions[i].amount * (net.winning + net.losing)) \div winning
                     ELSE 0]]

(* It is what the settlement credits.                                      *)
LEMMA PreviewForIs ==
  ASSUME NEW in, NEW model, NEW up, PoolOf(in.positions, up) # 0
  PROVE  PreviewFor(in, model, PoolOf(in.positions, up), PoolOf(in.positions, ~ up), up)
           = CreditsFor(in, model, up)
BY DEF PreviewFor, CreditsFor, UpdownWinnerPayout

(* The preview of an Up/Down round is its settlement.                      *)
LEMMA PreviewUpdownAgrees ==
  ASSUME InputOK, IsUpdown, NEW model \in FeeModels
  PROVE  PreviewUpdown(input, model) = UpdownSettled(input, model)
<1> DEFINE q == input.positions
           up == PoolOf(q, TRUE)
           down == PoolOf(q, FALSE)
           rising == input.final > input.start
           refunded == input.final = input.start \/ (up = 0) # (down = 0)
           w == IF rising THEN up ELSE down
           l == IF rising THEN down ELSE up
           net == ProtocolFeeUpdown(input.bps, model, w, l)
           refund == [fee |-> 0, payout |-> [i \in DOMAIN q |-> q[i].amount]]
<1>1. input.start \in Nat /\ input.final \in Nat
  BY UpdownIs
<1>2. up \in Nat /\ down \in Nat /\ (up # 0 \/ down # 0)
  <2>1. /\ IsFiniteSet(DOMAIN q) /\ 1 \in DOMAIN q
        /\ \A i \in DOMAIN q : q[i].amount \in Nat \ {0} /\ q[i].side_up \in BOOLEAN
    BY UpdownIs
  <2>2. \A b \in BOOLEAN : PoolOf(q, b) \in Nat /\ (Side(q, b) # {} => PoolOf(q, b) > 0)
    BY <2>1, PoolsAddUp
  <2>3. up \in Nat /\ down \in Nat /\ (Side(q, TRUE) # {} => up > 0)
        /\ (Side(q, FALSE) # {} => down > 0)
    BY <2>2, Zenon
  <2>4. 1 \in Side(q, TRUE) \/ 1 \in Side(q, FALSE)
    BY <2>1 DEF Side
  <2>5. up > 0 \/ down > 0
    BY <2>3, <2>4, Zenon
  <2> HIDE DEF up, down
  <2> QED BY <2>3, <2>5
<1>3. UpdownSettled(input, model) = IF refunded THEN refund ELSE UpdownCredits(input, model)
  <2>1. (PriceDirection(input.start, input.final) = "Unchanged") <=> (input.final = input.start)
    BY <1>1, DirectionIs
  <2>2. UpdownSettled(input, model) =
          IF \/ PriceDirection(input.start, input.final) = "Unchanged"
             \/ IsOneSidedPool(up, down)
          THEN refund ELSE UpdownCredits(input, model)
    BY DEF UpdownSettled
  <2>3. IsOneSidedPool(up, down) <=> ((up = 0) # (down = 0))
    BY DEF IsOneSidedPool
  <2> HIDE DEF refund, up, down
  <2> QED BY <2>1, <2>2, <2>3
<1>4. PreviewUpdown(input, model) =
        [fee    |-> IF refunded THEN 0 ELSE net.fee,
         payout |-> [i \in DOMAIN q |->
                       IF refunded THEN q[i].amount
                       ELSE IF q[i].side_up = rising
                            THEN (q[i].amount * (net.winning + net.losing)) \div w ELSE 0]]
  BY DEF PreviewUpdown
<1>5. CASE refunded
  <2> HIDE DEF refunded, net, rising, w, l
  <2>1. UpdownSettled(input, model) = refund
    BY <1>3, <1>5, Zenon
  <2>2. PreviewUpdown(input, model) = refund
    BY <1>4, <1>5
  <2> QED BY <2>1, <2>2
<1>6. CASE ~ refunded
  <2>1. input.final # input.start /\ up # 0 /\ down # 0
    <3> HIDE DEF up, down
    <3> QED BY <1>2, <1>6
  <2>2. UpdownSettled(input, model) = UpdownCredits(input, model)
    BY <1>3, <1>6
  <2>3. PreviewUpdown(input, model) = PreviewFor(input, model, w, l, rising)
    <3>1. PreviewUpdown(input, model) =
            [fee    |-> net.fee,
             payout |-> [i \in DOMAIN q |->
                           IF q[i].side_up = rising
                           THEN (q[i].amount * (net.winning + net.losing)) \div w ELSE 0]]
      <4> HIDE DEF refunded, net, rising, w, l
      <4> QED BY <1>4, <1>6
    <3> QED BY <3>1 DEF PreviewFor
  <2>4. CASE rising
    <3>1. rising = TRUE /\ w = up /\ l = down /\ (~ TRUE) = FALSE
      BY <2>4
    <3>2. UpdownCredits(input, model) = CreditsFor(input, model, TRUE)
      <4>1. TRUE = (input.final > input.start)
        BY <2>4
      <4> QED BY <4>1, CreditsAre
    <3>3. PreviewFor(input, model, PoolOf(q, TRUE), PoolOf(q, ~ TRUE), TRUE)
            = CreditsFor(input, model, TRUE)
      BY <2>1, PreviewForIs
    <3> QED BY <2>2, <2>3, <3>1, <3>2, <3>3
  <2>5. CASE ~ rising
    <3>1. rising = FALSE /\ w = down /\ l = up /\ (~ FALSE) = TRUE
      BY <2>5
    <3>2. UpdownCredits(input, model) = CreditsFor(input, model, FALSE)
      <4>1. FALSE = (input.final > input.start)
        BY <2>5
      <4> QED BY <4>1, CreditsAre
    <3>3. PreviewFor(input, model, PoolOf(q, FALSE), PoolOf(q, ~ FALSE), FALSE)
            = CreditsFor(input, model, FALSE)
      BY <2>1, PreviewForIs
    <3> QED BY <2>2, <2>3, <3>1, <3>2, <3>3
  <2> QED BY <2>4, <2>5
<1> QED BY <1>5, <1>6

-----------------------------------------------------------------------------
(* The scan of a Precision round. *)

(* The entries of a round, as the loops find them.                         *)
IsRound(entries, n, final) ==
  /\ n \in Nat /\ DOMAIN entries = 1 .. n /\ final \in Nat
  /\ \A i \in 1 .. n : entries[i].predicted_price \in Nat /\ entries[i].revealed \in BOOLEAN

(* How far a guess is from the price.                                      *)
Dist(entries, final, i) == Distance(entries[i].predicted_price, final)

(* The revealed entries among the first k.                                 *)
Revealed(entries, k) == {i \in 1 .. k : entries[i].revealed}

(* The closest of them.                                                    *)
Closest(entries, final, k) ==
  {i \in Revealed(entries, k) :
     \A j \in Revealed(entries, k) : Dist(entries, final, i) <= Dist(entries, final, j)}

(* d is the distance of the closest, or None.                              *)
Least(entries, final, k, d) ==
  IF Revealed(entries, k) = {} THEN d = None
  ELSE /\ d \in Nat /\ \E i \in Revealed(entries, k) : d = Dist(entries, final, i)
       /\ \A j \in Revealed(entries, k) : d <= Dist(entries, final, j)

(* Distances are numbers.                                                  *)
LEMMA DistNat ==
  ASSUME NEW entries, NEW n, NEW final, IsRound(entries, n, final), NEW i \in 1 .. n
  PROVE  Dist(entries, final, i) \in Nat
BY DEF IsRound, Dist, Distance

(* What one more entry does to the closest, as it is unrevealed, closer    *)
(* than all before it, as close as the closest, or farther.                *)
LEMMA ClosestGrows ==
  ASSUME NEW entries, NEW n, NEW final, IsRound(entries, n, final), NEW k \in Nat, k < n,
         NEW d, Least(entries, final, k, d)
  PROVE  LET e == k + 1
             r == Dist(entries, final, e)
             c == Closest(entries, final, k)
             c2 == Closest(entries, final, e)
         IN  /\ e \in 1 .. n /\ r \in Nat /\ d \in Nat \cup {None}
             /\ ~ entries[e].revealed => c2 = c /\ Least(entries, final, e, d)
             /\ entries[e].revealed /\ (d = None \/ r < d) =>
                  c2 = {e} /\ Least(entries, final, e, r)
             /\ entries[e].revealed /\ d # None /\ r = d =>
                  c2 = c \cup {e} /\ Least(entries, final, e, d)
             /\ entries[e].revealed /\ d # None /\ r > d =>
                  c2 = c /\ Least(entries, final, e, d)
             /\ c = {} <=> d = None
             /\ c \subseteq 1 .. k
<1> DEFINE e == k + 1
           F(i) == Dist(entries, final, i)
           r == F(e)
           R == Revealed(entries, k)
           R2 == Revealed(entries, e)
           c == Closest(entries, final, k)
           c2 == Closest(entries, final, e)
<1>1. /\ n \in Nat /\ e \in 1 .. n /\ \A i \in 1 .. n : F(i) \in Nat
      /\ \A i \in 1 .. n : entries[i].revealed \in BOOLEAN
  <2>1. n \in Nat /\ \A i \in 1 .. n : entries[i].revealed \in BOOLEAN
    BY DEF IsRound
  <2>2. \A i \in 1 .. n : F(i) \in Nat
    BY DistNat
  <2> QED BY <2>1, <2>2
<1>2. r \in Nat /\ None \notin Nat
  BY <1>1, EngineAssumption
<1>3. R \subseteq 1 .. k /\ R \subseteq 1 .. n /\ e \notin R /\ \A i \in R : F(i) \in Nat
  <2>1. R \subseteq 1 .. k /\ R \subseteq 1 .. n /\ e \notin R
    BY <1>1 DEF Revealed
  <2> QED BY <1>1, <2>1, Zenon
<1>4. R2 = IF entries[e].revealed THEN R \cup {e} ELSE R
  BY <1>1 DEF Revealed
<1>5. /\ c = {i \in R : \A j \in R : F(i) <= F(j)}
      /\ c2 = {i \in R2 : \A j \in R2 : F(i) <= F(j)}
  BY DEF Closest
<1>6. /\ R = {} => d = None
      /\ R # {} => d \in Nat /\ (\E i \in R : d = F(i)) /\ \A j \in R : d <= F(j)
  BY DEF Least
<1>7. ASSUME NEW x, R2 # {}, x \in Nat, \E i \in R2 : x = F(i), \A j \in R2 : x <= F(j)
      PROVE  Least(entries, final, e, x)
  BY <1>7 DEF Least
<1>8. R2 = {} => Least(entries, final, e, None)
  BY DEF Least
<1> HIDE DEF F, R, R2, c, c2
<1>9. d \in Nat \cup {None} /\ (d = None <=> R = {})
  BY <1>2, <1>6
<1>10. ASSUME ~ entries[e].revealed
       PROVE  c2 = c /\ Least(entries, final, e, d)
  <2>1. R2 = R
    BY <1>4, <1>10
  <2>2. c2 = c
    BY <1>5, <2>1
  <2>3. Least(entries, final, e, d)
    BY <1>6, <1>7, <1>8, <2>1
  <2> QED BY <2>2, <2>3
<1>11. ASSUME entries[e].revealed, d = None \/ r < d
       PROVE  c2 = {e} /\ Least(entries, final, e, r)
  <2>1. R2 = R \cup {e}
    BY <1>4, <1>11
  <2>2. \A j \in R : r < F(j)
    BY <1>2, <1>3, <1>6, <1>9, <1>11
  <2>3. r = F(e) /\ F(e) \in Nat
    BY <1>2
  <2> HIDE DEF r, e
  <2>4. \A j \in R2 : r <= F(j)
    BY <1>2, <1>3, <2>1, <2>2, <2>3
  <2>5. c2 = {e}
    <3>1. e \in c2
      BY <1>5, <2>1, <2>3, <2>4
    <3>2. ASSUME NEW i \in c2, i # e PROVE FALSE
      <4>1. i \in R /\ F(i) <= r
        BY <1>5, <2>1, <2>3, <3>2
      <4>2. r < F(i) /\ F(i) \in Nat
        BY <1>3, <2>2, <4>1
      <4> QED BY <1>2, <4>1, <4>2
    <3> QED BY <3>1, <3>2
  <2>6. Least(entries, final, e, r)
    <3>1. e \in R2
      BY <2>1
    <3> QED BY <1>2, <1>7, <2>3, <2>4, <3>1 DEF e
  <2> QED BY <2>5, <2>6 DEF e, r
<1>12. ASSUME entries[e].revealed, d # None, r >= d
       PROVE  Least(entries, final, e, d)
  <2>1. R2 = R \cup {e} /\ R # {}
    BY <1>4, <1>9, <1>12
  <2>2. d \in Nat /\ (\E i \in R : d = F(i)) /\ \A j \in R : d <= F(j)
    BY <1>6, <2>1
  <2>3. d <= F(e)
    BY <1>2, <1>12
  <2>4. R2 # {} /\ (\E i \in R2 : d = F(i)) /\ \A j \in R2 : d <= F(j)
    BY <2>1, <2>2, <2>3
  <2> QED BY <1>7, <2>2, <2>4
<1>13. ASSUME d # None PROVE c = {i \in R : F(i) = d}
  <2>1. d \in Nat /\ (\E i \in R : d = F(i)) /\ \A j \in R : d <= F(j)
    BY <1>6, <1>13
  <2>2. ASSUME NEW i \in R PROVE (\A j \in R : F(i) <= F(j)) <=> F(i) = d
    <3>1. F(i) \in Nat /\ d <= F(i)
      BY <1>3, <2>1
    <3>2. (\A j \in R : F(i) <= F(j)) => F(i) <= d
      BY <2>1
    <3> QED BY <2>1, <3>1, <3>2
  <2> QED BY <1>5, <2>2
<1>14. ASSUME entries[e].revealed, d # None, r >= d
       PROVE  c2 = {i \in R2 : F(i) = d}
  <2>1. R2 = R \cup {e} /\ R # {}
    BY <1>4, <1>9, <1>14
  <2>2. d \in Nat /\ (\E i \in R : d = F(i)) /\ \A j \in R : d <= F(j)
    BY <1>6, <2>1
  <2>3. d <= F(e) /\ F(e) \in Nat
    BY <1>2, <1>14
  <2>4. (\E i \in R2 : d = F(i)) /\ \A j \in R2 : d <= F(j) /\ F(j) \in Nat
    BY <1>3, <2>1, <2>2, <2>3
  <2>5. ASSUME NEW i \in R2 PROVE (\A j \in R2 : F(i) <= F(j)) <=> F(i) = d
    <3>1. F(i) \in Nat /\ d <= F(i)
      BY <2>4
    <3>2. (\A j \in R2 : F(i) <= F(j)) => F(i) <= d
      BY <2>4
    <3> QED BY <2>2, <2>4, <3>1, <3>2
  <2> QED BY <1>5, <2>5
<1>15. ASSUME entries[e].revealed, d # None, r = d PROVE c2 = c \cup {e}
  <2>1. r >= d
    BY <1>2, <1>15
  <2>2. c2 = {i \in R2 : F(i) = d} /\ c = {i \in R : F(i) = d} /\ R2 = R \cup {e}
    BY <1>4, <1>13, <1>14, <1>15, <2>1
  <2>3. F(e) = d
    BY <1>15
  <2> HIDE DEF e
  <2> QED BY <2>2, <2>3
<1>16. ASSUME entries[e].revealed, d # None, r > d PROVE c2 = c
  <2>1. d \in Nat
    BY <1>9, <1>16
  <2>2. r >= d /\ r # d
    BY <1>2, <1>16, <2>1
  <2>3. c2 = {i \in R2 : F(i) = d} /\ c = {i \in R : F(i) = d} /\ R2 = R \cup {e}
    BY <1>4, <1>13, <1>14, <1>16, <2>2
  <2>4. F(e) # d
    BY <2>2
  <2> HIDE DEF e
  <2> QED BY <2>3, <2>4
<1>17. (c = {} <=> d = None) /\ c \subseteq 1 .. k
  <2>1. c \subseteq R
    BY <1>5
  <2>2. d = None => c = {}
    BY <1>9, <2>1
  <2>3. d # None => c # {}
    BY <1>6, <1>9, <1>13
  <2> QED BY <1>3, <2>1, <2>2, <2>3
<1>18. entries[e].revealed /\ d # None /\ (r = d \/ r > d) => r >= d
  BY <1>2, <1>9
<1>19. ~ entries[e].revealed => c2 = c /\ Least(entries, final, e, d)
  BY <1>10
<1> QED BY <1>1, <1>2, <1>9, <1>19, <1>11, <1>12, <1>15, <1>16, <1>17, <1>18, Zenon DEF c, c2, F

(* The participants in the order the loops visit them.                     *)
Visits(entries) == [i \in DOMAIN entries |-> i]

(* Every participant is visited once, in order.                            *)
LEMMA VisitsAre ==
  ASSUME NEW entries, NEW n \in Nat, DOMAIN entries = 1 .. n
  PROVE  /\ Visits(entries) \in Seq(1 .. n) /\ Len(Visits(entries)) = n
         /\ DOMAIN Visits(entries) = 1 .. n
         /\ \A i \in 1 .. n : Visits(entries)[i] = i
<1>1. Visits(entries) = [i \in 1 .. n |-> i]
  BY DEF Visits
<1> QED BY <1>1

(* Where the scan starts.                                                  *)
ScanBase == [min_diff |-> None, winners |-> {}]

(* Its state after every set of indices.                                   *)
ScanLoop(entries, final, g) ==
  g = [s \in SUBSET (DOMAIN Visits(entries)) |->
         IF s = {} THEN ScanBase
         ELSE ScanStep(entries, final, g[s \ {Max(s)}], Visits(entries)[Max(s)])]

(* The winners are read off such a table.                                  *)
LEMMA ScanUnfolds ==
  ASSUME NEW entries, NEW final
  PROVE  ScanWinners(entries, final)
           = (CHOOSE g : ScanLoop(entries, final, g))[DOMAIN Visits(entries)].winners
BY DEF ScanWinners, FoldLeft, MapThenFoldSet, ScanLoop, ScanBase, Visits

(* What the scan keeps.                                                    *)
ScanStates(n) == [min_diff : Nat \cup {None}, winners : SUBSET (1 .. n)]

(* The scan as a function of what it keeps.                                *)
ScanBody(entries, n, final) ==
  [t \in ScanStates(n) \X (1 .. n) |-> ScanStep(entries, final, t[1], t[2])]

(* A step of it, case by case.                                             *)
LEMMA ScanCases ==
  ASSUME NEW entries, NEW n, NEW final, IsRound(entries, n, final),
         NEW acc \in ScanStates(n), NEW i \in 1 .. n
  PROVE  LET r == Dist(entries, final, i)
             d == acc.min_diff
             out == ScanStep(entries, final, acc, i)
         IN  /\ out \in ScanStates(n)
             /\ ~ entries[i].revealed => out = acc
             /\ entries[i].revealed /\ (d = None \/ r < d) => out = [min_diff |-> r, winners |-> {i}]
             /\ entries[i].revealed /\ d # None /\ r = d =>
                  out = [min_diff |-> d, winners |-> acc.winners \cup {i}]
             /\ entries[i].revealed /\ d # None /\ r > d => out = acc
<1> DEFINE r == Dist(entries, final, i)
           d == acc.min_diff
           out == ScanStep(entries, final, acc, i)
           w == acc.winners
<1>1. r \in Nat /\ None \notin Nat
  BY DistNat, EngineAssumption
<1>2. d \in Nat \cup {None} /\ w \in SUBSET (1 .. n) /\ acc = [min_diff |-> d, winners |-> w]
  BY DEF ScanStates
<1>3. out = IF ~ entries[i].revealed THEN acc
            ELSE IF d = None \/ r < d THEN [min_diff |-> r, winners |-> {i}]
            ELSE IF r = d THEN [acc EXCEPT !.winners = w \cup {i}]
            ELSE acc
  BY DEF ScanStep, Dist
<1>4. [acc EXCEPT !.winners = w \cup {i}] = [min_diff |-> d, winners |-> w \cup {i}]
  BY <1>2
<1> HIDE DEF r, out, d, w
<1>5. /\ ~ entries[i].revealed => out = acc
      /\ entries[i].revealed /\ (d = None \/ r < d) => out = [min_diff |-> r, winners |-> {i}]
      /\ entries[i].revealed /\ d # None /\ r = d => out = [min_diff |-> d, winners |-> w \cup {i}]
      /\ entries[i].revealed /\ d # None /\ r > d => out = acc
  <2>1. r = d => ~ (r < d)
    BY <1>1
  <2>2. d # None /\ r > d => ~ (r < d) /\ r # d
    BY <1>1, <1>2
  <2> QED BY <1>1, <1>3, <1>4, <2>1, <2>2, Zenon
<1>6. \/ ~ entries[i].revealed \/ (d = None \/ r < d)
      \/ (d # None /\ r = d) \/ (d # None /\ r > d)
  BY <1>1, <1>2
<1>7. /\ [min_diff |-> r, winners |-> {i}] \in ScanStates(n)
      /\ [min_diff |-> d, winners |-> w \cup {i}] \in ScanStates(n)
  BY <1>1, <1>2 DEF ScanStates
<1>8. out \in ScanStates(n)
  BY <1>5, <1>6, <1>7, Zenon
<1> QED BY <1>5, <1>8, Zenon DEF r, out, d, w

(* The table exists.                                                       *)
LEMMA ScanLoopExists ==
  ASSUME NEW entries, NEW n, NEW final, IsRound(entries, n, final)
  PROVE  \E g : ScanLoop(entries, final, g)
<1> DEFINE B == ScanStates(n)
           A == 1 .. n
           list == Visits(entries)
           body == ScanBody(entries, n, final)
<1>1. n \in Nat /\ DOMAIN entries = A
  BY DEF IsRound
<1>2. \A a \in B, i \in A : ScanStep(entries, final, a, i) \in B
  BY ScanCases
<1>3. body \in [B \X A -> B] /\ \A a \in B, i \in A : body[<<a, i>>] = ScanStep(entries, final, a, i)
  <2> HIDE DEF B, A
  <2>1. body = [t \in B \X A |-> ScanStep(entries, final, t[1], t[2])]
    BY DEF ScanBody, B, A
  <2> QED BY <1>2, <2>1
<1>4. ScanBase \in B
  BY DEF ScanBase, ScanStates
<1>5. list \in Seq(A) /\ DOMAIN list = 1 .. n /\ \A i \in A : list[i] = i
  BY <1>1, VisitsAre
<1> HIDE DEF body, B, list
<1>6. PICK g : IsLoop(list, ScanBase, body, g) /\ \A s \in SUBSET (DOMAIN list) : g[s] \in B
  <2>1. /\ body \in [B \X A -> B] /\ list \in Seq(A) /\ ScanBase \in B
    BY <1>3, <1>4, <1>5
  <2> HIDE DEF A
  <2> QED BY <2>1, LoopExists, Zenon
<1>7. ASSUME NEW s \in SUBSET (DOMAIN list), s # {}
      PROVE  body[<<g[s \ {Max(s)}], list[Max(s)]>>]
               = ScanStep(entries, final, g[s \ {Max(s)}], list[Max(s)])
  <2>1. Max(s) \in s
    BY <1>1, <1>5, <1>7, MaxIsGreatest
  <2>2. list[Max(s)] \in A /\ g[s \ {Max(s)}] \in B
    BY <1>5, <1>6, <2>1
  <2> QED BY <1>3, <2>2
<1>8. ScanLoop(entries, final, g)
  <2>1. g = [s \in SUBSET (DOMAIN list) |->
               IF s = {} THEN ScanBase ELSE body[<<g[s \ {Max(s)}], list[Max(s)]>>]]
    BY <1>6, Zenon DEF IsLoop
  <2>2. [s \in SUBSET (DOMAIN list) |->
               IF s = {} THEN ScanBase ELSE body[<<g[s \ {Max(s)}], list[Max(s)]>>]]
        = [s \in SUBSET (DOMAIN list) |->
             IF s = {} THEN ScanBase
             ELSE ScanStep(entries, final, g[s \ {Max(s)}], list[Max(s)])]
    BY <1>7
  <2> QED BY <2>1, <2>2, Zenon DEF ScanLoop, list
<1> QED BY <1>8

(* The scan ends with exactly the revealed guesses closest to the price.   *)
LEMMA ScanIs ==
  ASSUME NEW entries, NEW n, NEW final, IsRound(entries, n, final)
  PROVE  ScanWinners(entries, final) = Closest(entries, final, n)
<1> DEFINE g == CHOOSE h : ScanLoop(entries, final, h)
           list == Visits(entries)
           next == [s \in SUBSET (DOMAIN list) |->
                      ScanStep(entries, final, g[s \ {Max(s)}], list[Max(s)])]
           Found(k) == /\ g[1 .. k] \in ScanStates(n)
                       /\ g[1 .. k].winners = Closest(entries, final, k)
                       /\ Least(entries, final, k, g[1 .. k].min_diff)
           Good == {k \in 0 .. n : Found(k)}
<1>1. ScanLoop(entries, final, g)
  BY ScanLoopExists
<1>2. ScanWinners(entries, final) = g[DOMAIN list].winners
  BY ScanUnfolds
<1> HIDE DEF g
<1>3. n \in Nat /\ DOMAIN entries = 1 .. n
  BY DEF IsRound
<1>4. /\ list \in Seq(1 .. n) /\ Len(list) = n /\ DOMAIN list = 1 .. n
      /\ \A i \in 1 .. n : list[i] = i
  BY <1>3, VisitsAre
<1>5. /\ g[1 .. 0] = ScanBase
      /\ \A k \in Nat : k + 1 <= n => g[1 .. k + 1] = next[1 .. k + 1]
  <2>1. StartsWith(list, ScanBase, next, g)
    BY <1>1 DEF ScanLoop, StartsWith
  <2> HIDE DEF next, list
  <2> QED BY <1>4, <2>1, LoopPrefixes
<1>6. ASSUME NEW k \in Nat, k < n
      PROVE  g[1 .. k + 1] = ScanStep(entries, final, g[1 .. k], k + 1)
  <2> DEFINE s == 1 .. k + 1
  <2>1. s \in SUBSET (DOMAIN list) /\ k + 1 <= n /\ k + 1 \in 1 .. n
    BY <1>3, <1>4, <1>6
  <2>2. next[s] = ScanStep(entries, final, g[s \ {Max(s)}], list[Max(s)])
    BY <2>1
  <2>3. Max(s) = k + 1 /\ s \ {k + 1} = 1 .. k
    BY PrefixMax
  <2> HIDE DEF next, s, list
  <2>4. g[s] = next[s]
    BY <1>5, <2>1 DEF s
  <2>5. list[k + 1] = k + 1
    BY <1>4, <2>1
  <2> QED BY <2>2, <2>3, <2>4, <2>5, Zenon DEF s
<1> HIDE DEF list
<1>7. Found(0)
  <2>1. ScanBase \in ScanStates(n) /\ ScanBase.winners = {} /\ ScanBase.min_diff = None
    BY DEF ScanBase, ScanStates
  <2>2. Revealed(entries, 0) = {}
    BY DEF Revealed
  <2>3. Closest(entries, final, 0) = {} /\ Least(entries, final, 0, None)
    BY <2>2 DEF Closest, Least
  <2> QED BY <1>5, <2>1, <2>3, Zenon
<1>8. ASSUME NEW k \in Nat, k < n, Found(k) PROVE Found(k + 1)
  <2> DEFINE acc == g[1 .. k]
             e == k + 1
             out == ScanStep(entries, final, acc, e)
             d == acc.min_diff
             r == Dist(entries, final, e)
             c == Closest(entries, final, k)
             c2 == Closest(entries, final, e)
             rev == entries[e].revealed
  <2>1. acc \in ScanStates(n) /\ acc.winners = c /\ Least(entries, final, k, d)
    BY <1>8
  <2>2. g[1 .. k + 1] = out
    BY <1>6, <1>8
  <2> HIDE DEF acc
  <2>3. /\ e \in 1 .. n /\ r \in Nat /\ d \in Nat \cup {None}
        /\ ~ rev => c2 = c /\ Least(entries, final, e, d)
        /\ rev /\ (d = None \/ r < d) => c2 = {e} /\ Least(entries, final, e, r)
        /\ rev /\ d # None /\ r = d => c2 = c \cup {e} /\ Least(entries, final, e, d)
        /\ rev /\ d # None /\ r > d => c2 = c /\ Least(entries, final, e, d)
    BY <1>8, <2>1, ClosestGrows
  <2> HIDE DEF e
  <2>4. /\ out \in ScanStates(n)
        /\ ~ rev => out = acc
        /\ rev /\ (d = None \/ r < d) => out = [min_diff |-> r, winners |-> {e}]
        /\ rev /\ d # None /\ r = d => out = [min_diff |-> d, winners |-> acc.winners \cup {e}]
        /\ rev /\ d # None /\ r > d => out = acc
    BY <2>1, <2>3, ScanCases
  <2>5. \/ ~ rev \/ (rev /\ (d = None \/ r < d))
        \/ (rev /\ d # None /\ r = d) \/ (rev /\ d # None /\ r > d)
    <3> HIDE DEF d, r, rev
    <3> QED BY <2>3
  <2> HIDE DEF out, r, rev, c, c2
  <2>6. out.winners = c2 /\ Least(entries, final, e, out.min_diff)
    <3>1. CASE ~ rev
      BY <2>1, <2>3, <2>4, <3>1, Zenon
    <3>2. CASE rev /\ (d = None \/ r < d)
      <4>1. out = [min_diff |-> r, winners |-> {e}]
        BY <2>4, <3>2
      <4>2. out.min_diff = r /\ out.winners = {e}
        BY <4>1
      <4> QED BY <2>3, <3>2, <4>2
    <3>3. CASE rev /\ d # None /\ r = d
      <4>1. out = [min_diff |-> d, winners |-> acc.winners \cup {e}]
        BY <2>4, <3>3
      <4>2. out.min_diff = d /\ out.winners = acc.winners \cup {e}
        BY <4>1
      <4> QED BY <2>1, <2>3, <3>3, <4>2
    <3>4. CASE rev /\ d # None /\ r > d
      BY <2>1, <2>3, <2>4, <3>4, Zenon
    <3> QED BY <2>5, <3>1, <3>2, <3>3, <3>4, Zenon
  <2> QED BY <2>2, <2>4, <2>6, Zenon DEF e, c2
<1> HIDE DEF Found
<1>9. \A k \in 0 .. n : k \in Good
  <2>1. 0 \in Good
    BY <1>3, <1>7
  <2>2. \A k \in Nat : k < n /\ k \in Good => k + 1 \in Good
    BY <1>3, <1>8
  <2> HIDE DEF Good
  <2> QED BY <1>3, <2>1, <2>2, UpTo
<1>10. Found(n)
  BY <1>3, <1>9
<1> QED BY <1>2, <1>4, <1>10 DEF Found

(* A Precision input is a round the loops can run over.                    *)
LEMMA RoundOf ==
  ASSUME InputOK, IsPrecision
  PROVE  IsRound(input.entries, Len(input.entries), input.final)
BY PrecisionIs DEF IsRound

(* The closest entries by the reference definition.                        *)
LEMMA ClosestIs ==
  ASSUME NEW entries, NEW n, NEW final, IsRound(entries, n, final)
  PROVE  ClosestGuesses([i \in {i \in DOMAIN entries : entries[i].revealed} |->
                           entries[i].predicted_price], final)
           = Closest(entries, final, n)
<1> DEFINE R == Revealed(entries, n)
           guess == [i \in R |-> entries[i].predicted_price]
<1>1. {i \in DOMAIN entries : entries[i].revealed} = R
  BY DEF IsRound, Revealed
<1>2. DOMAIN guess = R /\ \A i \in R : Distance(guess[i], final) = Dist(entries, final, i)
  BY DEF Dist
<1> HIDE DEF R
<1>3. ClosestGuesses(guess, final) = Closest(entries, final, n)
  <2> HIDE DEF guess
  <2> QED BY <1>2 DEF ClosestGuesses, Closest, R
<1> QED BY <1>1, <1>3, Zenon DEF guess

-----------------------------------------------------------------------------
(* The winners of the engine. *)

(* The score of an entry.                                                  *)
Scored(entries, final, scoring, i) == Score(scoring, entries[i].predicted_price, final)

(* Scores are numbers and a closer guess never scores worse; an absolute   *)
(* score is the distance.                                                  *)
LEMMA ScoresFollow ==
  ASSUME NEW entries, NEW n, NEW final, IsRound(entries, n, final), NEW scoring,
         NEW i \in 1 .. n, NEW j \in 1 .. n
  PROVE  /\ Scored(entries, final, scoring, i) \in Nat
         /\ scoring = "AbsoluteDistance" =>
              Scored(entries, final, scoring, i) = Dist(entries, final, i)
         /\ Dist(entries, final, i) <= Dist(entries, final, j) =>
              Scored(entries, final, scoring, i) <= Scored(entries, final, scoring, j)
<1> DEFINE a == Dist(entries, final, i)
           b == Dist(entries, final, j)
           rel == scoring = "RelativeDistance" /\ final > 0
<1>1. a \in Nat /\ b \in Nat /\ final \in Nat
  BY DistNat DEF IsRound
<1>2. /\ Scored(entries, final, scoring, i) = IF rel THEN (a * BPS_DENOMINATOR) \div final ELSE a
      /\ Scored(entries, final, scoring, j) = IF rel THEN (b * BPS_DENOMINATOR) \div final ELSE b
  BY DEF Scored, Score, Dist
<1> HIDE DEF a, b
<1>3. CASE rel
  <2> DEFINE d == BPS_DENOMINATOR
             x == a * d
             y == b * d
             p == x \div final
             q == y \div final
  <2>1. d \in Nat
    BY DEF BPS_DENOMINATOR
  <2> HIDE DEF d
  <2>2. x \in Nat /\ y \in Nat /\ final \in Nat \ {0}
    BY <1>1, <1>3, <2>1
  <2>3. a <= b => x <= y
    <3>1. a <= b => d * a <= d * b
      BY <1>1, <2>1, MulMonotone
    <3> QED BY <1>1, <2>1, <3>1
  <2> HIDE DEF x, y
  <2>4. /\ p \in Nat /\ final * p <= x /\ x < final * p + final
        /\ q \in Nat /\ final * q <= y /\ y < final * q + final
    BY <2>2, DivFloor
  <2>5. a <= b => p <= q
    <3> SUFFICES ASSUME a <= b PROVE p <= q
      OBVIOUS
    <3> HIDE DEF p, q
    <3>1. p * final <= y
      BY <2>2, <2>3, <2>4
    <3>2. y \div final \in Nat /\ (p * final <= y => p <= y \div final)
      BY <2>2, <2>4, DivBounds
    <3> QED BY <3>1, <3>2 DEF q
  <2>6. scoring # "AbsoluteDistance"
    BY <1>3
  <2> HIDE DEF p, q
  <2>7. Scored(entries, final, scoring, i) = p /\ Scored(entries, final, scoring, j) = q
    BY <1>2, <1>3 DEF p, q, x, y, d
  <2> QED BY <2>4, <2>5, <2>6, <2>7 DEF a, b
<1>4. CASE ~ rel
  BY <1>1, <1>2, <1>4 DEF a, b
<1> QED BY <1>3, <1>4

(* Who wins under a scoring policy and a confidence band: revealed entries *)
(* only, the closest among them, and nobody else for an absolute score     *)
(* without a band.                                                         *)
LEMMA FindIs ==
  ASSUME NEW entries, NEW n, NEW final, IsRound(entries, n, final), NEW scoring,
         NEW band \in Nat \cup {None}
  PROVE  LET W == FindPrecisionWinners(entries, final, scoring, band)
         IN  /\ W \subseteq 1 .. n
             /\ Closest(entries, final, n) \subseteq W
             /\ Revealed(entries, n) = {} => W = {}
             /\ scoring = "AbsoluteDistance" /\ band = None => W = Closest(entries, final, n)
<1> DEFINE R == Revealed(entries, n)
           sc(i) == Scored(entries, final, scoring, i)
           F(i) == Dist(entries, final, i)
           T == {sc(i) : i \in R}
           best == CHOOSE s \in T : \A i \in R : s <= sc(i)
           W == FindPrecisionWinners(entries, final, scoring, band)
<1>1. {i \in DOMAIN entries : entries[i].revealed} = R /\ R \subseteq 1 .. n
  BY DEF IsRound, Revealed
<1>2. W = {i \in R : IF band = None THEN sc(i) = best ELSE sc(i) <= band \/ sc(i) <= best + band}
  BY <1>1 DEF FindPrecisionWinners, Scored
<1>3. \A i, j \in R : /\ sc(i) \in Nat /\ (F(i) <= F(j) => sc(i) <= sc(j)) /\ F(i) \in Nat
                      /\ (scoring = "AbsoluteDistance" => sc(i) = F(i))
  <2> SUFFICES ASSUME NEW i \in R, NEW j \in R
               PROVE  /\ sc(i) \in Nat /\ (F(i) <= F(j) => sc(i) <= sc(j)) /\ F(i) \in Nat
                      /\ (scoring = "AbsoluteDistance" => sc(i) = F(i))
    OBVIOUS
  <2>1. i \in 1 .. n /\ j \in 1 .. n
    BY <1>1
  <2> QED BY <2>1, ScoresFollow, DistNat
<1>4. Closest(entries, final, n) = {i \in R : \A j \in R : F(i) <= F(j)}
  BY DEF Closest
<1> HIDE DEF R, sc, F, W
<1>5. R # {} => best \in T /\ \A i \in R : best <= sc(i)
  <2> SUFFICES ASSUME R # {} PROVE best \in T /\ \A i \in R : best <= sc(i)
    OBVIOUS
  <2>1. T \subseteq Nat /\ T # {}
    BY <1>3
  <2>2. \E s \in T : \A t \in T : s <= t
    BY <2>1, LeastNatural
  <2>3. \E s \in T : \A i \in R : s <= sc(i)
    BY <2>2
  <2> QED BY <2>3
<1>6. R # {} => best \in Nat /\ \E i \in R : sc(i) = best
  BY <1>3, <1>5
<1> HIDE DEF best
<1>7. Closest(entries, final, n) \subseteq W
  <2> SUFFICES ASSUME NEW i \in R, \A j \in R : F(i) <= F(j) PROVE i \in W
    BY <1>4
  <2>1. PICK j \in R : sc(j) = best
    BY <1>6
  <2>2. sc(i) <= best /\ best <= sc(i) /\ sc(i) \in Nat /\ best \in Nat
    BY <1>3, <1>5, <1>6, <2>1
  <2>3. sc(i) = best
    BY <2>2
  <2>4. band # None => best <= best + band
    BY <2>2
  <2> QED BY <1>2, <2>3, <2>4
<1>8. ASSUME scoring = "AbsoluteDistance", band = None PROVE W = Closest(entries, final, n)
  <2> SUFFICES ASSUME NEW i \in W PROVE \A j \in R : F(i) <= F(j)
    BY <1>2, <1>4, <1>7
  <2>1. i \in R /\ sc(i) = best
    BY <1>2, <1>8
  <2> QED BY <1>3, <1>5, <1>8, <2>1
<1>9. W \subseteq 1 .. n /\ (R = {} => W = {})
  BY <1>1, <1>2
<1> QED BY <1>7, <1>8, <1>9 DEF W, R

-----------------------------------------------------------------------------
(* What a Precision round pays. *)

(* The engine splits the pool as the settlement does, although it computes *)
(* the remainder its own way.                                              *)
LEMMA SplitIs ==
  ASSUME NEW policy \in {"Equal", "StakeWeighted"}, NEW W, IsFiniteSet(W), W # {},
         NEW stake, \A u \in W : stake[u] \in Nat, SumFunctionOnSet(stake, W) > 0,
         NEW pool \in Nat
  PROVE  (IF policy = "Equal" THEN SplitPotAmongWinners(pool, W)
          ELSE SplitPotStakeWeighted(pool, stake, W))
           = PrecisionPayouts(policy, stake, W, pool)
<1> DEFINE n == Cardinality(W)
           total == SumFunctionOnSet(stake, W)
           first == FirstAddress(W)
<1>1. n \in Nat \ {0}
  <2>1. n \in Nat
    BY FS_CardinalityType
  <2>2. n # 0
    BY FS_EmptySet
  <2> QED BY <2>1, <2>2
<1>2. total \in Nat
  BY SumNat
<1>3. CASE policy = "Equal"
  <2> DEFINE each == pool \div n
             share == [u \in W |-> each]
             paid == [u \in W |-> share[u] + IF u = first THEN pool - SumFunction(share) ELSE 0]
  <2>1. PrecisionPayouts(policy, stake, W, pool) = paid
    <3>1. [u \in W |-> CASE policy = "Equal" -> pool \div Cardinality(W)
                         [] policy = "StakeWeighted" /\ total > 0 -> (stake[u] * pool) \div total
                         [] OTHER -> 0] = share
      BY <1>3
    <3> HIDE DEF share
    <3> QED BY <3>1 DEF PrecisionPayouts
  <2>2. each \in Nat
    <3> HIDE DEF n
    <3> QED BY <1>1, DivFloor
  <2>3. SumFunction(share) = n * each
    <3>1. DOMAIN share = W /\ \A u \in W : share[u] = each
      OBVIOUS
    <3> HIDE DEF share, each
    <3>2. SumFunctionOnSet(share, W) = Cardinality(W) * each
      BY <2>2, <3>1, SumConstant
    <3> QED BY <3>1, <3>2 DEF SumFunction
  <2>4. pool - n * each = pool % n
    <3> HIDE DEF n
    <3> QED BY <1>1
  <2>5. paid = [u \in W |-> each + IF u = first THEN pool % n ELSE 0]
    <3>1. \A u \in W : share[u] = each
      OBVIOUS
    <3> HIDE DEF share, each, n, first
    <3> QED BY <2>3, <2>4, <3>1
  <2>6. SplitPotAmongWinners(pool, W) = [u \in W |-> each + IF u = first THEN pool % n ELSE 0]
    BY DEF SplitPotAmongWinners
  <2> QED BY <1>3, <2>1, <2>5, <2>6, Zenon
<1>4. CASE policy = "StakeWeighted"
  <2> DEFINE share == [u \in W |-> (stake[u] * pool) \div total]
             rest == pool - SumFunction(share)
             paid == [u \in W |-> share[u] + IF u = first THEN rest ELSE 0]
  <2>1. PrecisionPayouts(policy, stake, W, pool) = paid
    <3>1. [u \in W |-> CASE policy = "Equal" -> pool \div Cardinality(W)
                         [] policy = "StakeWeighted" /\ total > 0 -> (stake[u] * pool) \div total
                         [] OTHER -> 0] = share
      BY <1>4
    <3> HIDE DEF share
    <3> QED BY <3>1 DEF PrecisionPayouts
  <2>2. SplitPotStakeWeighted(pool, stake, W) =
          [u \in W |-> share[u] + IF u = first /\ rest > 0 THEN rest ELSE 0]
    <3>1. total # 0
      BY <1>2
    <3> HIDE DEF share
    <3> QED BY <3>1 DEF SplitPotStakeWeighted, share
  <2>3. SumFunction(share) \in Nat /\ SumFunction(share) <= pool
    <3>1. DOMAIN share = W
          /\ \A u \in W : share[u] = (stake[u] * pool) \div SumFunctionOnSet(stake, W)
      OBVIOUS
    <3> HIDE DEF share
    <3>2. SumFunctionOnSet(share, W) \in Nat /\ SumFunctionOnSet(share, W) <= pool
      BY <3>1, FloorShares
    <3> QED BY <3>1, <3>2 DEF SumFunction
  <2>4. rest > 0 \/ rest = 0
    <3> DEFINE s == SumFunction(share)
    <3> HIDE DEF s
    <3>1. s \in Nat /\ s <= pool
      BY <2>3 DEF s
    <3>2. pool - s > 0 \/ pool - s = 0
      BY <3>1
    <3> QED BY <3>2 DEF s
  <2> HIDE DEF share, rest, first
  <2>5. [u \in W |-> share[u] + IF u = first /\ rest > 0 THEN rest ELSE 0] = paid
    BY <2>4
  <2>6. policy # "Equal"
    BY <1>4
  <2> QED BY <2>1, <2>2, <2>5, <2>6, Zenon
<1> QED BY <1>3, <1>4

(* The payouts of a Precision round with these winners and this pool.      *)
Handed(entries, W, policy, pool) ==
  [i \in DOMAIN entries |->
     IF W = {} THEN entries[i].amount
     ELSE IF i \in W THEN PrecisionPayouts(policy, Amounts(entries), W, pool)[i] ELSE 0]

(* Stakes of winners are part of the pot, and together positive.           *)
LEMMA WinnersStake ==
  ASSUME NEW entries, IsFiniteSet(DOMAIN entries), NEW W \in SUBSET (DOMAIN entries),
         \A i \in DOMAIN entries : entries[i].amount \in Nat \ {0}
  PROVE  /\ IsFiniteSet(W) /\ \A i \in W : Amounts(entries)[i] \in Nat
         /\ Total(entries) \in Nat
         /\ SumFunctionOnSet(Amounts(entries), W) \in 0 .. Total(entries)
         /\ W # {} => SumFunctionOnSet(Amounts(entries), W) > 0
         /\ DOMAIN entries # {} => Total(entries) > 0
<1> DEFINE D == DOMAIN entries
           stake == Amounts(entries)
           g == [i \in D |-> IF i \in W THEN stake[i] ELSE 0]
<1>1. \A i \in D : stake[i] \in Nat \ {0}
  BY DEF Amounts
<1>2. Total(entries) = SumFunctionOnSet(stake, D)
  BY DEF Total, SumFunction, Amounts
<1>3. IsFiniteSet(W)
  BY FS_Subset
<1> HIDE DEF stake
<1>4. \A i \in W : stake[i] \in Nat
  BY <1>1
<1>5. /\ SumFunctionOnSet(stake, W) \in Nat
      /\ \A i \in W : stake[i] <= SumFunctionOnSet(stake, W)
  BY <1>3, <1>4, SumNat
<1>6. /\ SumFunctionOnSet(stake, D) \in Nat
      /\ \A i \in D : stake[i] <= SumFunctionOnSet(stake, D)
  BY <1>1, SumNat
<1>7. /\ \A x \in W : stake[x] \in Int /\ g[x] = stake[x]
      /\ \A x \in D \ W : g[x] = 0
      /\ \A x \in D : g[x] \in Int /\ stake[x] \in Int /\ g[x] <= stake[x]
  BY <1>1
<1> HIDE DEF g
<1>8. SumFunctionOnSet(g, D) = SumFunctionOnSet(stake, W)
  BY <1>7, SumRestricts
<1>9. SumFunctionOnSet(g, D) <= SumFunctionOnSet(stake, D)
  BY <1>7, SumMonotone
<1> DEFINE a == SumFunctionOnSet(stake, W)
           b == SumFunctionOnSet(stake, D)
<1>10. a \in Nat /\ b \in Nat /\ a <= b /\ (\A i \in W : stake[i] <= a) /\ \A i \in D : stake[i] <= b
  BY <1>5, <1>6, <1>8, <1>9
<1> HIDE DEF a, b
<1>11. a \in 0 .. b /\ (W # {} => a > 0) /\ (D # {} => b > 0)
  BY <1>1, <1>10
<1> QED BY <1>2, <1>3, <1>4, <1>10, <1>11 DEF a, b, stake

(* Winners get the whole pool between them; without winners everybody is   *)
(* refunded.                                                               *)
LEMMA HandedSum ==
  ASSUME NEW entries, IsFiniteSet(DOMAIN entries), \A i \in DOMAIN entries : i \in Nat,
         NEW W \in SUBSET (DOMAIN entries),
         \A i \in DOMAIN entries : entries[i].amount \in Nat \ {0},
         NEW policy \in {"Equal", "StakeWeighted"}, NEW pool \in Nat
  PROVE  SumFunction(Handed(entries, W, policy, pool)) = IF W = {} THEN Total(entries) ELSE pool
<1> DEFINE D == DOMAIN entries
           stake == Amounts(entries)
           h == Handed(entries, W, policy, pool)
           paid == PrecisionPayouts(policy, stake, W, pool)
<1>1. DOMAIN h = D
  BY DEF Handed
<1>2. CASE W = {}
  <2>1. h = stake
    BY <1>2 DEF Handed, Amounts
  <2> QED BY <1>2, <2>1 DEF Total, Amounts
<1>3. CASE W # {}
  <2>1. /\ IsFiniteSet(W) /\ \A u \in W : stake[u] \in Nat
        /\ SumFunctionOnSet(stake, W) > 0
    BY <1>3, WinnersStake
  <2>2. \A u \in W : u \in Nat
    OBVIOUS
  <2> HIDE DEF stake
  <2>3. (\A u \in W : paid[u] \in Nat) /\ SumFunctionOnSet(paid, W) = pool
    <3>1. (\A u \in W : stake[u] \in Nat) /\ IsFiniteSet(W) /\ SumFunctionOnSet(stake, W) > 0
      BY <2>1
    <3> QED BY <1>3, <2>2, <3>1, PrecisionPotHandedOut, SMTT(30)
  <2>4. \A i \in D : h[i] = IF i \in W THEN paid[i] ELSE 0
    BY <1>3 DEF Handed, stake
  <2> HIDE DEF h, paid
  <2>5. /\ \A x \in W : paid[x] \in Int /\ h[x] = paid[x]
        /\ \A x \in D \ W : h[x] = 0
    BY <2>3, <2>4
  <2>6. SumFunctionOnSet(h, D) = SumFunctionOnSet(paid, W)
    BY <2>5, SumRestricts
  <2>7. SumFunction(h) = pool
    BY <1>1, <2>3, <2>6 DEF SumFunction
  <2> QED BY <1>3, <2>7 DEF h
<1> QED BY <1>2, <1>3

(* The engine's fee is the settlement's under FeeOnPot, whoever wins.      *)
LEMMA EnginePrecisionFee ==
  ASSUME NEW pot, NEW bps, NEW winner_stakes
  PROVE  ComputePrecisionFee(pot, bps) = ProtocolFeePrecision(bps, "FeeOnPot", pot, winner_stakes)
<1>1. (bps = None \/ pot <= 0 \/ pot <= 0) <=> (bps = None \/ pot <= 0)
  OBVIOUS
<1> QED BY <1>1 DEF ComputePrecisionFee, ProtocolFeePrecision

(* The engine hands out what its fee leaves to the winners it finds.       *)
LEMMA EngineIs ==
  ASSUME InputOK, IsPrecision
  PROVE  LET q == input.entries
             W == FindPrecisionWinners(q, input.final, input.scoring, input.band)
             net == ComputePrecisionFee(Total(q), input.bps)
         IN  /\ W \in SUBSET (DOMAIN q)
             /\ net.distributable \in Nat /\ net.fee \in Nat
             /\ net.distributable + net.fee = Total(q)
             /\ ComputePrecisionPayouts(input) = Handed(q, W, input.policy, net.distributable)
<1> DEFINE q == input.entries
           n == Len(q)
           W == FindPrecisionWinners(q, input.final, input.scoring, input.band)
           net == ComputePrecisionFee(Total(q), input.bps)
           pool == net.distributable
           stake == Amounts(q)
           policy == input.policy
           won == IF policy = "Equal" THEN SplitPotAmongWinners(pool, W)
                  ELSE SplitPotStakeWeighted(pool, stake, W)
<1>1. /\ DOMAIN q = 1 .. n /\ IsFiniteSet(DOMAIN q) /\ n \in Nat
      /\ \A i \in DOMAIN q : q[i].amount \in Nat \ {0}
      /\ input.bps \in Rate \cup {None} /\ input.band \in Nat \cup {None}
      /\ policy \in {"Equal", "StakeWeighted"}
  BY PrecisionIs
<1>2. IsRound(q, n, input.final)
  BY RoundOf
<1>3. ComputePrecisionPayouts(input) =
        [i \in DOMAIN q |-> CASE W = {}  -> stake[i]
                              [] i \in W -> won[i]
                              [] OTHER   -> 0]
  BY DEF ComputePrecisionPayouts, Amounts
<1> HIDE DEF q, n, policy
<1>4. W \in SUBSET (DOMAIN q)
  <2>1. W \subseteq 1 .. n
    BY <1>1, <1>2, FindIs
  <2> QED BY <1>1, <2>1
<1>5. \A i \in DOMAIN q : stake[i] = q[i].amount
  BY DEF Amounts
<1> HIDE DEF W, stake
<1>6. /\ IsFiniteSet(W) /\ \A i \in W : stake[i] \in Nat
      /\ Total(q) \in Nat
      /\ SumFunctionOnSet(stake, W) \in 0 .. Total(q)
      /\ W # {} => SumFunctionOnSet(stake, W) > 0
  BY <1>1, <1>4, WinnersStake DEF stake
<1>7. net = ProtocolFeePrecision(input.bps, "FeeOnPot", Total(q), 0)
  BY EnginePrecisionFee
<1>8. net.fee \in Nat /\ pool \in Nat /\ pool + net.fee = Total(q)
  <2> DEFINE t == Total(q)
             z == 0
             net2 == ProtocolFeePrecision(input.bps, "FeeOnPot", t, z)
  <2>1. t \in Nat /\ z \in 0 .. t
    BY <1>6
  <2> HIDE DEF t, z
  <2>2. net2.fee \in Nat /\ net2.distributable \in Nat /\ net2.distributable + net2.fee = t
    BY <1>1, <2>1, PrecisionFeeConserves
  <2> QED BY <1>7, <2>2 DEF t, z
<1> HIDE DEF net, pool
<1>9. W # {} => won = PrecisionPayouts(policy, stake, W, pool)
  BY <1>1, <1>6, <1>8, SplitIs
<1> HIDE DEF won
<1>10. ComputePrecisionPayouts(input) = Handed(q, W, policy, pool)
  <2>1. CASE W = {}
    BY <1>3, <1>5, <2>1 DEF Handed
  <2>2. CASE W # {}
    BY <1>3, <1>9, <2>2 DEF Handed, stake
  <2> QED BY <2>1, <2>2
<1> QED BY <1>4, <1>8, <1>10 DEF q, W, policy, pool, net

(* The settlement hands out what its fee leaves to the closest guesses.    *)
LEMMA SettlementIs ==
  ASSUME InputOK, IsPrecision, NEW model \in FeeModels
  PROVE  LET q == input.entries
             W == Closest(q, input.final, Len(q))
             net == ProtocolFeePrecision(input.bps, model, Total(q),
                                         SumFunctionOnSet(Amounts(q), W))
             c == PrecisionCredits(input, model)
         IN  /\ W \in SUBSET (DOMAIN q) /\ ScanWinners(q, input.final) = W
             /\ net.distributable \in Nat /\ net.fee \in Nat
             /\ net.distributable + net.fee = Total(q)
             /\ c = [fee    |-> IF W = {} THEN 0 ELSE net.fee,
                     payout |-> Handed(q, W, input.policy, net.distributable)]
<1> DEFINE q == input.entries
           n == Len(q)
           W == Closest(q, input.final, n)
           stake == Amounts(q)
           a == SumFunctionOnSet(stake, W)
           net == ProtocolFeePrecision(input.bps, model, Total(q), a)
           pool == net.distributable
           policy == input.policy
           won == PrecisionPayouts(policy, stake, W, pool)
<1>1. /\ DOMAIN q = 1 .. n /\ IsFiniteSet(DOMAIN q) /\ n \in Nat
      /\ \A i \in DOMAIN q : q[i].amount \in Nat \ {0}
      /\ input.bps \in Rate \cup {None}
  BY PrecisionIs
<1>2. ScanWinners(q, input.final) = W
  BY RoundOf, ScanIs
<1>3. W \in SUBSET (DOMAIN q)
  <2>1. \A i \in W : i \in 1 .. n
    BY DEF Closest, Revealed
  <2> QED BY <1>1, <2>1
<1>4. PrecisionCredits(input, model) =
        [fee    |-> IF W = {} THEN 0 ELSE net.fee,
         payout |-> [i \in DOMAIN q |-> CASE W = {}  -> stake[i]
                                          [] i \in W -> won[i]
                                          [] OTHER   -> 0]]
  <2> HIDE DEF W
  <2> QED BY <1>2 DEF PrecisionCredits, Amounts
<1>5. \A i \in DOMAIN q : stake[i] = q[i].amount
  BY DEF Amounts
<1> HIDE DEF q, n, policy, W
<1>6. Total(q) \in Nat /\ a \in 0 .. Total(q)
  BY <1>1, <1>3, WinnersStake
<1> HIDE DEF stake, a
<1>7. net.fee \in Nat /\ pool \in Nat /\ pool + net.fee = Total(q)
  <2> DEFINE t == Total(q)
  <2>1. t \in Nat /\ a \in 0 .. t
    BY <1>6
  <2> HIDE DEF t
  <2>2. LET net2 == ProtocolFeePrecision(input.bps, model, t, a)
        IN  net2.fee \in Nat /\ net2.distributable \in Nat /\ net2.distributable + net2.fee = t
    BY <1>1, <2>1, PrecisionFeeConserves DEF FeeModels
  <2> QED BY <2>2 DEF t
<1> HIDE DEF net, pool, won
<1>8. [i \in DOMAIN q |-> CASE W = {}  -> stake[i]
                            [] i \in W -> won[i]
                            [] OTHER   -> 0] = Handed(q, W, policy, pool)
  <2>1. CASE W = {}
    BY <1>5, <2>1 DEF Handed
  <2>2. CASE W # {}
    BY <2>2 DEF Handed, stake, won
  <2> QED BY <2>1, <2>2
<1>9. PrecisionCredits(input, model) =
        [fee |-> IF W = {} THEN 0 ELSE net.fee, payout |-> Handed(q, W, policy, pool)]
  BY <1>4, <1>8, Zenon
<1> QED BY <1>2, <1>3, <1>7, <1>9 DEF q, W, policy, pool, net, a, stake, n

(* The engine and the contract pay the same (compute_precision_payouts,    *)
(* compute_updown_payouts, _resolve_precision_mode and                     *)
(* _record_winnings_indexed).                                              *)
THEOREM EngineIsSettlement == Spec => []EngineAgrees
<1>1. ASSUME InputOK, IsPrecision PROVE ScanFindsClosest
  BY <1>1, RoundOf, ScanIs, ClosestIs DEF ScanFindsClosest
<1>2. ASSUME InputOK, IsPrecision, input.scoring = "AbsoluteDistance", input.band = None
      PROVE  ComputePrecisionPayouts(input) = PrecisionCredits(input, "FeeOnPot").payout
  <2> DEFINE q == input.entries
             W == Closest(q, input.final, Len(q))
             net == ProtocolFeePrecision(input.bps, "FeeOnPot", Total(q),
                                         SumFunctionOnSet(Amounts(q), W))
  <2>1. FindPrecisionWinners(q, input.final, input.scoring, input.band) = W
    <3>1. IsRound(q, Len(q), input.final) /\ input.band \in Nat \cup {None}
      BY <1>2, RoundOf, PrecisionIs
    <3> DEFINE n == Len(q)
    <3> HIDE DEF n, q, W
    <3>2. IsRound(q, n, input.final) /\ input.scoring = "AbsoluteDistance" /\ input.band = None
      BY <1>2, <3>1 DEF n, q
    <3>3. FindPrecisionWinners(q, input.final, input.scoring, input.band)
            = Closest(q, input.final, n)
      <4> DEFINE b == input.band
                 sc == input.scoring
                 p == input.final
      <4>1. IsRound(q, n, p) /\ sc = "AbsoluteDistance" /\ b = None /\ b \in Nat \cup {None}
        BY <3>1, <3>2
      <4> HIDE DEF b, sc, p
      <4>2. sc = "AbsoluteDistance" /\ b = None =>
              FindPrecisionWinners(q, p, sc, b) = Closest(q, p, n)
        BY <4>1, FindIs
      <4> QED BY <4>1, <4>2 DEF b, sc, p
    <3> QED BY <3>3 DEF W, n
  <2>2. ComputePrecisionFee(Total(q), input.bps) = net
    BY EnginePrecisionFee
  <2> HIDE DEF W, net
  <2>3. ComputePrecisionPayouts(input) = Handed(q, W, input.policy, net.distributable)
    BY <1>2, <2>1, <2>2, EngineIs
  <2>4. PrecisionCredits(input, "FeeOnPot").payout = Handed(q, W, input.policy, net.distributable)
    <3>1. "FeeOnPot" \in FeeModels
      BY DEF FeeModels
    <3>2. PrecisionCredits(input, "FeeOnPot") =
            [fee    |-> IF W = {} THEN 0 ELSE net.fee,
             payout |-> Handed(q, W, input.policy, net.distributable)]
      BY <1>2, <3>1, SettlementIs DEF W, net
    <3> QED BY <3>2
  <2> QED BY <2>3, <2>4
<1>3. InputOK => EngineAgrees
  <2>1. ~ IsPrecision => ScanFindsClosest
    BY DEF ScanFindsClosest
  <2> QED BY <1>1, <1>2, <2>1, ContestAgrees DEF EngineAgrees
<1> QED BY <1>3, InputInvariant, PTL

(* Scores and bands only add winners, and the pot is still handed out to   *)
(* the last unit (find_precision_winners_with_policy).                     *)
THEOREM BandsOnlyAddWinners == Spec => []ScoringKeepsClosest
<1>1. ASSUME InputOK, IsPrecision
      PROVE  LET winners == FindPrecisionWinners(input.entries, input.final, input.scoring,
                                                 input.band)
                 fee == IF winners = {} THEN 0
                        ELSE ComputePrecisionFee(Total(input.entries), input.bps).fee
             IN  /\ ScanWinners(input.entries, input.final) \subseteq winners
                 /\ SumFunction(ComputePrecisionPayouts(input)) + fee = Total(input.entries)
  <2> DEFINE q == input.entries
             W == FindPrecisionWinners(q, input.final, input.scoring, input.band)
             net == ComputePrecisionFee(Total(q), input.bps)
             pool == net.distributable
             paid == SumFunction(ComputePrecisionPayouts(input))
             t == Total(q)
             f == net.fee
  <2>1. ScanWinners(q, input.final) \subseteq W
    <3>1. IsRound(q, Len(q), input.final) /\ input.band \in Nat \cup {None}
      BY <1>1, RoundOf, PrecisionIs
    <3> DEFINE n == Len(q)
    <3> HIDE DEF n, q, W
    <3>2. IsRound(q, n, input.final)
      BY <3>1 DEF n, q
    <3>3. Closest(q, input.final, n) \subseteq W
      BY <3>1, <3>2, FindIs DEF W
    <3>4. ScanWinners(q, input.final) = Closest(q, input.final, n)
      BY <3>2, ScanIs
    <3> QED BY <3>3, <3>4
  <2>2. /\ W \in SUBSET (DOMAIN q) /\ pool \in Nat /\ f \in Nat /\ pool + f = t
        /\ ComputePrecisionPayouts(input) = Handed(q, W, input.policy, pool)
    BY <1>1, EngineIs
  <2>3. /\ IsFiniteSet(DOMAIN q) /\ \A i \in DOMAIN q : i \in Nat
        /\ \A i \in DOMAIN q : q[i].amount \in Nat \ {0}
        /\ input.policy \in {"Equal", "StakeWeighted"}
    BY <1>1, PrecisionIs
  <2> HIDE DEF W, net, pool, q
  <2>4. paid = IF W = {} THEN t ELSE pool
    BY <2>2, <2>3, HandedSum
  <2> HIDE DEF t, f, paid
  <2>5. t \in Nat /\ (W = {} => paid + 0 = t) /\ (W # {} => paid + f = t)
    <3>1. t \in Nat
      BY <2>2
    <3> QED BY <2>2, <2>4, <3>1
  <2>6. paid + (IF W = {} THEN 0 ELSE f) = t
    BY <2>5
  <2> QED BY <2>1, <2>6 DEF W, net, q, t, f, paid
<1>2. InputOK => ScoringKeepsClosest
  BY <1>1 DEF ScoringKeepsClosest
<1> QED BY <1>2, InputInvariant, PTL

(* Whatever the fee model and policy, a Precision pot is handed out to the *)
(* last unit, and an Up/Down pot except for less than a unit per winner    *)
(* (_resolve_precision_mode, _record_winnings_indexed).                    *)
THEOREM NothingLeftOver == Spec => []PotHandedOut
<1>1. ASSUME InputOK, IsPrecision, NEW model \in FeeModels
      PROVE  LET c == PrecisionCredits(input, model)
             IN  SumFunction(c.payout) + c.fee = Total(input.entries)
  <2> DEFINE q == input.entries
             W == Closest(q, input.final, Len(q))
             net == ProtocolFeePrecision(input.bps, model, Total(q),
                                         SumFunctionOnSet(Amounts(q), W))
             pool == net.distributable
             f == net.fee
             t == Total(q)
             c == PrecisionCredits(input, model)
             paid == SumFunction(c.payout)
  <2>1. /\ W \in SUBSET (DOMAIN q) /\ pool \in Nat /\ f \in Nat /\ pool + f = t
        /\ c = [fee |-> IF W = {} THEN 0 ELSE f, payout |-> Handed(q, W, input.policy, pool)]
    BY <1>1, SettlementIs
  <2>2. /\ IsFiniteSet(DOMAIN q) /\ \A i \in DOMAIN q : i \in Nat
        /\ \A i \in DOMAIN q : q[i].amount \in Nat \ {0}
        /\ input.policy \in {"Equal", "StakeWeighted"}
    BY <1>1, PrecisionIs
  <2> HIDE DEF W, net, pool, q, f, c
  <2>3. c.payout = Handed(q, W, input.policy, pool) /\ c.fee = IF W = {} THEN 0 ELSE f
    BY <2>1
  <2>4. SumFunction(Handed(q, W, input.policy, pool)) = IF W = {} THEN t ELSE pool
    BY <2>1, <2>2, HandedSum
  <2>5. paid = IF W = {} THEN t ELSE pool
    BY <2>3, <2>4
  <2> HIDE DEF t, paid
  <2>6. paid + c.fee = t
    <3>1. t \in Nat
      BY <2>1
    <3> QED BY <2>1, <2>3, <2>5, <3>1
  <2> QED BY <2>6 DEF paid, c, t, q
<1>2. InputOK => PotHandedOut
  BY <1>1, ContestHandsOut DEF PotHandedOut
<1> QED BY <1>2, InputInvariant, PTL

-----------------------------------------------------------------------------
(* The preview of a Precision round. *)

(* w lists S in ascending order.                                           *)
Lists(w, S) ==
  /\ w \in Seq(Nat)
  /\ \A i \in 1 .. Len(w) : w[i] \in S
  /\ \A x \in S : \E i \in 1 .. Len(w) : w[i] = x
  /\ \A i, j \in 1 .. Len(w) : i < j => w[i] < w[j]

(* A list grows at its end by a number above all in it.                    *)
LEMMA ListGrows ==
  ASSUME NEW k \in Nat, NEW w, NEW S, Lists(w, S), \A x \in S : x \in 1 .. k
  PROVE  Lists(Append(w, k + 1), S \cup {k + 1})
<1> DEFINE e == k + 1
           q == Append(w, e)
           n == Len(w)
<1>1. /\ w \in Seq(Nat) /\ n \in Nat /\ (\A i \in 1 .. n : w[i] \in S)
      /\ (\A x \in S : \E i \in 1 .. n : w[i] = x)
      /\ \A i, j \in 1 .. n : i < j => w[i] < w[j]
  BY LenProperties DEF Lists
<1>2. e \in Nat /\ \A x \in S : x \in Nat /\ x < e
  OBVIOUS
<1>3. /\ q \in Seq(Nat) /\ Len(q) = n + 1 /\ (\A i \in 1 .. n : q[i] = w[i])
      /\ q[n + 1] = e
  BY <1>1, <1>2, AppendProperties
<1> HIDE DEF q, n, e
<1>4. \A i \in 1 .. n + 1 : i \in 1 .. n \/ i = n + 1
  BY <1>1
<1>5. \A i \in 1 .. Len(q) : q[i] \in S \cup {e}
  BY <1>1, <1>3, <1>4
<1>6. \A x \in S \cup {e} : \E i \in 1 .. Len(q) : q[i] = x
  <2> SUFFICES ASSUME NEW x \in S \cup {e} PROVE \E i \in 1 .. Len(q) : q[i] = x
    OBVIOUS
  <2>1. CASE x = e
    BY <1>1, <1>3, <2>1
  <2>2. CASE x \in S
    <3>1. PICK i \in 1 .. n : w[i] = x
      BY <1>1, <2>2
    <3>2. i \in 1 .. Len(q) /\ q[i] = x
      BY <1>1, <1>3, <3>1
    <3> QED BY <3>2
  <2> QED BY <2>1, <2>2
<1>7. ASSUME NEW i \in 1 .. Len(q), NEW j \in 1 .. Len(q), i < j PROVE q[i] < q[j]
  <2>1. i \in 1 .. n
    BY <1>1, <1>3, <1>7
  <2>2. q[i] = w[i] /\ w[i] \in S
    BY <1>1, <1>3, <2>1
  <2>3. CASE j \in 1 .. n
    BY <1>1, <1>3, <1>7, <2>1, <2>2, <2>3
  <2>4. CASE j = n + 1
    BY <1>2, <1>3, <2>2, <2>4
  <2> QED BY <1>3, <1>4, <2>3, <2>4
<1> QED BY <1>3, <1>5, <1>6, <1>7 DEF Lists, q, e

(* Lists of nothing and of one number.                                     *)
LEMMA ShortLists == Lists(<< >>, {}) /\ \A e \in Nat : Lists(<<e>>, {e})
BY DEF Lists

(* Where the preview's loop starts.                                        *)
PreviewBase == [min_diff |-> None, winners |-> << >>, mask |-> {}]

(* Its state after every set of indices.                                   *)
PreviewLoop(entries, final, g) ==
  g = [s \in SUBSET (DOMAIN Visits(entries)) |->
         IF s = {} THEN PreviewBase
         ELSE PreviewStep(entries, final, g[s \ {Max(s)}], Visits(entries)[Max(s)])]

(* What the loop ends with.                                                *)
PreviewScan(entries, final) ==
  FoldLeft(LAMBDA acc, i : PreviewStep(entries, final, acc, i),
           [min_diff |-> None, winners |-> <<>>, mask |-> {}],
           [i \in DOMAIN entries |-> i])

(* It is read off such a table.                                            *)
LEMMA PreviewUnfolds ==
  ASSUME NEW entries, NEW final
  PROVE  PreviewScan(entries, final)
           = (CHOOSE g : PreviewLoop(entries, final, g))[DOMAIN Visits(entries)]
BY DEF PreviewScan, FoldLeft, MapThenFoldSet, PreviewLoop, PreviewBase, Visits

(* What the loop keeps.                                                    *)
PreviewStates(n) == [min_diff : Nat \cup {None}, winners : Seq(1 .. n), mask : SUBSET (1 .. n)]

(* The loop as a function of what it keeps.                                *)
PreviewBody(entries, n, final) ==
  [t \in PreviewStates(n) \X (1 .. n) |-> PreviewStep(entries, final, t[1], t[2])]

(* A step of it, case by case.                                             *)
LEMMA PreviewCases ==
  ASSUME NEW entries, NEW n, NEW final, IsRound(entries, n, final),
         NEW acc \in PreviewStates(n), NEW i \in 1 .. n
  PROVE  LET r == Dist(entries, final, i)
             d == acc.min_diff
             out == PreviewStep(entries, final, acc, i)
         IN  /\ out \in PreviewStates(n)
             /\ ~ entries[i].revealed => out = acc
             /\ entries[i].revealed /\ d # None /\ r < d =>
                  out = [min_diff |-> r, winners |-> <<i>>,
                         mask |-> (acc.mask \ (1 .. i - 1)) \cup {i}]
             /\ entries[i].revealed /\ (d = None \/ r = d) =>
                  out = [min_diff |-> r, winners |-> Append(acc.winners, i),
                         mask |-> acc.mask \cup {i}]
             /\ entries[i].revealed /\ d # None /\ r > d => out = acc
<1> DEFINE r == Dist(entries, final, i)
           d == acc.min_diff
           out == PreviewStep(entries, final, acc, i)
           w == acc.winners
           m == acc.mask
           new == [min_diff |-> r, winners |-> <<i>>, mask |-> (m \ (1 .. i - 1)) \cup {i}]
           more == [min_diff |-> r, winners |-> Append(w, i), mask |-> m \cup {i}]
           rev == entries[i].revealed
<1>1. r \in Nat /\ None \notin Nat
  BY DistNat, EngineAssumption
<1>2. d \in Nat \cup {None} /\ w \in Seq(1 .. n) /\ m \in SUBSET (1 .. n)
  BY DEF PreviewStates
<1>3. out = IF ~ rev \/ (d # None /\ r > d) THEN acc
            ELSE IF d # None /\ r < d THEN new ELSE more
  BY DEF PreviewStep, Dist
<1>4. new \in PreviewStates(n)
  <2>1. <<i>> \in Seq(1 .. n) /\ (m \ (1 .. i - 1)) \cup {i} \in SUBSET (1 .. n)
    BY <1>2
  <2> HIDE DEF r, m
  <2> QED BY <1>1, <2>1 DEF PreviewStates
<1>5. more \in PreviewStates(n)
  <2>1. Append(w, i) \in Seq(1 .. n) /\ m \cup {i} \in SUBSET (1 .. n)
    BY <1>2, AppendProperties
  <2> HIDE DEF r, m, w
  <2> QED BY <1>1, <2>1 DEF PreviewStates
<1> HIDE DEF r, out, d, w, m, new, more, rev
<1>6. /\ ~ rev => out = acc
      /\ rev /\ d # None /\ r < d => out = new
      /\ rev /\ (d = None \/ r = d) => out = more
      /\ rev /\ d # None /\ r > d => out = acc
  <2>1. d # None => d \in Nat
    BY <1>2
  <2>2. d # None /\ r < d => ~ (r > d)
    BY <1>1, <2>1
  <2>3. r = d => d # None /\ ~ (r > d) /\ ~ (r < d)
    BY <1>1
  <2> QED BY <1>3, <2>2, <2>3, Zenon
<1>7. out \in PreviewStates(n)
  BY <1>3, <1>4, <1>5, Zenon
<1> QED BY <1>6, <1>7, Zenon DEF r, out, d, w, m, new, more, rev

(* The table exists.                                                       *)
LEMMA PreviewLoopExists ==
  ASSUME NEW entries, NEW n, NEW final, IsRound(entries, n, final)
  PROVE  \E g : PreviewLoop(entries, final, g)
<1> DEFINE B == PreviewStates(n)
           A == 1 .. n
           list == Visits(entries)
           body == PreviewBody(entries, n, final)
<1>1. n \in Nat /\ DOMAIN entries = A
  BY DEF IsRound
<1>2. \A a \in B, i \in A : PreviewStep(entries, final, a, i) \in B
  BY PreviewCases
<1>3. /\ body \in [B \X A -> B]
      /\ \A a \in B, i \in A : body[<<a, i>>] = PreviewStep(entries, final, a, i)
  <2> HIDE DEF B, A
  <2>1. body = [t \in B \X A |-> PreviewStep(entries, final, t[1], t[2])]
    BY DEF PreviewBody, B, A
  <2> QED BY <1>2, <2>1
<1>4. PreviewBase \in B
  BY DEF PreviewBase, PreviewStates
<1>5. list \in Seq(A) /\ DOMAIN list = 1 .. n /\ \A i \in A : list[i] = i
  BY <1>1, VisitsAre
<1> HIDE DEF body, B, list
<1>6. PICK g : IsLoop(list, PreviewBase, body, g) /\ \A s \in SUBSET (DOMAIN list) : g[s] \in B
  <2>1. /\ body \in [B \X A -> B] /\ list \in Seq(A) /\ PreviewBase \in B
    BY <1>3, <1>4, <1>5
  <2> HIDE DEF A
  <2> QED BY <2>1, LoopExists, Zenon
<1>7. ASSUME NEW s \in SUBSET (DOMAIN list), s # {}
      PROVE  body[<<g[s \ {Max(s)}], list[Max(s)]>>]
               = PreviewStep(entries, final, g[s \ {Max(s)}], list[Max(s)])
  <2>1. Max(s) \in s
    BY <1>1, <1>5, <1>7, MaxIsGreatest
  <2>2. list[Max(s)] \in A /\ g[s \ {Max(s)}] \in B
    BY <1>5, <1>6, <2>1
  <2> QED BY <1>3, <2>2
<1>8. PreviewLoop(entries, final, g)
  <2>1. g = [s \in SUBSET (DOMAIN list) |->
               IF s = {} THEN PreviewBase ELSE body[<<g[s \ {Max(s)}], list[Max(s)]>>]]
    BY <1>6, Zenon DEF IsLoop
  <2>2. [s \in SUBSET (DOMAIN list) |->
               IF s = {} THEN PreviewBase ELSE body[<<g[s \ {Max(s)}], list[Max(s)]>>]]
        = [s \in SUBSET (DOMAIN list) |->
             IF s = {} THEN PreviewBase
             ELSE PreviewStep(entries, final, g[s \ {Max(s)}], list[Max(s)])]
    BY <1>7
  <2> QED BY <2>1, <2>2, Zenon DEF PreviewLoop, list
<1> QED BY <1>8

(* The preview ends with the same winners as the scan, once as a mask and  *)
(* once as a list in ascending order.                                      *)
LEMMA PreviewScanIs ==
  ASSUME NEW entries, NEW n, NEW final, IsRound(entries, n, final)
  PROVE  /\ PreviewScan(entries, final).mask = Closest(entries, final, n)
         /\ Lists(PreviewScan(entries, final).winners, Closest(entries, final, n))
<1> DEFINE g == CHOOSE h : PreviewLoop(entries, final, h)
           list == Visits(entries)
           next == [s \in SUBSET (DOMAIN list) |->
                      PreviewStep(entries, final, g[s \ {Max(s)}], list[Max(s)])]
           Found(k) == /\ g[1 .. k] \in PreviewStates(n)
                       /\ g[1 .. k].mask = Closest(entries, final, k)
                       /\ Lists(g[1 .. k].winners, Closest(entries, final, k))
                       /\ Least(entries, final, k, g[1 .. k].min_diff)
           Good == {k \in 0 .. n : Found(k)}
<1>1. PreviewLoop(entries, final, g)
  BY PreviewLoopExists
<1>2. PreviewScan(entries, final) = g[DOMAIN list]
  BY PreviewUnfolds
<1> HIDE DEF g
<1>3. n \in Nat /\ DOMAIN entries = 1 .. n
  BY DEF IsRound
<1>4. /\ list \in Seq(1 .. n) /\ Len(list) = n /\ DOMAIN list = 1 .. n
      /\ \A i \in 1 .. n : list[i] = i
  BY <1>3, VisitsAre
<1>5. /\ g[1 .. 0] = PreviewBase
      /\ \A k \in Nat : k + 1 <= n => g[1 .. k + 1] = next[1 .. k + 1]
  <2>1. StartsWith(list, PreviewBase, next, g)
    BY <1>1 DEF PreviewLoop, StartsWith
  <2> HIDE DEF next, list
  <2> QED BY <1>4, <2>1, LoopPrefixes
<1>6. ASSUME NEW k \in Nat, k < n
      PROVE  g[1 .. k + 1] = PreviewStep(entries, final, g[1 .. k], k + 1)
  <2> DEFINE s == 1 .. k + 1
  <2>1. s \in SUBSET (DOMAIN list) /\ k + 1 <= n /\ k + 1 \in 1 .. n
    BY <1>3, <1>4, <1>6
  <2>2. next[s] = PreviewStep(entries, final, g[s \ {Max(s)}], list[Max(s)])
    BY <2>1
  <2>3. Max(s) = k + 1 /\ s \ {k + 1} = 1 .. k
    BY PrefixMax
  <2> HIDE DEF next, s, list
  <2>4. g[s] = next[s]
    BY <1>5, <2>1 DEF s
  <2>5. list[k + 1] = k + 1
    BY <1>4, <2>1
  <2> QED BY <2>2, <2>3, <2>4, <2>5, Zenon DEF s
<1> HIDE DEF list
<1>7. Found(0)
  <2>1. /\ PreviewBase \in PreviewStates(n) /\ PreviewBase.winners = << >>
        /\ PreviewBase.mask = {} /\ PreviewBase.min_diff = None
    BY DEF PreviewBase, PreviewStates
  <2>2. Revealed(entries, 0) = {}
    BY DEF Revealed
  <2>3. Closest(entries, final, 0) = {} /\ Least(entries, final, 0, None)
    BY <2>2 DEF Closest, Least
  <2> QED BY <1>5, <2>1, <2>3, ShortLists, Zenon
<1>8. ASSUME NEW k \in Nat, k < n, Found(k) PROVE Found(k + 1)
  <2> DEFINE acc == g[1 .. k]
             e == k + 1
             out == PreviewStep(entries, final, acc, e)
             d == acc.min_diff
             w == acc.winners
             r == Dist(entries, final, e)
             c == Closest(entries, final, k)
             c2 == Closest(entries, final, e)
             rev == entries[e].revealed
             new == [min_diff |-> r, winners |-> <<e>>, mask |-> (acc.mask \ (1 .. e - 1)) \cup {e}]
             more == [min_diff |-> r, winners |-> Append(w, e), mask |-> acc.mask \cup {e}]
  <2>1. /\ acc \in PreviewStates(n) /\ acc.mask = c /\ Lists(w, c)
        /\ Least(entries, final, k, d)
    BY <1>8
  <2>2. g[1 .. k + 1] = out
    BY <1>6, <1>8
  <2> HIDE DEF acc
  <2>3. /\ e \in 1 .. n /\ r \in Nat /\ d \in Nat \cup {None}
        /\ ~ rev => c2 = c /\ Least(entries, final, e, d)
        /\ rev /\ (d = None \/ r < d) => c2 = {e} /\ Least(entries, final, e, r)
        /\ rev /\ d # None /\ r = d => c2 = c \cup {e} /\ Least(entries, final, e, d)
        /\ rev /\ d # None /\ r > d => c2 = c /\ Least(entries, final, e, d)
        /\ (c = {} <=> d = None) /\ c \subseteq 1 .. k
    BY <1>8, <2>1, ClosestGrows
  <2>4. (\A x \in c : x \in 1 .. k) /\ c \ (1 .. e - 1) = {}
    <3>1. e - 1 = k
      OBVIOUS
    <3> QED BY <2>3, <3>1
  <2>5. Lists(Append(w, e), c \cup {e}) /\ Lists(<<e>>, {e})
    BY <2>1, <2>4, ListGrows, ShortLists
  <2>6. (acc.mask \ (1 .. e - 1)) \cup {e} = {e}
    BY <2>1, <2>4
  <2> HIDE DEF e
  <2>7. /\ out \in PreviewStates(n)
        /\ ~ rev => out = acc
        /\ rev /\ d # None /\ r < d => out = new
        /\ rev /\ (d = None \/ r = d) => out = more
        /\ rev /\ d # None /\ r > d => out = acc
    BY <2>1, <2>3, PreviewCases
  <2>8. /\ new.min_diff = r /\ new.winners = <<e>> /\ new.mask = {e}
        /\ more.min_diff = r /\ more.winners = Append(w, e) /\ more.mask = c \cup {e}
    BY <2>1, <2>6
  <2>9. \/ ~ rev \/ (rev /\ d = None) \/ (rev /\ d # None /\ r < d)
        \/ (rev /\ d # None /\ r = d) \/ (rev /\ d # None /\ r > d)
    <3> HIDE DEF d, r, rev
    <3> QED BY <2>3
  <2> HIDE DEF out, r, rev, c, c2, new, more
  <2>10. out.mask = c2 /\ Lists(out.winners, c2) /\ Least(entries, final, e, out.min_diff)
    <3>1. CASE ~ rev
      BY <2>1, <2>3, <2>7, <3>1, Zenon
    <3>2. CASE rev /\ d = None
      <4>1. c = {} /\ c \cup {e} = {e}
        BY <2>3, <3>2
      <4> QED BY <2>3, <2>5, <2>7, <2>8, <3>2, <4>1, Zenon
    <3>3. CASE rev /\ d # None /\ r < d
      BY <2>3, <2>5, <2>7, <2>8, <3>3, Zenon
    <3>4. CASE rev /\ d # None /\ r = d
      BY <2>3, <2>5, <2>7, <2>8, <3>4, Zenon
    <3>5. CASE rev /\ d # None /\ r > d
      BY <2>1, <2>3, <2>7, <3>5, Zenon
    <3> QED BY <2>9, <3>1, <3>2, <3>3, <3>4, <3>5, Zenon
  <2> QED BY <2>2, <2>7, <2>10, Zenon DEF e, c2
<1> HIDE DEF Found
<1>9. \A k \in 0 .. n : k \in Good
  <2>1. 0 \in Good
    BY <1>3, <1>7
  <2>2. \A k \in Nat : k < n /\ k \in Good => k + 1 \in Good
    BY <1>3, <1>8
  <2> HIDE DEF Good
  <2> QED BY <1>3, <2>1, <2>2, UpTo
<1>10. Found(n)
  BY <1>3, <1>9
<1> QED BY <1>2, <1>4, <1>10 DEF Found

(* The first k numbers of a list.                                          *)
FirstOf(w, k) == {w[i] : i \in 1 .. k}

(* They grow by one new number at a time.                                  *)
LEMMA FrontGrows ==
  ASSUME NEW w, NEW S, Lists(w, S)
  PROVE  /\ FirstOf(w, 0) = {} /\ FirstOf(w, Len(w)) = S
         /\ \A k \in Nat : k < Len(w) =>
              /\ FirstOf(w, k + 1) = FirstOf(w, k) \cup {w[k + 1]}
              /\ w[k + 1] \notin FirstOf(w, k) /\ w[k + 1] \in S
              /\ FirstOf(w, k + 1) \ {w[k + 1]} = FirstOf(w, k)
              /\ FirstOf(w, k) \in SUBSET S
<1> DEFINE n == Len(w)
<1>1. /\ w \in Seq(Nat) /\ n \in Nat /\ (\A i \in 1 .. n : w[i] \in S /\ w[i] \in Nat)
      /\ (\A x \in S : \E i \in 1 .. n : w[i] = x)
      /\ \A i, j \in 1 .. n : i < j => w[i] < w[j]
  BY LenProperties, ElementOfSeq DEF Lists
<1> HIDE DEF n
<1>2. FirstOf(w, 0) = {} /\ FirstOf(w, n) = S
  BY <1>1 DEF FirstOf
<1>3. ASSUME NEW k \in Nat, k < n
      PROVE  /\ FirstOf(w, k + 1) = FirstOf(w, k) \cup {w[k + 1]}
             /\ w[k + 1] \notin FirstOf(w, k) /\ w[k + 1] \in S /\ FirstOf(w, k) \in SUBSET S
  <2> DEFINE e == k + 1
  <2>1. /\ e \in 1 .. n /\ 1 .. e = (1 .. k) \cup {e}
        /\ \A i \in 1 .. k : i \in 1 .. n /\ i < e
    BY <1>1, <1>3
  <2> HIDE DEF e
  <2>2. FirstOf(w, e) = FirstOf(w, k) \cup {w[e]}
    BY <2>1 DEF FirstOf
  <2>3. \A i \in 1 .. k : w[i] < w[e] /\ w[i] \in Nat /\ w[e] \in Nat /\ w[i] \in S
    BY <1>1, <2>1
  <2>4. \A i \in 1 .. k : w[i] # w[e]
    BY <2>3
  <2>5. w[e] \notin FirstOf(w, k) /\ FirstOf(w, k) \in SUBSET S
    BY <2>3, <2>4 DEF FirstOf
  <2> QED BY <1>1, <2>1, <2>2, <2>5 DEF e
<1>4. ASSUME NEW k \in Nat, k < n
      PROVE  FirstOf(w, k + 1) \ {w[k + 1]} = FirstOf(w, k)
  BY <1>3, <1>4
<1> QED BY <1>2, <1>3, <1>4 DEF n

(* A list has as many places as numbers, a number stands in the place      *)
(* given by how many are not above it, and the least comes first.          *)
LEMMA ListPlaces ==
  ASSUME NEW w, NEW S, Lists(w, S)
  PROVE  /\ Len(w) \in Nat /\ IsFiniteSet(S) /\ Cardinality(S) = Len(w)
         /\ \A k \in 1 .. Len(w) : Cardinality({j \in S : j <= w[k]}) = k
         /\ S # {} => /\ 1 \in 1 .. Len(w) /\ FirstAddress(S) = w[1]
                      /\ \A k \in 1 .. Len(w) : w[k] = FirstAddress(S) <=> k = 1
<1> DEFINE n == Len(w)
           Counts(k) == IsFiniteSet(FirstOf(w, k)) /\ Cardinality(FirstOf(w, k)) = k
           Good == {k \in 0 .. n : Counts(k)}
<1>1. /\ w \in Seq(Nat) /\ n \in Nat /\ (\A i \in 1 .. n : w[i] \in S /\ w[i] \in Nat)
      /\ (\A x \in S : \E i \in 1 .. n : w[i] = x)
      /\ \A i, j \in 1 .. n : i < j => w[i] < w[j]
  BY LenProperties, ElementOfSeq DEF Lists
<1>2. Counts(0)
  BY FrontGrows, FS_EmptySet
<1>3. ASSUME NEW k \in Nat, k < n, Counts(k) PROVE Counts(k + 1)
  <2> DEFINE A == FirstOf(w, k)
             x == w[k + 1]
  <2>1. FirstOf(w, k + 1) = A \cup {x} /\ x \notin A
    BY <1>3, FrontGrows
  <2>2. IsFiniteSet(A) /\ Cardinality(A) = k
    BY <1>3
  <2> HIDE DEF A, x
  <2>3. IsFiniteSet(A \cup {x}) /\ Cardinality(A \cup {x}) = k + 1
    BY <2>1, <2>2, FS_AddElement
  <2> QED BY <2>1, <2>3
<1> HIDE DEF Counts
<1>4. \A k \in 0 .. n : Counts(k)
  <2>1. 0 \in Good
    BY <1>1, <1>2
  <2>2. \A k \in Nat : k < n /\ k \in Good => k + 1 \in Good
    BY <1>1, <1>3
  <2>3. \A k \in 0 .. n : k \in Good
    <3> HIDE DEF Good
    <3> QED BY <1>1, <2>1, <2>2, UpTo
  <2> QED BY <2>3
<1>5. IsFiniteSet(S) /\ Cardinality(S) = n
  <2>1. FirstOf(w, n) = S
    BY FrontGrows
  <2>2. Counts(n)
    BY <1>1, <1>4
  <2> QED BY <2>1, <2>2 DEF Counts
<1> HIDE DEF n
<1>6. ASSUME NEW k \in 1 .. n PROVE Cardinality({j \in S : j <= w[k]}) = k
  <2>1. \A i \in 1 .. n : w[i] <= w[k] <=> i <= k
    <3> SUFFICES ASSUME NEW i \in 1 .. n PROVE w[i] <= w[k] <=> i <= k
      OBVIOUS
    <3>1. w[i] \in Nat /\ w[k] \in Nat /\ i \in Nat /\ k \in Nat
      BY <1>1
    <3>2. i < k => w[i] < w[k]
      BY <1>1
    <3>3. k < i => w[k] < w[i]
      BY <1>1
    <3>4. i = k => w[i] = w[k]
      OBVIOUS
    <3> QED BY <3>1, <3>2, <3>3, <3>4
  <2>2. {j \in S : j <= w[k]} = FirstOf(w, k)
    <3>1. \A i \in 1 .. k : i \in 1 .. n /\ i <= k
      BY <1>1
    <3>2. ASSUME NEW j \in S, j <= w[k] PROVE j \in FirstOf(w, k)
      <4>1. PICK i \in 1 .. n : w[i] = j
        BY <1>1
      <4>2. i <= k
        BY <2>1, <3>2, <4>1
      <4>3. i \in 1 .. k
        BY <1>1, <4>2
      <4> QED BY <4>1, <4>3 DEF FirstOf
    <3>3. ASSUME NEW i \in 1 .. k PROVE w[i] \in S /\ w[i] <= w[k]
      BY <1>1, <2>1, <3>1
    <3> QED BY <3>2, <3>3 DEF FirstOf
  <2>3. k \in 0 .. n
    BY <1>1
  <2> QED BY <1>4, <2>2, <2>3 DEF Counts
<1>7. ASSUME S # {}
      PROVE  /\ 1 \in 1 .. n /\ FirstAddress(S) = w[1]
             /\ \A k \in 1 .. n : w[k] = FirstAddress(S) <=> k = 1
  <2>1. 1 \in 1 .. n
    <3>1. PICK i : i \in 1 .. n
      BY <1>1, <1>7
    <3> QED BY <1>1, <3>1
  <2>2. \A x \in S : w[1] <= x /\ x \in Nat
    <3> SUFFICES ASSUME NEW x \in S PROVE w[1] <= x /\ x \in Nat
      OBVIOUS
    <3>1. PICK i \in 1 .. n : w[i] = x
      BY <1>1
    <3>2. i = 1 \/ 1 < i
      BY <1>1
    <3>3. 1 < i => w[1] < w[i]
      BY <1>1, <2>1
    <3> QED BY <1>1, <2>1, <3>1, <3>2, <3>3
  <2>3. FirstAddress(S) \in S /\ \A x \in S : FirstAddress(S) <= x
    <3>1. w[1] \in S /\ \A x \in S : w[1] <= x
      BY <1>1, <2>1, <2>2
    <3> HIDE DEF n
    <3> QED BY <3>1 DEF FirstAddress
  <2>4. FirstAddress(S) = w[1]
    <3> DEFINE f == FirstAddress(S)
               a == w[1]
    <3>1. f \in Nat /\ a \in Nat /\ f <= a /\ a <= f
      BY <1>1, <2>1, <2>2, <2>3
    <3> HIDE DEF f, a
    <3>2. f = a
      BY <3>1
    <3> QED BY <3>2 DEF f, a
  <2>5. ASSUME NEW k \in 1 .. n, k # 1 PROVE w[k] # w[1]
    <3>1. 1 < k
      BY <1>1, <2>5
    <3>2. w[1] < w[k] /\ w[1] \in Nat /\ w[k] \in Nat
      BY <1>1, <2>1, <3>1
    <3> QED BY <3>2
  <2> QED BY <2>1, <2>4, <2>5
<1> QED BY <1>1, <1>5, <1>6, <1>7 DEF n

(* A sum along a list is the sum over what it lists.                       *)
LEMMA ListSum ==
  ASSUME NEW w, NEW S, Lists(w, S), NEW f, \A x \in S : f[x] \in Int,
         NEW h, DOMAIN h = 1 .. Len(w), \A k \in 1 .. Len(w) : h[k] = f[w[k]]
  PROVE  SumFunction(h) = SumFunctionOnSet(f, S)
<1> DEFINE n == Len(w)
           Same(k) == SumFunctionOnSet(h, 1 .. k) = SumFunctionOnSet(f, FirstOf(w, k))
           Good == {k \in 0 .. n : Same(k)}
<1>1. n \in Nat /\ IsFiniteSet(S) /\ \A i \in 1 .. n : w[i] \in S
  BY ListPlaces DEF Lists
<1>2. Same(0)
  <2>1. 1 .. 0 = {} /\ FirstOf(w, 0) = {}
    BY FrontGrows
  <2> QED BY <2>1, SumEmpty
<1>3. ASSUME NEW k \in Nat, k < n, Same(k) PROVE Same(k + 1)
  <2> DEFINE e == k + 1
             A == FirstOf(w, e)
             I == 1 .. e
             x == w[e]
  <2>1. /\ A = FirstOf(w, k) \cup {x} /\ x \in S /\ A \ {x} = FirstOf(w, k)
        /\ FirstOf(w, k) \in SUBSET S
    BY <1>3, FrontGrows
  <2>2. e \in I /\ I \ {e} = 1 .. k /\ e \in 1 .. n /\ \A i \in I : i \in 1 .. n
    BY <1>1, <1>3
  <2>3. IsFiniteSet(I)
    BY FS_Interval
  <2>4. IsFiniteSet(A) /\ x \in A /\ A \in SUBSET S
    <3>1. x \in A /\ A \in SUBSET S
      BY <2>1
    <3> QED BY <1>1, <3>1, FS_Subset
  <2>5. h[e] = f[x] /\ f[x] \in Int
    BY <2>1, <2>2
  <2>6. \A i \in I : h[i] \in Int
    BY <1>1, <2>2
  <2>7. \A y \in A : f[y] \in Int
    BY <2>4
  <2> HIDE DEF A, I, x
  <2>8. SumFunctionOnSet(h, I) = h[e] + SumFunctionOnSet(h, I \ {e})
    <3> HIDE DEF e
    <3> QED BY <2>2, <2>3, <2>6, SumRemoves
  <2>9. SumFunctionOnSet(f, A) = f[x] + SumFunctionOnSet(f, A \ {x})
    BY <2>4, <2>7, SumRemoves
  <2>10. SumFunctionOnSet(h, I) = SumFunctionOnSet(f, A)
    BY <1>3, <2>1, <2>2, <2>5, <2>8, <2>9
  <2> QED BY <2>10 DEF A, I
<1> HIDE DEF Same
<1>4. Same(n)
  <2>1. 0 \in Good
    BY <1>1, <1>2
  <2>2. \A k \in Nat : k < n /\ k \in Good => k + 1 \in Good
    BY <1>1, <1>3
  <2>3. \A k \in 0 .. n : k \in Good
    <3> HIDE DEF Good, n
    <3> QED BY <1>1, <2>1, <2>2, UpTo
  <2> QED BY <1>1, <2>3
<1>5. FirstOf(w, n) = S
  BY FrontGrows
<1> QED BY <1>4, <1>5 DEF Same, SumFunction

(* A table over 1 .. n is a list of n.                                     *)
LEMMA TableLen ==
  ASSUME NEW n \in Nat, NEW f, f = [k \in 1 .. n |-> f[k]]
  PROVE  Len(f) = n
<1> DEFINE R == {f[k] : k \in 1 .. n}
<1>1. f \in [1 .. n -> R]
  OBVIOUS
<1>2. f \in Seq(R)
  <2> HIDE DEF R
  <2> QED BY <1>1, SeqDef
<1> HIDE DEF R
<1>3. Len(f) \in Nat /\ DOMAIN f = 1 .. Len(f)
  BY <1>2, LenProperties
<1>4. DOMAIN f = 1 .. n
  BY <1>1
<1> HIDE DEF R
<1> DEFINE m == Len(f)
<1>5. m \in Nat /\ 1 .. m = 1 .. n
  BY <1>3, <1>4
<1> HIDE DEF m
<1>6. m = n
  BY <1>5
<1> QED BY <1>6 DEF m

(* The list of shares of the preview holds, place by place, what the       *)
(* settlement pays the winner in that place.                               *)
LEMMA SharesAreListed ==
  ASSUME NEW w, NEW W, Lists(w, W), W # {}, NEW policy \in {"Equal", "StakeWeighted"},
         NEW stake, \A u \in W : stake[u] \in Nat, SumFunctionOnSet(stake, W) > 0,
         NEW pool \in Nat,
         NEW stakes, stakes = [k \in 1 .. Len(w) |-> stake[w[k]]]
  PROVE  LET share == PreviewShares(policy, stakes, pool)
         IN  /\ Len(share) = Len(w)
             /\ \A k \in 1 .. Len(w) : share[k] = PrecisionPayouts(policy, stake, W, pool)[w[k]]
<1> DEFINE n == Len(w)
           total == SumFunction(stakes)
           sum == SumFunctionOnSet(stake, W)
           base == [k \in DOMAIN stakes |->
                      IF policy = "Equal" THEN pool \div Len(stakes)
                      ELSE IF total > 0 THEN (stakes[k] * pool) \div total ELSE 0]
           part == [u \in W |-> IF policy = "Equal" THEN pool \div n
                                ELSE (stake[u] * pool) \div sum]
           rest == pool - SumFunction(part)
           share == PreviewShares(policy, stakes, pool)
           paid == PrecisionPayouts(policy, stake, W, pool)
<1>1. /\ n \in Nat /\ Cardinality(W) = n /\ IsFiniteSet(W) /\ 1 \in 1 .. n
      /\ \A k \in 1 .. n : w[k] = FirstAddress(W) <=> k = 1
      /\ \A k \in 1 .. n : w[k] \in W
  BY ListPlaces DEF Lists
<1>2. DOMAIN stakes = 1 .. n /\ \A k \in 1 .. n : stakes[k] = stake[w[k]]
  OBVIOUS
<1>3. Len(stakes) = n
  <2>1. stakes = [k \in 1 .. n |-> stakes[k]]
    OBVIOUS
  <2> HIDE DEF n
  <2> QED BY <1>1, <2>1, TableLen
<1>4. total = sum
  BY <1>2, ListSum
<1>5. \A u \in W : part[u] \in Int
  <2>1. sum \in Nat \ {0} /\ n \in Nat \ {0}
    <3>1. sum \in Nat
      BY <1>1, SumNat
    <3> HIDE DEF sum, n
    <3>2. sum > 0
      BY DEF sum
    <3> QED BY <1>1, <3>1, <3>2
  <2> SUFFICES ASSUME NEW u \in W PROVE part[u] \in Int
    OBVIOUS
  <2>2. pool \div n \in Int
    <3> HIDE DEF n
    <3> QED BY <2>1, DivFloor
  <2>3. (stake[u] * pool) \div sum \in Int
    <3> DEFINE s == stake[u]
    <3>1. s \in Nat
      OBVIOUS
    <3> HIDE DEF s, sum
    <3>2. s * pool \in Nat
      BY <3>1
    <3> QED BY <2>1, <3>2, DivFloor
  <2> HIDE DEF n, sum
  <2> QED BY <2>2, <2>3
<1>6. DOMAIN base = 1 .. n /\ \A k \in 1 .. n : base[k] = part[w[k]]
  <2>1. sum > 0
    OBVIOUS
  <2> HIDE DEF n, total, sum
  <2>2. ASSUME NEW k \in 1 .. n PROVE base[k] = part[w[k]]
    BY <1>1, <1>2, <1>3, <1>4, <2>1
  <2> QED BY <1>2, <2>2
<1>7. SumFunction(base) = SumFunction(part)
  <2>1. DOMAIN part = W
    OBVIOUS
  <2> HIDE DEF base, part, n
  <2>2. SumFunction(base) = SumFunctionOnSet(part, W)
    BY <1>5, <1>6, ListSum DEF n
  <2> QED BY <2>1, <2>2 DEF SumFunction
<1>8. share = [base EXCEPT ![1] = @ + rest]
  <2>1. share = [base EXCEPT ![1] = @ + (pool - SumFunction(base))]
    BY DEF PreviewShares
  <2> HIDE DEF base, part, share
  <2> QED BY <1>7, <2>1
<1>9. paid = [u \in W |-> part[u] + IF u = FirstAddress(W) THEN rest ELSE 0]
  <2>1. [u \in W |-> CASE policy = "Equal" -> pool \div Cardinality(W)
                       [] policy = "StakeWeighted" /\ sum > 0 -> (stake[u] * pool) \div sum
                       [] OTHER -> 0] = part
    <3>1. sum > 0
      OBVIOUS
    <3> HIDE DEF sum, n
    <3>2. CASE policy = "Equal"
      BY <1>1, <3>2
    <3>3. CASE policy = "StakeWeighted"
      BY <3>1, <3>3
    <3> QED BY <3>2, <3>3
  <2> HIDE DEF part
  <2> QED BY <2>1 DEF PrecisionPayouts
<1> HIDE DEF base, part, rest, n, share, paid
<1>10. share = [k \in 1 .. n |-> IF k = 1 THEN base[k] + rest ELSE base[k]]
  <2>1. base = [k \in 1 .. n |-> base[k]]
    BY <1>6 DEF base
  <2> QED BY <1>1, <1>6, <1>8, <2>1
<1>11. Len(share) = n
  <2>1. share = [k \in 1 .. n |-> share[k]]
    BY <1>10
  <2> QED BY <1>1, <2>1, TableLen
<1>12. ASSUME NEW k \in 1 .. n PROVE share[k] = paid[w[k]]
  <2>1. base[k] = part[w[k]] /\ part[w[k]] \in Int
    BY <1>1, <1>5, <1>6
  <2>2. paid[w[k]] = part[w[k]] + IF k = 1 THEN rest ELSE 0
    BY <1>1, <1>9
  <2>3. share[k] = IF k = 1 THEN base[k] + rest ELSE base[k]
    BY <1>10
  <2> QED BY <2>1, <2>2, <2>3
<1> QED BY <1>11, <1>12 DEF n, share, paid

(* The preview of a Precision round shows what its settlement pays.        *)
LEMMA PreviewPrecisionAgrees ==
  ASSUME InputOK, IsPrecision, NEW model \in FeeModels
  PROVE  PreviewPrecision(input, model) = PrecisionCredits(input, model)
<1> DEFINE q == input.entries
           n == Len(q)
           W == Closest(q, input.final, n)
           scan == PreviewScan(q, input.final)
           w == scan.winners
           stake == Amounts(q)
           stakes == [k \in DOMAIN w |-> q[w[k]].amount]
           net == ProtocolFeePrecision(input.bps, model, Total(q), SumFunctionOnSet(stake, W))
           pool == net.distributable
           policy == input.policy
           share == PreviewShares(policy, stakes, pool)
           paid == PrecisionPayouts(policy, stake, W, pool)
           turn(i) == Cardinality({j \in W : j <= i})
           refund == [i \in DOMAIN q |-> q[i].amount]
           shown == [i \in DOMAIN q |->
                       IF i \in W /\ turn(i) <= Len(share) THEN share[turn(i)] ELSE 0]
<1>1. /\ IsFiniteSet(DOMAIN q) /\ \A i \in DOMAIN q : q[i].amount \in Nat \ {0}
      /\ policy \in {"Equal", "StakeWeighted"}
  BY PrecisionIs
<1>2. scan.mask = W /\ Lists(w, W)
  BY RoundOf, PreviewScanIs
<1>3. /\ W \in SUBSET (DOMAIN q) /\ pool \in Nat
      /\ PrecisionCredits(input, model) =
           [fee |-> IF W = {} THEN 0 ELSE net.fee, payout |-> Handed(q, W, policy, pool)]
  BY SettlementIs
<1>4. PreviewPrecision(input, model) =
        LET net2 == ProtocolFeePrecision(input.bps, model, Total(q), SumFunction(stakes))
            share2 == PreviewShares(policy, stakes, net2.distributable)
        IN  IF w = << >> THEN [fee |-> 0, payout |-> refund]
            ELSE [fee    |-> net2.fee,
                  payout |-> [i \in DOMAIN q |->
                                IF /\ i \in scan.mask
                                   /\ Cardinality({j \in scan.mask : j <= i}) <= Len(share2)
                                THEN share2[Cardinality({j \in scan.mask : j <= i})] ELSE 0]]
  BY DEF PreviewPrecision, PreviewScan
<1>5. \A i \in DOMAIN q : stake[i] = q[i].amount
  BY DEF Amounts
<1>6. /\ w \in Seq(Nat) /\ Len(w) \in Nat /\ DOMAIN w = 1 .. Len(w)
      /\ \A k \in 1 .. Len(w) : w[k] \in W
      /\ \A x \in W : \E k \in 1 .. Len(w) : w[k] = x
      /\ \A k \in 1 .. Len(w) : Cardinality({j \in W : j <= w[k]}) = k
  <2>1. w \in Seq(Nat)
    BY <1>2 DEF Lists
  <2> HIDE DEF W, w
  <2>2. Len(w) \in Nat /\ DOMAIN w = 1 .. Len(w)
    BY <2>1, LenProperties
  <2> QED BY <1>2, <2>1, <2>2, ListPlaces DEF Lists
<1>7. w = << >> <=> W = {}
  <2> HIDE DEF W, w
  <2>1. W # {} => 1 \in 1 .. Len(w)
    BY <1>2, ListPlaces
  <2>2. W = {} => Len(w) = 0
    <3>1. ASSUME W = {}, Len(w) # 0 PROVE FALSE
      <4>1. 1 \in 1 .. Len(w)
        BY <1>6, <3>1
      <4> QED BY <1>6, <3>1, <4>1
    <3> QED BY <3>1
  <2>3. Len(w) = 0 <=> w = << >>
    BY <1>6, EmptySeq
  <2> QED BY <2>1, <2>2, <2>3
<1> HIDE DEF q, n, W, scan, stake, policy
<1>8. stakes = [k \in 1 .. Len(w) |-> stake[w[k]]]
  <2>1. \A k \in 1 .. Len(w) : q[w[k]].amount = stake[w[k]]
    BY <1>3, <1>5, <1>6
  <2> QED BY <1>6, <2>1
<1>9. IsFiniteSet(W) /\ (\A u \in W : stake[u] \in Nat)
      /\ (W # {} => SumFunctionOnSet(stake, W) > 0)
  BY <1>1, <1>3, WinnersStake DEF stake
<1>10. SumFunction(stakes) = SumFunctionOnSet(stake, W)
  <2>1. \A x \in W : stake[x] \in Int
    BY <1>9
  <2>2. DOMAIN stakes = 1 .. Len(w) /\ \A k \in 1 .. Len(w) : stakes[k] = stake[w[k]]
    BY <1>8
  <2> HIDE DEF stakes, w
  <2> QED BY <1>2, <2>1, <2>2, ListSum
<1> HIDE DEF stakes, net, refund
<1>11. PreviewPrecision(input, model) =
         IF W = {} THEN [fee |-> 0, payout |-> refund] ELSE [fee |-> net.fee, payout |-> shown]
  BY <1>2, <1>4, <1>7, <1>10 DEF net
<1> HIDE DEF w, pool
<1>12. CASE W = {}
  <2>1. Handed(q, W, policy, pool) = refund
    BY <1>12 DEF Handed, refund
  <2> QED BY <1>3, <1>11, <1>12, <2>1
<1>13. CASE W # {}
  <2>1. Len(share) = Len(w) /\ \A k \in 1 .. Len(w) : share[k] = paid[w[k]]
    BY <1>1, <1>2, <1>3, <1>8, <1>9, <1>13, SharesAreListed
  <2> HIDE DEF share, paid
  <2>2. ASSUME NEW i \in W PROVE turn(i) <= Len(share) /\ share[turn(i)] = paid[i]
    <3>1. PICK k \in 1 .. Len(w) : w[k] = i
      BY <1>6
    <3>2. turn(i) = k
      BY <1>6, <3>1
    <3> QED BY <1>6, <2>1, <3>1, <3>2
  <2> HIDE DEF turn
  <2>3. shown = Handed(q, W, policy, pool)
    BY <1>13, <2>2 DEF Handed, paid, stake
  <2> QED BY <1>3, <1>11, <1>13, <2>3
<1> QED BY <1>12, <1>13

(* simulate_payout shows what the settlement then pays, and the fee it     *)
(* charges, for both modes, fee models and payout policies.                *)
THEOREM PreviewIsSettlement == Spec => []PreviewAgrees
<1>1. InputOK => PreviewAgrees
  BY PreviewPrecisionAgrees, PreviewUpdownAgrees DEF PreviewAgrees
<1> QED BY <1>1, InputInvariant, PTL
=============================================================================
