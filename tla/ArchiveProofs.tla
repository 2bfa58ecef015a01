--------------------------- MODULE ArchiveProofs ---------------------------
(***************************************************************************)
(* The index and the markers of the archive are sound for any number of    *)
(* rounds and any retention limits.                                        *)
(***************************************************************************)
EXTENDS Archive, SequenceTheorems, TLAPS

(* Only rounds that are over are archived: the round that ends next is new *)
(* to the index.  With it the two invariants are inductive.                *)
ArchivedEnded == \A id \in RoundIds : archivedRound[id] # None => id \in ended

(* The inductive invariant of the archive.                                 *)
IInv == TypeOK /\ IndexSound /\ MarkersAgree /\ ArchivedEnded

(* The prune removes whole passes of two entries and stops at the limit:   *)
(* it never consumes more than the index has, and leaves at most `limit`.  *)
LEMMA PassesWithinIndex ==
  ASSUME NEW len \in Nat, NEW limit \in Nat \ {0}
  PROVE  /\ PrunePasses(len, limit) \in Nat
         /\ 2 * PrunePasses(len, limit) <= len
         /\ len - 2 * PrunePasses(len, limit) <= limit
BY DEF PrunePasses

(* What the archive write does to an index without repetitions: the kept   *)
(* part has none, shares nothing with the pruned part, and the new entry   *)
(* is not pruned.  A limit above one leaves at least that entry in it.     *)
LEMMA PruneSplits ==
  ASSUME NEW index \in Seq(RoundIds), NEW limit \in Nat \ {0},
         Len(index) > 0,
         \A i, j \in 1 .. Len(index) : index[i] = index[j] => i = j
  PROVE  /\ Kept(index, limit) \in Seq(RoundIds)
         /\ Len(Kept(index, limit)) <= limit
         /\ \A i \in 1 .. Len(Kept(index, limit)) :
              /\ \E k \in 1 .. Len(index) : Kept(index, limit)[i] = index[k]
              /\ Kept(index, limit)[i] \notin Pruned(index, limit)
         /\ \A i, j \in 1 .. Len(Kept(index, limit)) :
              Kept(index, limit)[i] = Kept(index, limit)[j] => i = j
         /\ index[Len(index)] \notin Pruned(index, limit)
         /\ limit > 1 => /\ Kept(index, limit) # << >>
                         /\ Kept(index, limit)[Len(Kept(index, limit))] =
                              index[Len(index)]
<1> DEFINE p == PrunePasses(Len(index), limit)
<1>1. p \in Nat /\ 2 * p <= Len(index) /\ Len(index) - 2 * p <= limit
  <2>1. Len(index) \in Nat
    OBVIOUS
  <2> QED BY <2>1, PassesWithinIndex
<1> HIDE DEF p
<1>2. Kept(index, limit) = SubSeq(index, 2 * p + 1, Len(index))
  BY DEF Kept, p
<1>3. /\ Kept(index, limit) \in Seq(RoundIds)
      /\ Len(Kept(index, limit)) = Len(index) - 2 * p
      /\ \A i \in 1 .. Len(Kept(index, limit)) :
           Kept(index, limit)[i] = index[2 * p + i]
  <2>1. 2 * p + 1 \in 1 .. Len(index) + 1 /\ Len(index) \in Nat
    BY <1>1
  <2>2. \A i \in 2 * p + 1 .. Len(index) : index[i] \in RoundIds
    BY <1>1
  <2> DEFINE k == SubSeq(index, 2 * p + 1, Len(index))
  <2>3. /\ k \in Seq(RoundIds)
        /\ Len(k) = IF 2 * p + 1 <= Len(index) THEN Len(index) - (2 * p + 1) + 1 ELSE 0
        /\ \A i \in 1 .. Len(index) - (2 * p + 1) + 1 : k[i] = index[2 * p + 1 + i - 1]
    <3> HIDE DEF k
    <3>1. 2 * p + 1 \in Int /\ Len(index) \in Int
      BY <2>1
    <3> QED BY <2>2, <3>1, SubSeqProperties DEF k
  <2> HIDE DEF k
  <2>4. Len(k) = Len(index) - 2 * p
    <3>1. CASE 2 * p + 1 <= Len(index)
      BY <1>1, <2>1, <2>3, <3>1
    <3>2. CASE ~ (2 * p + 1 <= Len(index))
      <4>1. 2 * p = Len(index)
        BY <1>1, <2>1, <3>2
      <4>2. Len(k) = 0
        BY <2>3, <3>2
      <4> QED BY <2>1, <4>1, <4>2
    <3> QED BY <3>1, <3>2
  <2>5. \A i \in 1 .. Len(k) : k[i] = index[2 * p + i]
    <3>1. ASSUME NEW i \in 1 .. Len(k)
          PROVE  i \in 1 .. Len(index) - (2 * p + 1) + 1 /\ 2 * p + 1 + i - 1 = 2 * p + i
      BY <1>1, <2>1, <2>4
    <3> QED BY <2>3, <3>1
  <2>6. Kept(index, limit) = k
    BY <1>2 DEF k
  <2> QED BY <2>3, <2>4, <2>5, <2>6
<1>4. ASSUME NEW k \in 1 .. Len(index), k >= 2 * p
      PROVE  index[k] \notin Pruned(index, limit)
  <2>1. SUFFICES ASSUME NEW i \in 1 .. p, index[2 * i - 1] = index[k]
                 PROVE  FALSE
    BY DEF Pruned, p
  <2>2. 2 * i - 1 \in 1 .. Len(index) /\ 2 * i - 1 < k
    BY <1>1, <1>4
  <2> QED BY <2>1, <2>2
<1>5. \A i \in 1 .. Len(Kept(index, limit)) :
        2 * p + i \in 1 .. Len(index) /\ 2 * p + i >= 2 * p
  BY <1>1, <1>3
<1>6. Len(index) \in 1 .. Len(index) /\ Len(index) >= 2 * p
  BY <1>1
<1>7. \A i, j \in 1 .. Len(Kept(index, limit)) :
        Kept(index, limit)[i] = Kept(index, limit)[j] => i = j
  <2>1. SUFFICES ASSUME NEW i \in 1 .. Len(Kept(index, limit)),
                        NEW j \in 1 .. Len(Kept(index, limit)),
                        Kept(index, limit)[i] = Kept(index, limit)[j]
                 PROVE  i = j
    OBVIOUS
  <2>2. index[2 * p + i] = index[2 * p + j]
    BY <1>3, <2>1
  <2>3. 2 * p + i = 2 * p + j
    BY <1>5, <2>2
  <2> QED BY <1>1, <2>3
<1>8. ASSUME limit > 1
      PROVE  /\ Kept(index, limit) # << >>
             /\ Kept(index, limit)[Len(Kept(index, limit))] = index[Len(index)]
  <2>1. Len(index) - 2 * p > 0
    <3>1. Len(index) \in Nat
      OBVIOUS
    <3> QED BY <1>8, <3>1 DEF p, PrunePasses
  <2>2. /\ Len(Kept(index, limit)) \in 1 .. Len(Kept(index, limit))
        /\ 2 * p + Len(Kept(index, limit)) = Len(index)
    BY <1>1, <1>3, <2>1
  <2>3. Kept(index, limit)[Len(Kept(index, limit))] = index[Len(index)]
    BY <1>3, <2>2
  <2>4. Kept(index, limit) # << >>
    BY <2>2
  <2> QED BY <2>3, <2>4
<1> QED BY <1>1, <1>3, <1>4, <1>5, <1>6, <1>7, <1>8

(* The archive is well typed and starts sound. *)
LEMMA InitIInv == Init => IInv
BY NoneAssumption DEF Status, Init, IInv, TypeOK, IndexSound, MarkersAgree, ArchivedEnded

(* Ending a round writes its summary, index entry and marker, and prunes:  *)
(* all of them still agree.                                                *)
LEMMA EndRoundIInv ==
  ASSUME IInv, NEW id \in RoundIds, NEW status \in Status, EndRound(id, status)
  PROVE  IInv'
<1> DEFINE index  == Append(recentArchived, id)
           pruned == Pruned(index, retention)
<1> USE DEF IInv
<1>1. /\ TypeOK /\ IndexSound /\ MarkersAgree /\ ArchivedEnded
      /\ retention \in Nat \ {0}
  BY RetentionAssumption DEF TypeOK
<1>2. /\ index \in Seq(RoundIds)
      /\ Len(index) = Len(recentArchived) + 1
      /\ Len(recentArchived) \in Nat
      /\ \A i \in 1 .. Len(recentArchived) : index[i] = recentArchived[i]
      /\ index[Len(index)] = id
  BY <1>1 DEF TypeOK
<1>3. \A i \in 1 .. Len(recentArchived) : recentArchived[i] # id
  <2>1. \A i \in 1 .. Len(recentArchived) : recentArchived[i] \in RoundIds
    BY <1>1 DEF TypeOK
  <2> QED BY <1>1, <2>1 DEF IndexSound, ArchivedEnded, EndRound
<1>4. \A i, j \in 1 .. Len(index) : index[i] = index[j] => i = j
  <2>1. SUFFICES ASSUME NEW i \in 1 .. Len(index), NEW j \in 1 .. Len(index),
                        index[i] = index[j]
                 PROVE  i = j
    OBVIOUS
  <2>2. CASE i = Len(index) \/ j = Len(index)
    BY <1>2, <1>3, <2>1, <2>2
  <2>3. CASE i # Len(index) /\ j # Len(index)
    <3>1. i \in 1 .. Len(recentArchived) /\ j \in 1 .. Len(recentArchived)
      BY <1>2, <2>3
    <3> QED BY <1>1, <1>2, <2>1, <3>1 DEF IndexSound
  <2> QED BY <2>2, <2>3
<1>5. /\ recentArchived' = Kept(index, retention)
      /\ retention' = retention
      /\ ended' = ended \cup {id}
      /\ archivedRound' = [r \in RoundIds |-> IF r \in pruned THEN None
                                             ELSE IF r = id THEN status
                                             ELSE archivedRound[r]]
      /\ cancelledRound' = IF status = "Cancelled" THEN (cancelledRound \ pruned) \cup {id}
                           ELSE cancelledRound \ pruned
  BY DEF EndRound, ArchiveRound, MarkersAfter
<1>6. /\ recentArchived' \in Seq(RoundIds)
      /\ \A i \in 1 .. Len(recentArchived') :
           /\ \E k \in 1 .. Len(index) : recentArchived'[i] = index[k]
           /\ recentArchived'[i] \notin pruned
      /\ \A i, j \in 1 .. Len(recentArchived') :
           recentArchived'[i] = recentArchived'[j] => i = j
      /\ id \notin pruned
  <2>1. Len(index) > 0
    BY <1>2
  <2> HIDE DEF index
  <2> QED BY <1>1, <1>2, <1>4, <1>5, <2>1, PruneSplits
<1>7. \A k \in 1 .. Len(index) : archivedRound[index[k]] # None \/ index[k] = id
  BY <1>1, <1>2 DEF IndexSound
<1>8. \A r \in RoundIds : archivedRound'[r] = IF r \in pruned THEN None
                                             ELSE IF r = id THEN status
                                             ELSE archivedRound[r]
  BY <1>5
<1> HIDE DEF index, pruned
<1>9. TypeOK'
  <2>1. archivedRound' \in [RoundIds -> Status \cup {None}]
    BY <1>1, <1>5 DEF TypeOK
  <2>2. cancelledRound' \subseteq RoundIds
    BY <1>1, <1>5 DEF TypeOK
  <2> QED BY <1>1, <1>5, <1>6, <2>1, <2>2 DEF TypeOK
<1>10. IndexSound'
  <2>1. ASSUME NEW i \in 1 .. Len(recentArchived')
        PROVE  archivedRound'[recentArchived'[i]] # None
    <3>1. PICK k \in 1 .. Len(index) : recentArchived'[i] = index[k]
      BY <1>6
    <3>2. index[k] \in RoundIds /\ index[k] \notin pruned
      BY <1>2, <1>6, <3>1
    <3> QED BY <1>7, <1>8, <3>1, <3>2, NoneAssumption
  <2> QED BY <1>6, <2>1 DEF IndexSound
<1>11. MarkersAgree'
  <2>1. ASSUME NEW r \in RoundIds
        PROVE  r \in cancelledRound' <=> archivedRound'[r] = "Cancelled"
    <3>1. r \in cancelledRound <=> archivedRound[r] = "Cancelled"
      BY <1>1 DEF MarkersAgree
    <3>2. None # "Cancelled"
      BY NoneAssumption DEF Status
    <3>3. CASE r \in pruned
      <4>1. r # id /\ archivedRound'[r] = None
        BY <1>6, <1>8, <3>3
      <4>2. r \notin cancelledRound'
        BY <1>5, <3>3, <4>1
      <4> QED BY <3>2, <4>1, <4>2
    <3>4. CASE r \notin pruned /\ r = id
      <4>1. archivedRound'[r] = status
        BY <1>8, <3>4
      <4>2. r \notin cancelledRound
        BY <1>1, <3>1, <3>2, <3>4 DEF ArchivedEnded, EndRound, Status
      <4> QED BY <1>5, <3>4, <4>1, <4>2
    <3>5. CASE r \notin pruned /\ r # id
      BY <1>5, <1>8, <3>1, <3>5
    <3> QED BY <3>3, <3>4, <3>5
  <2> QED BY <1>9, <2>1 DEF MarkersAgree, TypeOK
<1>12. ArchivedEnded'
  BY <1>1, <1>5, <1>8 DEF ArchivedEnded
<1> QED BY <1>9, <1>10, <1>11, <1>12

(* Every step keeps the archive sound; a lowered limit changes nothing     *)
(* until the next write.                                                   *)
LEMMA NextIInv == IInv /\ [Next]_vars => IInv'
<1>1. ASSUME IInv, NEW limit \in Retentions, set_archive_retention(limit)
      PROVE  IInv'
  BY <1>1 DEF IInv, TypeOK, IndexSound, MarkersAgree, ArchivedEnded, set_archive_retention
<1>2. ASSUME IInv, UNCHANGED vars
      PROVE  IInv'
  BY <1>2 DEF IInv, TypeOK, IndexSound, MarkersAgree, ArchivedEnded, vars
<1> QED BY <1>1, <1>2, EndRoundIInv DEF Next

(* For every number of rounds and every set of limits the index lists each *)
(* archived round once and never a hole, and the cancelled markers agree   *)
(* with the summaries, whatever the prune of _archive_round removes.       *)
THEOREM ArchiveSound == Spec => [](TypeOK /\ IndexSound /\ MarkersAgree)
<1>1. IInv => TypeOK /\ IndexSound /\ MarkersAgree
  BY DEF IInv
<1> QED BY <1>1, InitIInv, NextIInv, PTL DEF Spec

(* A write of _archive_round leaves the index within the limit in force,   *)
(* however far that was lowered before, and the summary of the round that  *)
(* has just ended on record; under a limit above one it is listed last.    *)
THEOREM WriteSound == Spec => WriteKeepsNewest
<1> DEFINE Keeps == \A id \in ended' \ ended :
                      /\ Len(recentArchived') <= retention
                      /\ archivedRound'[id] # None
                      /\ retention > 1 =>
                           /\ recentArchived' # << >>
                           /\ recentArchived'[Len(recentArchived')] = id
<1>1. ASSUME IInv, NEW id \in RoundIds, NEW status \in Status, EndRound(id, status)
      PROVE  Keeps
  <2> DEFINE index == Append(recentArchived, id)
  <2>1. /\ index \in Seq(RoundIds) /\ Len(index) > 0 /\ index[Len(index)] = id
        /\ Len(index) = Len(recentArchived) + 1 /\ Len(recentArchived) \in Nat
        /\ \A i \in 1 .. Len(recentArchived) : index[i] = recentArchived[i]
        /\ retention \in Nat \ {0}
    BY <1>1, RetentionAssumption DEF IInv, TypeOK
  <2>2. archivedRound[id] = None
    BY <1>1 DEF IInv, ArchivedEnded, EndRound
  <2>3. \A i \in 1 .. Len(recentArchived) : recentArchived[i] # id
    BY <1>1, <2>2 DEF IInv, IndexSound
  <2>4. \A i, j \in 1 .. Len(index) : index[i] = index[j] => i = j
    <3>1. SUFFICES ASSUME NEW i \in 1 .. Len(index), NEW j \in 1 .. Len(index),
                          index[i] = index[j]
                   PROVE  i = j
      OBVIOUS
    <3>2. CASE i = Len(index) \/ j = Len(index)
      BY <2>1, <2>3, <3>1, <3>2
    <3>3. CASE i # Len(index) /\ j # Len(index)
      <4>1. i \in 1 .. Len(recentArchived) /\ j \in 1 .. Len(recentArchived)
        BY <2>1, <3>3
      <4> QED BY <1>1, <2>1, <3>1, <4>1 DEF IInv, IndexSound
    <3> QED BY <3>2, <3>3
  <2>5. /\ recentArchived' = Kept(index, retention)
        /\ archivedRound' = [r \in RoundIds |->
                               IF r \in Pruned(index, retention) THEN None
                               ELSE IF r = id THEN status ELSE archivedRound[r]]
    BY <1>1 DEF EndRound, ArchiveRound
  <2> HIDE DEF index
  <2>6. /\ Len(recentArchived') <= retention
        /\ id \notin Pruned(index, retention)
        /\ retention > 1 => /\ recentArchived' # << >>
                            /\ recentArchived'[Len(recentArchived')] = id
    BY <2>1, <2>4, <2>5, PruneSplits
  <2>7. archivedRound'[id] # None
    BY <2>5, <2>6, NoneAssumption
  <2>8. \A r \in ended' \ ended : r = id
    BY <1>1 DEF EndRound
  <2> QED BY <2>6, <2>7, <2>8
<1>2. ASSUME NEW limit \in Retentions, set_archive_retention(limit)
      PROVE  Keeps
  BY <1>2 DEF set_archive_retention
<1>3. IInv /\ [Next]_vars => [Keeps]_vars
  BY <1>1, <1>2 DEF Next
<1> QED BY <1>3, InitIInv, NextIInv, PTL DEF Spec, WriteKeepsNewest
=============================================================================
