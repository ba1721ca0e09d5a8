------------------------ MODULE StreamNormalizerProofs ------------------------
(***************************************************************************)
(* Proofs about StreamNormalizer for any set of pods, any partition and    *)
(* contents, any malformed and unreadable documents and any number of      *)
(* faults and lost dedupe keys.                                            *)
(*                                                                         *)
(* NormalizedOnce is a count of permits: each time a content's dedupe key  *)
(* is free one pod may take it, and what that pod has not published yet is *)
(* still to come (KeysCounted).  DuplicatesAccounted holds because a key,  *)
(* once set, is answered for: by a pod at work, an abandoned attempt or a  *)
(* request (KeysAnswered).  The refinement needs to know what the session  *)
(* of the partition's owner has marked (MarkedReturned).                   *)
(***************************************************************************)
EXTENDS StreamNormalizer, FiniteSetTheorems, TLAPS

\* A pod handles the record that its session will mark next, and that decodes.
HandlingMarked ==
    \A w \in Pod : pc[w] \in Handling =>
        cur[w] = marked[w] /\ cur[w] \in Offset \ Malformed

TypeInv == TypeOK /\ HandlingMarked

\* The pods that have the key of h and will still publish its normalized text,
\* and those that will still request its NLP.
Publishing(h) == {w \in Pod : pc[w] \in {"reading", "storing", "publishing"}
                              /\ content(w) = h}
Requesting(h) == {w \in Pod : pc[w] = "requesting" /\ content(w) = h}

\* Each time the key of h was free is used up by one publication, past or to come,
\* and each publication of h allows one request for its NLP.
PermitsCounted(h) ==
    /\ IsFiniteSet(Publishing(h)) /\ IsFiniteSet(Requesting(h))
    /\ normalized[h] + Cardinality(Publishing(h))
         <= lost[h] + (IF h \in dedupe THEN 1 ELSE 0)
    /\ requested[h] + Cardinality(Requesting(h)) <= normalized[h]

KeysCounted == \A h \in Hash : PermitsCounted(h)

\* Whatever is announced or requested has its text stored.
TextStored ==
    /\ \A w \in Pod : pc[w] \in {"publishing", "requesting"} => content(w) \in cleanText
    /\ \A h \in Hash : requested[h] > 0 => h \in cleanText

\* A document whose key is set, or was found set by an attempt of now or before,
\* has reached the NLP pipeline, was abandoned, or is being worked on.
Known(h) ==
    \/ h \in dedupe
    \/ \E w \in Pod : pc[w] = "duplicate" /\ content(w) = h
    \/ \E m \in reported : ContentOf[m] = h
Answered(h) == requested[h] > 0 \/ h \in abandoned \/ InProgress(h)
KeysAnswered == \A h \in Hash : Known(h) => Answered(h)

\* What the owner's session would commit has returned.
MarkedReturned ==
    \A w \in Pod : owner = w =>
        committed <= marked[w] /\ committed..(marked[w] - 1) \subseteq returned

\* No session gets past a record that does not decode.
MalformedAhead ==
    \A m \in Malformed : committed <= m /\ \A w \in Pod : marked[w] <= m

IInv ==
    /\ TypeInv
    /\ KeysCounted
    /\ TextStored
    /\ KeysAnswered
    /\ MarkedReturned
    /\ MalformedAhead

-------------------------------------------------------------------------------
(* Types *)

LEMMA TypeInit == Init => TypeInv
BY RecordAssumption, BoundAssumption
   DEF Init, TypeInv, TypeOK, HandlingMarked, Handling, Offset

LEMMA SizeType == N \in Nat
BY RecordAssumption

LEMMA ContentType ==
    ASSUME TypeInv, NEW w \in Pod, pc[w] \in Handling
    PROVE  content(w) \in Hash /\ cur[w] \in Offset
BY RecordAssumption DEF TypeInv, HandlingMarked, content, Offset

\* When a session ends the pod handles nothing, and the group's offset stays or
\* moves to what the session had marked.
LEMMA SessionEnds ==
    ASSUME TypeInv, NEW w \in Pod, EndSession(w), UNCHANGED <<cur, marked>>
    PROVE  /\ pc' \in [Pod -> {"joining", "claim"} \cup Handling]
           /\ owner' \in Pod \cup {NoPod}
           /\ committed' \in 1..(N + 1)
           /\ HandlingMarked'
<1>1. pc' = [pc EXCEPT ![w] = "joining"]
  BY DEF EndSession
<1>2. pc' \in [Pod -> {"joining", "claim"} \cup Handling]
  BY <1>1 DEF TypeInv, TypeOK
<1>3. HandlingMarked'
  BY <1>1 DEF TypeInv, TypeOK, HandlingMarked, Handling
<1>4. committed' \in 1..(N + 1) /\ owner' \in Pod \cup {NoPod}
  BY DEF EndSession, TypeInv, TypeOK
<1> QED
  BY <1>2, <1>3, <1>4

LEMMA TypeStep == TypeInv /\ [Next]_vars => TypeInv'
<1> SUFFICES ASSUME TypeInv, [Next]_vars
             PROVE  TypeInv'
  OBVIOUS
<1>1. ASSUME NEW w \in Pod, StartSession(w)
      PROVE  TypeInv'
  BY <1>1, PodAssumption, RecordAssumption, BoundAssumption
     DEF StartSession, TypeInv, TypeOK, HandlingMarked, Handling, Offset
<1>2. ASSUME NEW w \in Pod, NextMessage(w)
      PROVE  TypeInv'
  BY <1>2, PodAssumption, RecordAssumption, BoundAssumption
     DEF NextMessage, TypeInv, TypeOK, HandlingMarked, Handling, Offset
<1>3. ASSUME NEW w \in Pod, Undecodable(w)
      PROVE  TypeInv'
  BY <1>3, SessionEnds DEF Undecodable, TypeInv, TypeOK
<1>4. ASSUME NEW w \in Pod, SessionDone(w)
      PROVE  TypeInv'
  BY <1>4, SessionEnds DEF SessionDone, TypeInv, TypeOK
<1>5. ASSUME NEW w \in Pod, AutoCommit(w)
      PROVE  TypeInv'
  <2>1. marked[w] \in 1..(N + 1)
    BY DEF TypeInv, TypeOK
  <2>8. HandlingMarked'
    BY <1>5 DEF AutoCommit, TypeInv, TypeOK, HandlingMarked, Handling
  <2>9. TypeOK'
    BY <1>5, <2>1 DEF AutoCommit, TypeInv, TypeOK
  <2> QED
    BY <2>8, <2>9 DEF TypeInv
<1>6. ASSUME NEW w \in Pod, Evict(w)
      PROVE  TypeInv'
  BY <1>6, BoundAssumption DEF Evict, TakeFault, TypeInv, TypeOK, HandlingMarked, Handling
<1>7. ASSUME NEW w \in Pod, Dedupe(w)
      PROVE  TypeInv'
  <2>1. content(w) \in Hash /\ cur[w] \in Offset
    BY <1>7, ContentType DEF Dedupe, Handling
  <2>2. pc' \in [Pod -> {"joining", "claim"} \cup Handling]
    BY <1>7 DEF Dedupe, TypeInv, TypeOK, Handling
  <2>8. HandlingMarked'
    BY <1>7 DEF Dedupe, TypeInv, TypeOK, HandlingMarked, Handling
  <2>9. TypeOK'
    BY <1>7, <2>1, <2>2 DEF Dedupe, TypeInv, TypeOK
  <2> QED
    BY <2>8, <2>9 DEF TypeInv
<1>8. ASSUME NEW w \in Pod, ReportDuplicate(w)
      PROVE  TypeInv'
  <2>1. content(w) \in Hash /\ cur[w] \in Offset
    BY <1>8, ContentType DEF ReportDuplicate, Return, Handling
  <2>2. pc' \in [Pod -> {"joining", "claim"} \cup Handling]
    BY <1>8 DEF ReportDuplicate, Return, TypeInv, TypeOK, Handling
  <2>7. cur[w] + 1 \in 1..(N + 1)
    BY <2>1, SizeType DEF Offset
  <2>3. marked' \in [Pod -> 1..(N + 1)] /\ returned' \in SUBSET Offset
    BY <1>8, <2>1, <2>7 DEF ReportDuplicate, Return, TypeInv, TypeOK, Offset
  <2>8. HandlingMarked'
    BY <1>8 DEF ReportDuplicate, Return, TypeInv, TypeOK, HandlingMarked, Handling
  <2>9. TypeOK'
    BY <1>8, <2>1, <2>2, <2>3 DEF ReportDuplicate, Return, TypeInv, TypeOK
  <2> QED
    BY <2>8, <2>9 DEF TypeInv
<1>9. ASSUME NEW w \in Pod, ReadObject(w)
      PROVE  TypeInv'
  BY <1>9, PodAssumption, RecordAssumption, BoundAssumption
     DEF ReadObject, TypeInv, TypeOK, HandlingMarked, Handling, Offset
<1>10. ASSUME NEW w \in Pod, StoreText(w)
      PROVE  TypeInv'
  <2>1. content(w) \in Hash /\ cur[w] \in Offset
    BY <1>10, ContentType DEF StoreText, Handling
  <2>2. pc' \in [Pod -> {"joining", "claim"} \cup Handling]
    BY <1>10 DEF StoreText, TypeInv, TypeOK, Handling
  <2>8. HandlingMarked'
    BY <1>10 DEF StoreText, TypeInv, TypeOK, HandlingMarked, Handling
  <2>9. TypeOK'
    BY <1>10, <2>1, <2>2 DEF StoreText, TypeInv, TypeOK
  <2> QED
    BY <2>8, <2>9 DEF TypeInv
<1>11. ASSUME NEW w \in Pod, PublishNormalized(w)
      PROVE  TypeInv'
  <2>1. content(w) \in Hash /\ cur[w] \in Offset
    BY <1>11, ContentType DEF PublishNormalized, Handling
  <2>2. pc' \in [Pod -> {"joining", "claim"} \cup Handling]
    BY <1>11 DEF PublishNormalized, TypeInv, TypeOK, Handling
  <2>3. normalized' \in [Hash -> Nat]
    BY <1>11, <2>1 DEF PublishNormalized, TypeInv, TypeOK
  <2>8. HandlingMarked'
    BY <1>11 DEF PublishNormalized, TypeInv, TypeOK, HandlingMarked, Handling
  <2>9. TypeOK'
    BY <1>11, <2>1, <2>2, <2>3 DEF PublishNormalized, TypeInv, TypeOK
  <2> QED
    BY <2>8, <2>9 DEF TypeInv
<1>12. ASSUME NEW w \in Pod, RequestNlp(w)
      PROVE  TypeInv'
  <2>1. content(w) \in Hash /\ cur[w] \in Offset
    BY <1>12, ContentType DEF RequestNlp, Return, Handling
  <2>2. pc' \in [Pod -> {"joining", "claim"} \cup Handling]
    BY <1>12 DEF RequestNlp, Return, TypeInv, TypeOK, Handling
  <2>7. cur[w] + 1 \in 1..(N + 1)
    BY <2>1, SizeType DEF Offset
  <2>3. marked' \in [Pod -> 1..(N + 1)] /\ returned' \in SUBSET Offset
    BY <1>12, <2>1, <2>7 DEF RequestNlp, Return, TypeInv, TypeOK, Offset
  <2>4. requested' \in [Hash -> Nat]
    BY <1>12, <2>1 DEF RequestNlp, TypeInv, TypeOK
  <2>8. HandlingMarked'
    BY <1>12 DEF RequestNlp, Return, TypeInv, TypeOK, HandlingMarked, Handling
  <2>9. TypeOK'
    BY <1>12, <2>1, <2>2, <2>3, <2>4 DEF RequestNlp, Return, TypeInv, TypeOK
  <2> QED
    BY <2>8, <2>9 DEF TypeInv
<1>13. ASSUME NEW w \in Pod, RejectDocument(w)
      PROVE  TypeInv'
  <2>1. content(w) \in Hash /\ cur[w] \in Offset
    BY <1>13, ContentType DEF RejectDocument, Handling
  <2> QED
    BY <1>13, <2>1, SessionEnds, BoundAssumption
       DEF RejectDocument, TypeInv, TypeOK
<1>14. ASSUME NEW w \in Pod, CallFails(w)
      PROVE  TypeInv'
  <2>1. content(w) \in Hash /\ cur[w] \in Offset
    BY <1>14, ContentType DEF CallFails, Handling
  <2> QED
    BY <1>14, <2>1, SessionEnds, BoundAssumption
       DEF CallFails, TypeInv, TypeOK, TakeFault, HoldsKey
<1>15. ASSUME NEW w \in Pod, DedupeAnswerLost(w)
      PROVE  TypeInv'
  <2>1. content(w) \in Hash /\ cur[w] \in Offset
    BY <1>15, ContentType DEF DedupeAnswerLost, Handling
  <2> QED
    BY <1>15, <2>1, SessionEnds, BoundAssumption
       DEF DedupeAnswerLost, TypeInv, TypeOK, TakeFault
<1>16. ASSUME NEW w \in Pod, PublishAnswerLost(w)
      PROVE  TypeInv'
  <2>1. content(w) \in Hash /\ cur[w] \in Offset
    BY <1>16, ContentType DEF PublishAnswerLost, Handling
  <2> QED
    BY <1>16, <2>1, SessionEnds, BoundAssumption
       DEF PublishAnswerLost, TypeInv, TypeOK, TakeFault
<1>17. ASSUME NEW w \in Pod, RequestAnswerLost(w)
      PROVE  TypeInv'
  <2>1. content(w) \in Hash /\ cur[w] \in Offset
    BY <1>17, ContentType DEF RequestAnswerLost, Handling
  <2> QED
    BY <1>17, <2>1, SessionEnds, BoundAssumption
       DEF RequestAnswerLost, TypeInv, TypeOK, TakeFault
<1>18. ASSUME NEW w \in Pod, DuplicateAnswerLost(w)
      PROVE  TypeInv'
  <2>1. content(w) \in Hash /\ cur[w] \in Offset
    BY <1>18, ContentType DEF DuplicateAnswerLost, Handling
  <2> QED
    BY <1>18, <2>1, SessionEnds, BoundAssumption
       DEF DuplicateAnswerLost, TypeInv, TypeOK, TakeFault
<1>19. ASSUME NEW h \in Hash, LoseKey(h)
      PROVE  TypeInv'
  <2>1. lost' \in [Hash -> 0..MaxExpiries]
    BY <1>19, BoundAssumption DEF LoseKey, TypeInv, TypeOK
  <2>8. HandlingMarked'
    BY <1>19 DEF LoseKey, TypeInv, TypeOK, HandlingMarked, Handling
  <2>9. TypeOK'
    BY <1>19, <2>1 DEF LoseKey, TypeInv, TypeOK
  <2> QED
    BY <2>8, <2>9 DEF TypeInv
<1>20. CASE UNCHANGED vars
  BY <1>20 DEF vars, TypeInv, TypeOK, HandlingMarked, Handling, content
<1> QED
  BY <1>1, <1>2, <1>3, <1>4, <1>5, <1>6, <1>7, <1>8, <1>9, <1>10, <1>11, <1>12,
     <1>13, <1>14, <1>15, <1>16, <1>17, <1>18, <1>19, <1>20
     DEF Next, Handle, Consume, Fault

\* Pods, sessions, Redis, object storage and topics always have their types; in
\* particular no commit leaves the partition.
THEOREM TypeCorrect == Spec => []TypeOK
<1>1. Spec => []TypeInv
  BY TypeInit, TypeStep, PTL DEF Spec
<1>2. TypeInv => TypeOK
  BY DEF TypeInv
<1> QED
  BY <1>1, <1>2, PTL

-------------------------------------------------------------------------------
(* Counting permits *)

LEMMA CountsNat ==
    ASSUME TypeInv, NEW h \in Hash, PermitsCounted(h)
    PROVE  /\ normalized[h] \in Nat /\ requested[h] \in Nat /\ lost[h] \in Nat
           /\ Cardinality(Publishing(h)) \in Nat /\ Cardinality(Requesting(h)) \in Nat
<1>1. Cardinality(Publishing(h)) \in Nat /\ Cardinality(Requesting(h)) \in Nat
  BY FS_CardinalityType DEF PermitsCounted
<1>2. lost[h] \in Nat
  BY BoundAssumption DEF TypeInv, TypeOK
<1> QED
  BY <1>1, <1>2 DEF TypeInv, TypeOK

\* A step that publishes and requests nothing for h, and gives no pod its key.
PermitsKept(h) ==
    /\ Publishing(h)' \subseteq Publishing(h)
    /\ Requesting(h)' \subseteq Requesting(h)
    /\ normalized'[h] = normalized[h] /\ requested'[h] = requested[h]
    /\ lost'[h] = lost[h] /\ (h \in dedupe => h \in dedupe')

LEMMA PermitsStay ==
    ASSUME TypeInv, NEW h \in Hash, PermitsCounted(h), PermitsKept(h)
    PROVE  PermitsCounted(h)'
<1>1. /\ IsFiniteSet(Publishing(h)')
      /\ Cardinality(Publishing(h)') <= Cardinality(Publishing(h))
      /\ Cardinality(Publishing(h)') \in Nat
  BY FS_Subset, FS_CardinalityType DEF PermitsCounted, PermitsKept
<1>2. /\ IsFiniteSet(Requesting(h)')
      /\ Cardinality(Requesting(h)') <= Cardinality(Requesting(h))
      /\ Cardinality(Requesting(h)') \in Nat
  BY FS_Subset, FS_CardinalityType DEF PermitsCounted, PermitsKept
<1> QED
  BY <1>1, <1>2, CountsNat DEF PermitsCounted, PermitsKept

LEMMA KeysStep == TypeInv /\ KeysCounted /\ [Next]_vars => KeysCounted'
<1> SUFFICES ASSUME TypeInv, KeysCounted, [Next]_vars, NEW h \in Hash
             PROVE  PermitsCounted(h)'
  BY DEF KeysCounted
<1>0. PermitsCounted(h)
  BY DEF KeysCounted
<1>1. ASSUME NEW w \in Pod, StartSession(w)
      PROVE  PermitsCounted(h)'
  <2>1. PermitsKept(h)
    BY <1>1 DEF PermitsKept, StartSession,
             Publishing, Requesting, content, TypeInv, TypeOK
  <2> QED
    BY <1>0, <2>1, PermitsStay
<1>2. ASSUME NEW w \in Pod, NextMessage(w)
      PROVE  PermitsCounted(h)'
  <2>1. PermitsKept(h)
    BY <1>2 DEF PermitsKept, NextMessage,
             Publishing, Requesting, content, TypeInv, TypeOK
  <2> QED
    BY <1>0, <2>1, PermitsStay
<1>3. ASSUME NEW w \in Pod, Undecodable(w)
      PROVE  PermitsCounted(h)'
  <2>1. PermitsKept(h)
    BY <1>3 DEF PermitsKept, Undecodable, EndSession,
             Publishing, Requesting, content, TypeInv, TypeOK
  <2> QED
    BY <1>0, <2>1, PermitsStay
<1>4. ASSUME NEW w \in Pod, SessionDone(w)
      PROVE  PermitsCounted(h)'
  <2>1. PermitsKept(h)
    BY <1>4 DEF PermitsKept, SessionDone, EndSession,
             Publishing, Requesting, content, TypeInv, TypeOK
  <2> QED
    BY <1>0, <2>1, PermitsStay
<1>5. ASSUME NEW w \in Pod, AutoCommit(w)
      PROVE  PermitsCounted(h)'
  <2>1. PermitsKept(h)
    BY <1>5 DEF PermitsKept, AutoCommit,
             Publishing, Requesting, content, TypeInv, TypeOK
  <2> QED
    BY <1>0, <2>1, PermitsStay
<1>6. ASSUME NEW w \in Pod, Evict(w)
      PROVE  PermitsCounted(h)'
  <2>1. PermitsKept(h)
    BY <1>6 DEF PermitsKept, Evict, TakeFault,
             Publishing, Requesting, content, TypeInv, TypeOK
  <2> QED
    BY <1>0, <2>1, PermitsStay
<1>7. ASSUME NEW w \in Pod, Dedupe(w)
      PROVE  PermitsCounted(h)'
  <2>1. /\ dedupe' = dedupe \cup {content(w)} /\ pc[w] = "deduping"
        /\ UNCHANGED <<cur, normalized, requested, lost>>
    BY <1>7 DEF Dedupe
  <2>2. CASE h # content(w) \/ h \in dedupe
    <3>1. PermitsKept(h)
      BY <1>7, <2>2 DEF PermitsKept, Dedupe, Publishing, Requesting, content, TypeInv, TypeOK
    <3> QED
      BY <1>0, <3>1, PermitsStay
  <2>3. CASE h = content(w) /\ h \notin dedupe
    <3>1. Publishing(h)' = Publishing(h) \cup {w} /\ w \notin Publishing(h)
      BY <1>7, <2>3 DEF Dedupe, Publishing, Requesting, content, TypeInv, TypeOK
    <3>2. Requesting(h)' = Requesting(h)
      BY <1>7 DEF Dedupe, Publishing, Requesting, content, TypeInv, TypeOK
    <3>3. /\ IsFiniteSet(Publishing(h)')
          /\ Cardinality(Publishing(h)') = Cardinality(Publishing(h)) + 1
      BY <1>0, <3>1, FS_AddElement DEF PermitsCounted
    <3> QED
      BY <1>0, <2>1, <2>3, <3>2, <3>3, CountsNat DEF PermitsCounted
  <2> QED
    BY <2>2, <2>3
<1>8. ASSUME NEW w \in Pod, ReportDuplicate(w)
      PROVE  PermitsCounted(h)'
  <2>1. PermitsKept(h)
    BY <1>8 DEF PermitsKept, ReportDuplicate, Return,
             Publishing, Requesting, content, TypeInv, TypeOK
  <2> QED
    BY <1>0, <2>1, PermitsStay
<1>9. ASSUME NEW w \in Pod, ReadObject(w)
      PROVE  PermitsCounted(h)'
  <2>1. PermitsKept(h)
    BY <1>9 DEF PermitsKept, ReadObject,
             Publishing, Requesting, content, TypeInv, TypeOK
  <2> QED
    BY <1>0, <2>1, PermitsStay
<1>10. ASSUME NEW w \in Pod, StoreText(w)
      PROVE  PermitsCounted(h)'
  <2>1. PermitsKept(h)
    BY <1>10 DEF PermitsKept, StoreText,
             Publishing, Requesting, content, TypeInv, TypeOK
  <2> QED
    BY <1>0, <2>1, PermitsStay
<1>11. ASSUME NEW w \in Pod, PublishNormalized(w)
      PROVE  PermitsCounted(h)'
  <2>1. content(w) \in Hash
    BY <1>11, ContentType DEF PublishNormalized, Handling
  <2>2. CASE h # content(w)
    <3>1. PermitsKept(h)
      BY <1>11, <2>1, <2>2 DEF PermitsKept, PublishNormalized,
               Publishing, Requesting, content, TypeInv, TypeOK
    <3> QED
      BY <1>0, <3>1, PermitsStay
  <2>3. CASE h = content(w)
    <3>1. Publishing(h)' = Publishing(h) \ {w} /\ w \in Publishing(h)
      BY <1>11, <2>3 DEF PublishNormalized, Publishing, Requesting, content, TypeInv, TypeOK
    <3>2. Requesting(h)' = Requesting(h) \cup {w} /\ w \notin Requesting(h)
      BY <1>11, <2>3 DEF PublishNormalized, Publishing, Requesting, content, TypeInv, TypeOK
    <3>3. normalized'[h] = normalized[h] + 1 /\ UNCHANGED <<requested, lost, dedupe>>
      BY <1>11, <2>1, <2>3 DEF PublishNormalized, TypeInv, TypeOK
    <3>4. /\ IsFiniteSet(Publishing(h)')
          /\ Cardinality(Publishing(h)') = Cardinality(Publishing(h)) - 1
      BY <1>0, <3>1, FS_RemoveElement DEF PermitsCounted
    <3>5. /\ IsFiniteSet(Requesting(h)')
          /\ Cardinality(Requesting(h)') = Cardinality(Requesting(h)) + 1
      BY <1>0, <3>2, FS_AddElement DEF PermitsCounted
    <3> QED
      BY <1>0, <3>3, <3>4, <3>5, CountsNat DEF PermitsCounted
  <2> QED
    BY <2>2, <2>3
<1>12. ASSUME NEW w \in Pod, RequestNlp(w)
      PROVE  PermitsCounted(h)'
  <2>1. content(w) \in Hash
    BY <1>12, ContentType DEF RequestNlp, Handling
  <2>2. CASE h # content(w)
    <3>1. PermitsKept(h)
      BY <1>12, <2>1, <2>2 DEF PermitsKept, RequestNlp, Return,
               Publishing, Requesting, content, TypeInv, TypeOK
    <3> QED
      BY <1>0, <3>1, PermitsStay
  <2>3. CASE h = content(w)
    <3>1. Publishing(h)' = Publishing(h)
      BY <1>12 DEF RequestNlp, Return, Publishing, Requesting, content, TypeInv, TypeOK
    <3>2. Requesting(h)' = Requesting(h) \ {w} /\ w \in Requesting(h)
      BY <1>12, <2>3 DEF RequestNlp, Return, Publishing, Requesting, content, TypeInv, TypeOK
    <3>3. requested'[h] = requested[h] + 1 /\ UNCHANGED <<normalized, lost, dedupe>>
      BY <1>12, <2>1, <2>3 DEF RequestNlp, TypeInv, TypeOK
    <3>4. /\ IsFiniteSet(Requesting(h)')
          /\ Cardinality(Requesting(h)') = Cardinality(Requesting(h)) - 1
      BY <1>0, <3>2, FS_RemoveElement DEF PermitsCounted
    <3> QED
      BY <1>0, <3>1, <3>3, <3>4, CountsNat DEF PermitsCounted
  <2> QED
    BY <2>2, <2>3
<1>13. ASSUME NEW w \in Pod, RejectDocument(w)
      PROVE  PermitsCounted(h)'
  <2>1. PermitsKept(h)
    BY <1>13 DEF PermitsKept, RejectDocument, EndSession,
             Publishing, Requesting, content, TypeInv, TypeOK
  <2> QED
    BY <1>0, <2>1, PermitsStay
<1>14. ASSUME NEW w \in Pod, CallFails(w)
      PROVE  PermitsCounted(h)'
  <2>1. PermitsKept(h)
    BY <1>14 DEF PermitsKept, CallFails, EndSession, TakeFault,
             Publishing, Requesting, content, TypeInv, TypeOK
  <2> QED
    BY <1>0, <2>1, PermitsStay
<1>15. ASSUME NEW w \in Pod, DedupeAnswerLost(w)
      PROVE  PermitsCounted(h)'
  <2>1. PermitsKept(h)
    BY <1>15 DEF PermitsKept, DedupeAnswerLost, EndSession, TakeFault,
             Publishing, Requesting, content, TypeInv, TypeOK
  <2> QED
    BY <1>0, <2>1, PermitsStay
<1>16. ASSUME NEW w \in Pod, PublishAnswerLost(w)
      PROVE  PermitsCounted(h)'
  <2>1. content(w) \in Hash
    BY <1>16, ContentType DEF PublishAnswerLost, Handling
  <2>2. CASE h # content(w)
    <3>1. PermitsKept(h)
      BY <1>16, <2>1, <2>2 DEF PermitsKept, PublishAnswerLost, EndSession,
               Publishing, Requesting, content, TypeInv, TypeOK
    <3> QED
      BY <1>0, <3>1, PermitsStay
  <2>3. CASE h = content(w)
    <3>1. Publishing(h)' = Publishing(h) \ {w} /\ w \in Publishing(h)
      BY <1>16, <2>3 DEF PublishAnswerLost, EndSession, Publishing, Requesting, content, TypeInv, TypeOK
    <3>2. Requesting(h)' = Requesting(h) /\ w \notin Requesting(h)
      BY <1>16, <2>3 DEF PublishAnswerLost, EndSession, Publishing, Requesting, content, TypeInv, TypeOK
    <3>3. normalized'[h] = normalized[h] + 1 /\ UNCHANGED <<requested, lost, dedupe>>
      BY <1>16, <2>1, <2>3 DEF PublishAnswerLost, TypeInv, TypeOK
    <3>4. /\ IsFiniteSet(Publishing(h)')
          /\ Cardinality(Publishing(h)') = Cardinality(Publishing(h)) - 1
      BY <1>0, <3>1, FS_RemoveElement DEF PermitsCounted
    <3>5. /\ IsFiniteSet(Requesting(h)')
          /\ Cardinality(Requesting(h)') = Cardinality(Requesting(h))
      BY <1>0, <3>2, FS_AddElement DEF PermitsCounted
    <3> QED
      BY <1>0, <3>3, <3>4, <3>5, CountsNat DEF PermitsCounted
  <2> QED
    BY <2>2, <2>3
<1>17. ASSUME NEW w \in Pod, RequestAnswerLost(w)
      PROVE  PermitsCounted(h)'
  <2>1. content(w) \in Hash
    BY <1>17, ContentType DEF RequestAnswerLost, Handling
  <2>2. CASE h # content(w)
    <3>1. PermitsKept(h)
      BY <1>17, <2>1, <2>2 DEF PermitsKept, RequestAnswerLost, EndSession,
               Publishing, Requesting, content, TypeInv, TypeOK
    <3> QED
      BY <1>0, <3>1, PermitsStay
  <2>3. CASE h = content(w)
    <3>1. Publishing(h)' = Publishing(h)
      BY <1>17 DEF RequestAnswerLost, EndSession, Publishing, Requesting, content, TypeInv, TypeOK
    <3>2. Requesting(h)' = Requesting(h) \ {w} /\ w \in Requesting(h)
      BY <1>17, <2>3 DEF RequestAnswerLost, EndSession, Publishing, Requesting, content, TypeInv, TypeOK
    <3>3. requested'[h] = requested[h] + 1 /\ UNCHANGED <<normalized, lost, dedupe>>
      BY <1>17, <2>1, <2>3 DEF RequestAnswerLost, TypeInv, TypeOK
    <3>4. /\ IsFiniteSet(Requesting(h)')
          /\ Cardinality(Requesting(h)') = Cardinality(Requesting(h)) - 1
      BY <1>0, <3>2, FS_RemoveElement DEF PermitsCounted
    <3> QED
      BY <1>0, <3>1, <3>3, <3>4, CountsNat DEF PermitsCounted
  <2> QED
    BY <2>2, <2>3
<1>18. ASSUME NEW w \in Pod, DuplicateAnswerLost(w)
      PROVE  PermitsCounted(h)'
  <2>1. PermitsKept(h)
    BY <1>18 DEF PermitsKept, DuplicateAnswerLost, EndSession, TakeFault,
             Publishing, Requesting, content, TypeInv, TypeOK
  <2> QED
    BY <1>0, <2>1, PermitsStay
<1>19. ASSUME NEW k \in Hash, LoseKey(k)
      PROVE  PermitsCounted(h)'
  <2>1. /\ Publishing(h)' = Publishing(h) /\ Requesting(h)' = Requesting(h)
        /\ UNCHANGED <<normalized, requested>>
    BY <1>19 DEF LoseKey, Publishing, Requesting, content
  <2>2. /\ h = k => lost'[h] = lost[h] + 1 /\ h \in dedupe /\ h \notin dedupe'
        /\ h # k => lost'[h] = lost[h] /\ (h \in dedupe <=> h \in dedupe')
    BY <1>19 DEF LoseKey, TypeInv, TypeOK
  <2> QED
    BY <1>0, <2>1, <2>2, CountsNat DEF PermitsCounted
<1>20. CASE UNCHANGED vars
  <2>1. PermitsKept(h)
    BY <1>20 DEF vars, PermitsKept,
             Publishing, Requesting, content, TypeInv, TypeOK
  <2> QED
    BY <1>0, <2>1, PermitsStay
<1> QED
  BY <1>1, <1>2, <1>3, <1>4, <1>5, <1>6, <1>7, <1>8, <1>9, <1>10, <1>11, <1>12,
     <1>13, <1>14, <1>15, <1>16, <1>17, <1>18, <1>19, <1>20
     DEF Next, Handle, Consume, Fault

-------------------------------------------------------------------------------
(* Stored texts and keys that are answered for *)

LEMMA TextStep == TypeInv /\ TextStored /\ [Next]_vars => TextStored'
<1> SUFFICES ASSUME TypeInv, TextStored, [Next]_vars
             PROVE  TextStored'
  OBVIOUS
<1>1. ASSUME NEW w \in Pod, StartSession(w)
      PROVE  TextStored'
  BY <1>1 DEF StartSession, TextStored, content, TypeInv, TypeOK
<1>2. ASSUME NEW w \in Pod, NextMessage(w)
      PROVE  TextStored'
  BY <1>2 DEF NextMessage, TextStored, content, TypeInv, TypeOK
<1>3. ASSUME NEW w \in Pod, Undecodable(w)
      PROVE  TextStored'
  BY <1>3 DEF Undecodable, EndSession, TextStored, content, TypeInv, TypeOK
<1>4. ASSUME NEW w \in Pod, SessionDone(w)
      PROVE  TextStored'
  BY <1>4 DEF SessionDone, EndSession, TextStored, content, TypeInv, TypeOK
<1>5. ASSUME NEW w \in Pod, AutoCommit(w)
      PROVE  TextStored'
  BY <1>5 DEF AutoCommit, TextStored, content, TypeInv, TypeOK
<1>6. ASSUME NEW w \in Pod, Evict(w)
      PROVE  TextStored'
  BY <1>6 DEF Evict, TakeFault, TextStored, content, TypeInv, TypeOK
<1>7. ASSUME NEW w \in Pod, Dedupe(w)
      PROVE  TextStored'
  BY <1>7 DEF Dedupe, TextStored, content, TypeInv, TypeOK
<1>8. ASSUME NEW w \in Pod, ReportDuplicate(w)
      PROVE  TextStored'
  BY <1>8 DEF ReportDuplicate, Return, TextStored, content, TypeInv, TypeOK
<1>9. ASSUME NEW w \in Pod, ReadObject(w)
      PROVE  TextStored'
  BY <1>9 DEF ReadObject, TextStored, content, TypeInv, TypeOK
<1>10. ASSUME NEW w \in Pod, StoreText(w)
      PROVE  TextStored'
  BY <1>10 DEF StoreText, TextStored, content, TypeInv, TypeOK
<1>11. ASSUME NEW w \in Pod, PublishNormalized(w)
      PROVE  TextStored'
  BY <1>11 DEF PublishNormalized, TextStored, content, TypeInv, TypeOK
<1>12. ASSUME NEW w \in Pod, RequestNlp(w)
      PROVE  TextStored'
  <2>1. \A h \in Hash : requested'[h] = requested[h] \/ h = content(w)
    BY <1>12 DEF RequestNlp, TypeInv, TypeOK
  <2>2. content(w) \in cleanText /\ cleanText' = cleanText
    BY <1>12 DEF RequestNlp, TextStored
  <2>3. \A h \in Hash : requested'[h] > 0 => h \in cleanText'
    BY <2>1, <2>2 DEF TextStored
  <2>4. \A v \in Pod : pc'[v] \in {"publishing", "requesting"} =>
                         content(v)' \in cleanText'
    BY <1>12 DEF RequestNlp, Return, TextStored, content, TypeInv, TypeOK
  <2> QED
    BY <2>3, <2>4 DEF TextStored
<1>13. ASSUME NEW w \in Pod, RejectDocument(w)
      PROVE  TextStored'
  BY <1>13 DEF RejectDocument, EndSession, TextStored, content, TypeInv, TypeOK
<1>14. ASSUME NEW w \in Pod, CallFails(w)
      PROVE  TextStored'
  BY <1>14 DEF CallFails, EndSession, TakeFault, TextStored, content, TypeInv, TypeOK
<1>15. ASSUME NEW w \in Pod, DedupeAnswerLost(w)
      PROVE  TextStored'
  BY <1>15 DEF DedupeAnswerLost, EndSession, TakeFault, TextStored, content, TypeInv, TypeOK
<1>16. ASSUME NEW w \in Pod, PublishAnswerLost(w)
      PROVE  TextStored'
  BY <1>16 DEF PublishAnswerLost, EndSession, TakeFault, TextStored, content, TypeInv, TypeOK
<1>17. ASSUME NEW w \in Pod, RequestAnswerLost(w)
      PROVE  TextStored'
  <2>1. \A h \in Hash : requested'[h] = requested[h] \/ h = content(w)
    BY <1>17 DEF RequestAnswerLost, TypeInv, TypeOK
  <2>2. content(w) \in cleanText /\ cleanText' = cleanText
    BY <1>17 DEF RequestAnswerLost, TextStored
  <2>3. \A h \in Hash : requested'[h] > 0 => h \in cleanText'
    BY <2>1, <2>2 DEF TextStored
  <2>4. \A v \in Pod : pc'[v] \in {"publishing", "requesting"} =>
                         content(v)' \in cleanText'
    BY <1>17 DEF RequestAnswerLost, EndSession, TextStored, content, TypeInv, TypeOK
  <2> QED
    BY <2>3, <2>4 DEF TextStored
<1>18. ASSUME NEW w \in Pod, DuplicateAnswerLost(w)
      PROVE  TextStored'
  BY <1>18 DEF DuplicateAnswerLost, EndSession, TakeFault, TextStored, content, TypeInv, TypeOK
<1>19. ASSUME NEW h \in Hash, LoseKey(h)
      PROVE  TextStored'
  BY <1>19 DEF LoseKey, TextStored, content
<1>20. CASE UNCHANGED vars
  BY <1>20 DEF vars, TextStored, content
<1> QED
  BY <1>1, <1>2, <1>3, <1>4, <1>5, <1>6, <1>7, <1>8, <1>9, <1>10, <1>11, <1>12,
     <1>13, <1>14, <1>15, <1>16, <1>17, <1>18, <1>19, <1>20
     DEF Next, Handle, Consume, Fault

\* Whatever happens, a document that is accounted for stays so.
LEMMA AnsweredStays ==
    ASSUME TypeInv, [Next]_vars, NEW h \in Hash, Answered(h)
    PROVE  Answered(h)'
<1>1. ASSUME NEW w \in Pod, StartSession(w)
      PROVE  Answered(h)'
  <2>1. \A v \in Pod : pc[v] \in HoldsKey => pc'[v] \in HoldsKey /\ cur'[v] = cur[v]
    BY <1>1 DEF StartSession, HoldsKey, Handling, TypeInv, TypeOK
  <2>2. UNCHANGED <<requested, abandoned>>
    BY <1>1 DEF StartSession
  <2> QED
    BY <2>1, <2>2 DEF Answered, InProgress, content
<1>2. ASSUME NEW w \in Pod, NextMessage(w)
      PROVE  Answered(h)'
  <2>1. \A v \in Pod : pc[v] \in HoldsKey => pc'[v] \in HoldsKey /\ cur'[v] = cur[v]
    BY <1>2 DEF NextMessage, HoldsKey, Handling, TypeInv, TypeOK
  <2>2. UNCHANGED <<requested, abandoned>>
    BY <1>2 DEF NextMessage
  <2> QED
    BY <2>1, <2>2 DEF Answered, InProgress, content
<1>3. ASSUME NEW w \in Pod, Undecodable(w)
      PROVE  Answered(h)'
  <2>1. \A v \in Pod : pc[v] \in HoldsKey => pc'[v] \in HoldsKey /\ cur'[v] = cur[v]
    BY <1>3 DEF Undecodable, EndSession, HoldsKey, Handling, TypeInv, TypeOK
  <2>2. UNCHANGED <<requested, abandoned>>
    BY <1>3 DEF Undecodable
  <2> QED
    BY <2>1, <2>2 DEF Answered, InProgress, content
<1>4. ASSUME NEW w \in Pod, SessionDone(w)
      PROVE  Answered(h)'
  <2>1. \A v \in Pod : pc[v] \in HoldsKey => pc'[v] \in HoldsKey /\ cur'[v] = cur[v]
    BY <1>4 DEF SessionDone, EndSession, HoldsKey, Handling, TypeInv, TypeOK
  <2>2. UNCHANGED <<requested, abandoned>>
    BY <1>4 DEF SessionDone
  <2> QED
    BY <2>1, <2>2 DEF Answered, InProgress, content
<1>5. ASSUME NEW w \in Pod, AutoCommit(w)
      PROVE  Answered(h)'
  <2>1. \A v \in Pod : pc[v] \in HoldsKey => pc'[v] \in HoldsKey /\ cur'[v] = cur[v]
    BY <1>5 DEF AutoCommit, HoldsKey, Handling, TypeInv, TypeOK
  <2>2. UNCHANGED <<requested, abandoned>>
    BY <1>5 DEF AutoCommit
  <2> QED
    BY <2>1, <2>2 DEF Answered, InProgress, content
<1>6. ASSUME NEW w \in Pod, Evict(w)
      PROVE  Answered(h)'
  <2>1. \A v \in Pod : pc[v] \in HoldsKey => pc'[v] \in HoldsKey /\ cur'[v] = cur[v]
    BY <1>6 DEF Evict, TakeFault, HoldsKey, Handling, TypeInv, TypeOK
  <2>2. UNCHANGED <<requested, abandoned>>
    BY <1>6 DEF Evict
  <2> QED
    BY <2>1, <2>2 DEF Answered, InProgress, content
<1>7. ASSUME NEW w \in Pod, Dedupe(w)
      PROVE  Answered(h)'
  <2>1. \A v \in Pod : pc[v] \in HoldsKey => pc'[v] \in HoldsKey /\ cur'[v] = cur[v]
    BY <1>7 DEF Dedupe, HoldsKey, Handling, TypeInv, TypeOK
  <2>2. UNCHANGED <<requested, abandoned>>
    BY <1>7 DEF Dedupe
  <2> QED
    BY <2>1, <2>2 DEF Answered, InProgress, content
<1>8. ASSUME NEW w \in Pod, ReportDuplicate(w)
      PROVE  Answered(h)'
  <2>1. \A v \in Pod : pc[v] \in HoldsKey => pc'[v] \in HoldsKey /\ cur'[v] = cur[v]
    BY <1>8 DEF ReportDuplicate, Return, HoldsKey, Handling, TypeInv, TypeOK
  <2>2. UNCHANGED <<requested, abandoned>>
    BY <1>8 DEF ReportDuplicate
  <2> QED
    BY <2>1, <2>2 DEF Answered, InProgress, content
<1>9. ASSUME NEW w \in Pod, ReadObject(w)
      PROVE  Answered(h)'
  <2>1. \A v \in Pod : pc[v] \in HoldsKey => pc'[v] \in HoldsKey /\ cur'[v] = cur[v]
    BY <1>9 DEF ReadObject, HoldsKey, Handling, TypeInv, TypeOK
  <2>2. UNCHANGED <<requested, abandoned>>
    BY <1>9 DEF ReadObject
  <2> QED
    BY <2>1, <2>2 DEF Answered, InProgress, content
<1>10. ASSUME NEW w \in Pod, StoreText(w)
      PROVE  Answered(h)'
  <2>1. \A v \in Pod : pc[v] \in HoldsKey => pc'[v] \in HoldsKey /\ cur'[v] = cur[v]
    BY <1>10 DEF StoreText, HoldsKey, Handling, TypeInv, TypeOK
  <2>2. UNCHANGED <<requested, abandoned>>
    BY <1>10 DEF StoreText
  <2> QED
    BY <2>1, <2>2 DEF Answered, InProgress, content
<1>11. ASSUME NEW w \in Pod, PublishNormalized(w)
      PROVE  Answered(h)'
  <2>1. \A v \in Pod : pc[v] \in HoldsKey => pc'[v] \in HoldsKey /\ cur'[v] = cur[v]
    BY <1>11 DEF PublishNormalized, HoldsKey, Handling, TypeInv, TypeOK
  <2>2. UNCHANGED <<requested, abandoned>>
    BY <1>11 DEF PublishNormalized
  <2> QED
    BY <2>1, <2>2 DEF Answered, InProgress, content
<1>12. ASSUME NEW w \in Pod, RequestNlp(w)
      PROVE  Answered(h)'
  <2>1. \A v \in Pod : pc[v] \in HoldsKey =>
               (pc'[v] \in HoldsKey /\ cur'[v] = cur[v]) \/ v = w
    BY <1>12 DEF RequestNlp, Return, HoldsKey, TypeInv, TypeOK
  <2>2. abandoned' = abandoned
    BY <1>12 DEF RequestNlp
  <2>3. /\ requested'[h] \in Nat /\ requested[h] \in Nat
        /\ requested'[h] >= requested[h]
        /\ h = content(w) => requested'[h] > 0
    BY <1>12 DEF RequestNlp, TypeInv, TypeOK
  <2> QED
    BY <2>1, <2>2, <2>3 DEF Answered, InProgress, content
<1>13. ASSUME NEW w \in Pod, RejectDocument(w)
      PROVE  Answered(h)'
  <2>1. \A v \in Pod : pc[v] \in HoldsKey =>
               (pc'[v] \in HoldsKey /\ cur'[v] = cur[v]) \/ (v = w /\ content(w) \in abandoned')
    BY <1>13 DEF RejectDocument, EndSession, HoldsKey, TypeInv, TypeOK
  <2>2. requested' = requested /\ abandoned \subseteq abandoned'
    BY <1>13 DEF RejectDocument
  <2> QED
    BY <2>1, <2>2 DEF Answered, InProgress, content
<1>14. ASSUME NEW w \in Pod, CallFails(w)
      PROVE  Answered(h)'
  <2>1. \A v \in Pod : pc[v] \in HoldsKey =>
               (pc'[v] \in HoldsKey /\ cur'[v] = cur[v]) \/ (v = w /\ content(w) \in abandoned')
    BY <1>14 DEF CallFails, EndSession, TakeFault, HoldsKey, TypeInv, TypeOK
  <2>2. requested' = requested /\ abandoned \subseteq abandoned'
    BY <1>14 DEF CallFails
  <2> QED
    BY <2>1, <2>2 DEF Answered, InProgress, content
<1>15. ASSUME NEW w \in Pod, DedupeAnswerLost(w)
      PROVE  Answered(h)'
  <2>1. \A v \in Pod : pc[v] \in HoldsKey =>
               (pc'[v] \in HoldsKey /\ cur'[v] = cur[v]) \/ (v = w /\ content(w) \in abandoned')
    BY <1>15 DEF DedupeAnswerLost, EndSession, TakeFault, HoldsKey, TypeInv, TypeOK
  <2>2. requested' = requested /\ abandoned \subseteq abandoned'
    BY <1>15 DEF DedupeAnswerLost
  <2> QED
    BY <2>1, <2>2 DEF Answered, InProgress, content
<1>16. ASSUME NEW w \in Pod, PublishAnswerLost(w)
      PROVE  Answered(h)'
  <2>1. \A v \in Pod : pc[v] \in HoldsKey =>
               (pc'[v] \in HoldsKey /\ cur'[v] = cur[v]) \/ (v = w /\ content(w) \in abandoned')
    BY <1>16 DEF PublishAnswerLost, EndSession, TakeFault, HoldsKey, TypeInv, TypeOK
  <2>2. requested' = requested /\ abandoned \subseteq abandoned'
    BY <1>16 DEF PublishAnswerLost
  <2> QED
    BY <2>1, <2>2 DEF Answered, InProgress, content
<1>17. ASSUME NEW w \in Pod, RequestAnswerLost(w)
      PROVE  Answered(h)'
  <2>1. \A v \in Pod : pc[v] \in HoldsKey =>
               (pc'[v] \in HoldsKey /\ cur'[v] = cur[v]) \/ v = w
    BY <1>17 DEF RequestAnswerLost, EndSession, TakeFault, HoldsKey, TypeInv, TypeOK
  <2>2. abandoned' = abandoned
    BY <1>17 DEF RequestAnswerLost
  <2>3. /\ requested'[h] \in Nat /\ requested[h] \in Nat
        /\ requested'[h] >= requested[h]
        /\ h = content(w) => requested'[h] > 0
    BY <1>17 DEF RequestAnswerLost, TypeInv, TypeOK
  <2> QED
    BY <2>1, <2>2, <2>3 DEF Answered, InProgress, content
<1>18. ASSUME NEW w \in Pod, DuplicateAnswerLost(w)
      PROVE  Answered(h)'
  <2>1. \A v \in Pod : pc[v] \in HoldsKey =>
               (pc'[v] \in HoldsKey /\ cur'[v] = cur[v]) \/ (v = w /\ content(w) \in abandoned')
    BY <1>18 DEF DuplicateAnswerLost, EndSession, TakeFault, HoldsKey, TypeInv, TypeOK
  <2>2. requested' = requested /\ abandoned \subseteq abandoned'
    BY <1>18 DEF DuplicateAnswerLost
  <2> QED
    BY <2>1, <2>2 DEF Answered, InProgress, content
<1>19. ASSUME NEW k \in Hash, LoseKey(k)
      PROVE  Answered(h)'
  <2>1. \A v \in Pod : pc[v] \in HoldsKey => pc'[v] \in HoldsKey /\ cur'[v] = cur[v]
    BY <1>19 DEF LoseKey, HoldsKey, Handling, TypeInv, TypeOK
  <2>2. UNCHANGED <<requested, abandoned>>
    BY <1>19 DEF LoseKey
  <2> QED
    BY <2>1, <2>2 DEF Answered, InProgress, content
<1>20. CASE UNCHANGED vars
  <2>1. \A v \in Pod : pc[v] \in HoldsKey => pc'[v] \in HoldsKey /\ cur'[v] = cur[v]
    BY <1>20 DEF vars, HoldsKey, Handling, TypeInv, TypeOK
  <2>2. UNCHANGED <<requested, abandoned>>
    BY <1>20 DEF vars
  <2> QED
    BY <2>1, <2>2 DEF Answered, InProgress, content
<1> QED
  BY <1>1, <1>2, <1>3, <1>4, <1>5, <1>6, <1>7, <1>8, <1>9, <1>10, <1>11, <1>12,
     <1>13, <1>14, <1>15, <1>16, <1>17, <1>18, <1>19, <1>20
     DEF Next, Handle, Consume, Fault

LEMMA KeysAnsweredStep ==
    ASSUME TypeInv, KeysAnswered, [Next]_vars
    PROVE  KeysAnswered'
<1> SUFFICES ASSUME NEW h \in Hash
             PROVE  Known(h)' => Known(h) \/ Answered(h)'
  BY AnsweredStays DEF KeysAnswered
<1>1. ASSUME NEW w \in Pod, StartSession(w)
      PROVE  Known(h)' => Known(h) \/ Answered(h)'
  BY <1>1 DEF Known, StartSession, content, TypeInv, TypeOK
<1>2. ASSUME NEW w \in Pod, NextMessage(w)
      PROVE  Known(h)' => Known(h) \/ Answered(h)'
  BY <1>2 DEF Known, NextMessage, content, TypeInv, TypeOK
<1>3. ASSUME NEW w \in Pod, Undecodable(w)
      PROVE  Known(h)' => Known(h) \/ Answered(h)'
  BY <1>3 DEF Known, Undecodable, EndSession, content, TypeInv, TypeOK
<1>4. ASSUME NEW w \in Pod, SessionDone(w)
      PROVE  Known(h)' => Known(h) \/ Answered(h)'
  BY <1>4 DEF Known, SessionDone, EndSession, content, TypeInv, TypeOK
<1>5. ASSUME NEW w \in Pod, AutoCommit(w)
      PROVE  Known(h)' => Known(h) \/ Answered(h)'
  BY <1>5 DEF Known, AutoCommit, content, TypeInv, TypeOK
<1>6. ASSUME NEW w \in Pod, Evict(w)
      PROVE  Known(h)' => Known(h) \/ Answered(h)'
  BY <1>6 DEF Known, Evict, TakeFault, content, TypeInv, TypeOK
<1>7. ASSUME NEW w \in Pod, Dedupe(w)
      PROVE  Known(h)' => Known(h) \/ Answered(h)'
  <2>1. Known(h)' => Known(h) \/ h = content(w)
    BY <1>7 DEF Dedupe, Known, content, TypeInv, TypeOK
  <2>2. h = content(w) => h \in dedupe \/ (pc'[w] \in HoldsKey /\ content(w)' = h)
    BY <1>7 DEF Dedupe, content, HoldsKey, TypeInv, TypeOK
  <2> QED
    BY <2>1, <2>2 DEF Answered, InProgress, Known
<1>8. ASSUME NEW w \in Pod, ReportDuplicate(w)
      PROVE  Known(h)' => Known(h) \/ Answered(h)'
  BY <1>8 DEF Known, ReportDuplicate, Return, content, TypeInv, TypeOK
<1>9. ASSUME NEW w \in Pod, ReadObject(w)
      PROVE  Known(h)' => Known(h) \/ Answered(h)'
  BY <1>9 DEF Known, ReadObject, content, TypeInv, TypeOK
<1>10. ASSUME NEW w \in Pod, StoreText(w)
      PROVE  Known(h)' => Known(h) \/ Answered(h)'
  BY <1>10 DEF Known, StoreText, content, TypeInv, TypeOK
<1>11. ASSUME NEW w \in Pod, PublishNormalized(w)
      PROVE  Known(h)' => Known(h) \/ Answered(h)'
  BY <1>11 DEF Known, PublishNormalized, content, TypeInv, TypeOK
<1>12. ASSUME NEW w \in Pod, RequestNlp(w)
      PROVE  Known(h)' => Known(h) \/ Answered(h)'
  BY <1>12 DEF Known, RequestNlp, Return, content, TypeInv, TypeOK
<1>13. ASSUME NEW w \in Pod, RejectDocument(w)
      PROVE  Known(h)' => Known(h) \/ Answered(h)'
  BY <1>13 DEF Known, RejectDocument, EndSession, content, TypeInv, TypeOK
<1>14. ASSUME NEW w \in Pod, CallFails(w)
      PROVE  Known(h)' => Known(h) \/ Answered(h)'
  BY <1>14 DEF Known, CallFails, EndSession, TakeFault, content, TypeInv, TypeOK
<1>15. ASSUME NEW w \in Pod, DedupeAnswerLost(w)
      PROVE  Known(h)' => Known(h) \/ Answered(h)'
  <2>1. Known(h)' => Known(h) \/ h = content(w)
    BY <1>15 DEF DedupeAnswerLost, EndSession, Known, content, TypeInv, TypeOK
  <2>2. h = content(w) => h \in dedupe \/ h \in abandoned'
    BY <1>15 DEF DedupeAnswerLost
  <2> QED
    BY <2>1, <2>2 DEF Answered, Known
<1>16. ASSUME NEW w \in Pod, PublishAnswerLost(w)
      PROVE  Known(h)' => Known(h) \/ Answered(h)'
  BY <1>16 DEF Known, PublishAnswerLost, EndSession, TakeFault, content, TypeInv, TypeOK
<1>17. ASSUME NEW w \in Pod, RequestAnswerLost(w)
      PROVE  Known(h)' => Known(h) \/ Answered(h)'
  BY <1>17 DEF Known, RequestAnswerLost, EndSession, TakeFault, content, TypeInv, TypeOK
<1>18. ASSUME NEW w \in Pod, DuplicateAnswerLost(w)
      PROVE  Known(h)' => Known(h) \/ Answered(h)'
  BY <1>18 DEF Known, DuplicateAnswerLost, EndSession, TakeFault, content, TypeInv, TypeOK
<1>19. ASSUME NEW k \in Hash, LoseKey(k)
      PROVE  Known(h)' => Known(h) \/ Answered(h)'
  BY <1>19 DEF LoseKey, Known, content
<1>20. CASE UNCHANGED vars
  BY <1>20 DEF vars, Known, content
<1> QED
  BY <1>1, <1>2, <1>3, <1>4, <1>5, <1>6, <1>7, <1>8, <1>9, <1>10, <1>11, <1>12,
     <1>13, <1>14, <1>15, <1>16, <1>17, <1>18, <1>19, <1>20
     DEF Next, Handle, Consume, Fault

-------------------------------------------------------------------------------
(* Marks and commits *)

LEMMA MarkedStep ==
    ASSUME TypeInv, MarkedReturned, [Next]_vars
    PROVE  MarkedReturned'
<1>1. ASSUME NEW w \in Pod, StartSession(w)
      PROVE  MarkedReturned'
  BY <1>1, PodAssumption DEF StartSession, MarkedReturned, TypeInv, TypeOK
<1>2. ASSUME NEW w \in Pod, NextMessage(w)
      PROVE  MarkedReturned'
  BY <1>2 DEF NextMessage, MarkedReturned, TypeInv, TypeOK
<1>3. ASSUME NEW w \in Pod, Undecodable(w)
      PROVE  MarkedReturned'
  BY <1>3, PodAssumption DEF Undecodable, EndSession, MarkedReturned
<1>4. ASSUME NEW w \in Pod, SessionDone(w)
      PROVE  MarkedReturned'
  BY <1>4, PodAssumption DEF SessionDone, EndSession, MarkedReturned
<1>5. ASSUME NEW w \in Pod, AutoCommit(w)
      PROVE  MarkedReturned'
  BY <1>5 DEF AutoCommit, MarkedReturned, TypeInv, TypeOK
<1>6. ASSUME NEW w \in Pod, Evict(w)
      PROVE  MarkedReturned'
  BY <1>6, PodAssumption DEF Evict, TakeFault, MarkedReturned
<1>7. ASSUME NEW w \in Pod, Dedupe(w)
      PROVE  MarkedReturned'
  BY <1>7 DEF Dedupe, MarkedReturned, TypeInv, TypeOK
<1>8. ASSUME NEW w \in Pod, ReportDuplicate(w)
      PROVE  MarkedReturned'
  <2>1. cur[w] = marked[w] /\ marked[w] \in Nat /\ committed \in Nat
    BY <1>8 DEF ReportDuplicate, TypeInv, TypeOK, HandlingMarked, Handling
  <2>2. /\ marked' = [marked EXCEPT ![w] = marked[w] + 1]
        /\ returned' = returned \cup {marked[w]}
        /\ UNCHANGED <<owner, committed>>
    BY <1>8, <2>1 DEF ReportDuplicate, Return
  <2>3. owner = w => /\ committed <= marked[w] + 1
                     /\ committed..marked[w] \subseteq returned \cup {marked[w]}
    BY <2>1 DEF MarkedReturned
  <2>4. marked'[w] = marked[w] + 1 /\ (marked[w] + 1) - 1 = marked[w]
    BY <2>1, <2>2 DEF TypeInv, TypeOK
  <2>5. \A v \in Pod : v # w => marked'[v] = marked[v]
    BY <2>2 DEF TypeInv, TypeOK
  <2> QED
    BY <2>2, <2>3, <2>4, <2>5 DEF MarkedReturned
<1>9. ASSUME NEW w \in Pod, ReadObject(w)
      PROVE  MarkedReturned'
  BY <1>9 DEF ReadObject, MarkedReturned, TypeInv, TypeOK
<1>10. ASSUME NEW w \in Pod, StoreText(w)
      PROVE  MarkedReturned'
  BY <1>10 DEF StoreText, MarkedReturned, TypeInv, TypeOK
<1>11. ASSUME NEW w \in Pod, PublishNormalized(w)
      PROVE  MarkedReturned'
  BY <1>11 DEF PublishNormalized, MarkedReturned, TypeInv, TypeOK
<1>12. ASSUME NEW w \in Pod, RequestNlp(w)
      PROVE  MarkedReturned'
  <2>1. cur[w] = marked[w] /\ marked[w] \in Nat /\ committed \in Nat
    BY <1>12 DEF RequestNlp, TypeInv, TypeOK, HandlingMarked, Handling
  <2>2. /\ marked' = [marked EXCEPT ![w] = marked[w] + 1]
        /\ returned' = returned \cup {marked[w]}
        /\ UNCHANGED <<owner, committed>>
    BY <1>12, <2>1 DEF RequestNlp, Return
  <2>3. owner = w => /\ committed <= marked[w] + 1
                     /\ committed..marked[w] \subseteq returned \cup {marked[w]}
    BY <2>1 DEF MarkedReturned
  <2>4. marked'[w] = marked[w] + 1 /\ (marked[w] + 1) - 1 = marked[w]
    BY <2>1, <2>2 DEF TypeInv, TypeOK
  <2>5. \A v \in Pod : v # w => marked'[v] = marked[v]
    BY <2>2 DEF TypeInv, TypeOK
  <2> QED
    BY <2>2, <2>3, <2>4, <2>5 DEF MarkedReturned
<1>13. ASSUME NEW w \in Pod, RejectDocument(w)
      PROVE  MarkedReturned'
  BY <1>13, PodAssumption DEF RejectDocument, EndSession, MarkedReturned
<1>14. ASSUME NEW w \in Pod, CallFails(w)
      PROVE  MarkedReturned'
  BY <1>14, PodAssumption DEF CallFails, EndSession, TakeFault, MarkedReturned
<1>15. ASSUME NEW w \in Pod, DedupeAnswerLost(w)
      PROVE  MarkedReturned'
  BY <1>15, PodAssumption DEF DedupeAnswerLost, EndSession, TakeFault, MarkedReturned
<1>16. ASSUME NEW w \in Pod, PublishAnswerLost(w)
      PROVE  MarkedReturned'
  BY <1>16, PodAssumption DEF PublishAnswerLost, EndSession, TakeFault, MarkedReturned
<1>17. ASSUME NEW w \in Pod, RequestAnswerLost(w)
      PROVE  MarkedReturned'
  BY <1>17, PodAssumption DEF RequestAnswerLost, EndSession, TakeFault, MarkedReturned
<1>18. ASSUME NEW w \in Pod, DuplicateAnswerLost(w)
      PROVE  MarkedReturned'
  BY <1>18, PodAssumption DEF DuplicateAnswerLost, EndSession, TakeFault, MarkedReturned
<1>19. ASSUME NEW h \in Hash, LoseKey(h)
      PROVE  MarkedReturned'
  BY <1>19 DEF LoseKey, MarkedReturned
<1>20. CASE UNCHANGED vars
  BY <1>20 DEF vars, MarkedReturned
<1> QED
  BY <1>1, <1>2, <1>3, <1>4, <1>5, <1>6, <1>7, <1>8, <1>9, <1>10, <1>11, <1>12,
     <1>13, <1>14, <1>15, <1>16, <1>17, <1>18, <1>19, <1>20
     DEF Next, Handle, Consume, Fault

LEMMA MalformedStep ==
    ASSUME TypeInv, MalformedAhead, [Next]_vars
    PROVE  MalformedAhead'
<1>0. \A m \in Malformed : m \in Nat
  BY RecordAssumption
<1>1. ASSUME NEW w \in Pod, StartSession(w)
      PROVE  MalformedAhead'
  BY <1>1 DEF StartSession, MalformedAhead, TypeInv, TypeOK
<1>2. ASSUME NEW w \in Pod, NextMessage(w)
      PROVE  MalformedAhead'
  BY <1>2 DEF NextMessage, MalformedAhead, TypeInv, TypeOK
<1>3. ASSUME NEW w \in Pod, Undecodable(w)
      PROVE  MalformedAhead'
  BY <1>3 DEF Undecodable, EndSession, MalformedAhead, TypeInv, TypeOK
<1>4. ASSUME NEW w \in Pod, SessionDone(w)
      PROVE  MalformedAhead'
  BY <1>4 DEF SessionDone, EndSession, MalformedAhead, TypeInv, TypeOK
<1>5. ASSUME NEW w \in Pod, AutoCommit(w)
      PROVE  MalformedAhead'
  BY <1>5 DEF AutoCommit, MalformedAhead, TypeInv, TypeOK
<1>6. ASSUME NEW w \in Pod, Evict(w)
      PROVE  MalformedAhead'
  BY <1>6 DEF Evict, TakeFault, MalformedAhead, TypeInv, TypeOK
<1>7. ASSUME NEW w \in Pod, Dedupe(w)
      PROVE  MalformedAhead'
  BY <1>7 DEF Dedupe, MalformedAhead, TypeInv, TypeOK
<1>8. ASSUME NEW w \in Pod, ReportDuplicate(w)
      PROVE  MalformedAhead'
  <2>1. marked[w] \in Nat /\ marked[w] \notin Malformed /\ cur[w] = marked[w]
    BY <1>8 DEF ReportDuplicate, TypeInv, TypeOK, HandlingMarked, Handling
  <2>2. \A m \in Malformed : marked[w] + 1 <= m
    BY <1>0, <2>1 DEF MalformedAhead
  <2>3. marked' = [marked EXCEPT ![w] = marked[w] + 1] /\ committed' = committed
    BY <1>8, <2>1 DEF ReportDuplicate, Return
  <2> QED
    BY <2>2, <2>3 DEF MalformedAhead, TypeInv, TypeOK
<1>9. ASSUME NEW w \in Pod, ReadObject(w)
      PROVE  MalformedAhead'
  BY <1>9 DEF ReadObject, MalformedAhead, TypeInv, TypeOK
<1>10. ASSUME NEW w \in Pod, StoreText(w)
      PROVE  MalformedAhead'
  BY <1>10 DEF StoreText, MalformedAhead, TypeInv, TypeOK
<1>11. ASSUME NEW w \in Pod, PublishNormalized(w)
      PROVE  MalformedAhead'
  BY <1>11 DEF PublishNormalized, MalformedAhead, TypeInv, TypeOK
<1>12. ASSUME NEW w \in Pod, RequestNlp(w)
      PROVE  MalformedAhead'
  <2>1. marked[w] \in Nat /\ marked[w] \notin Malformed /\ cur[w] = marked[w]
    BY <1>12 DEF RequestNlp, TypeInv, TypeOK, HandlingMarked, Handling
  <2>2. \A m \in Malformed : marked[w] + 1 <= m
    BY <1>0, <2>1 DEF MalformedAhead
  <2>3. marked' = [marked EXCEPT ![w] = marked[w] + 1] /\ committed' = committed
    BY <1>12, <2>1 DEF RequestNlp, Return
  <2> QED
    BY <2>2, <2>3 DEF MalformedAhead, TypeInv, TypeOK
<1>13. ASSUME NEW w \in Pod, RejectDocument(w)
      PROVE  MalformedAhead'
  BY <1>13 DEF RejectDocument, EndSession, MalformedAhead, TypeInv, TypeOK
<1>14. ASSUME NEW w \in Pod, CallFails(w)
      PROVE  MalformedAhead'
  BY <1>14 DEF CallFails, EndSession, TakeFault, MalformedAhead, TypeInv, TypeOK
<1>15. ASSUME NEW w \in Pod, DedupeAnswerLost(w)
      PROVE  MalformedAhead'
  BY <1>15 DEF DedupeAnswerLost, EndSession, TakeFault, MalformedAhead, TypeInv, TypeOK
<1>16. ASSUME NEW w \in Pod, PublishAnswerLost(w)
      PROVE  MalformedAhead'
  BY <1>16 DEF PublishAnswerLost, EndSession, TakeFault, MalformedAhead, TypeInv, TypeOK
<1>17. ASSUME NEW w \in Pod, RequestAnswerLost(w)
      PROVE  MalformedAhead'
  BY <1>17 DEF RequestAnswerLost, EndSession, TakeFault, MalformedAhead, TypeInv, TypeOK
<1>18. ASSUME NEW w \in Pod, DuplicateAnswerLost(w)
      PROVE  MalformedAhead'
  BY <1>18 DEF DuplicateAnswerLost, EndSession, TakeFault, MalformedAhead, TypeInv, TypeOK
<1>19. ASSUME NEW h \in Hash, LoseKey(h)
      PROVE  MalformedAhead'
  BY <1>19 DEF LoseKey, MalformedAhead
<1>20. CASE UNCHANGED vars
  BY <1>20 DEF vars, MalformedAhead
<1> QED
  BY <1>1, <1>2, <1>3, <1>4, <1>5, <1>6, <1>7, <1>8, <1>9, <1>10, <1>11, <1>12,
     <1>13, <1>14, <1>15, <1>16, <1>17, <1>18, <1>19, <1>20
     DEF Next, Handle, Consume, Fault

-------------------------------------------------------------------------------
(* The invariant and what follows from it *)

LEMMA InductiveInit == Init => IInv
<1> SUFFICES ASSUME Init
             PROVE  IInv
  OBVIOUS
<1>1. TypeInv
  BY TypeInit
<1>2. ASSUME NEW h \in Hash
      PROVE  PermitsCounted(h)
  <2>1. Publishing(h) = {} /\ Requesting(h) = {}
    BY DEF Init, Publishing, Requesting
  <2>2. normalized[h] = 0 /\ requested[h] = 0 /\ lost[h] = 0 /\ dedupe = {}
    BY DEF Init
  <2> QED
    BY <2>1, <2>2, FS_EmptySet DEF PermitsCounted
<1>3. TextStored
  BY DEF Init, TextStored
<1>4. KeysAnswered
  BY DEF Init, KeysAnswered, Known
<1>5. MarkedReturned /\ MalformedAhead
  BY PodAssumption, RecordAssumption DEF Init, MarkedReturned, MalformedAhead
<1> QED
  BY <1>1, <1>2, <1>3, <1>4, <1>5 DEF IInv, KeysCounted

LEMMA InductiveStep == IInv /\ [Next]_vars => IInv'
BY TypeStep, KeysStep, TextStep, KeysAnsweredStep, MarkedStep, MalformedStep DEF IInv

LEMMA Inductive == Spec => []IInv
BY InductiveInit, InductiveStep, PTL DEF Spec

\* However sessions overlap and records come again, a content is normalized at
\* most once for each time its dedupe key was free (main.go:64).
THEOREM NormalizedOnceAlways == Spec => []NormalizedOnce
<1>1. IInv => NormalizedOnce
  <2> SUFFICES ASSUME IInv, NEW h \in Hash
               PROVE  normalized[h] <= 1 + lost[h] /\ requested[h] <= normalized[h]
    BY DEF NormalizedOnce
  <2>1. TypeInv /\ PermitsCounted(h)
    BY DEF IInv, KeysCounted
  <2> QED
    BY <2>1, CountsNat DEF PermitsCounted
<1> QED
  BY <1>1, Inductive, PTL

\* The NLP pipeline is only ever asked for texts that are stored, of documents
\* that were announced (main.go:99-110).
THEOREM RequestHasTextAlways == Spec => []RequestHasText
<1>1. IInv => RequestHasText
  <2> SUFFICES ASSUME IInv, NEW h \in Hash, requested[h] > 0
               PROVE  h \in cleanText /\ normalized[h] > 0
    BY DEF RequestHasText
  <2>1. TypeInv /\ PermitsCounted(h) /\ TextStored
    BY DEF IInv, KeysCounted
  <2>2. normalized[h] > 0
    BY <2>1, CountsNat DEF PermitsCounted
  <2> QED
    BY <2>1, <2>2 DEF TextStored
<1> QED
  BY <1>1, Inductive, PTL

\* A duplicate is reported only of a document that reached the NLP pipeline, was
\* abandoned by a failed attempt, or is being normalized (main.go:64-72).
THEOREM DuplicatesAccountedAlways == Spec => []DuplicatesAccounted
<1>1. IInv => DuplicatesAccounted
  <2> SUFFICES ASSUME IInv, NEW m \in reported
               PROVE  Answered(ContentOf[m])
    BY DEF DuplicatesAccounted, Answered
  <2>1. ContentOf[m] \in Hash
    BY RecordAssumption DEF IInv, TypeInv, TypeOK, Offset
  <2> QED
    BY <2>1 DEF IInv, KeysAnswered, Known
<1> QED
  BY <1>1, Inductive, PTL

\* The group never commits past a record that does not decode: without the
\* WithDLQ option the partition can only wait there (consumer.go:107-112).
NeverPassesMalformed == \A m \in Malformed : committed <= m

THEOREM NeverPassesMalformedAlways == Spec => []NeverPassesMalformed
<1>1. IInv => NeverPassesMalformed
  BY DEF IInv, MalformedAhead, NeverPassesMalformed
<1> QED
  BY <1>1, Inductive, PTL

-------------------------------------------------------------------------------
(* The contract of module AtLeastOnce *)

\* What the owner's session commits, in the background or at its end, are the
\* records up to its mark, all of which have returned.
LEMMA OwnerCommits ==
    ASSUME IInv, NEW w \in Pod, owner = w, committed' = marked[w], returned' = returned
    PROVE  Contract!Next \/ UNCHANGED Contract!vars
<1>1. /\ marked[w] \in 1..(N + 1) /\ committed \in 1..(N + 1) /\ N \in Nat
      /\ committed <= marked[w] /\ committed..(marked[w] - 1) \subseteq returned
  BY SizeType DEF IInv, TypeInv, TypeOK, MarkedReturned
<1>2. CASE marked[w] = committed
  BY <1>2 DEF Contract!vars
<1>3. CASE marked[w] # committed
  <2>1. committed < marked[w]
    BY <1>1, <1>3
  <2>2. Contract!Commit(marked[w])
    BY <1>1, <2>1 DEF Contract!Commit
  <2> QED
    BY <1>1, <2>2 DEF Contract!Next
<1> QED
  BY <1>2, <1>3

LEMMA EndCommits ==
    ASSUME IInv, NEW w \in Pod, EndSession(w), UNCHANGED <<marked, returned>>
    PROVE  Contract!Next \/ UNCHANGED Contract!vars
<1>1. committed' = committed \/ (owner = w /\ committed' = marked[w])
  BY DEF EndSession
<1> QED
  BY <1>1, OwnerCommits DEF Contract!vars

LEMMA ContractStep == IInv /\ [Next]_vars => [Contract!Next]_(Contract!vars)
<1> SUFFICES ASSUME IInv, [Next]_vars
             PROVE  Contract!Next \/ UNCHANGED Contract!vars
  OBVIOUS
<1>1. ASSUME NEW w \in Pod, StartSession(w)
      PROVE  Contract!Next \/ UNCHANGED Contract!vars
  BY <1>1 DEF StartSession, Contract!vars
<1>2. ASSUME NEW w \in Pod, NextMessage(w)
      PROVE  Contract!Next \/ UNCHANGED Contract!vars
  BY <1>2 DEF NextMessage, Contract!vars
<1>3. ASSUME NEW w \in Pod, Undecodable(w)
      PROVE  Contract!Next \/ UNCHANGED Contract!vars
  <2>1. EndSession(w) /\ UNCHANGED <<marked, returned>>
    BY <1>3 DEF Undecodable
  <2> QED
    BY <2>1, EndCommits
<1>4. ASSUME NEW w \in Pod, SessionDone(w)
      PROVE  Contract!Next \/ UNCHANGED Contract!vars
  <2>1. EndSession(w) /\ UNCHANGED <<marked, returned>>
    BY <1>4 DEF SessionDone
  <2> QED
    BY <2>1, EndCommits
<1>5. ASSUME NEW w \in Pod, AutoCommit(w)
      PROVE  Contract!Next \/ UNCHANGED Contract!vars
  <2>1. owner = w /\ committed' = marked[w] /\ returned' = returned
    BY <1>5 DEF AutoCommit
  <2> QED
    BY <2>1, OwnerCommits
<1>6. ASSUME NEW w \in Pod, Evict(w)
      PROVE  Contract!Next \/ UNCHANGED Contract!vars
  BY <1>6 DEF Evict, Contract!vars
<1>7. ASSUME NEW w \in Pod, Dedupe(w)
      PROVE  Contract!Next \/ UNCHANGED Contract!vars
  BY <1>7 DEF Dedupe, Contract!vars
<1>8. ASSUME NEW w \in Pod, ReportDuplicate(w)
      PROVE  Contract!Next \/ UNCHANGED Contract!vars
  <2>1. cur[w] \in 1..N
    BY <1>8, ContentType DEF ReportDuplicate, Handling, Offset, IInv
  <2>2. returned' = returned \cup {cur[w]} /\ committed' = committed
    BY <1>8 DEF ReportDuplicate, Return
  <2>3. Contract!Handle(cur[w])
    BY <2>2 DEF Contract!Handle
  <2> QED
    BY <2>1, <2>3 DEF Contract!Next
<1>9. ASSUME NEW w \in Pod, ReadObject(w)
      PROVE  Contract!Next \/ UNCHANGED Contract!vars
  BY <1>9 DEF ReadObject, Contract!vars
<1>10. ASSUME NEW w \in Pod, StoreText(w)
      PROVE  Contract!Next \/ UNCHANGED Contract!vars
  BY <1>10 DEF StoreText, Contract!vars
<1>11. ASSUME NEW w \in Pod, PublishNormalized(w)
      PROVE  Contract!Next \/ UNCHANGED Contract!vars
  BY <1>11 DEF PublishNormalized, Contract!vars
<1>12. ASSUME NEW w \in Pod, RequestNlp(w)
      PROVE  Contract!Next \/ UNCHANGED Contract!vars
  <2>1. cur[w] \in 1..N
    BY <1>12, ContentType DEF RequestNlp, Handling, Offset, IInv
  <2>2. returned' = returned \cup {cur[w]} /\ committed' = committed
    BY <1>12 DEF RequestNlp, Return
  <2>3. Contract!Handle(cur[w])
    BY <2>2 DEF Contract!Handle
  <2> QED
    BY <2>1, <2>3 DEF Contract!Next
<1>13. ASSUME NEW w \in Pod, RejectDocument(w)
      PROVE  Contract!Next \/ UNCHANGED Contract!vars
  <2>1. EndSession(w) /\ UNCHANGED <<marked, returned>>
    BY <1>13 DEF RejectDocument
  <2> QED
    BY <2>1, EndCommits
<1>14. ASSUME NEW w \in Pod, CallFails(w)
      PROVE  Contract!Next \/ UNCHANGED Contract!vars
  <2>1. EndSession(w) /\ UNCHANGED <<marked, returned>>
    BY <1>14 DEF CallFails
  <2> QED
    BY <2>1, EndCommits
<1>15. ASSUME NEW w \in Pod, DedupeAnswerLost(w)
      PROVE  Contract!Next \/ UNCHANGED Contract!vars
  <2>1. EndSession(w) /\ UNCHANGED <<marked, returned>>
    BY <1>15 DEF DedupeAnswerLost
  <2> QED
    BY <2>1, EndCommits
<1>16. ASSUME NEW w \in Pod, PublishAnswerLost(w)
      PROVE  Contract!Next \/ UNCHANGED Contract!vars
  <2>1. EndSession(w) /\ UNCHANGED <<marked, returned>>
    BY <1>16 DEF PublishAnswerLost
  <2> QED
    BY <2>1, EndCommits
<1>17. ASSUME NEW w \in Pod, RequestAnswerLost(w)
      PROVE  Contract!Next \/ UNCHANGED Contract!vars
  <2>1. EndSession(w) /\ UNCHANGED <<marked, returned>>
    BY <1>17 DEF RequestAnswerLost
  <2> QED
    BY <2>1, EndCommits
<1>18. ASSUME NEW w \in Pod, DuplicateAnswerLost(w)
      PROVE  Contract!Next \/ UNCHANGED Contract!vars
  <2>1. EndSession(w) /\ UNCHANGED <<marked, returned>>
    BY <1>18 DEF DuplicateAnswerLost
  <2> QED
    BY <2>1, EndCommits
<1>19. ASSUME NEW h \in Hash, LoseKey(h)
      PROVE  Contract!Next \/ UNCHANGED Contract!vars
  BY <1>19 DEF LoseKey, Contract!vars
<1>20. CASE UNCHANGED vars
  BY <1>20 DEF vars, Contract!vars
<1> QED
  BY <1>1, <1>2, <1>3, <1>4, <1>5, <1>6, <1>7, <1>8, <1>9, <1>10, <1>11, <1>12,
     <1>13, <1>14, <1>15, <1>16, <1>17, <1>18, <1>19, <1>20
     DEF Next, Handle, Consume, Fault

\* Every behaviour of the normalizer's consumer group is a behaviour of the
\* contract: the group passes only records for which handle returned nil,
\* whatever sessions, background commits and evictions do (consumer.go:100-107).
THEOREM ImplementsContract == Spec => ContractSpec
<1>1. Init => Contract!Init
  BY DEF Init, Contract!Init
<1>2. Spec => Contract!Init /\ [][Contract!Next]_(Contract!vars)
  BY <1>1, ContractStep, Inductive, PTL DEF Spec
<1> QED
  BY <1>2 DEF ContractSpec, Contract!Spec
===============================================================================
