---------------------------- MODULE PipelineProofs ----------------------------
(***************************************************************************)
(* Proofs about Pipeline for any scenarios, tenants, sources, partitions,  *)
(* texts and numbers of deaths and replays.                                *)
(***************************************************************************)
EXTENDS Pipeline, ExtractionProofs

-------------------------------------------------------------------------------
(* Lemmas about sequences of records *)

\* Sequences one after the other.
LEMMA ConcatSequence ==
    ASSUME NEW s, NEW t, Sequence(s), Sequence(t)
    PROVE  /\ Sequence(s \o t)
           /\ Len(s \o t) = Len(s) + Len(t)
           /\ \A i \in 1..Len(s) : (s \o t)[i] = s[i]
           /\ \A i \in (Len(s) + 1)..(Len(s) + Len(t)) : (s \o t)[i] \in Elements(t)
           /\ \A e \in Elements(t) :
                \E i \in (Len(s) + 1)..(Len(s) + Len(t)) : (s \o t)[i] = e
           /\ Elements(s \o t) = Elements(s) \cup Elements(t)
<1> DEFINE U == Elements(s) \cup Elements(t)
<1>1. s \in Seq(U) /\ t \in Seq(U)
  <2>1. /\ Len(s) \in Nat /\ s \in [1..Len(s) -> Elements(s)]
        /\ Len(t) \in Nat /\ t \in [1..Len(t) -> Elements(t)]
    BY LenProperties DEF Sequence
  <2>2. s \in [1..Len(s) -> U] /\ t \in [1..Len(t) -> U]
    BY <2>1
  <2> QED
    BY <2>1, <2>2, SeqDef
<1>2. /\ s \o t \in Seq(U) /\ Len(s \o t) = Len(s) + Len(t)
      /\ \A i \in 1..(Len(s) + Len(t)) :
           (s \o t)[i] = IF i <= Len(s) THEN s[i] ELSE t[i - Len(s)]
  BY <1>1, ConcatProperties
<1>3. Len(s) \in Nat /\ Len(t) \in Nat /\ DOMAIN s = 1..Len(s) /\ DOMAIN t = 1..Len(t)
  BY <1>1, LenProperties
<1>4. Sequence(s \o t) /\ Elements(s \o t) \subseteq U /\ DOMAIN (s \o t) = 1..Len(s \o t)
  BY <1>2, SelfTyped
<1>5. \A i \in 1..Len(s) : (s \o t)[i] = s[i]
  BY <1>2, <1>3
<1>6. \A i \in (Len(s) + 1)..(Len(s) + Len(t)) :
        (s \o t)[i] = t[i - Len(s)] /\ i - Len(s) \in 1..Len(t)
  BY <1>2, <1>3
<1>7. \A j \in 1..Len(t) : /\ j + Len(s) \in (Len(s) + 1)..(Len(s) + Len(t))
                           /\ (s \o t)[j + Len(s)] = t[j]
  BY <1>2, <1>3
<1>8. \A i \in (Len(s) + 1)..(Len(s) + Len(t)) : (s \o t)[i] \in Elements(t)
  BY <1>3, <1>6 DEF Elements
<1>9. \A e \in Elements(t) :
        \E i \in (Len(s) + 1)..(Len(s) + Len(t)) : (s \o t)[i] = e
  BY <1>3, <1>7 DEF Elements
<1>10. U \subseteq Elements(s \o t)
  <2>1. \A i \in 1..Len(s \o t) : (s \o t)[i] \in Elements(s \o t)
    BY <1>4 DEF Elements
  <2>2. \A e \in Elements(s) : \E i \in 1..Len(s) : s[i] = e
    BY <1>3 DEF Elements
  <2>3. 1..Len(s) \subseteq 1..Len(s \o t)
        /\ (Len(s) + 1)..(Len(s) + Len(t)) \subseteq 1..Len(s \o t)
    BY <1>2, <1>3
  <2> HIDE DEF Elements
  <2> QED
    BY <1>5, <1>9, <2>1, <2>2, <2>3
<1> QED
  BY <1>2, <1>4, <1>5, <1>8, <1>9, <1>10

\* The records of one queue.
LEMMA OnlyElements ==
    ASSUME NEW records, Sequence(records), NEW q
    PROVE  /\ Sequence(Only(records, q))
           /\ Elements(Only(records, q)) = {e \in Elements(records) : QueueOf(e) = q}
<1> DEFINE I == {i \in DOMAIN records : QueueOf(records[i]) = q}
<1>1. Len(records) \in Nat /\ DOMAIN records = 1..Len(records)
  BY SelfTyped DEF Sequence
<1>2. /\ Picked(records, I) \in Seq({records[i] : i \in I \cap (1..Len(records))})
      /\ Elements(Picked(records, I)) = {records[i] : i \in I \cap (1..Len(records))}
  <2> HIDE DEF I
  <2> QED
    BY PickedTyped DEF Sequence
<1>3. {records[i] : i \in I \cap (1..Len(records))}
        = {e \in Elements(records) : QueueOf(e) = q}
  <2> HIDE DEF QueueOf
  <2> QED
    BY <1>1 DEF Elements
<1>4. Only(records, q) = Picked(records, I)
  BY DEF Only
<1> HIDE DEF I
<1> QED
  BY <1>2, <1>3, <1>4, SelfTyped

\* A first part of a sequence.
LEMMA PrefixElements ==
    ASSUME NEW s, Sequence(s), NEW n \in 0..Len(s)
    PROVE  Sequence(SubSeq(s, 1, n)) /\ Elements(SubSeq(s, 1, n)) \subseteq Elements(s)
<1>1. Len(s) \in Nat
  BY SelfTyped DEF Sequence
<1>2. SubSeq(s, 1, n) \in Seq(Elements(s))
  BY <1>1, SubSeqProperties DEF Sequence
<1> QED
  BY <1>2, SelfTyped

\* What a log keeps and gains when records are appended.
Grows(old, new, added) ==
    /\ Sequence(new) /\ Len(old) <= Len(new)
    /\ \A i \in 1..Len(old) : new[i] = old[i]
    /\ \A i \in (Len(old) + 1)..Len(new) : new[i] \in added

Has(old, new, e) == \E i \in (Len(old) + 1)..Len(new) : new[i] = e

\* A log that is not appended to.
LEMMA Stays ==
    ASSUME NEW s, Sequence(s), NEW added
    PROVE  Grows(s, s, added)
<1>1. Len(s) \in Nat
  BY SelfTyped DEF Sequence
<1> QED
  BY <1>1 DEF Grows

\* A log that is.
LEMMA ConcatGrows ==
    ASSUME NEW s, NEW t, Sequence(s), Sequence(t)
    PROVE  Grows(s, s \o t, Elements(t)) /\ \A e \in Elements(t) : Has(s, s \o t, e)
<1>1. Len(s) \in Nat /\ Len(t) \in Nat
  BY SelfTyped DEF Sequence
<1>2. Sequence(s \o t) /\ Len(s \o t) = Len(s) + Len(t)
  BY ConcatSequence
<1>3. \A i \in 1..Len(s) : (s \o t)[i] = s[i]
  BY ConcatSequence
<1>4. \A i \in (Len(s) + 1)..Len(s \o t) : (s \o t)[i] \in Elements(t)
  BY <1>2, ConcatSequence
<1>5. \A e \in Elements(t) : \E i \in (Len(s) + 1)..Len(s \o t) : (s \o t)[i] = e
  BY <1>2, ConcatSequence
<1>6. Len(s) <= Len(s \o t)
  BY <1>1, <1>2
<1> QED
  BY <1>2, <1>3, <1>4, <1>5, <1>6 DEF Grows, Has

\* Appended puts every record at the end of its queue.
LEMMA AppendedGrows ==
    ASSUME NEW queues, \A q \in Queue : Sequence(queues[q]), NEW records, Sequence(records)
    PROVE  /\ Appended(queues, records) = [q \in Queue |-> Appended(queues, records)[q]]
           /\ \A q \in Queue :
                Grows(queues[q], Appended(queues, records)[q],
                      {e \in Elements(records) : QueueOf(e) = q})
           /\ \A e \in Elements(records) : QueueOf(e) \in Queue =>
                Has(queues[QueueOf(e)], Appended(queues, records)[QueueOf(e)], e)
<1>1. Appended(queues, records) = [q \in Queue |-> Appended(queues, records)[q]]
  BY DEF Appended
<1>2. ASSUME NEW q \in Queue
      PROVE  /\ Grows(queues[q], Appended(queues, records)[q],
                      {e \in Elements(records) : QueueOf(e) = q})
             /\ \A e \in Elements(records) : QueueOf(e) = q =>
                  Has(queues[q], Appended(queues, records)[q], e)
  <2> DEFINE s == queues[q]
             t == Only(records, q)
  <2>1. Appended(queues, records)[q] = s \o t
    BY DEF Appended
  <2>2. Sequence(t) /\ Elements(t) = {e \in Elements(records) : QueueOf(e) = q}
    BY OnlyElements
  <2>3. Sequence(s)
    OBVIOUS
  <2> HIDE DEF s, t, QueueOf
  <2>5. Grows(s, s \o t, Elements(t)) /\ \A e \in Elements(t) : Has(s, s \o t, e)
    BY <2>2, <2>3, ConcatGrows
  <2>6. \A e \in Elements(records) : QueueOf(e) = q => e \in Elements(t)
    BY <2>2
  <2>7. s = queues[q]
    BY DEF s
  <2> QED
    BY <2>1, <2>2, <2>5, <2>6, <2>7
<1> QED
  BY <1>1, <1>2

\* Publish appends records to their queues and nothing else; the offset moves only
\* when every record is in its queue.
LEMMA PublishGrows ==
    ASSUME \A r \in Queue : Sequence(log[r]), log = [r \in Queue |-> log[r]],
           pos \in [Queue -> Nat], faults \in 0..input.maxFaults,
           input.maxFaults \in Nat, NEW q \in Queue, NEW outputs, Sequence(outputs),
           Publish(q, outputs)
    PROVE  /\ log' = [r \in Queue |-> log'[r]]
           /\ \A r \in Queue :
                Grows(log[r], log'[r], {e \in Elements(outputs) : QueueOf(e) = r})
           /\ faults' \in 0..input.maxFaults
           /\ \/ pos' = pos
              \/ /\ pos' = [pos EXCEPT ![q] = @ + 1]
                 /\ \A e \in Elements(outputs) : QueueOf(e) \in Queue =>
                      Has(log[QueueOf(e)], log'[QueueOf(e)], e)
<1>1. CASE log' = Appended(log, outputs) /\ CommitOrDie(q)
  <2>1. pos' = pos \/ pos' = [pos EXCEPT ![q] = @ + 1]
    BY <1>1 DEF CommitOrDie
  <2>2. faults' \in 0..input.maxFaults
    BY <1>1 DEF CommitOrDie
  <2>3. /\ log' = [r \in Queue |-> log'[r]]
        /\ \A r \in Queue :
             Grows(log[r], log'[r], {e \in Elements(outputs) : QueueOf(e) = r})
        /\ \A e \in Elements(outputs) : QueueOf(e) \in Queue =>
             Has(log[QueueOf(e)], log'[QueueOf(e)], e)
    <3> HIDE DEF Sequence, Elements, QueueOf
    <3> QED
      BY <1>1, AppendedGrows, Zenon
  <2> QED
    BY <2>1, <2>2, <2>3
<1>2. ASSUME NEW to, NEW of, NEW sent \in [to -> 0..Len(outputs)],
             of = [r \in to |-> Only(outputs, r)],
             \A r \in to : sent[r] <= Len(of[r]),
             log' = [r \in Queue |->
                       IF r \in to THEN log[r] \o SubSeq(of[r], 1, sent[r]) ELSE log[r]],
             faults < input.maxFaults, faults' = faults + 1, pos' = pos
      PROVE  /\ log' = [r \in Queue |-> log'[r]]
             /\ \A r \in Queue :
                  Grows(log[r], log'[r], {e \in Elements(outputs) : QueueOf(e) = r})
             /\ faults' \in 0..input.maxFaults
  <2>1. log' = [r \in Queue |-> log'[r]] /\ faults' \in 0..input.maxFaults
    BY <1>2
  <2>2. ASSUME NEW r \in Queue
        PROVE  Grows(log[r], log'[r], {e \in Elements(outputs) : QueueOf(e) = r})
    <3> DEFINE added == {e \in Elements(outputs) : QueueOf(e) = r}
    <3>1. CASE r \notin to
      <4>1. log'[r] = log[r]
        BY <1>2, <3>1
      <4> HIDE DEF added
      <4> QED
        BY <4>1, Stays
    <3>2. CASE r \in to
      <4> DEFINE s == log[r]
                 t == SubSeq(Only(outputs, r), 1, sent[r])
      <4>1. log'[r] = s \o t
        BY <1>2, <3>2
      <4>2. Sequence(Only(outputs, r)) /\ Elements(Only(outputs, r)) = added
        BY OnlyElements
      <4>3. Sequence(t) /\ Elements(t) \subseteq added
        <5>1. Len(outputs) \in Nat /\ Len(Only(outputs, r)) \in Nat
          BY <4>2, SelfTyped DEF Sequence
        <5>2. sent[r] \in 0..Len(Only(outputs, r))
          BY <1>2, <3>2, <5>1
        <5> QED
          BY <4>2, <5>2, PrefixElements
      <4>4. Sequence(s)
        OBVIOUS
      <4> HIDE DEF s, t, added, Sequence, Elements, QueueOf
      <4>5. Grows(s, s \o t, Elements(t))
        BY <4>3, <4>4, ConcatGrows
      <4>6. Grows(s, s \o t, added)
        BY <4>3, <4>5 DEF Grows
      <4> QED
        BY <4>1, <4>6 DEF s, added
    <3> QED
      BY <3>1, <3>2
  <2> QED
    BY <2>1, <2>2
<1>3. \/ log' = Appended(log, outputs) /\ CommitOrDie(q)
      \/ \E to, of : \E sent \in [to -> 0..Len(outputs)] :
           /\ of = [r \in to |-> Only(outputs, r)]
           /\ \A r \in to : sent[r] <= Len(of[r])
           /\ log' = [r \in Queue |->
                IF r \in to THEN log[r] \o SubSeq(of[r], 1, sent[r]) ELSE log[r]]
           /\ faults < input.maxFaults /\ faults' = faults + 1 /\ pos' = pos
  <2> DEFINE to(records) == {QueueOf(records[i]) : i \in DOMAIN records}
             Died(T, of, sent) ==
               /\ \A r \in T : sent[r] <= Len(of[r])
               /\ log' = [r \in Queue |->
                    IF r \in T THEN log[r] \o SubSeq(of[r], 1, sent[r]) ELSE log[r]]
  <2>1. PICK records \in {outputs} :
          \/ log' = Appended(log, records) /\ CommitOrDie(q)
          \/ /\ faults < input.maxFaults /\ faults' = faults + 1
             /\ \E of \in {[r \in to(records) |-> Only(records, r)]} :
                \E sent \in [to(records) -> 0..Len(records)] : Died(to(records), of, sent)
             /\ pos' = pos
    BY DEF Publish
  <2>2. PICK T : T = to(records)
    OBVIOUS
  <2> HIDE DEF to, Died
  <2>3. \/ log' = Appended(log, outputs) /\ CommitOrDie(q)
        \/ /\ faults < input.maxFaults /\ faults' = faults + 1
           /\ \E of \in {[r \in T |-> Only(outputs, r)]} :
              \E sent \in [T -> 0..Len(outputs)] : Died(T, of, sent)
           /\ pos' = pos
    BY <2>1, <2>2, Zenon
  <2>4. CASE log' = Appended(log, outputs) /\ CommitOrDie(q)
    BY <2>4
  <2>5. CASE /\ faults < input.maxFaults /\ faults' = faults + 1
             /\ \E of \in {[r \in T |-> Only(outputs, r)]} :
                \E sent \in [T -> 0..Len(outputs)] : Died(T, of, sent)
             /\ pos' = pos
    <3>1. PICK of \in {[r \in T |-> Only(outputs, r)]} :
            \E sent \in [T -> 0..Len(outputs)] : Died(T, of, sent)
      BY <2>5
    <3>2. PICK sent \in [T -> 0..Len(outputs)] : Died(T, of, sent)
      BY <3>1
    <3>3. /\ \A r \in T : sent[r] <= Len(of[r])
          /\ log' = [r \in Queue |->
               IF r \in T THEN log[r] \o SubSeq(of[r], 1, sent[r]) ELSE log[r]]
      BY <3>2, Zenon DEF Died
    <3>4. of = [r \in T |-> Only(outputs, r)]
      OBVIOUS
    <3>5. faults < input.maxFaults /\ faults' = faults + 1 /\ pos' = pos
      BY <2>5
    <3>6. \E sent_ \in [T -> 0..Len(outputs)] :
            /\ of = [r \in T |-> Only(outputs, r)]
            /\ \A r \in T : sent_[r] <= Len(of[r])
            /\ log' = [r \in Queue |->
                 IF r \in T THEN log[r] \o SubSeq(of[r], 1, sent_[r]) ELSE log[r]]
            /\ faults < input.maxFaults /\ faults' = faults + 1 /\ pos' = pos
      BY <3>3, <3>4, <3>5, Zenon
    <3> QED
      BY <3>6
  <2> QED
    BY <2>3, <2>4, <2>5, Zenon
<1> QED
  BY <1>1, <1>2, <1>3, Zenon

-------------------------------------------------------------------------------
(* Lemmas about what is read out of a text *)

\* What the pipeline publishes about a document of a scenario is typed like this.
LEMMA ExtractTyped ==
    ASSUME NEW s \in Scenarios, NEW x \in Elements(s.documents)
    PROVE  LET d == x.document
           IN  /\ extract[d] = [mentions  |-> extract_mentions(d.text),
                                claims    |-> extract_claims(d.text),
                                relations |-> extract_relations(d.id, d.text)]
               /\ Sequence(extract[d].mentions) /\ Sequence(extract[d].claims)
               /\ Sequence(extract[d].relations)
               /\ \A r \in Relations(d) :
                    /\ r = RelationOf(d.id, d.text, r.sentence)
                    /\ r.sentence \in d.text.sentences
                    /\ r.subject \in Mentions(d) /\ r.object \in Mentions(d)
                    /\ r.predicate \in Elements(Predicates)
                    /\ r.id[1] = "relationship"
<1> DEFINE d == x.document
<1>1. DocumentOK(d)
  BY ScenarioAssumption
<1>2. d \in {y.document : y \in UNION {Elements(t.documents) : t \in Scenarios}}
  BY Zenon
<1>3. extract[d] = [mentions  |-> extract_mentions(d.text),
                    claims    |-> extract_claims(d.text),
                    relations |-> extract_relations(d.id, d.text)]
  BY <1>2, Zenon DEF extract
<1> HIDE DEF d
<1>4. TextOK(d.text)
  BY <1>1 DEF DocumentOK
<1>5. Sequence(extract_mentions(d.text))
  BY <1>4, MentionsOrdered, SelfTyped
<1>6. Sequence(extract_claims(d.text))
  BY <1>4, ClaimsSequence
<1>7. /\ extract[d].mentions = extract_mentions(d.text)
      /\ extract[d].claims = extract_claims(d.text)
      /\ extract[d].relations = extract_relations(d.id, d.text)
  BY <1>3
<1>8. /\ Mentions(d) = Elements(extract_mentions(d.text))
      /\ Relations(d) = Elements(extract_relations(d.id, d.text))
  BY <1>7 DEF Mentions, Relations
<1>9. /\ Sequence(extract_relations(d.id, d.text))
      /\ \A r \in Elements(extract_relations(d.id, d.text)) :
           /\ r = RelationOf(d.id, d.text, r.sentence)
           /\ r.sentence \in d.text.sentences
           /\ r.subject \in Elements(extract_mentions(d.text))
           /\ r.object \in Elements(extract_mentions(d.text))
           /\ r.predicate \in Elements(Predicates)
           /\ r.id[1] = "relationship"
  BY <1>4, RelationsFound
<1> QED
  BY <1>3, <1>5, <1>6, <1>7, <1>8, <1>9 DEF d

-------------------------------------------------------------------------------
(* The inductive invariant *)

\* A relationship with this id states c: for a relation, one found in the sentence
\* it rests on.
States(id, c) ==
    \/ c[1] = "PUBLISHED" /\ id = <<"published", c[2][2], c[3][2]>>
    \/ c[1] = "DERIVED_FROM" /\ id = <<"article-document", c[2][2], c[3][2]>>
    \/ c[1] = "MENTIONS" /\ id = <<"mentions", c[4]>>
    \/ c[1] = "MAKES_CLAIM" /\ id = <<"article-claim", c[2][2], c[3][2]>>
    \/ /\ c[1] = "EVIDENCE_FOR"
       /\ id = IF c[3][2][1] = "claim" THEN <<"evidence-claim", c[4], c[3][2]>>
               ELSE <<"evidence-entity", c[4], c[3][2]>>
    \/ /\ c[1] \in Elements(Predicates)
       /\ \E x \in Read(input) : \E r \in Relations(x.document) :
            /\ x.tenant = c[2][1] /\ evidence(x.document.id, r.sentence) = c[4]
            /\ id = r.id

\* What a record of each topic says follows from a document that was read.
MutationSound(e) ==
    \/ /\ e.payload.type = "upsert" /\ e.payload.labels # {}
       /\ \A l \in e.payload.labels :
            <<GraphNode(e.tenant, e.payload.id), l>> \in ExpectedLabels[input]
    \/ /\ e.payload.type = "link"
       /\ \E c \in ExpectedLinks[input] :
            /\ Ends(c) = <<e.payload.rel, GraphNode(e.tenant, e.payload.from),
                           GraphNode(e.tenant, e.payload.to)>>
            /\ States(e.payload.id, c)
    \/ /\ e.payload.type = "takedown"
       /\ \E t \in requested : e.tenant = t[1] /\ e.payload.id = <<"source", t[2]>>

RecordSound(e) ==
    /\ e.tenant \in Tenant
    /\ e.topic \in {"nlp-requested", "normalized"} =>
         \E x \in Elements(input.documents) : e.tenant = x.tenant /\ e.payload = x.document
    /\ e.topic = "mention" =>
         \E x \in Read(input) : /\ e.tenant = x.tenant /\ e.payload.document = x.document
                                /\ e.payload.mention \in Mentions(x.document)
    /\ e.topic = "relationship" =>
         \E x \in Read(input) : /\ e.tenant = x.tenant /\ e.payload.document = x.document
                                /\ e.payload.relation \in Relations(x.document)
    /\ e.topic = "claim" =>
         \E x \in Read(input) : /\ e.tenant = x.tenant /\ e.payload.document = x.document
                                /\ e.payload.claim \in Claims(x.document)
    /\ e.topic \in {"resolved", "clustered"} =>
         <<e.tenant, e.payload>> \in ExpectedIndex[input]
    /\ e.topic = "policy" => e.payload.idempotency_key = <<"policy", e.payload.document>>
    /\ e.topic = "graph" => MutationSound(e)

\* The topics hold such records, each in its partition, and every consumer stands
\* at a record of its partition or behind the last one.
Shape ==
    /\ input \in Scenarios
    /\ log = [q \in Queue |-> log[q]]
    /\ pos \in [Queue -> Nat]
    /\ \A q \in Queue : Sequence(log[q]) /\ pos[q] \in 1..(Len(log[q]) + 1)
    /\ attempts \in Nat /\ faults \in 0..input.maxFaults /\ resets \in 0..input.maxResets

LogSound ==
    \A q \in Queue : \A i \in 1..Len(log[q]) :
      QueueOf(log[q][i]) = q /\ RecordSound(log[q][i])

\* The control plane's requests, and the events still to be published.
Requests ==
    /\ quiet \subseteq requested /\ requested \subseteq input.takedowns
    /\ \A e \in outbox :
         /\ RecordSound(e) /\ QueueOf(e) \in Queue
         /\ e.topic \in {"takedown", "graph"}
         /\ e.topic = "graph" => e.payload.type = "takedown"

\* The graph is closed: relationships and marks are between and on its nodes.
GraphClosed ==
    /\ \A n \in node : n = <<n[1], n[2]>> /\ n[1] \in Tenant
    /\ \A l \in label : l = <<l[1], l[2]>> /\ l[1] \in node
    /\ \A l \in link : /\ l.from \in node /\ l.to \in node
                       /\ l.from[1] = l.to[1]
    /\ takedown \subseteq node

\* Every label, indexed identifier and relationship is one the documents call for,
\* and what a relationship rests on determines its id.
GraphSound ==
    /\ label \subseteq ExpectedLabels[input]
    /\ indexed \subseteq ExpectedIndex[input]
    /\ \A l \in link : /\ l = [rel |-> l.rel, id |-> l.id, from |-> l.from, to |-> l.to]
                       /\ \E c \in Called(l) : States(l.id, c)

\* A takedown marks the source it names and articles it published.
TakedownsSound ==
    \A n \in takedown : \E t \in requested :
      /\ n[1] = t[1]
      /\ \/ n = <<t[1], <<"source", t[2]>>>>
         \/ \E l \in link : /\ l.rel = "PUBLISHED" /\ l.from = n
                            /\ l.to = <<t[1], <<"source", t[2]>>>>

\* An alert is named after its tenant and its document.
AlertsNamed ==
    \A a \in alerts : a.id = <<a.tenant, <<"policy", a.document>>>>

Names(e, n) == e.topic = "graph" /\ e.payload.type = "upsert" /\ n \in Merged(e)

\* A node that one of the records names.
Covered(records, n) == \E e \in Elements(records) : Names(e, n)

\* A node is named, or the upsert that will name it is on its way.
Awaited(n) ==
    \/ \E l \in label : l[1] = n
    \/ \E q \in Queue : \E i \in pos[q]..Len(log[q]) : Covered(Leads(log[q][i]), n)

\* The nodes a record needs: those it joins, or the article it is about.
Needs(e) ==
    IF e.topic = "graph" THEN Merged(e)
    ELSE IF e.topic \in {"mention", "relationship", "claim"}
    THEN {GraphNode(e.tenant, article_id(e.payload.document))} ELSE {}

NodesAwaited ==
    /\ \A n \in node : Awaited(n)
    /\ \A q \in Queue : \A i \in 1..Len(log[q]) : \A n \in Needs(log[q][i]) : Awaited(n)

IInv ==
    /\ Shape /\ LogSound /\ Requests /\ GraphClosed /\ GraphSound /\ TakedownsSound
    /\ AlertsNamed /\ NodesAwaited

-------------------------------------------------------------------------------
(* What the workers publish is sound *)

LEMMA Tuples ==
    /\ \A a : Sequence(<<a>>) /\ Elements(<<a>>) = {a}
    /\ \A a, b, c, d : Sequence(<<a, b, c, d>>) /\ Elements(<<a, b, c, d>>) = {a, b, c, d}
    /\ \A a, b, c, d, e : /\ Sequence(<<a, b, c, d, e>>)
                          /\ Elements(<<a, b, c, d, e>>) = {a, b, c, d, e}
<1>1. ASSUME NEW a
      PROVE  Sequence(<<a>>) /\ Elements(<<a>>) = {a}
  <2>1. <<a>> = [i \in 1..1 |-> <<a>>[i]] /\ DOMAIN <<a>> = 1..1
    OBVIOUS
  <2>2. Elements(<<a>>) = {a}
    BY <2>1 DEF Elements
  <2> QED
    BY <2>1, <2>2, FunctionSequence
<1>2. ASSUME NEW a, NEW b, NEW c, NEW d
      PROVE  Sequence(<<a, b, c, d>>) /\ Elements(<<a, b, c, d>>) = {a, b, c, d}
  <2>1. <<a, b, c, d>> = [i \in 1..4 |-> <<a, b, c, d>>[i]] /\ DOMAIN <<a, b, c, d>> = 1..4
    OBVIOUS
  <2>2. Elements(<<a, b, c, d>>) = {a, b, c, d}
    BY <2>1 DEF Elements
  <2> QED
    BY <2>1, <2>2, FunctionSequence
<1>3. ASSUME NEW a, NEW b, NEW c, NEW d, NEW e
      PROVE  /\ Sequence(<<a, b, c, d, e>>)
             /\ Elements(<<a, b, c, d, e>>) = {a, b, c, d, e}
  <2>1. /\ <<a, b, c, d, e>> = [i \in 1..5 |-> <<a, b, c, d, e>>[i]]
        /\ DOMAIN <<a, b, c, d, e>> = 1..5
    OBVIOUS
  <2>2. Elements(<<a, b, c, d, e>>) = {a, b, c, d, e}
    BY <2>1 DEF Elements
  <2> QED
    BY <2>1, <2>2, FunctionSequence
<1> QED
  BY <1>1, <1>2, <1>3

\* A record that may be published: it is sound, and there is a queue for it.
Publishable(e) == RecordSound(e) /\ QueueOf(e) \in Queue

LEMMA HasQueue ==
    ASSUME input \in Scenarios, NEW e, e.topic \in Topic, e.key[1] \in Kind
    PROVE  QueueOf(e) \in Queue
BY ScenarioAssumption DEF QueueOf, Queue

\* What a document that was read calls for is expected.
LEMMA Expected ==
    ASSUME input \in Scenarios, NEW x \in Read(input)
    PROVE  /\ \A l \in LabelsOf(x.document) :
                <<<<x.tenant, l[1]>>, l[2]>> \in ExpectedLabels[input]
           /\ \A l \in LinksOf(x.document) :
                <<l[1], <<x.tenant, l[2]>>, <<x.tenant, l[3]>>, l[4]>> \in ExpectedLinks[input]
           /\ \A m \in Mentions(x.document) :
                <<x.tenant, resolve_mention(m)>> \in ExpectedIndex[input]
           /\ \A c \in Claims(x.document) :
                <<x.tenant, claim_id(c)>> \in ExpectedIndex[input]
<1> HIDE DEF Read, LabelsOf, LinksOf, Mentions, Claims
<1>1. \A l \in LabelsOf(x.document) :
        <<<<x.tenant, l[1]>>, l[2]>> \in ExpectedLabels[input]
  BY DEF ExpectedLabels
<1>2. \A l \in LinksOf(x.document) :
        <<l[1], <<x.tenant, l[2]>>, <<x.tenant, l[3]>>, l[4]>> \in ExpectedLinks[input]
  BY DEF ExpectedLinks
<1>3. /\ \A m \in Mentions(x.document) :
           <<x.tenant, resolve_mention(m)>> \in ExpectedIndex[input]
      /\ \A c \in Claims(x.document) :
           <<x.tenant, claim_id(c)>> \in ExpectedIndex[input]
  BY DEF ExpectedIndex
<1> QED
  BY <1>1, <1>2, <1>3

\* The tenant of a document that was read, and the document.
LEMMA ReadTyped ==
    ASSUME input \in Scenarios, NEW x \in Elements(input.documents)
    PROVE  x.tenant \in Tenant /\ DocumentOK(x.document) /\ x.document.id[1] = "doc"
BY ScenarioAssumption DEF DocumentOK

\* A node with labels the document calls for.
LEMMA UpsertPublishable ==
    ASSUME input \in Scenarios, NEW x \in Read(input), NEW id, id[1] \in Kind,
           NEW labels, labels # {}, \A l \in labels : <<id, l>> \in LabelsOf(x.document)
    PROVE  Publishable(Record("graph", id, x.tenant, upsert(id, labels)))
<1> DEFINE e == Record("graph", id, x.tenant, upsert(id, labels))
<1>1. /\ e.topic = "graph" /\ e.key = id /\ e.tenant = x.tenant
      /\ e.payload.type = "upsert" /\ e.payload.id = id /\ e.payload.labels = labels
  BY DEF Record, upsert
<1>2. x.tenant \in Tenant
  BY ReadTyped DEF Read
<1>3. \A l \in labels : <<<<x.tenant, id>>, l>> \in ExpectedLabels[input]
  <2> TAKE l \in labels
  <2>1. <<id, l>> \in LabelsOf(x.document)
    OBVIOUS
  <2> QED
    BY <2>1, Expected
<1> HIDE DEF e
<1>4. MutationSound(e)
  BY <1>1, <1>3 DEF MutationSound, GraphNode
<1>5. RecordSound(e)
  BY <1>1, <1>2, <1>4 DEF RecordSound
<1>6. QueueOf(e) \in Queue
  BY <1>1, HasQueue DEF Topic
<1> QED
  BY <1>5, <1>6 DEF Publishable, e

\* A relationship the document calls for.
LEMMA LinkPublishable ==
    ASSUME input \in Scenarios, NEW x \in Read(input), NEW id, id[1] \in Kind,
           NEW l \in LinksOf(x.document),
           States(id, <<l[1], <<x.tenant, l[2]>>, <<x.tenant, l[3]>>, l[4]>>)
    PROVE  Publishable(Record("graph", id, x.tenant, relate(l[1], id, l[2], l[3])))
<1> DEFINE e == Record("graph", id, x.tenant, relate(l[1], id, l[2], l[3]))
           c == <<l[1], <<x.tenant, l[2]>>, <<x.tenant, l[3]>>, l[4]>>
<1>1. /\ e.topic = "graph" /\ e.key = id /\ e.tenant = x.tenant
      /\ e.payload.type = "link" /\ e.payload.id = id
      /\ e.payload.rel = l[1] /\ e.payload.from = l[2] /\ e.payload.to = l[3]
  BY DEF Record, relate
<1>2. x.tenant \in Tenant
  BY ReadTyped DEF Read
<1>3. c \in ExpectedLinks[input]
  BY Expected
<1>4. Ends(c) = <<l[1], <<x.tenant, l[2]>>, <<x.tenant, l[3]>>>>
  BY DEF Ends
<1> HIDE DEF e, c
<1>5. States(id, c)
  BY DEF c
<1>6. MutationSound(e)
  BY <1>1, <1>3, <1>4, <1>5 DEF MutationSound, GraphNode
<1>7. RecordSound(e)
  BY <1>1, <1>2, <1>6 DEF RecordSound
<1>8. QueueOf(e) \in Queue
  BY <1>1, HasQueue DEF Topic
<1> QED
  BY <1>7, <1>8 DEF Publishable, e

\* Mutations makes one record of every mutation.
LEMMA MutationsElements ==
    ASSUME NEW t, NEW ms, Sequence(ms)
    PROVE  /\ Sequence(Mutations(t, ms))
           /\ Elements(Mutations(t, ms)) = {Record("graph", m.id, t, m) : m \in Elements(ms)}
<1>1. Len(ms) \in Nat /\ DOMAIN ms = 1..Len(ms)
  BY SelfTyped DEF Sequence
<1>2. Mutations(t, ms) = [i \in 1..Len(ms) |-> Record("graph", ms[i].id, t, ms[i])]
  BY <1>1 DEF Mutations
<1> HIDE DEF Record
<1>3. Mutations(t, ms) = [i \in 1..Len(ms) |-> Mutations(t, ms)[i]]
      /\ DOMAIN Mutations(t, ms) = 1..Len(ms)
      /\ \A i \in 1..Len(ms) : Mutations(t, ms)[i] = Record("graph", ms[i].id, t, ms[i])
  BY <1>2
<1>4. Sequence(Mutations(t, ms))
  BY <1>1, <1>3, FunctionSequence
<1>5. Elements(Mutations(t, ms)) = {Record("graph", m.id, t, m) : m \in Elements(ms)}
  BY <1>1, <1>3 DEF Elements
<1> QED
  BY <1>4, <1>5

\* What a mutation record names and needs.
LEMMA UpsertNodes ==
    ASSUME NEW t, NEW id, NEW labels
    PROVE  LET e == Record("graph", id, t, upsert(id, labels))
           IN  /\ \A n : Names(e, n) <=> n = <<t, id>>
               /\ Needs(e) = {<<t, id>>}
<1> DEFINE e == Record("graph", id, t, upsert(id, labels))
<1>1. /\ e.topic = "graph" /\ e.tenant = t
      /\ e.payload.type = "upsert" /\ e.payload.id = id
  BY DEF Record, upsert
<1> HIDE DEF e
<1>2. Merged(e) = {<<t, id>>}
  BY <1>1 DEF Merged, GraphNode
<1>3. (\A n : Names(e, n) <=> n = <<t, id>>) /\ Needs(e) = {<<t, id>>}
  BY <1>1, <1>2 DEF Names, Needs
<1> QED
  BY <1>3 DEF e

LEMMA LinkNodes ==
    ASSUME NEW t, NEW id, NEW rel, NEW from, NEW to
    PROVE  LET e == Record("graph", id, t, relate(rel, id, from, to))
           IN  /\ \A n : ~ Names(e, n)
               /\ Needs(e) = {<<t, from>>, <<t, to>>}
<1> DEFINE e == Record("graph", id, t, relate(rel, id, from, to))
<1>1. /\ e.topic = "graph" /\ e.tenant = t
      /\ e.payload.type = "link" /\ e.payload.from = from /\ e.payload.to = to
  BY DEF Record, relate
<1> HIDE DEF e
<1>2. Merged(e) = {<<t, from>>, <<t, to>>}
  BY <1>1 DEF Merged, GraphNode
<1>3. (\A n : ~ Names(e, n)) /\ Needs(e) = {<<t, from>>, <<t, to>>}
  BY <1>1, <1>2 DEF Names, Needs
<1> QED
  BY <1>3 DEF e

\* A resolved mention is an entity.
LEMMA EntityKind ==
    ASSUME NEW m
    PROVE  resolve_mention(m)[1] = "entity"
BY AliasAssumption DEF resolve_mention

\* The document, its article and its source are named.
BaseNodes(t, d) == {<<t, d.id>>, <<t, article_id(d)>>, <<t, source_id(d)>>}

LEMMA BaseMutations ==
    ASSUME input \in Scenarios, NEW x \in Read(input)
    PROVE  LET t == x.tenant
               d == x.document
               out == Mutations(t, graph_base_mutations(d))
           IN  /\ Sequence(out)
               /\ \A e \in Elements(out) : /\ Publishable(e)
                                           /\ \A n \in Needs(e) : Covered(out, n)
               /\ \A n : Covered(out, n) <=> n \in BaseNodes(t, d)
<1> DEFINE t == x.tenant
           d == x.document
           out == Mutations(t, graph_base_mutations(d))
           document == Record("graph", d.id, t, upsert(d.id, {"Document"}))
           article_ == Record("graph", article_id(d), t, upsert(article_id(d), {"Article"}))
           source == Record("graph", source_id(d), t, upsert(source_id(d), {"Source"}))
           pid == <<"published", article_id(d), source_id(d)>>
           published == Record("graph", pid, t,
                               relate("PUBLISHED", pid, article_id(d), source_id(d)))
           did == <<"article-document", article_id(d), d.id>>
           derived == Record("graph", did, t,
                             relate("DERIVED_FROM", did, article_id(d), d.id))
<1>1. Sequence(out) /\ Elements(out) = {document, article_, source, published, derived}
  <2> DEFINE ms == graph_base_mutations(d)
  <2>1. /\ Sequence(ms)
        /\ Elements(ms) = {upsert(d.id, {"Document"}), upsert(article_id(d), {"Article"}),
                           upsert(source_id(d), {"Source"}),
                           relate("PUBLISHED", pid, article_id(d), source_id(d)),
                           relate("DERIVED_FROM", did, article_id(d), d.id)}
    <3> HIDE DEF d, pid, did
    <3>1. ms = <<upsert(d.id, {"Document"}), upsert(article_id(d), {"Article"}),
                 upsert(source_id(d), {"Source"}),
                 relate("PUBLISHED", pid, article_id(d), source_id(d)),
                 relate("DERIVED_FROM", did, article_id(d), d.id)>>
      BY DEF graph_base_mutations, pid, did
    <3> QED
      BY <3>1, Tuples
  <2>2. /\ upsert(d.id, {"Document"}).id = d.id
        /\ upsert(article_id(d), {"Article"}).id = article_id(d)
        /\ upsert(source_id(d), {"Source"}).id = source_id(d)
        /\ relate("PUBLISHED", pid, article_id(d), source_id(d)).id = pid
        /\ relate("DERIVED_FROM", did, article_id(d), d.id).id = did
    BY DEF upsert, relate
  <2>3. Sequence(out) /\ Elements(out) = {Record("graph", m.id, t, m) : m \in Elements(ms)}
    BY <2>1, MutationsElements, Zenon
  <2> HIDE DEF ms, out, d, t, pid, did
  <2> QED
    BY <2>1, <2>2, <2>3
<1>2. d.id[1] = "doc" /\ article_id(d)[1] = "article" /\ source_id(d)[1] = "source"
      /\ pid[1] = "published" /\ did[1] = "article-document"
  BY ReadTyped DEF Read, article_id, source_id
<1>3. Publishable(document) /\ Publishable(article_) /\ Publishable(source)
  <2>1. /\ <<d.id, "Document">> \in LabelsOf(d)
        /\ <<article_id(d), "Article">> \in LabelsOf(d)
        /\ <<source_id(d), "Source">> \in LabelsOf(d)
    BY DEF LabelsOf
  <2>2. {"doc", "article", "source"} \subseteq Kind
    BY DEF Kind
  <2>3. /\ \A l \in {"Document"} : <<d.id, l>> \in LabelsOf(d)
        /\ \A l \in {"Article"} : <<article_id(d), l>> \in LabelsOf(d)
        /\ \A l \in {"Source"} : <<source_id(d), l>> \in LabelsOf(d)
    BY <2>1
  <2>4. d.id[1] \in Kind /\ article_id(d)[1] \in Kind /\ source_id(d)[1] \in Kind
    BY <1>2, <2>2
  <2> HIDE DEF Read, LabelsOf, Publishable
  <2> QED
    BY <2>3, <2>4, UpsertPublishable
<1>4. Publishable(published)
  <2> DEFINE l == <<"PUBLISHED", article_id(d), source_id(d), d.id>>
  <2>1. l \in LinksOf(d)
    BY DEF LinksOf
  <2>2. States(pid, <<l[1], <<t, l[2]>>, <<t, l[3]>>, l[4]>>)
    BY DEF States
  <2>3. pid[1] \in Kind
    BY <1>2 DEF Kind
  <2> HIDE DEF Read, LinksOf, Publishable, States, pid
  <2>4. Publishable(Record("graph", pid, t, relate(l[1], pid, l[2], l[3])))
    BY <2>1, <2>2, <2>3, LinkPublishable
  <2> QED
    BY <2>4
<1>5. Publishable(derived)
  <2> DEFINE l == <<"DERIVED_FROM", article_id(d), d.id, d.id>>
  <2>1. l \in LinksOf(d)
    BY DEF LinksOf
  <2>2. States(did, <<l[1], <<t, l[2]>>, <<t, l[3]>>, l[4]>>)
    BY DEF States
  <2>3. did[1] \in Kind
    BY <1>2 DEF Kind
  <2> HIDE DEF Read, LinksOf, Publishable, States, did
  <2>4. Publishable(Record("graph", did, t, relate(l[1], did, l[2], l[3])))
    BY <2>1, <2>2, <2>3, LinkPublishable
  <2> QED
    BY <2>4
<1>6. /\ \A n : Names(document, n) <=> n = <<t, d.id>>
      /\ \A n : Names(article_, n) <=> n = <<t, article_id(d)>>
      /\ \A n : Names(source, n) <=> n = <<t, source_id(d)>>
      /\ \A n : ~ Names(published, n) /\ ~ Names(derived, n)
      /\ Needs(document) = {<<t, d.id>>} /\ Needs(article_) = {<<t, article_id(d)>>}
      /\ Needs(source) = {<<t, source_id(d)>>}
      /\ Needs(published) = {<<t, article_id(d)>>, <<t, source_id(d)>>}
      /\ Needs(derived) = {<<t, article_id(d)>>, <<t, d.id>>}
  <2> HIDE DEF Names, Needs, pid, did
  <2>1. /\ \A n : Names(document, n) <=> n = <<t, d.id>>
        /\ Needs(document) = {<<t, d.id>>}
    BY UpsertNodes, Zenon
  <2>2. /\ \A n : Names(article_, n) <=> n = <<t, article_id(d)>>
        /\ Needs(article_) = {<<t, article_id(d)>>}
    BY UpsertNodes, Zenon
  <2>3. /\ \A n : Names(source, n) <=> n = <<t, source_id(d)>>
        /\ Needs(source) = {<<t, source_id(d)>>}
    BY UpsertNodes, Zenon
  <2>4. /\ \A n : ~ Names(published, n)
        /\ Needs(published) = {<<t, article_id(d)>>, <<t, source_id(d)>>}
    BY LinkNodes
  <2>5. /\ \A n : ~ Names(derived, n)
        /\ Needs(derived) = {<<t, article_id(d)>>, <<t, d.id>>}
    BY LinkNodes
  <2> HIDE DEF document, article_, source, published, derived
  <2> QED
    BY <2>1, <2>2, <2>3, <2>4, <2>5
<1> HIDE DEF document, article_, source, published, derived, out, t, d
<1>7. \A n : Covered(out, n) <=> n \in BaseNodes(t, d)
  BY <1>1, <1>6 DEF Covered, BaseNodes
<1>8. \A e \in Elements(out) : Publishable(e) /\ \A n \in Needs(e) : Covered(out, n)
  BY <1>1, <1>3, <1>4, <1>5, <1>6, <1>7 DEF BaseNodes
<1> QED
  BY <1>1, <1>7, <1>8 DEF out, t, d

\* The labels and relationships a mention, a claim or a relation calls for.
LEMMA MentionCalls ==
    ASSUME NEW d, NEW m \in Mentions(d)
    PROVE  LET entity_ == resolve_mention(m)
               ev == evidence(d.id, m)
           IN  /\ {<<entity_, "Entity">>, <<entity_, m.type>>, <<ev, "Evidence">>}
                    \subseteq LabelsOf(d)
               /\ {<<"MENTIONS", article_id(d), entity_, ev>>,
                   <<"EVIDENCE_FOR", ev, entity_, ev>>} \subseteq LinksOf(d)
<1> DEFINE labels(n) == {<<resolve_mention(n), "Entity">>, <<resolve_mention(n), n.type>>,
                         <<evidence(d.id, n), "Evidence">>}
           links(n) == {<<"MENTIONS", article_id(d), resolve_mention(n), evidence(d.id, n)>>,
                        <<"EVIDENCE_FOR", evidence(d.id, n), resolve_mention(n),
                          evidence(d.id, n)>>}
<1>1. UNION {labels(n) : n \in Mentions(d)} \subseteq LabelsOf(d)
  BY Zenon DEF LabelsOf
<1>2. UNION {links(n) : n \in Mentions(d)} \subseteq LinksOf(d)
  BY Zenon DEF LinksOf
<1>3. labels(m) \subseteq LabelsOf(d) /\ links(m) \subseteq LinksOf(d)
  <2> HIDE DEF labels, links, LabelsOf, LinksOf, Mentions
  <2> QED
    BY <1>1, <1>2
<1> QED
  BY <1>3

LEMMA ClaimCalls ==
    ASSUME NEW d, NEW c \in Claims(d)
    PROVE  LET claim == claim_id(c)
               ev == evidence(d.id, c)
           IN  /\ {<<claim, "Claim">>, <<ev, "Evidence">>} \subseteq LabelsOf(d)
               /\ {<<"MAKES_CLAIM", article_id(d), claim, claim>>,
                   <<"EVIDENCE_FOR", ev, claim, ev>>} \subseteq LinksOf(d)
<1> DEFINE labels(n) == {<<claim_id(n), "Claim">>, <<evidence(d.id, n), "Evidence">>}
           links(n) == {<<"MAKES_CLAIM", article_id(d), claim_id(n), claim_id(n)>>,
                        <<"EVIDENCE_FOR", evidence(d.id, n), claim_id(n), evidence(d.id, n)>>}
<1>0. \A A, B, C : B \subseteq A \cup B /\ B \subseteq A \cup B \cup C
  OBVIOUS
<1>1. UNION {labels(n) : n \in Claims(d)} \subseteq LabelsOf(d)
  BY <1>0, Zenon DEF LabelsOf
<1>2. UNION {links(n) : n \in Claims(d)} \subseteq LinksOf(d)
  BY <1>0, Zenon DEF LinksOf
<1>3. labels(c) \subseteq LabelsOf(d) /\ links(c) \subseteq LinksOf(d)
  <2> HIDE DEF labels, links, LabelsOf, LinksOf, Claims
  <2> QED
    BY <1>1, <1>2
<1> QED
  BY <1>3

\* Mutations about a document that may be published together: each node they join is
\* named among them, or is the document's article.
GraphRecord(t, m) == Record("graph", m.id, t, m)

Closed(x, ms) ==
    /\ Sequence(ms)
    /\ \A m \in Elements(ms) :
         /\ Publishable(GraphRecord(x.tenant, m))
         /\ \A n \in Needs(GraphRecord(x.tenant, m)) :
              \/ n = <<x.tenant, article_id(x.document)>>
              \/ \E w \in Elements(ms) : Names(GraphRecord(x.tenant, w), n)

LEMMA ClosedConcat ==
    ASSUME NEW x, NEW a, NEW b, Closed(x, a), Closed(x, b)
    PROVE  Closed(x, a \o b)
<1>1. Sequence(a) /\ Sequence(b)
  BY DEF Closed
<1>2. Sequence(a \o b) /\ Elements(a \o b) = Elements(a) \cup Elements(b)
  BY <1>1, ConcatSequence
<1>3. ASSUME NEW m \in Elements(a \o b)
      PROVE  /\ Publishable(GraphRecord(x.tenant, m))
             /\ \A n \in Needs(GraphRecord(x.tenant, m)) :
                  \/ n = <<x.tenant, article_id(x.document)>>
                  \/ \E w \in Elements(a \o b) : Names(GraphRecord(x.tenant, w), n)
  BY <1>2, Zenon DEF Closed
<1> QED
  BY <1>2, <1>3 DEF Closed

\* What is published about a mention.
LEMMA EventMutations ==
    ASSUME input \in Scenarios, NEW x \in Read(input), NEW m \in Mentions(x.document)
    PROVE  Closed(x, graph_events(x.document, m))
<1> DEFINE t == x.tenant
           d == x.document
           entity_ == resolve_mention(m)
           ev == evidence(d.id, m)
           mid == <<"mentions", ev>>
           eid == <<"evidence-entity", ev, entity_>>
           u1 == upsert(entity_, {"Entity", m.type})
           u2 == upsert(ev, {"Evidence"})
           l1 == relate("MENTIONS", mid, article_id(d), entity_)
           l2 == relate("EVIDENCE_FOR", eid, ev, entity_)
           ms == graph_events(d, m)
<1>1. Sequence(ms) /\ Elements(ms) = {u1, u2, l1, l2}
  <2>1. ms = <<u1, u2, l1, l2>>
    BY DEF graph_events
  <2> HIDE DEF ms, u1, u2, l1, l2
  <2> QED
    BY <2>1, Tuples
<1>2. u1.id = entity_ /\ u2.id = ev /\ l1.id = mid /\ l2.id = eid
  BY DEF upsert, relate
<1>3. entity_[1] = "entity" /\ ev[1] = "ev" /\ mid[1] = "mentions" /\ eid[1] = "evidence-entity"
  BY EntityKind DEF evidence
<1>4. entity_[1] \in Kind /\ ev[1] \in Kind /\ mid[1] \in Kind /\ eid[1] \in Kind
  BY <1>3 DEF Kind
<1>5. Publishable(GraphRecord(t, u1)) /\ Publishable(GraphRecord(t, u2))
  <2>1. /\ \A l \in {"Entity", m.type} : <<entity_, l>> \in LabelsOf(d)
        /\ \A l \in {"Evidence"} : <<ev, l>> \in LabelsOf(d)
    BY MentionCalls
  <2> HIDE DEF Read, LabelsOf, Publishable, ev, entity_, Mentions
  <2>2. Publishable(Record("graph", entity_, t, u1)) /\ Publishable(Record("graph", ev, t, u2))
    BY <1>4, <2>1, UpsertPublishable
  <2> QED
    BY <1>2, <2>2 DEF GraphRecord
<1>6. Publishable(GraphRecord(t, l1))
  <2> DEFINE l == <<"MENTIONS", article_id(d), entity_, ev>>
  <2>1. l \in LinksOf(d)
    BY MentionCalls
  <2>2. States(mid, <<l[1], <<t, l[2]>>, <<t, l[3]>>, l[4]>>)
    BY DEF States
  <2> HIDE DEF Read, LinksOf, Publishable, States, mid, ev, entity_, Mentions
  <2>3. Publishable(Record("graph", mid, t, relate(l[1], mid, l[2], l[3])))
    BY <1>4, <2>1, <2>2, LinkPublishable
  <2> QED
    BY <1>2, <2>3 DEF GraphRecord
<1>7. Publishable(GraphRecord(t, l2))
  <2> DEFINE l == <<"EVIDENCE_FOR", ev, entity_, ev>>
  <2>1. l \in LinksOf(d)
    BY MentionCalls
  <2>2. States(eid, <<l[1], <<t, l[2]>>, <<t, l[3]>>, l[4]>>)
    BY <1>3 DEF States
  <2> HIDE DEF Read, LinksOf, Publishable, States, eid, ev, entity_, Mentions
  <2>3. Publishable(Record("graph", eid, t, relate(l[1], eid, l[2], l[3])))
    BY <1>4, <2>1, <2>2, LinkPublishable
  <2> QED
    BY <1>2, <2>3 DEF GraphRecord
<1>8. /\ \A n : Names(GraphRecord(t, u1), n) <=> n = <<t, entity_>>
      /\ \A n : Names(GraphRecord(t, u2), n) <=> n = <<t, ev>>
      /\ Needs(GraphRecord(t, u1)) = {<<t, entity_>>}
      /\ Needs(GraphRecord(t, u2)) = {<<t, ev>>}
  <2> HIDE DEF Names, Needs, ev, entity_
  <2> DEFINE named == {"Entity", m.type}
  <2>1. GraphRecord(t, u1) = Record("graph", entity_, t, upsert(entity_, named))
        /\ GraphRecord(t, u2) = Record("graph", ev, t, upsert(ev, {"Evidence"}))
    BY <1>2 DEF GraphRecord
  <2> HIDE DEF named, u1
  <2>2. /\ \A n : Names(GraphRecord(t, u1), n) <=> n = <<t, entity_>>
        /\ Needs(GraphRecord(t, u1)) = {<<t, entity_>>}
    BY <2>1, UpsertNodes
  <2>3. /\ \A n : Names(GraphRecord(t, u2), n) <=> n = <<t, ev>>
        /\ Needs(GraphRecord(t, u2)) = {<<t, ev>>}
    BY <2>1, UpsertNodes
  <2> QED
    BY <2>2, <2>3
<1>9. /\ Needs(GraphRecord(t, l1)) = {<<t, article_id(d)>>, <<t, entity_>>}
      /\ Needs(GraphRecord(t, l2)) = {<<t, ev>>, <<t, entity_>>}
  <2> HIDE DEF Names, Needs, ev, entity_, mid, eid
  <2> QED
    BY <1>2, LinkNodes DEF GraphRecord
<1> HIDE DEF u1, u2, l1, l2, ev, entity_, ms
<1>10. Closed(x, ms)
  BY <1>1, <1>5, <1>6, <1>7, <1>8, <1>9 DEF Closed
<1> QED
  BY <1>10 DEF ms

\* What is published about a claim.
LEMMA ClaimMutations ==
    ASSUME input \in Scenarios, NEW x \in Read(input), NEW c \in Claims(x.document)
    PROVE  Closed(x, graph_mutations(x.document, c))
<1> DEFINE t == x.tenant
           d == x.document
           claim == claim_id(c)
           ev == evidence(d.id, c)
           mid == <<"article-claim", article_id(d), claim>>
           eid == <<"evidence-claim", ev, claim>>
           u1 == upsert(claim, {"Claim"})
           u2 == upsert(ev, {"Evidence"})
           l1 == relate("MAKES_CLAIM", mid, article_id(d), claim)
           l2 == relate("EVIDENCE_FOR", eid, ev, claim)
           ms == graph_mutations(d, c)
<1>1. Sequence(ms) /\ Elements(ms) = {u1, u2, l1, l2}
  <2>1. ms = <<u1, u2, l1, l2>>
    BY DEF graph_mutations
  <2> HIDE DEF ms, u1, u2, l1, l2
  <2> QED
    BY <2>1, Tuples
<1>2. u1.id = claim /\ u2.id = ev /\ l1.id = mid /\ l2.id = eid
  BY DEF upsert, relate
<1>3. claim[1] = "claim" /\ ev[1] = "ev" /\ mid[1] = "article-claim" /\ eid[1] = "evidence-claim"
  BY DEF evidence, claim_id
<1>4. claim[1] \in Kind /\ ev[1] \in Kind /\ mid[1] \in Kind /\ eid[1] \in Kind
  BY <1>3 DEF Kind
<1>5. Publishable(GraphRecord(t, u1)) /\ Publishable(GraphRecord(t, u2))
  <2>1. /\ \A l \in {"Claim"} : <<claim, l>> \in LabelsOf(d)
        /\ \A l \in {"Evidence"} : <<ev, l>> \in LabelsOf(d)
    BY ClaimCalls
  <2> HIDE DEF Read, LabelsOf, Publishable, ev, claim, Claims
  <2>2. Publishable(Record("graph", claim, t, u1)) /\ Publishable(Record("graph", ev, t, u2))
    BY <1>4, <2>1, UpsertPublishable
  <2> QED
    BY <1>2, <2>2 DEF GraphRecord
<1>6. Publishable(GraphRecord(t, l1))
  <2> DEFINE l == <<"MAKES_CLAIM", article_id(d), claim, claim>>
  <2>1. l \in LinksOf(d)
    BY ClaimCalls
  <2>2. States(mid, <<l[1], <<t, l[2]>>, <<t, l[3]>>, l[4]>>)
    BY DEF States
  <2> HIDE DEF Read, LinksOf, Publishable, States, mid, ev, claim, Claims
  <2>3. Publishable(Record("graph", mid, t, relate(l[1], mid, l[2], l[3])))
    BY <1>4, <2>1, <2>2, LinkPublishable
  <2> QED
    BY <1>2, <2>3 DEF GraphRecord
<1>7. Publishable(GraphRecord(t, l2))
  <2> DEFINE l == <<"EVIDENCE_FOR", ev, claim, ev>>
  <2>1. l \in LinksOf(d)
    BY ClaimCalls
  <2>2. States(eid, <<l[1], <<t, l[2]>>, <<t, l[3]>>, l[4]>>)
    BY <1>3 DEF States
  <2> HIDE DEF Read, LinksOf, Publishable, States, eid, ev, claim, Claims
  <2>3. Publishable(Record("graph", eid, t, relate(l[1], eid, l[2], l[3])))
    BY <1>4, <2>1, <2>2, LinkPublishable
  <2> QED
    BY <1>2, <2>3 DEF GraphRecord
<1>8. /\ \A n : Names(GraphRecord(t, u1), n) <=> n = <<t, claim>>
      /\ \A n : Names(GraphRecord(t, u2), n) <=> n = <<t, ev>>
      /\ Needs(GraphRecord(t, u1)) = {<<t, claim>>}
      /\ Needs(GraphRecord(t, u2)) = {<<t, ev>>}
  <2> HIDE DEF Names, Needs, ev, claim
  <2> QED
    BY <1>2, UpsertNodes DEF GraphRecord
<1>9. /\ Needs(GraphRecord(t, l1)) = {<<t, article_id(d)>>, <<t, claim>>}
      /\ Needs(GraphRecord(t, l2)) = {<<t, ev>>, <<t, claim>>}
  <2> HIDE DEF Names, Needs, ev, claim, mid, eid
  <2> QED
    BY <1>2, LinkNodes DEF GraphRecord
<1> HIDE DEF u1, u2, l1, l2, ev, claim, ms
<1>10. Closed(x, ms)
  BY <1>1, <1>5, <1>6, <1>7, <1>8, <1>9 DEF Closed
<1> QED
  BY <1>10 DEF ms

\* A relation calls for a relationship between its two entities.
LEMMA RelationCalls ==
    ASSUME NEW d, NEW r \in Relations(d)
    PROVE  <<r.predicate, resolve_mention(r.subject), resolve_mention(r.object),
             evidence(d.id, r.sentence)>> \in LinksOf(d)
<1> DEFINE link_(n) == <<n.predicate, resolve_mention(n.subject), resolve_mention(n.object),
                         evidence(d.id, n.sentence)>>
<1>1. {link_(n) : n \in Relations(d)} \subseteq LinksOf(d)
  BY Zenon DEF LinksOf
<1>2. link_(r) \in LinksOf(d)
  <2> HIDE DEF link_, LinksOf, Relations
  <2> QED
    BY <1>1
<1> QED
  BY <1>2

\* What is published about a relation.
LEMMA RelationMutations ==
    ASSUME input \in Scenarios, NEW x \in Read(input), NEW r \in Relations(x.document)
    PROVE  Closed(x, relation_graph_events(x.document, r))
<1> DEFINE t == x.tenant
           d == x.document
           subject == resolve_mention(r.subject)
           object == resolve_mention(r.object)
           l1 == relate(r.predicate, r.id, subject, object)
           a == graph_events(d, r.subject)
           b == graph_events(d, r.object)
<1>1. /\ r.subject \in Mentions(d) /\ r.object \in Mentions(d)
      /\ r.predicate \in Elements(Predicates) /\ r.id[1] = "relationship"
  BY ExtractTyped DEF Read
<1>2. Closed(x, a) /\ Closed(x, b)
  <2> HIDE DEF Closed, Read, Mentions
  <2> QED
    BY <1>1, EventMutations
<1>3. Closed(x, a \o b)
  BY <1>2, ClosedConcat
<1>4. l1.id = r.id
  BY DEF relate
<1>5. Publishable(GraphRecord(t, l1))
  <2> DEFINE l == <<r.predicate, subject, object, evidence(d.id, r.sentence)>>
  <2>1. l \in LinksOf(d)
    BY RelationCalls
  <2>2. States(r.id, <<l[1], <<t, l[2]>>, <<t, l[3]>>, l[4]>>)
    <3> DEFINE c == <<l[1], <<t, l[2]>>, <<t, l[3]>>, l[4]>>
    <3>1. /\ c[1] = r.predicate /\ c[2][1] = t /\ c[4] = evidence(d.id, r.sentence)
      OBVIOUS
    <3> HIDE DEF c
    <3>2. \E y \in Read(input) : \E q \in Relations(y.document) :
            /\ y.tenant = c[2][1] /\ evidence(y.document.id, q.sentence) = c[4]
            /\ r.id = q.id
      BY <3>1
    <3>3. States(r.id, c)
      BY <1>1, <3>1, <3>2 DEF States
    <3> QED
      BY <3>3 DEF c
  <2>3. r.id[1] \in Kind
    BY <1>1 DEF Kind
  <2> HIDE DEF Read, LinksOf, Publishable, States, Relations
  <2>4. Publishable(Record("graph", r.id, t, relate(l[1], r.id, l[2], l[3])))
    BY <2>1, <2>2, <2>3, LinkPublishable
  <2> QED
    BY <1>4, <2>4 DEF GraphRecord
<1>6. Needs(GraphRecord(t, l1)) = {<<t, subject>>, <<t, object>>}
  <2> HIDE DEF Needs, subject, object
  <2> QED
    BY <1>4, LinkNodes DEF GraphRecord
<1>7. \A m : LET u == upsert(resolve_mention(m), {"Entity", m.type})
             IN  /\ u \in Elements(graph_events(d, m))
                 /\ Names(GraphRecord(t, u), <<t, resolve_mention(m)>>)
  <2> TAKE m
  <2> DEFINE u == upsert(resolve_mention(m), {"Entity", m.type})
  <2>1. \E v, w, y : graph_events(d, m) = <<u, v, w, y>>
    BY DEF graph_events
  <2>2. u \in Elements(graph_events(d, m))
    <3> HIDE DEF u
    <3> QED
      BY <2>1, Tuples
  <2> DEFINE named == {"Entity", m.type}
             id == resolve_mention(m)
  <2>3. u.id = id /\ u = upsert(id, named)
    BY DEF upsert
  <2> HIDE DEF u, named, id
  <2>4. Names(GraphRecord(t, u), <<t, id>>)
    BY <2>3, UpsertNodes DEF GraphRecord
  <2> QED
    BY <2>2, <2>4 DEF u, id
<1>8. /\ \E w \in Elements(a) : Names(GraphRecord(t, w), <<t, subject>>)
      /\ \E w \in Elements(b) : Names(GraphRecord(t, w), <<t, object>>)
  <2> HIDE DEF Names
  <2> QED
    BY <1>7
<1>9. /\ Sequence(a \o b) /\ Elements(a \o b) = Elements(a) \cup Elements(b)
      /\ Sequence(<<l1>>) /\ Elements(<<l1>>) = {l1}
  <2>1. Sequence(a) /\ Sequence(b)
    BY <1>2 DEF Closed
  <2>2. Sequence(a \o b) /\ Elements(a \o b) = Elements(a) \cup Elements(b)
    <3> HIDE DEF a, b
    <3> QED
      BY <2>1, ConcatSequence
  <2>3. Sequence(<<l1>>) /\ Elements(<<l1>>) = {l1}
    <3> HIDE DEF l1
    <3> QED
      BY Tuples
  <2> QED
    BY <2>2, <2>3
<1> DEFINE ms == a \o b \o <<l1>>
<1>10. relation_graph_events(d, r) = ms
  BY DEF relation_graph_events
<1> HIDE DEF a, b, l1
<1>11. Sequence(ms) /\ Elements(ms) = Elements(a) \cup Elements(b) \cup {l1}
  BY <1>9, ConcatSequence
<1> HIDE DEF ms, subject, object
<1>12. Closed(x, ms)
  <2>1. ASSUME NEW m \in Elements(ms)
        PROVE  /\ Publishable(GraphRecord(t, m))
               /\ \A n \in Needs(GraphRecord(t, m)) :
                    \/ n = <<t, article_id(d)>>
                    \/ \E w \in Elements(ms) : Names(GraphRecord(t, w), n)
    <3>1. CASE m = l1
      BY <1>5, <1>6, <1>8, <1>11, <3>1
    <3>2. CASE m \in Elements(a \o b)
      BY <1>3, <1>9, <1>11, <3>2 DEF Closed
    <3> QED
      BY <1>9, <1>11, <3>1, <3>2
  <2> QED
    BY <1>11, <2>1 DEF Closed
<1> QED
  BY <1>10, <1>12

\* The records of such mutations.
LEMMA ClosedRecords ==
    ASSUME NEW x, NEW ms, Closed(x, ms)
    PROVE  LET out == Mutations(x.tenant, ms)
           IN  /\ Sequence(out)
               /\ \A e \in Elements(out) :
                    /\ Publishable(e)
                    /\ \A n \in Needs(e) : \/ n = <<x.tenant, article_id(x.document)>>
                                           \/ Covered(out, n)
<1> DEFINE t == x.tenant
           out == Mutations(t, ms)
<1>1. Sequence(ms)
  BY DEF Closed
<1>2. Sequence(out) /\ Elements(out) = {GraphRecord(t, m) : m \in Elements(ms)}
  BY <1>1, MutationsElements DEF GraphRecord
<1> HIDE DEF out
<1>3. ASSUME NEW e \in Elements(out)
      PROVE  /\ Publishable(e)
             /\ \A n \in Needs(e) : \/ n = <<t, article_id(x.document)>>
                                    \/ Covered(out, n)
  <2>1. PICK m \in Elements(ms) : e = GraphRecord(t, m)
    BY <1>2
  <2>2. /\ Publishable(GraphRecord(t, m))
        /\ \A n \in Needs(GraphRecord(t, m)) :
             \/ n = <<t, article_id(x.document)>>
             \/ \E w \in Elements(ms) : Names(GraphRecord(t, w), n)
    BY DEF Closed
  <2>3. \A n : (\E w \in Elements(ms) : Names(GraphRecord(t, w), n)) => Covered(out, n)
    BY <1>2 DEF Covered
  <2> QED
    BY <2>1, <2>2, <2>3
<1> QED
  BY <1>2, <1>3 DEF out

\* The records of a message of claim intelligence.
LEMMA ClaimOutputs ==
    ASSUME input \in Scenarios, NEW e, RecordSound(e), e.topic = "claim"
    PROVE  /\ Sequence(ClaimRecords(e))
           /\ \A o \in Elements(ClaimRecords(e)) :
                Publishable(o) /\ \A n \in Needs(o) : n \in Needs(e) \/ Covered(ClaimRecords(e), n)
<1>1. PICK x \in Read(input) : /\ e.tenant = x.tenant /\ e.payload.document = x.document
                               /\ e.payload.claim \in Claims(x.document)
  BY DEF RecordSound
<1> DEFINE c == e.payload.claim
           first == Record("clustered", cluster_id(c), e.tenant, claim_id(c))
           rest == Mutations(x.tenant, graph_mutations(x.document, c))
           out == ClaimRecords(e)
<1>2. out = <<first>> \o rest
  BY <1>1 DEF ClaimRecords
<1>3. /\ Sequence(rest)
      /\ \A o \in Elements(rest) :
           /\ Publishable(o)
           /\ \A n \in Needs(o) : \/ n = <<x.tenant, article_id(x.document)>>
                                  \/ Covered(rest, n)
  <2>1. Closed(x, graph_mutations(x.document, c))
    BY <1>1, ClaimMutations
  <2> HIDE DEF c
  <2> QED
    BY <2>1, ClosedRecords
<1>4. Publishable(first) /\ Needs(first) = {}
  <2>1. /\ first.topic = "clustered" /\ first.key[1] = "claim-cluster"
        /\ first.tenant = x.tenant /\ first.payload = claim_id(c)
    BY <1>1 DEF Record, cluster_id
  <2>2. x.tenant \in Tenant /\ <<x.tenant, claim_id(c)>> \in ExpectedIndex[input]
    BY <1>1, Expected, ReadTyped DEF Read
  <2> HIDE DEF first
  <2>3. RecordSound(first)
    BY <2>1, <2>2 DEF RecordSound
  <2>4. QueueOf(first) \in Queue
    BY <2>1, HasQueue DEF Topic, Kind
  <2>5. Needs(first) = {}
    BY <2>1 DEF Needs
  <2> QED
    BY <2>3, <2>4, <2>5 DEF Publishable
<1> HIDE DEF first, rest, out
<1>5. Sequence(out) /\ Elements(out) = {first} \cup Elements(rest)
  <2>1. Sequence(<<first>>) /\ Elements(<<first>>) = {first}
    BY Tuples
  <2> QED
    BY <1>2, <1>3, <2>1, ConcatSequence
<1>6. <<x.tenant, article_id(x.document)>> \in Needs(e)
  BY <1>1 DEF Needs, GraphNode
<1>7. \A n : Covered(rest, n) => Covered(out, n)
  BY <1>5 DEF Covered
<1> QED
  BY <1>3, <1>4, <1>5, <1>6, <1>7 DEF out

\* The records of a message of entity resolution.
LEMMA EntityOutputs ==
    ASSUME input \in Scenarios, NEW e, RecordSound(e), e.topic \in {"mention", "relationship"}
    PROVE  /\ Sequence(EntityRecords(e))
           /\ \A o \in Elements(EntityRecords(e)) :
                Publishable(o) /\ \A n \in Needs(o) : n \in Needs(e) \/ Covered(EntityRecords(e), n)
<1>1. CASE e.topic = "mention"
  <2>1. PICK x \in Read(input) : /\ e.tenant = x.tenant /\ e.payload.document = x.document
                                 /\ e.payload.mention \in Mentions(x.document)
    BY <1>1 DEF RecordSound
  <2> DEFINE m == e.payload.mention
             first == Record("resolved", resolve_mention(m), e.tenant, resolve_mention(m))
             rest == Mutations(x.tenant, graph_events(x.document, m))
             out == EntityRecords(e)
  <2>2. out = <<first>> \o rest
    BY <1>1, <2>1 DEF EntityRecords
  <2>3. /\ Sequence(rest)
        /\ \A o \in Elements(rest) :
             /\ Publishable(o)
             /\ \A n \in Needs(o) : \/ n = <<x.tenant, article_id(x.document)>>
                                    \/ Covered(rest, n)
    <3>1. Closed(x, graph_events(x.document, m))
      BY <2>1, EventMutations
    <3> HIDE DEF m
    <3> QED
      BY <3>1, ClosedRecords
  <2>4. Publishable(first) /\ Needs(first) = {}
    <3>1. /\ first.topic = "resolved" /\ first.key[1] = "entity"
          /\ first.tenant = x.tenant /\ first.payload = resolve_mention(m)
      BY <2>1, EntityKind DEF Record
    <3>2. x.tenant \in Tenant /\ <<x.tenant, resolve_mention(m)>> \in ExpectedIndex[input]
      BY <2>1, Expected, ReadTyped DEF Read
    <3> HIDE DEF first
    <3>3. RecordSound(first)
      BY <3>1, <3>2 DEF RecordSound
    <3>4. QueueOf(first) \in Queue
      BY <3>1, HasQueue DEF Topic, Kind
    <3>5. Needs(first) = {}
      BY <3>1 DEF Needs
    <3> QED
      BY <3>3, <3>4, <3>5 DEF Publishable
  <2> HIDE DEF first, rest, out
  <2>5. Sequence(out) /\ Elements(out) = {first} \cup Elements(rest)
    <3>1. Sequence(<<first>>) /\ Elements(<<first>>) = {first}
      BY Tuples
    <3> QED
      BY <2>2, <2>3, <3>1, ConcatSequence
  <2>6. <<x.tenant, article_id(x.document)>> \in Needs(e)
    BY <1>1, <2>1 DEF Needs, GraphNode
  <2>7. \A n : Covered(rest, n) => Covered(out, n)
    BY <2>5 DEF Covered
  <2> QED
    BY <2>3, <2>4, <2>5, <2>6, <2>7 DEF out
<1>2. CASE e.topic = "relationship"
  <2>1. PICK x \in Read(input) : /\ e.tenant = x.tenant /\ e.payload.document = x.document
                                 /\ e.payload.relation \in Relations(x.document)
    BY <1>2 DEF RecordSound
  <2> DEFINE r == e.payload.relation
             out == EntityRecords(e)
  <2>2. out = Mutations(x.tenant, relation_graph_events(x.document, r))
    BY <1>2, <2>1 DEF EntityRecords
  <2>3. Closed(x, relation_graph_events(x.document, r))
    BY <2>1, RelationMutations
  <2> HIDE DEF r, out
  <2>4. /\ Sequence(out)
        /\ \A o \in Elements(out) :
             /\ Publishable(o)
             /\ \A n \in Needs(o) : \/ n = <<x.tenant, article_id(x.document)>>
                                    \/ Covered(out, n)
    BY <2>2, <2>3, ClosedRecords
  <2>5. <<x.tenant, article_id(x.document)>> \in Needs(e)
    BY <1>2, <2>1 DEF Needs, GraphNode
  <2> QED
    BY <2>4, <2>5 DEF out
<1> QED
  BY <1>1, <1>2

\* The records of a message of the NLP pipeline: they name the document, its article
\* and its source, and nothing else.
LEMMA NlpOutputs ==
    ASSUME input \in Scenarios, NEW x \in Read(input)
    PROVE  LET out == NlpRecords(x.tenant, x.document)
           IN  /\ Sequence(out)
               /\ \A o \in Elements(out) : Publishable(o) /\ \A n \in Needs(o) : Covered(out, n)
               /\ \A n : Covered(out, n) <=> n \in BaseNodes(x.tenant, x.document)
<1> DEFINE t == x.tenant
           d == x.document
           mentions == extract[d].mentions
           claims == extract[d].claims
           relations == extract[d].relations
           base == Mutations(t, graph_base_mutations(d))
           M == [i \in DOMAIN mentions |->
                   Record("mention", d.id, t, [document |-> d, mention |-> mentions[i]])]
           C == [i \in DOMAIN claims |->
                   Record("claim", claim_id(claims[i]), t, [document |-> d, claim |-> claims[i]])]
           R == [i \in DOMAIN relations |->
                   Record("relationship", relations[i].id, t,
                          [document |-> d, relation |-> relations[i]])]
           policy == Record("policy", d.id, t,
                            [document |-> d.id, event_id |-> attempts,
                             idempotency_key |-> <<"policy", d.id>>])
           out == NlpRecords(t, d)
<1>1. out = base \o M \o C \o R \o <<policy>>
  BY DEF NlpRecords
<1>2. x \in Elements(input.documents)
  BY DEF Read
<1>3. t \in Tenant /\ d.id[1] = "doc"
  BY <1>2, ReadTyped
<1>4. /\ Sequence(mentions) /\ Sequence(claims) /\ Sequence(relations)
      /\ \A r \in Relations(d) : r.id[1] = "relationship"
  BY <1>2, ExtractTyped
<1>5. /\ Len(mentions) \in Nat /\ DOMAIN mentions = 1..Len(mentions)
      /\ Len(claims) \in Nat /\ DOMAIN claims = 1..Len(claims)
      /\ Len(relations) \in Nat /\ DOMAIN relations = 1..Len(relations)
  BY <1>4, SelfTyped DEF Sequence
<1>6. /\ \A i \in DOMAIN mentions : mentions[i] \in Mentions(d)
      /\ \A i \in DOMAIN claims : claims[i] \in Claims(d)
      /\ \A i \in DOMAIN relations : relations[i] \in Relations(d)
  BY DEF Mentions, Claims, Relations, Elements
<1> HIDE DEF mentions, claims, relations, base, out, t, d
<1>7. Sequence(M) /\ Sequence(C) /\ Sequence(R)
  <2>1. /\ M = [i \in 1..Len(mentions) |-> M[i]]
        /\ C = [i \in 1..Len(claims) |-> C[i]]
        /\ R = [i \in 1..Len(relations) |-> R[i]]
    BY <1>5
  <2> HIDE DEF M, C, R
  <2> QED
    BY <1>5, <2>1, FunctionSequence
<1>8. \A o \in Elements(M) : Publishable(o) /\ Needs(o) = {<<t, article_id(d)>>}
  <2> SUFFICES ASSUME NEW i \in DOMAIN mentions
               PROVE  Publishable(M[i]) /\ Needs(M[i]) = {<<t, article_id(d)>>}
    BY DEF Elements
  <2> DEFINE o == M[i]
  <2>1. /\ o.topic = "mention" /\ o.key[1] = "doc" /\ o.tenant = t
        /\ o.payload.document = d /\ o.payload.mention = mentions[i]
    BY <1>3 DEF Record
  <2> HIDE DEF M
  <2>2. RecordSound(o)
    <3>1. \E y \in Read(input) : /\ o.tenant = y.tenant /\ o.payload.document = y.document
                                 /\ o.payload.mention \in Mentions(y.document)
      BY <1>6, <2>1 DEF t, d
    <3> QED
      BY <1>3, <2>1, <3>1 DEF RecordSound
  <2>3. QueueOf(o) \in Queue
    BY <2>1, HasQueue DEF Topic, Kind
  <2>4. Needs(o) = {<<t, article_id(d)>>}
    BY <2>1 DEF Needs, GraphNode
  <2> QED
    BY <2>2, <2>3, <2>4 DEF Publishable
<1>9. \A o \in Elements(C) : Publishable(o) /\ Needs(o) = {<<t, article_id(d)>>}
  <2> SUFFICES ASSUME NEW i \in DOMAIN claims
               PROVE  Publishable(C[i]) /\ Needs(C[i]) = {<<t, article_id(d)>>}
    BY DEF Elements
  <2> DEFINE o == C[i]
  <2>1. /\ o.topic = "claim" /\ o.key[1] = "claim" /\ o.tenant = t
        /\ o.payload.document = d /\ o.payload.claim = claims[i]
    BY DEF Record, claim_id
  <2> HIDE DEF C
  <2>2. RecordSound(o)
    <3>1. \E y \in Read(input) : /\ o.tenant = y.tenant /\ o.payload.document = y.document
                                 /\ o.payload.claim \in Claims(y.document)
      BY <1>6, <2>1 DEF t, d
    <3> QED
      BY <1>3, <2>1, <3>1 DEF RecordSound
  <2>3. QueueOf(o) \in Queue
    BY <2>1, HasQueue DEF Topic, Kind
  <2>4. Needs(o) = {<<t, article_id(d)>>}
    BY <2>1 DEF Needs, GraphNode
  <2> QED
    BY <2>2, <2>3, <2>4 DEF Publishable
<1>10. \A o \in Elements(R) : Publishable(o) /\ Needs(o) = {<<t, article_id(d)>>}
  <2> SUFFICES ASSUME NEW i \in DOMAIN relations
               PROVE  Publishable(R[i]) /\ Needs(R[i]) = {<<t, article_id(d)>>}
    BY DEF Elements
  <2> DEFINE o == R[i]
  <2>1. /\ o.topic = "relationship" /\ o.key[1] = "relationship" /\ o.tenant = t
        /\ o.payload.document = d /\ o.payload.relation = relations[i]
    BY <1>4, <1>6 DEF Record
  <2> HIDE DEF R
  <2>2. RecordSound(o)
    <3>1. \E y \in Read(input) : /\ o.tenant = y.tenant /\ o.payload.document = y.document
                                 /\ o.payload.relation \in Relations(y.document)
      BY <1>6, <2>1 DEF t, d
    <3> QED
      BY <1>3, <2>1, <3>1 DEF RecordSound
  <2>3. QueueOf(o) \in Queue
    BY <2>1, HasQueue DEF Topic, Kind
  <2>4. Needs(o) = {<<t, article_id(d)>>}
    BY <2>1 DEF Needs, GraphNode
  <2> QED
    BY <2>2, <2>3, <2>4 DEF Publishable
<1>11. Publishable(policy) /\ Needs(policy) = {}
  <2>1. /\ policy.topic = "policy" /\ policy.key[1] = "doc" /\ policy.tenant = t
        /\ policy.payload.idempotency_key = <<"policy", policy.payload.document>>
    BY <1>3 DEF Record
  <2> HIDE DEF policy
  <2>2. RecordSound(policy)
    BY <1>3, <2>1 DEF RecordSound
  <2>3. QueueOf(policy) \in Queue
    BY <2>1, HasQueue DEF Topic, Kind
  <2>4. Needs(policy) = {}
    BY <2>1 DEF Needs
  <2> QED
    BY <2>2, <2>3, <2>4 DEF Publishable
<1>12. /\ \A o \in Elements(M) : o.topic = "mention"
       /\ \A o \in Elements(C) : o.topic = "claim"
       /\ \A o \in Elements(R) : o.topic = "relationship"
       /\ policy.topic = "policy"
  BY DEF Elements, Record
<1>13. /\ Sequence(base)
       /\ \A o \in Elements(base) : Publishable(o) /\ \A n \in Needs(o) : Covered(base, n)
       /\ \A n : Covered(base, n) <=> n \in BaseNodes(t, d)
  BY BaseMutations DEF base, t, d
<1> HIDE DEF M, C, R, policy
<1>14. /\ Sequence(out)
       /\ Elements(out) = Elements(base) \cup Elements(M) \cup Elements(C) \cup Elements(R)
                           \cup {policy}
  <2>1. Sequence(<<policy>>) /\ Elements(<<policy>>) = {policy}
    BY Tuples
  <2>2. Sequence(base \o M) /\ Elements(base \o M) = Elements(base) \cup Elements(M)
    BY <1>7, <1>13, ConcatSequence
  <2> DEFINE p == base \o M
  <2> HIDE DEF p
  <2>3. Sequence(p \o C) /\ Elements(p \o C) = Elements(p) \cup Elements(C)
    BY <1>7, <2>2, ConcatSequence DEF p
  <2> DEFINE q == p \o C
  <2> HIDE DEF q
  <2>4. Sequence(q \o R) /\ Elements(q \o R) = Elements(q) \cup Elements(R)
    BY <1>7, <2>3, ConcatSequence DEF q
  <2> DEFINE r == q \o R
  <2> HIDE DEF r
  <2>5. Sequence(r \o <<policy>>) /\ Elements(r \o <<policy>>) = Elements(r) \cup {policy}
    BY <2>1, <2>4, ConcatSequence DEF r
  <2>6. out = r \o <<policy>>
    BY <1>1 DEF p, q, r
  <2> QED
    BY <2>2, <2>3, <2>4, <2>5, <2>6 DEF p, q, r
<1>15. \A n : Covered(out, n) <=> n \in BaseNodes(t, d)
  <2>1. \A o \in Elements(M) \cup Elements(C) \cup Elements(R) \cup {policy} :
          \A n : ~ Names(o, n)
    BY <1>12 DEF Names
  <2>2. \A n : Covered(out, n) <=> Covered(base, n)
    BY <1>14, <2>1 DEF Covered
  <2> QED
    BY <1>13, <2>2
<1>16. <<t, article_id(d)>> \in BaseNodes(t, d)
  BY DEF BaseNodes
<1>17. \A o \in Elements(out) : Publishable(o) /\ \A n \in Needs(o) : Covered(out, n)
  BY <1>8, <1>9, <1>10, <1>11, <1>13, <1>14, <1>15, <1>16
<1> QED
  BY <1>14, <1>15, <1>17 DEF out, t, d

-------------------------------------------------------------------------------
(* The invariant holds initially *)

\* A kind of input record for every element of a sequence.
LEMMA InputsSound ==
    ASSUME input \in Scenarios
    PROVE  /\ Sequence(Inputs(input))
           /\ \A e \in Elements(Inputs(input)) : RecordSound(e) /\ Needs(e) = {}
<1> DEFINE docs == input.documents
           asks == input.analytics
           N == [i \in DOMAIN docs |-> Record("nlp-requested", docs[i].document.id,
                                              docs[i].tenant, docs[i].document)]
           S == [i \in DOMAIN docs |-> Record("normalized", docs[i].document.id,
                                              docs[i].tenant, docs[i].document)]
           A == [i \in DOMAIN asks |-> Record("analytics", asks[i].entity,
                                              asks[i].tenant, asks[i].entity)]
<1>1. Inputs(input) = N \o S \o A
  BY DEF Inputs
<1>2. Sequence(docs) /\ Sequence(asks)
  BY ScenarioAssumption DEF Sequence
<1>3. /\ \A x \in Elements(docs) : x.tenant \in Tenant
      /\ \A x \in Elements(asks) : x.tenant \in Tenant
  BY ScenarioAssumption
<1>4. /\ Len(docs) \in Nat /\ DOMAIN docs = 1..Len(docs)
      /\ Len(asks) \in Nat /\ DOMAIN asks = 1..Len(asks)
  BY <1>2, SelfTyped DEF Sequence
<1>5. /\ \A i \in DOMAIN docs : docs[i] \in Elements(docs)
      /\ \A i \in DOMAIN asks : asks[i] \in Elements(asks)
  BY DEF Elements
<1>6. /\ \A i \in DOMAIN docs : /\ N[i].topic = "nlp-requested" /\ N[i].tenant = docs[i].tenant
                                /\ N[i].payload = docs[i].document
                                /\ S[i].topic = "normalized" /\ S[i].tenant = docs[i].tenant
                                /\ S[i].payload = docs[i].document
      /\ \A i \in DOMAIN asks : A[i].topic = "analytics" /\ A[i].tenant = asks[i].tenant
      /\ DOMAIN N = DOMAIN docs /\ DOMAIN S = DOMAIN docs /\ DOMAIN A = DOMAIN asks
  BY DEF Record
<1>7. Sequence(N) /\ Sequence(S) /\ Sequence(A)
  <2>1. /\ N = [i \in 1..Len(docs) |-> N[i]]
        /\ S = [i \in 1..Len(docs) |-> S[i]]
        /\ A = [i \in 1..Len(asks) |-> A[i]]
    BY <1>4
  <2> HIDE DEF N, S, A, docs, asks
  <2> QED
    BY <1>4, <2>1, FunctionSequence
<1> HIDE DEF N, S, A
<1>8. \A e \in Elements(N) \cup Elements(S) : RecordSound(e) /\ Needs(e) = {}
  <2> SUFFICES ASSUME NEW e, NEW i \in DOMAIN docs, e = N[i] \/ e = S[i]
               PROVE  RecordSound(e) /\ Needs(e) = {}
    BY <1>6 DEF Elements
  <2>1. /\ e.topic \in {"nlp-requested", "normalized"} /\ e.tenant = docs[i].tenant
        /\ e.payload = docs[i].document
    BY <1>6
  <2>2. docs[i] \in Elements(docs) /\ docs[i].tenant \in Tenant
    BY <1>3, <1>5
  <2>3. \E x \in Elements(docs) : e.tenant = x.tenant /\ e.payload = x.document
    BY <2>1, <2>2
  <2>4. RecordSound(e)
    BY <2>1, <2>2, <2>3 DEF RecordSound
  <2> QED
    BY <2>1, <2>4 DEF Needs
<1>9. \A e \in Elements(A) : RecordSound(e) /\ Needs(e) = {}
  <2> SUFFICES ASSUME NEW e, NEW i \in DOMAIN asks, e = A[i]
               PROVE  RecordSound(e) /\ Needs(e) = {}
    BY <1>6 DEF Elements
  <2>1. e.topic = "analytics" /\ e.tenant = asks[i].tenant
    BY <1>6
  <2>2. asks[i].tenant \in Tenant
    BY <1>3, <1>5
  <2>3. RecordSound(e)
    BY <2>1, <2>2 DEF RecordSound
  <2> QED
    BY <2>1, <2>3 DEF Needs
<1>10. /\ Sequence(Inputs(input))
       /\ Elements(Inputs(input)) = Elements(N) \cup Elements(S) \cup Elements(A)
  <2>1. Sequence(N \o S) /\ Elements(N \o S) = Elements(N) \cup Elements(S)
    BY <1>7, ConcatSequence
  <2> DEFINE p == N \o S
  <2> HIDE DEF p
  <2>2. Sequence(p \o A) /\ Elements(p \o A) = Elements(p) \cup Elements(A)
    BY <1>7, <2>1, ConcatSequence DEF p
  <2> QED
    BY <1>1, <2>1, <2>2 DEF p
<1> QED
  BY <1>8, <1>9, <1>10

LEMMA EmptySequence == Sequence(<<>>) /\ Len(<<>>) = 0
<1>1. Len(<<>>) = 0
  OBVIOUS
<1>2. <<>> \in Seq(Elements(<<>>))
  BY EmptySeq
<1> QED
  BY <1>1, <1>2 DEF Sequence

LEMMA InitInvariant ==
    ASSUME Init
    PROVE  IInv
<1>1. input \in Scenarios
  BY DEF Init
<1> DEFINE none == [q \in Queue |-> <<>>]
<1>2. \A q \in Queue : Sequence(none[q]) /\ Len(none[q]) = 0
  BY EmptySequence
<1>3. log = Appended(none, Inputs(input))
  BY DEF Init
<1>4. /\ Sequence(Inputs(input))
      /\ \A e \in Elements(Inputs(input)) : RecordSound(e) /\ Needs(e) = {}
  BY <1>1, InputsSound
<1> HIDE DEF none
<1>5. /\ log = [q \in Queue |-> log[q]]
      /\ \A q \in Queue :
           Grows(none[q], log[q], {e \in Elements(Inputs(input)) : QueueOf(e) = q})
  BY <1>2, <1>3, <1>4, AppendedGrows
<1>6. ASSUME NEW q \in Queue
      PROVE  /\ Sequence(log[q]) /\ Len(log[q]) \in Nat
             /\ \A i \in 1..Len(log[q]) :
                  /\ QueueOf(log[q][i]) = q /\ RecordSound(log[q][i])
                  /\ Needs(log[q][i]) = {}
  <2>1. Grows(none[q], log[q], {e \in Elements(Inputs(input)) : QueueOf(e) = q})
    BY <1>5
  <2>2. Sequence(log[q]) /\ Len(log[q]) \in Nat
    BY <2>1, SelfTyped DEF Grows, Sequence
  <2>3. \A i \in 1..Len(log[q]) :
          log[q][i] \in Elements(Inputs(input)) /\ QueueOf(log[q][i]) = q
    <3> HIDE DEF QueueOf
    <3>1. Len(none[q]) + 1 = 1
      BY <1>2
    <3> QED
      BY <2>1, <3>1 DEF Grows
  <2> QED
    BY <1>4, <2>2, <2>3
<1>7. Shape
  <2>1. pos = [q \in Queue |-> 1] /\ attempts = 0 /\ faults = 0 /\ resets = 0
    BY DEF Init
  <2>2. input.maxFaults \in Nat /\ input.maxResets \in Nat
    BY <1>1, ScenarioAssumption
  <2>3. \A q \in Queue : Sequence(log[q]) /\ pos[q] \in 1..(Len(log[q]) + 1)
    BY <1>6, <2>1
  <2> QED
    BY <1>1, <1>5, <2>1, <2>2, <2>3 DEF Shape
<1>8. LogSound
  BY <1>6 DEF LogSound
<1>9. Requests /\ GraphClosed /\ GraphSound /\ TakedownsSound /\ AlertsNamed
  BY DEF Init, Requests, GraphClosed, GraphSound, TakedownsSound, AlertsNamed
<1>10. NodesAwaited
  BY <1>6 DEF Init, NodesAwaited
<1> QED
  BY <1>7, <1>8, <1>9, <1>10 DEF IInv

-------------------------------------------------------------------------------
(* What every step keeps *)

\* What a record says stays so: requests for a takedown are never withdrawn.
LEMMA SoundStays ==
    ASSUME input' = input, requested \subseteq requested'
    PROVE  /\ \A e : RecordSound(e) => RecordSound(e)'
           /\ \A e : QueueOf(e)' = QueueOf(e)
<1>1. \A id, c : States(id, c) => States(id, c)'
  BY Zenon DEF States
<1>2. \A e : MutationSound(e) => MutationSound(e)'
  <2> TAKE e
  <2> HAVE MutationSound(e)
  <2>1. CASE /\ e.payload.type = "upsert" /\ e.payload.labels # {}
             /\ \A l \in e.payload.labels :
                  <<GraphNode(e.tenant, e.payload.id), l>> \in ExpectedLabels[input]
    BY <2>1, Zenon DEF MutationSound
  <2>2. CASE /\ e.payload.type = "link"
             /\ \E c \in ExpectedLinks[input] :
                  /\ Ends(c) = <<e.payload.rel, GraphNode(e.tenant, e.payload.from),
                                 GraphNode(e.tenant, e.payload.to)>>
                  /\ States(e.payload.id, c)
    BY <1>1, <2>2, Zenon DEF MutationSound
  <2>3. CASE /\ e.payload.type = "takedown"
             /\ \E t \in requested : e.tenant = t[1] /\ e.payload.id = <<"source", t[2]>>
    <3>1. \E t \in requested' : e.tenant = t[1] /\ e.payload.id = <<"source", t[2]>>
      BY <2>3
    <3> QED
      BY <2>3, <3>1 DEF MutationSound
  <2> QED
    BY <2>1, <2>2, <2>3 DEF MutationSound
<1>3. \A e : RecordSound(e) => RecordSound(e)'
  <2> SUFFICES ASSUME NEW e, RecordSound(e)
               PROVE  RecordSound(e)'
    OBVIOUS
  <2> DEFINE told == /\ e.tenant \in Tenant
                     /\ e.topic \in {"nlp-requested", "normalized"} =>
                          \E x \in Elements(input.documents) :
                             e.tenant = x.tenant /\ e.payload = x.document
                     /\ e.topic \in {"resolved", "clustered"} =>
                          <<e.tenant, e.payload>> \in ExpectedIndex[input]
                     /\ e.topic = "policy" =>
                          e.payload.idempotency_key = <<"policy", e.payload.document>>
             read == /\ e.topic = "mention" =>
                          \E x \in Read(input) :
                             /\ e.tenant = x.tenant /\ e.payload.document = x.document
                             /\ e.payload.mention \in Mentions(x.document)
                     /\ e.topic = "relationship" =>
                          \E x \in Read(input) :
                             /\ e.tenant = x.tenant /\ e.payload.document = x.document
                             /\ e.payload.relation \in Relations(x.document)
                     /\ e.topic = "claim" =>
                          \E x \in Read(input) :
                             /\ e.tenant = x.tenant /\ e.payload.document = x.document
                             /\ e.payload.claim \in Claims(x.document)
             merged == e.topic = "graph" => MutationSound(e)
  <2>1. told /\ read /\ merged
    BY Zenon DEF RecordSound
  <2>2. told'
    BY <2>1
  <2>3. read'
    BY <2>1
  <2>4. merged'
    BY <1>2, <2>1
  <2> HIDE DEF told, read, merged
  <2>5. told' /\ read' /\ merged' => RecordSound(e)'
    BY Zenon DEF RecordSound, told, read, merged
  <2> QED
    BY <2>2, <2>3, <2>4, <2>5
<1>4. \A e : QueueOf(e)' = QueueOf(e)
  BY DEF QueueOf
<1> QED
  BY <1>3, <1>4

\* A log that only grows, by sound records in their queues, stays sound.
LEMMA LogStep ==
    ASSUME Shape, LogSound, input' = input, requested \subseteq requested', NEW added,
           \A e \in added : RecordSound(e),
           \A r \in Queue : Grows(log[r], log'[r], {e \in added : QueueOf(e) = r})
    PROVE  /\ LogSound'
           /\ \A r \in Queue : /\ Sequence(log'[r]) /\ Len(log[r]) \in Nat
                               /\ Len(log'[r]) \in Nat /\ Len(log[r]) <= Len(log'[r])
<1>1. ASSUME NEW r \in Queue
      PROVE  /\ Sequence(log'[r]) /\ Len(log[r]) \in Nat
             /\ Len(log'[r]) \in Nat /\ Len(log[r]) <= Len(log'[r])
  <2>1. Sequence(log'[r]) /\ Len(log[r]) <= Len(log'[r]) /\ Sequence(log[r])
    BY DEF Grows, Shape
  <2> QED
    BY <2>1, SelfTyped DEF Sequence
<1>2. ASSUME NEW r \in Queue, NEW i \in 1..Len(log'[r])
      PROVE  (QueueOf(log'[r][i]) = r)  /\ RecordSound(log'[r][i])
  <2>1. CASE i <= Len(log[r])
    <3>1. i \in 1..Len(log[r])
      BY <1>1, <2>1
    <3>2. log'[r][i] = log[r][i]
      BY <3>1 DEF Grows
    <3>3. QueueOf(log[r][i]) = r /\ RecordSound(log[r][i])
      BY <3>1 DEF LogSound
    <3> QED
      BY <3>2, <3>3
  <2>2. CASE ~ (i <= Len(log[r]))
    <3>1. i \in (Len(log[r]) + 1)..Len(log'[r])
      BY <1>1, <2>2
    <3>2. log'[r][i] \in {e \in added : QueueOf(e) = r}
      BY <3>1 DEF Grows
    <3> HIDE DEF QueueOf
    <3> QED
      BY <3>2
  <2> QED
    BY <2>1, <2>2
<1>3. ASSUME NEW r \in Queue, NEW i \in 1..Len(log'[r])
      PROVE  (QueueOf(log[r][i]) = r /\ RecordSound(log[r][i]))'
  <2>1. PICK e : e = log'[r][i]
    OBVIOUS
  <2>2. QueueOf(e)' = r /\ RecordSound(e)'
    BY <1>2, <2>1, SoundStays
  <2> QED
    BY <2>1, <2>2
<1> QED
  BY <1>1, <1>3 DEF LogSound

\* A node stays awaited when the labels and the logs grow and every record that is
\* passed over leaves the nodes it would name awaited.
LEMMA AwaitedStep ==
    ASSUME Shape, label \subseteq label',
           \A r \in Queue : /\ Len(log'[r]) \in Nat /\ Len(log[r]) <= Len(log'[r])
                            /\ \A i \in 1..Len(log[r]) : log'[r][i] = log[r][i],
           \A r \in Queue : pos'[r] \in Nat,
           \A r \in Queue : \A i \in pos[r]..Len(log[r]) :
             \/ pos'[r] <= i
             \/ \A n : Covered(Leads(log[r][i]), n) => Awaited(n)'
    PROVE  \A n : Awaited(n) => Awaited(n)'
<1> SUFFICES ASSUME NEW n, Awaited(n)
             PROVE  Awaited(n)'
  OBVIOUS
<1>1. CASE \E l \in label : l[1] = n
  <2>1. \E l \in label' : l[1] = n
    BY <1>1
  <2> QED
    BY <2>1 DEF Awaited
<1>2. CASE \E r \in Queue : \E i \in pos[r]..Len(log[r]) : Covered(Leads(log[r][i]), n)
  <2>0. PICK r \in Queue : \E i \in pos[r]..Len(log[r]) : Covered(Leads(log[r][i]), n)
    BY <1>2
  <2>1. PICK i \in pos[r]..Len(log[r]) : Covered(Leads(log[r][i]), n)
    BY <2>0
  <2>2. pos[r] \in 1..(Len(log[r]) + 1) /\ Len(log[r]) \in Nat
    BY SelfTyped DEF Shape, Sequence
  <2>3. i \in 1..Len(log[r])
    BY <2>2
  <2>4. CASE pos'[r] <= i
    <3>1. i \in pos'[r]..Len(log'[r]) /\ log'[r][i] = log[r][i]
      BY <2>2, <2>3, <2>4
    <3> QED
      BY <2>1, <3>1 DEF Awaited
  <2> QED
    BY <2>1, <2>4
<1> QED
  BY <1>1, <1>2 DEF Awaited

\* The nodes of the graph and of the records stay awaited when no node is awaited no
\* longer, and the new ones are.
LEMMA NodesStep ==
    ASSUME NodesAwaited, \A n : Awaited(n) => Awaited(n)',
           \A n \in node' : n \in node \/ Awaited(n)',
           NEW added, \A e \in added : \A n \in Needs(e) : Awaited(n)',
           \A r \in Queue : Len(log[r]) \in Nat /\ Len(log'[r]) \in Nat,
           \A r \in Queue : Grows(log[r], log'[r], {e \in added : QueueOf(e) = r})
    PROVE  NodesAwaited'
<1>1. \A n \in node' : Awaited(n)'
  BY DEF NodesAwaited
<1>2. ASSUME NEW r \in Queue, NEW i \in 1..Len(log'[r])
      PROVE  \A n \in Needs(log'[r][i]) : Awaited(n)'
  <2>1. CASE i <= Len(log[r])
    <3>1. i \in 1..Len(log[r])
      BY <2>1
    <3>2. log'[r][i] = log[r][i]
      BY <3>1 DEF Grows
    <3>3. \A n \in Needs(log[r][i]) : Awaited(n)
      BY <3>1 DEF NodesAwaited
    <3> QED
      BY <3>2, <3>3
  <2>2. CASE ~ (i <= Len(log[r]))
    <3>1. i \in (Len(log[r]) + 1)..Len(log'[r])
      BY <2>2
    <3>2. log'[r][i] \in {e \in added : QueueOf(e) = r}
      BY <3>1 DEF Grows
    <3> HIDE DEF QueueOf
    <3> QED
      BY <3>2
  <2> QED
    BY <2>1, <2>2
<1> QED
  BY <1>1, <1>2 DEF NodesAwaited

\* A step that leaves the graph alone, and indexes and alerts about what it should.
LEMMA StateStays ==
    ASSUME GraphClosed, GraphSound, TakedownsSound, AlertsNamed, input' = input,
           requested \subseteq requested', UNCHANGED graph,
           indexed' \subseteq indexed \cup ExpectedIndex[input],
           \A a \in alerts' : a \in alerts \/ a.id = <<a.tenant, <<"policy", a.document>>>>
    PROVE  (GraphClosed /\ GraphSound /\ TakedownsSound /\ AlertsNamed)'
<1>1. GraphClosed'
  BY DEF GraphClosed, graph
<1>2. GraphSound'
  <2>1. label' = label /\ link' = link
    BY DEF graph
  <2>2. \A l \in link : \E c \in Called(l)' : States(l.id, c)'
    <3> TAKE l \in link
    <3>1. PICK c \in Called(l) : States(l.id, c)
      BY DEF GraphSound
    <3>2. Called(l)' = Called(l)
      BY DEF Called
    <3>3. \A id, k : States(id, k) => States(id, k)'
      BY Zenon DEF States
    <3> QED
      BY <3>1, <3>2, <3>3
  <2>3. label' \subseteq ExpectedLabels[input'] /\ indexed' \subseteq ExpectedIndex[input']
    BY <2>1 DEF GraphSound
  <2> QED
    BY <2>1, <2>2, <2>3 DEF GraphSound
<1>3. TakedownsSound'
  <2>1. link' = link /\ takedown' = takedown
    BY DEF graph
  <2> DEFINE owed(n, t, links) ==
               /\ n[1] = t[1]
               /\ \/ n = <<t[1], <<"source", t[2]>>>>
                  \/ \E l \in links : /\ l.rel = "PUBLISHED" /\ l.from = n
                                      /\ l.to = <<t[1], <<"source", t[2]>>>>
  <2>2. /\ TakedownsSound <=> \A n \in takedown : \E t \in requested : owed(n, t, link)
        /\ TakedownsSound' <=> \A n \in takedown' : \E t \in requested' : owed(n, t, link')
    BY Zenon DEF TakedownsSound
  <2> HIDE DEF owed
  <2> QED
    BY <2>1, <2>2
<1>4. AlertsNamed'
  BY DEF AlertsNamed
<1> QED
  BY <1>1, <1>2, <1>3, <1>4

LEMMA RequestsStay ==
    ASSUME Requests, input' = input, UNCHANGED <<requested, outbox, quiet>>
    PROVE  Requests'
<1>1. /\ \A e : RecordSound(e) => RecordSound(e)'
      /\ \A e : QueueOf(e)' = QueueOf(e)
  BY SoundStays
<1>2. \A e \in outbox : /\ RecordSound(e)' /\ QueueOf(e)' \in Queue
                        /\ e.topic \in {"takedown", "graph"}
                        /\ e.topic = "graph" => e.payload.type = "takedown"
  BY <1>1 DEF Requests
<1> QED
  BY <1>2 DEF Requests

-------------------------------------------------------------------------------
(* The workers that publish *)

\* A mutation leads to itself.
LEMMA LeadsItself ==
    ASSUME NEW e, NEW n, Names(e, n)
    PROVE  Covered(Leads(e), n)
<1>1. Leads(e) = <<e>>
  BY DEF Names, Leads
<1>2. Elements(<<e>>) = {e}
  BY Tuples
<1> QED
  BY <1>1, <1>2 DEF Covered

\* Publishing sound records that need no other nodes than the record they are made of
\* needs or they name themselves, and name the nodes that record leads to.
LEMMA PublishStep ==
    ASSUME IInv, NEW q \in Queue, Pending(q), NEW e, e = Current(q), NEW out, Sequence(out),
           Publish(q, out),
           \A o \in Elements(out) : /\ Publishable(o)
                                    /\ \A n \in Needs(o) : n \in Needs(e) \/ Covered(out, n),
           \A n : Covered(Leads(e), n) <=> Covered(out, n),
           UNCHANGED <<input, requested, outbox, graph, indexed, alerts, resets, quiet>>,
           attempts' \in Nat
    PROVE  IInv'
<1> DEFINE added == Elements(out)
<1>0. Shape /\ LogSound /\ Requests /\ NodesAwaited
  BY DEF IInv
<1>1. /\ \A r \in Queue : Sequence(log[r])
      /\ log = [r \in Queue |-> log[r]]
      /\ pos \in [Queue -> Nat]
      /\ input \in Scenarios /\ faults \in 0..input.maxFaults /\ resets \in 0..input.maxResets
      /\ \A r \in Queue : pos[r] \in 1..(Len(log[r]) + 1)
  BY <1>0 DEF Shape
<1>2. input.maxFaults \in Nat /\ input' = input /\ requested' = requested
  BY <1>1, ScenarioAssumption
<1>3. /\ log' = [r \in Queue |-> log'[r]]
      /\ \A r \in Queue : Grows(log[r], log'[r], {o \in added : QueueOf(o) = r})
      /\ faults' \in 0..input.maxFaults
      /\ \/ pos' = pos
         \/ /\ pos' = [pos EXCEPT ![q] = @ + 1]
            /\ \A o \in added : QueueOf(o) \in Queue =>
                 Has(log[QueueOf(o)], log'[QueueOf(o)], o)
  BY <1>1, <1>2, PublishGrows, Zenon
<1>4. /\ \A o \in added : RecordSound(o) /\ QueueOf(o) \in Queue
      /\ \A o \in added : \A n \in Needs(o) : n \in Needs(e) \/ Covered(out, n)
  BY DEF Publishable
<1>5. \A n : Covered(out, n) => \E o \in added : Names(o, n)
  BY DEF Covered
<1> HIDE DEF added
<1>6. /\ LogSound'
      /\ \A r \in Queue : /\ Sequence(log'[r]) /\ Len(log[r]) \in Nat
                          /\ Len(log'[r]) \in Nat /\ Len(log[r]) <= Len(log'[r])
  BY <1>0, <1>2, <1>3, <1>4, LogStep
<1>7. /\ pos[q] \in 1..Len(log[q]) /\ e = log[q][pos[q]]
  BY <1>1, <1>6 DEF Pending, Current
<1>8. /\ pos' \in [Queue -> Nat]
      /\ \A r \in Queue : /\ pos'[r] \in 1..(Len(log[r]) + 1)
                          /\ pos'[r] = pos[r] \/ (r = q /\ pos'[r] = pos[r] + 1)
  <2>1. pos' = pos \/ pos' = [pos EXCEPT ![q] = @ + 1]
    BY <1>3, Zenon
  <2>2. pos[q] + 1 \in 1..(Len(log[q]) + 1)
    BY <1>6, <1>7
  <2>3. CASE pos' = pos
    BY <1>1, <2>3
  <2>4. CASE pos' = [pos EXCEPT ![q] = @ + 1]
    <3>1. pos[q] + 1 \in Nat
      BY <2>2, <1>6
    <3> QED
      BY <1>1, <2>2, <2>4, <3>1
  <2> QED
    BY <2>1, <2>3, <2>4
<1>9. Shape'
  <2>1. \A r \in Queue : pos'[r] \in 1..(Len(log'[r]) + 1)
    BY <1>6, <1>8
  <2> QED
    BY <1>1, <1>2, <1>3, <1>6, <1>8, <2>1 DEF Shape
<1>10. ASSUME NEW n, Covered(out, n)
       PROVE  Awaited(n)'
  <2>1. CASE pos' = pos
    <3>1. Covered(Leads(e), n)
      BY <1>10
    <3>2. log'[q][pos[q]] = e /\ pos[q] \in pos'[q]..Len(log'[q])
      BY <1>3, <1>6, <1>7, <2>1 DEF Grows
    <3> QED
      BY <3>1, <3>2 DEF Awaited
  <2>2. CASE /\ pos' = [pos EXCEPT ![q] = @ + 1]
             /\ \A o \in added : QueueOf(o) \in Queue =>
                  Has(log[QueueOf(o)], log'[QueueOf(o)], o)
    <3>1. PICK o \in added : Names(o, n)
      BY <1>5, <1>10
    <3>2. PICK r \in Queue : r = QueueOf(o)
      BY <1>4
    <3>3. Has(log[r], log'[r], o)
      BY <2>2, <3>2
    <3>4. PICK i \in (Len(log[r]) + 1)..Len(log'[r]) : log'[r][i] = o
      BY <3>3 DEF Has
    <3>5. i \in pos'[r]..Len(log'[r])
      BY <1>6, <1>8, <3>4
    <3>6. Covered(Leads(o), n)
      BY <3>1, LeadsItself
    <3> QED
      BY <3>4, <3>5, <3>6 DEF Awaited
  <2> QED
    BY <1>3, <2>1, <2>2
<1>11. \A n : Awaited(n) => Awaited(n)'
  <2>1. \A r \in Queue : \A i \in 1..Len(log[r]) : log'[r][i] = log[r][i]
    BY <1>3 DEF Grows
  <2>2. ASSUME NEW r \in Queue, NEW i \in pos[r]..Len(log[r]), ~ (pos'[r] <= i)
        PROVE  \A n : Covered(Leads(log[r][i]), n) => Awaited(n)'
    <3>1. r = q /\ i = pos[q]
      BY <1>1, <1>6, <1>8, <2>2
    <3>2. log[r][i] = e
      BY <1>7, <3>1
    <3> QED
      BY <1>10, <3>2
  <2>3. label' = label /\ \A r \in Queue : pos'[r] \in Nat
    BY <1>8 DEF graph
  <2> QED
    BY <1>0, <1>6, <2>1, <2>2, <2>3, AwaitedStep
<1>12. NodesAwaited'
  <2>1. \A n \in Needs(e) : Awaited(n)
    BY <1>0, <1>7 DEF NodesAwaited
  <2>2. \A o \in added : \A n \in Needs(o) : Awaited(n)'
    BY <1>4, <1>10, <1>11, <2>1
  <2>3. node' = node
    BY DEF graph
  <2> QED
    BY <1>0, <1>3, <1>6, <1>11, <2>2, <2>3, NodesStep
<1>13. Requests'
  BY <1>0, <1>2, RequestsStay
<1>14. (GraphClosed /\ GraphSound /\ TakedownsSound /\ AlertsNamed)'
  BY <1>2, StateStays DEF IInv
<1> QED
  BY <1>6, <1>9, <1>12, <1>13, <1>14 DEF IInv

\* The record a worker has before it.
LEMMA CurrentSound ==
    ASSUME IInv, NEW q \in Queue, Pending(q), NEW e, e = Current(q)
    PROVE  /\ RecordSound(e) /\ e.topic = q[1] /\ input \in Scenarios
           /\ Len(log[q]) \in Nat /\ pos[q] \in 1..Len(log[q]) /\ e = log[q][pos[q]]
<1>1. Shape /\ LogSound
  BY DEF IInv
<1>2. Len(log[q]) \in Nat /\ pos[q] \in 1..(Len(log[q]) + 1) /\ input \in Scenarios
  BY <1>1, SelfTyped DEF Shape, Sequence
<1>3. pos[q] \in 1..Len(log[q]) /\ e = log[q][pos[q]]
  BY <1>2 DEF Pending, Current
<1>4. RecordSound(e) /\ QueueOf(e) = q
  BY <1>1, <1>3 DEF LogSound
<1>5. e.topic = q[1]
  BY <1>4 DEF QueueOf
<1> QED
  BY <1>2, <1>3, <1>4, <1>5

LEMMA EntityResolutionStep ==
    ASSUME IInv, NEW q \in Queue, EntityResolution(q)
    PROVE  IInv'
<1>1. PICK e : e = Current(q)
  OBVIOUS
<1>2. Pending(q) /\ q[1] \in {"mention", "relationship"}
  BY DEF EntityResolution
<1>3. RecordSound(e) /\ e.topic = q[1] /\ input \in Scenarios
  BY <1>1, <1>2, CurrentSound
<1> DEFINE out == EntityRecords(e)
<1>4. /\ Sequence(out)
      /\ \A o \in Elements(out) :
           Publishable(o) /\ \A n \in Needs(o) : n \in Needs(e) \/ Covered(out, n)
  BY <1>2, <1>3, EntityOutputs
<1>5. Leads(e) = out
  BY <1>2, <1>3 DEF Leads
<1> HIDE DEF out
<1>6. Publish(q, out)
  BY <1>1 DEF EntityResolution, out
<1>7. UNCHANGED <<input, requested, outbox, graph, indexed, alerts, resets, quiet>>
  BY DEF EntityResolution, search
<1>8. attempts' \in Nat
  BY DEF EntityResolution, IInv, Shape
<1> QED
  BY <1>1, <1>2, <1>4, <1>5, <1>6, <1>7, <1>8, PublishStep

LEMMA ClaimIntelligenceStep ==
    ASSUME IInv, NEW q \in Queue, ClaimIntelligence(q)
    PROVE  IInv'
<1>1. PICK e : e = Current(q)
  OBVIOUS
<1>2. Pending(q) /\ q[1] = "claim"
  BY DEF ClaimIntelligence
<1>3. RecordSound(e) /\ e.topic = q[1] /\ input \in Scenarios
  BY <1>1, <1>2, CurrentSound
<1> DEFINE out == ClaimRecords(e)
<1>4. /\ Sequence(out)
      /\ \A o \in Elements(out) :
           Publishable(o) /\ \A n \in Needs(o) : n \in Needs(e) \/ Covered(out, n)
  BY <1>2, <1>3, ClaimOutputs
<1>5. Leads(e) = out
  BY <1>2, <1>3 DEF Leads
<1> HIDE DEF out
<1>6. Publish(q, out)
  BY <1>1 DEF ClaimIntelligence, out
<1>7. UNCHANGED <<input, requested, outbox, graph, indexed, alerts, resets, quiet>>
  BY DEF ClaimIntelligence, search
<1>8. attempts' \in Nat
  BY DEF ClaimIntelligence, IInv, Shape
<1> QED
  BY <1>1, <1>2, <1>4, <1>5, <1>6, <1>7, <1>8, PublishStep

-------------------------------------------------------------------------------
(* The workers that only write *)

\* Handling a record without publishing: the offset moves past it or stays.
LEMMA ConsumeStep ==
    ASSUME IInv, NEW q \in Queue, Pending(q), CommitOrDie(q),
           UNCHANGED <<input, log, requested, outbox, quiet, attempts, resets>>
    PROVE  /\ Shape' /\ LogSound' /\ Requests'
           /\ \A r \in Queue : /\ pos'[r] \in Nat
                               /\ pos'[r] = pos[r] \/ (r = q /\ pos'[r] = pos[r] + 1)
<1>1. Shape /\ LogSound /\ Requests
  BY DEF IInv
<1>2. /\ \A r \in Queue : Sequence(log[r]) /\ Len(log[r]) \in Nat
      /\ log = [r \in Queue |-> log[r]]
      /\ pos \in [Queue -> Nat]
      /\ input \in Scenarios /\ faults \in 0..input.maxFaults /\ resets \in 0..input.maxResets
      /\ \A r \in Queue : pos[r] \in 1..(Len(log[r]) + 1)
      /\ attempts \in Nat
  BY <1>1, SelfTyped DEF Shape, Sequence
<1>3. input.maxFaults \in Nat
  BY <1>2, ScenarioAssumption
<1>4. pos' = pos \/ pos' = [pos EXCEPT ![q] = @ + 1]
  BY DEF CommitOrDie
<1>5. faults' \in 0..input.maxFaults
  BY <1>2, <1>3 DEF CommitOrDie
<1>6. pos[q] \in 1..Len(log[q])
  BY <1>2 DEF Pending
<1>7. /\ pos' \in [Queue -> Nat]
      /\ \A r \in Queue : /\ pos'[r] \in 1..(Len(log[r]) + 1)
                          /\ pos'[r] = pos[r] \/ (r = q /\ pos'[r] = pos[r] + 1)
  BY <1>2, <1>4, <1>6
<1>8. Shape'
  BY <1>2, <1>5, <1>7 DEF Shape
<1>9. LogSound'
  <2>1. \A r \in Queue : Grows(log[r], log'[r], {e \in {} : QueueOf(e) = r})
    BY <1>2, Stays
  <2> QED
    BY <1>1, <2>1, LogStep
<1>10. Requests'
  BY <1>1, RequestsStay
<1> QED
  BY <1>7, <1>8, <1>9, <1>10

\* The nodes stay awaited when those the record handled leads to do.
LEMMA ConsumeNodes ==
    ASSUME IInv, NEW q \in Queue, Pending(q), CommitOrDie(q),
           UNCHANGED <<input, log, requested, outbox, quiet, attempts, resets>>,
           NEW e, e = Current(q),
           \A n : Covered(Leads(e), n) => Awaited(n)', label \subseteq label',
           \A n \in node' : n \in node \/ n \in Needs(e)
    PROVE  NodesAwaited'
<1>1. Shape /\ NodesAwaited
  BY DEF IInv
<1>2. \A r \in Queue : Sequence(log[r]) /\ Len(log[r]) \in Nat /\ pos[r] \in Nat
  BY <1>1, SelfTyped DEF Shape, Sequence
<1>3. \A r \in Queue : /\ pos'[r] \in Nat
                       /\ pos'[r] = pos[r] \/ (r = q /\ pos'[r] = pos[r] + 1)
  BY ConsumeStep
<1>4. pos[q] \in 1..Len(log[q]) /\ e = log[q][pos[q]]
  BY CurrentSound
<1>5. ASSUME NEW r \in Queue, NEW i \in pos[r]..Len(log[r]), ~ (pos'[r] <= i)
      PROVE  \A n : Covered(Leads(log[r][i]), n) => Awaited(n)'
  <2>1. r = q /\ i = pos[q]
    BY <1>2, <1>3, <1>5
  <2> QED
    BY <1>4, <2>1
<1>6. \A n : Awaited(n) => Awaited(n)'
  BY <1>1, <1>2, <1>3, <1>5, AwaitedStep
<1>7. \A n \in Needs(e) : Awaited(n)
  BY <1>1, <1>4 DEF NodesAwaited
<1>8. \A r \in Queue : Grows(log[r], log'[r], {o \in {} : QueueOf(o) = r})
  BY <1>2, Stays
<1> QED
  BY <1>1, <1>2, <1>6, <1>7, <1>8, NodesStep

\* Records that lead to no mutation.
LEMMA LeadsNowhere ==
    ASSUME NEW e, e.topic \notin {"graph", "nlp-requested", "mention", "relationship", "claim"}
    PROVE  \A n : ~ Covered(Leads(e), n)
<1>1. Leads(e) = <<>>
  BY DEF Leads
<1>2. Elements(<<>>) = {}
  BY DEF Elements
<1> QED
  BY <1>1, <1>2 DEF Covered

LEMMA NlpPipelineStep ==
    ASSUME IInv, NEW q \in Queue, NlpPipeline(q)
    PROVE  IInv'
<1>1. PICK e : e = Current(q)
  OBVIOUS
<1>2. Pending(q) /\ q[1] = "nlp-requested"
  BY DEF NlpPipeline
<1>3. RecordSound(e) /\ e.topic = q[1] /\ input \in Scenarios
  BY <1>1, <1>2, CurrentSound
<1>4. UNCHANGED <<input, requested, outbox, graph, indexed, alerts, resets, quiet>>
  BY DEF NlpPipeline, search
<1>5. CASE /\ ExtractRefuses(e.payload.text)
           /\ CommitOrDie(q) /\ UNCHANGED <<log, attempts>>
  <2>1. Leads(e) = <<>>
    BY <1>2, <1>3, <1>5 DEF Leads
  <2>2. \A n : ~ Covered(Leads(e), n)
    BY <2>1 DEF Covered, Elements
  <2>3. node' = node /\ label' = label
    BY <1>4 DEF graph
  <2>4. Shape' /\ LogSound' /\ Requests'
    BY <1>2, <1>4, <1>5, ConsumeStep
  <2>5. NodesAwaited'
    BY <1>1, <1>2, <1>4, <1>5, <2>2, <2>3, ConsumeNodes
  <2>6. (GraphClosed /\ GraphSound /\ TakedownsSound /\ AlertsNamed)'
    BY <1>4, StateStays DEF IInv
  <2> QED
    BY <2>4, <2>5, <2>6 DEF IInv
<1>6. CASE /\ ~ ExtractRefuses(e.payload.text)
           /\ Publish(q, NlpRecords(e.tenant, e.payload))
           /\ attempts' = attempts + 1
  <2>1. PICK x \in Read(input) : e.tenant = x.tenant /\ e.payload = x.document
    BY <1>2, <1>3, <1>6 DEF RecordSound, Read
  <2>2. PICK out : out = NlpRecords(x.tenant, x.document)
    OBVIOUS
  <2>3. /\ Sequence(out)
        /\ \A o \in Elements(out) : Publishable(o) /\ \A n \in Needs(o) : Covered(out, n)
        /\ \A n : Covered(out, n) <=> n \in BaseNodes(x.tenant, x.document)
    BY <1>3, <2>2, NlpOutputs
  <2>4. Leads(e) = Mutations(x.tenant, graph_base_mutations(x.document))
    BY <1>2, <1>3, <1>6, <2>1 DEF Leads
  <2>5. \A n : Covered(Leads(e), n) <=> Covered(out, n)
    BY <1>3, <2>3, <2>4, BaseMutations
  <2>6. Publish(q, out)
    BY <1>6, <2>1, <2>2
  <2>7. attempts' \in Nat
    BY <1>6 DEF IInv, Shape
  <2> QED
    BY <1>1, <1>2, <1>4, <2>3, <2>5, <2>6, <2>7, PublishStep
<1> QED
  BY <1>1, <1>5, <1>6 DEF NlpPipeline

LEMMA VelatoEngineStep ==
    ASSUME IInv, NEW q \in Queue, VelatoEngine(q)
    PROVE  IInv'
<1>1. PICK e : e = Current(q)
  OBVIOUS
<1>2. /\ Pending(q) /\ q[1] = "policy" /\ CommitOrDie(q)
      /\ UNCHANGED <<input, log, requested, outbox, graph, indexed, attempts, resets, quiet>>
      /\ alerts' = alerts \cup {[id |-> stable_alert_id(e), tenant |-> e.tenant,
                                 document |-> e.payload.document]}
  BY <1>1 DEF VelatoEngine, search
<1>3. RecordSound(e) /\ e.topic = "policy"
  BY <1>1, <1>2, CurrentSound
<1>4. \A n : ~ Covered(Leads(e), n)
  BY <1>3, LeadsNowhere
<1>5. node' = node /\ label' = label
  BY <1>2 DEF graph
<1>6. Shape' /\ LogSound' /\ Requests'
  BY <1>2, ConsumeStep
<1>7. NodesAwaited'
  BY <1>1, <1>2, <1>4, <1>5, ConsumeNodes
<1>8. \A a \in alerts' : a \in alerts \/ a.id = <<a.tenant, <<"policy", a.document>>>>
  <2>1. e.payload.idempotency_key = <<"policy", e.payload.document>>
    BY <1>3 DEF RecordSound
  <2> QED
    BY <1>2, <2>1 DEF stable_alert_id
<1>9. (GraphClosed /\ GraphSound /\ TakedownsSound /\ AlertsNamed)'
  BY <1>2, <1>8, StateStays DEF IInv
<1> QED
  BY <1>6, <1>7, <1>9 DEF IInv

LEMMA GraphAnalyticsStep ==
    ASSUME IInv, NEW q \in Queue, GraphAnalytics(q)
    PROVE  IInv'
<1>1. PICK e : e = Current(q)
  OBVIOUS
<1>2. /\ Pending(q) /\ q[1] = "analytics" /\ CommitOrDie(q)
      /\ UNCHANGED <<input, log, requested, outbox, graph, indexed, alerts, attempts, resets,
                     quiet>>
  BY DEF GraphAnalytics, search
<1>3. RecordSound(e) /\ e.topic = "analytics"
  BY <1>1, <1>2, CurrentSound
<1>4. \A n : ~ Covered(Leads(e), n)
  BY <1>3, LeadsNowhere
<1>5. node' = node /\ label' = label
  BY <1>2 DEF graph
<1>6. Shape' /\ LogSound' /\ Requests'
  BY <1>2, ConsumeStep
<1>7. NodesAwaited'
  BY <1>1, <1>2, <1>4, <1>5, ConsumeNodes
<1>8. (GraphClosed /\ GraphSound /\ TakedownsSound /\ AlertsNamed)'
  BY <1>2, StateStays DEF IInv
<1> QED
  BY <1>6, <1>7, <1>8 DEF IInv

LEMMA SearchProjectorStep ==
    ASSUME IInv, NEW q \in Queue, SearchProjector(q)
    PROVE  IInv'
<1>1. PICK e : e = Current(q)
  OBVIOUS
<1>2. /\ Pending(q) /\ q[1] \in {"normalized", "takedown", "resolved", "clustered"}
      /\ CommitOrDie(q) /\ Project(e)
      /\ UNCHANGED <<input, log, requested, outbox, graph, alerts, attempts, resets, quiet>>
  BY <1>1 DEF SearchProjector
<1>3. RecordSound(e) /\ e.topic = q[1]
  BY <1>1, <1>2, CurrentSound
<1>4. \A n : ~ Covered(Leads(e), n)
  BY <1>2, <1>3, LeadsNowhere
<1>5. node' = node /\ label' = label
  BY <1>2 DEF graph
<1>6. Shape' /\ LogSound' /\ Requests'
  BY <1>2, ConsumeStep
<1>7. NodesAwaited'
  BY <1>1, <1>2, <1>4, <1>5, ConsumeNodes
<1>8. indexed' \subseteq indexed \cup ExpectedIndex[input]
  <2>1. CASE e.topic \in {"normalized", "takedown"}
    <3>1. indexed' = indexed
      BY <1>2, <2>1 DEF Project
    <3> QED
      BY <3>1
  <2>2. CASE e.topic \in {"resolved", "clustered"}
    <3>1. indexed' = indexed \cup {<<e.tenant, e.payload>>}
      BY <1>2, <2>2 DEF Project
    <3>2. <<e.tenant, e.payload>> \in ExpectedIndex[input]
      BY <1>3, <2>2 DEF RecordSound
    <3> QED
      BY <3>1, <3>2
  <2> QED
    BY <1>2, <1>3, <2>1, <2>2
<1>9. (GraphClosed /\ GraphSound /\ TakedownsSound /\ AlertsNamed)'
  BY <1>2, <1>8, StateStays DEF IInv
<1> QED
  BY <1>6, <1>7, <1>9 DEF IInv

-------------------------------------------------------------------------------
(* The control plane, the operator and the search engine *)

\* No record is handled; records that need no node may be appended, and offsets may
\* be set back.
LEMMA PassiveStep ==
    ASSUME IInv, Requests', input' = input, requested \subseteq requested', NEW added,
           \A e \in added : RecordSound(e) /\ Needs(e) = {},
           log' = [r \in Queue |-> log'[r]],
           \A r \in Queue : Grows(log[r], log'[r], {e \in added : QueueOf(e) = r}),
           pos' \in [Queue -> Nat], \A r \in Queue : pos'[r] \in 1..pos[r],
           UNCHANGED <<graph, indexed, alerts, attempts, faults>>,
           resets' \in 0..input.maxResets
    PROVE  IInv'
<1>1. Shape /\ LogSound /\ NodesAwaited
  BY DEF IInv
<1>2. \A r \in Queue : pos[r] \in Nat /\ pos[r] \in 1..(Len(log[r]) + 1)
  BY <1>1 DEF Shape
<1>3. /\ LogSound'
      /\ \A r \in Queue : /\ Sequence(log'[r]) /\ Len(log[r]) \in Nat
                          /\ Len(log'[r]) \in Nat /\ Len(log[r]) <= Len(log'[r])
  BY <1>1, LogStep
<1>4. Shape'
  <2>1. \A r \in Queue : pos'[r] \in 1..(Len(log'[r]) + 1)
    BY <1>2, <1>3
  <2> QED
    BY <1>1, <1>3, <2>1 DEF Shape
<1>5. \A n : Awaited(n) => Awaited(n)'
  <2>1. \A r \in Queue : \A i \in 1..Len(log[r]) : log'[r][i] = log[r][i]
    BY DEF Grows
  <2>2. \A r \in Queue : pos'[r] \in Nat /\ \A i \in pos[r]..Len(log[r]) : pos'[r] <= i
    BY <1>2, <1>3
  <2>3. label' = label
    BY DEF graph
  <2> QED
    BY <1>1, <1>3, <2>1, <2>2, <2>3, AwaitedStep
<1>6. NodesAwaited'
  <2>1. node' = node
    BY DEF graph
  <2> QED
    BY <1>1, <1>3, <1>5, <2>1, NodesStep
<1>7. (GraphClosed /\ GraphSound /\ TakedownsSound /\ AlertsNamed)'
  BY StateStays DEF IInv
<1> QED
  BY <1>3, <1>4, <1>6, <1>7 DEF IInv

\* The logs as they are.
LEMMA LogsStay ==
    ASSUME IInv, log' = log
    PROVE  /\ log' = [r \in Queue |-> log'[r]]
           /\ \A r \in Queue : Grows(log[r], log'[r], {e \in {} : QueueOf(e) = r})
<1>1. /\ log = [r \in Queue |-> log[r]]
      /\ \A r \in Queue : Sequence(log[r])
  BY DEF IInv, Shape
<1>2. \A r \in Queue : Grows(log[r], log'[r], {e \in {} : QueueOf(e) = r})
  BY <1>1, Stays
<1> QED
  BY <1>1, <1>2

LEMMA OffsetsStay ==
    ASSUME IInv, pos' = pos, resets' = resets
    PROVE  /\ pos' \in [Queue -> Nat] /\ \A r \in Queue : pos'[r] \in 1..pos[r]
           /\ resets' \in 0..input.maxResets
<1>1. /\ pos \in [Queue -> Nat] /\ resets \in 0..input.maxResets
      /\ \A r \in Queue : pos[r] \in 1..(Len(log[r]) + 1)
  BY DEF IInv, Shape
<1>2. \A r \in Queue : pos[r] \in Nat
  BY <1>1
<1>3. \A r \in Queue : pos[r] \in 1..pos[r]
  BY <1>1, <1>2
<1> QED
  BY <1>1, <1>3

LEMMA RefreshStep ==
    ASSUME IInv, Refresh
    PROVE  IInv'
<1>1. UNCHANGED <<input, log, pos, requested, outbox, graph, indexed, alerts, attempts,
                  faults, resets, quiet>>
  BY DEF Refresh
<1>2. Requests'
  BY <1>1, RequestsStay DEF IInv
<1> QED
  BY <1>1, <1>2, LogsStay, OffsetsStay, PassiveStep

LEMMA ResetOffsetsStep ==
    ASSUME IInv, NEW q \in Queue, ResetOffsets(q)
    PROVE  IInv'
<1>1. UNCHANGED <<input, log, requested, outbox, graph, indexed, alerts, attempts, faults,
                  quiet>>
  BY DEF ResetOffsets, search
<1>2. Requests'
  BY <1>1, RequestsStay DEF IInv
<1>3. /\ pos \in [Queue -> Nat] /\ resets \in 0..input.maxResets /\ input \in Scenarios
      /\ \A r \in Queue : pos[r] \in 1..(Len(log[r]) + 1)
  BY DEF IInv, Shape
<1>4. input.maxResets \in Nat
  BY <1>3, ScenarioAssumption
<1>5. resets' \in 0..input.maxResets
  BY <1>3, <1>4 DEF ResetOffsets
<1>6. PICK n \in 1..(pos[q] - 1) : pos' = [pos EXCEPT ![q] = n]
  BY DEF ResetOffsets
<1>7. pos' \in [Queue -> Nat] /\ \A r \in Queue : pos'[r] \in 1..pos[r]
  <2>1. \A r \in Queue : pos[r] \in Nat /\ pos[r] \in 1..pos[r]
    BY <1>3
  <2>2. n \in Nat /\ n \in 1..pos[q]
    BY <1>6, <2>1
  <2> QED
    BY <1>3, <1>6, <2>1, <2>2
<1> QED
  BY <1>1, <1>2, <1>5, <1>7, LogsStay, PassiveStep

LEMMA AnnounceStep ==
    ASSUME IInv, NEW e, Announce(e)
    PROVE  IInv'
<1>1. /\ e \in outbox /\ outbox' = outbox \ {e} /\ log' = Appended(log, <<e>>)
      /\ UNCHANGED <<input, pos, requested, graph, indexed, alerts, attempts, faults, resets,
                     quiet>>
  BY DEF Announce, search
<1>2. RecordSound(e)
  BY <1>1 DEF IInv, Requests
<1>3. Needs(e) = {}
  <2>1. CASE e.topic = "takedown"
    BY <2>1 DEF Needs
  <2>2. CASE e.topic = "graph"
    <3>1. e.payload.type = "takedown"
      BY <1>1, <2>2 DEF IInv, Requests
    <3> QED
      BY <2>2, <3>1 DEF Needs, Merged
  <2> QED
    BY <1>1, <2>1, <2>2 DEF IInv, Requests
<1>4. Requests'
  <2>1. /\ \A o : RecordSound(o) => RecordSound(o)'
        /\ \A o : QueueOf(o)' = QueueOf(o)
    BY <1>1, SoundStays
  <2>2. \A o \in outbox' : /\ RecordSound(o)' /\ QueueOf(o)' \in Queue
                           /\ o.topic \in {"takedown", "graph"}
                           /\ o.topic = "graph" => o.payload.type = "takedown"
    BY <1>1, <2>1 DEF IInv, Requests
  <2>3. quiet' \subseteq requested' /\ requested' \subseteq input'.takedowns
    BY <1>1 DEF IInv, Requests
  <2> QED
    BY <2>2, <2>3 DEF Requests
<1>5. /\ log' = [r \in Queue |-> log'[r]]
      /\ \A r \in Queue : Grows(log[r], log'[r], {o \in {e} : QueueOf(o) = r})
  <2>1. \A r \in Queue : Sequence(log[r])
    BY DEF IInv, Shape
  <2>2. Sequence(<<e>>) /\ Elements(<<e>>) = {e}
    BY Tuples
  <2> HIDE DEF QueueOf
  <2>3. PICK s : s = <<e>>
    OBVIOUS
  <2>4. /\ Appended(log, s) = [r \in Queue |-> Appended(log, s)[r]]
        /\ \A r \in Queue : Grows(log[r], Appended(log, s)[r],
                                  {o \in Elements(s) : QueueOf(o) = r})
    <3>1. Sequence(s)
      BY <2>2, <2>3
    <3> HIDE <2>2, <2>3
    <3> QED
      BY <2>1, <3>1, AppendedGrows, Zenon
  <2>5. log' = Appended(log, s) /\ Elements(s) = {e}
    BY <1>1, <2>2, <2>3
  <2> QED
    BY <2>4, <2>5
<1>6. \A o \in {e} : RecordSound(o) /\ Needs(o) = {}
  BY <1>2, <1>3
<1>7. /\ pos' \in [Queue -> Nat] /\ \A r \in Queue : pos'[r] \in 1..pos[r]
      /\ resets' \in 0..input.maxResets
  BY <1>1, OffsetsStay
<1> QED
  BY <1>1, <1>4, <1>5, <1>6, <1>7, PassiveStep

LEMMA RequestTakedownStep ==
    ASSUME IInv, NEW tenant \in Tenant, NEW source \in Source, RequestTakedown(tenant, source)
    PROVE  IInv'
<1> DEFINE a == Record("takedown", <<"request", source>>, tenant, source)
           b == Record("graph", <<"source", source>>, tenant,
                       [type |-> "takedown", id |-> <<"source", source>>])
<1>1. /\ <<tenant, source>> \in input.takedowns
      /\ requested' = requested \cup {<<tenant, source>>}
      /\ outbox' = outbox \cup {a, b}
      /\ quiet' \in {quiet, quiet \cup {<<tenant, source>>}}
      /\ UNCHANGED <<input, log, pos, graph, indexed, alerts, attempts, faults, resets>>
  BY DEF RequestTakedown, search
<1>2. /\ a.topic = "takedown" /\ a.key[1] = "request" /\ a.tenant = tenant
      /\ b.topic = "graph" /\ b.key[1] = "source" /\ b.tenant = tenant
      /\ b.payload.type = "takedown" /\ b.payload.id = <<"source", source>>
  BY DEF Record
<1>3. input \in Scenarios
  BY DEF IInv, Shape
<1> HIDE DEF a, b
<1>4. RecordSound(a)' /\ RecordSound(b)'
  <2>1. MutationSound(b)'
    <3>1. \E t \in requested' : tenant = t[1] /\ <<"source", source>> = <<"source", t[2]>>
      BY <1>1
    <3> QED
      BY <1>2, <3>1 DEF MutationSound
  <2> QED
    BY <1>2, <2>1 DEF RecordSound
<1>5. QueueOf(a) \in Queue /\ QueueOf(b) \in Queue
  BY <1>2, <1>3, HasQueue DEF Topic, Kind
<1>6. Requests'
  <2>1. /\ \A o : RecordSound(o) => RecordSound(o)'
        /\ \A o : QueueOf(o)' = QueueOf(o)
    BY <1>1, SoundStays
  <2>2. \A o \in outbox' : /\ RecordSound(o)' /\ QueueOf(o)' \in Queue
                           /\ o.topic \in {"takedown", "graph"}
                           /\ o.topic = "graph" => o.payload.type = "takedown"
    BY <1>1, <1>2, <1>4, <1>5, <2>1 DEF IInv, Requests
  <2>3. quiet' \subseteq requested' /\ requested' \subseteq input'.takedowns
    BY <1>1 DEF IInv, Requests
  <2> QED
    BY <2>2, <2>3 DEF Requests
<1>7. requested \subseteq requested'
  BY <1>1
<1> QED
  BY <1>1, <1>6, <1>7, LogsStay, OffsetsStay, PassiveStep

-------------------------------------------------------------------------------
(* The graph projector *)

LEMMA GraphProjectorStep ==
    ASSUME IInv, NEW q \in Queue, GraphProjector(q)
    PROVE  IInv'
<1>1. PICK e : e = Current(q)
  OBVIOUS
<1>2. /\ Pending(q) /\ q[1] = "graph" /\ CommitOrDie(q) /\ Apply(e)
      /\ UNCHANGED <<input, log, requested, outbox, indexed, alerts, attempts, resets, quiet>>
  BY <1>1 DEF GraphProjector, search
<1>3. RecordSound(e) /\ e.topic = "graph"
  BY <1>1, <1>2, CurrentSound
<1>4. e.tenant \in Tenant /\ MutationSound(e)
  BY <1>3 DEF RecordSound
<1>5. GraphClosed /\ GraphSound /\ TakedownsSound /\ AlertsNamed
  BY DEF IInv
<1>6. Shape' /\ LogSound' /\ Requests'
  BY <1>2, ConsumeStep
<1> DEFINE t == e.tenant
           m == e.payload
<1>7. node' = node \cup Merged(e)
  BY <1>2 DEF Apply
<1>8. AlertsNamed'
  BY <1>2, <1>5 DEF AlertsNamed
<1>9. \A l \in link : \E c \in Called(l)' : States(l.id, c)'
  <2> TAKE l \in link
  <2>1. PICK c \in Called(l) : States(l.id, c)
    BY <1>5 DEF GraphSound
  <2>2. Called(l)' = Called(l)
    BY <1>2 DEF Called
  <2>3. \A id, k : States(id, k) => States(id, k)'
    BY <1>2, Zenon DEF States
  <2> QED
    BY <2>1, <2>2, <2>3
<1>10. CASE m.type = "upsert"
  <2>1. /\ m.labels # {}
        /\ \A l \in m.labels : <<GraphNode(t, m.id), l>> \in ExpectedLabels[input]
    BY <1>4, <1>10 DEF MutationSound
  <2>2. Merged(e) = {<<t, m.id>>}
    BY <1>10 DEF Merged, GraphNode
  <2>3. /\ label' = label \cup ({<<t, m.id>>} \X m.labels)
        /\ link' = link /\ takedown' = takedown
    BY <1>2, <1>10, <2>2 DEF Apply
  <2>4. GraphClosed'
    BY <1>4, <1>5, <1>7, <2>2, <2>3 DEF GraphClosed
  <2>5. GraphSound'
    <3>1. label' \subseteq ExpectedLabels[input]
      BY <1>5, <2>1, <2>3 DEF GraphSound, GraphNode
    <3> QED
      BY <1>2, <1>5, <1>9, <2>3, <3>1 DEF GraphSound
  <2>6. TakedownsSound'
    BY <1>2, <1>5, <2>3 DEF TakedownsSound
  <2>7. NodesAwaited'
    <3>1. PICK l \in m.labels : TRUE
      BY <2>1
    <3>2. <<<<t, m.id>>, l>> \in label'
      BY <2>3
    <3>3. Awaited(<<t, m.id>>)'
      <4>1. PICK w : w = <<<<t, m.id>>, l>>
        OBVIOUS
      <4>2. w[1] = <<t, m.id>> /\ w \in label'
        BY <3>2, <4>1
      <4> QED
        BY <4>2 DEF Awaited
    <3>4. \A n : Covered(Leads(e), n) => n = <<t, m.id>>
      <4>1. Leads(e) = <<e>> /\ Elements(<<e>>) = {e}
        BY <1>3, Tuples DEF Leads
      <4> QED
        BY <2>2, <4>1 DEF Covered, Names
    <3>5. Needs(e) = Merged(e) /\ label \subseteq label'
      BY <1>3, <2>3 DEF Needs
    <3> QED
      BY <1>1, <1>2, <1>7, <3>3, <3>4, <3>5, ConsumeNodes
  <2> QED
    BY <1>6, <1>8, <2>4, <2>5, <2>6, <2>7 DEF IInv
<1>11. CASE m.type = "link"
  <2> DEFINE k == [rel |-> m.rel, id |-> m.id, from |-> <<t, m.from>>, to |-> <<t, m.to>>]
  <2>1. PICK c \in ExpectedLinks[input] :
          /\ Ends(c) = <<m.rel, <<t, m.from>>, <<t, m.to>>>>
          /\ States(m.id, c)
    BY <1>4, <1>11 DEF MutationSound, GraphNode
  <2>2. Merged(e) = {<<t, m.from>>, <<t, m.to>>}
    BY <1>11 DEF Merged, GraphNode
  <2>3. label' = label /\ link' = link \cup {k} /\ takedown' = takedown
    BY <1>2, <1>11 DEF Apply, GraphNode
  <2>4. /\ k.rel = m.rel /\ k.id = m.id /\ k.from = <<t, m.from>> /\ k.to = <<t, m.to>>
        /\ k = [rel |-> k.rel, id |-> k.id, from |-> k.from, to |-> k.to]
    OBVIOUS
  <2> HIDE DEF k
  <2>5. GraphClosed'
    BY <1>4, <1>5, <1>7, <2>2, <2>3, <2>4 DEF GraphClosed
  <2>6. GraphSound'
    <3>1. c \in Called(k) /\ States(k.id, c)
      BY <2>1, <2>4 DEF Called
    <3>2. Called(k)' = Called(k)
      BY <1>2 DEF Called
    <3>3. \A id, d : States(id, d) => States(id, d)'
      BY <1>2, Zenon DEF States
    <3>4. \E d \in Called(k)' : States(k.id, d)'
      BY <3>1, <3>2, <3>3
    <3>5. \A l \in link' :
            /\ l = [rel |-> l.rel, id |-> l.id, from |-> l.from, to |-> l.to]
            /\ \E d \in Called(l)' : States(l.id, d)'
      BY <1>5, <1>9, <2>3, <2>4, <3>4 DEF GraphSound
    <3> QED
      BY <1>2, <1>5, <2>3, <3>5 DEF GraphSound
  <2>7. TakedownsSound'
    <3>1. link \subseteq link' /\ takedown' = takedown /\ requested' = requested
      BY <1>2, <2>3
    <3>2. \A n \in takedown : \E r \in requested :
            /\ n[1] = r[1]
            /\ \/ n = <<r[1], <<"source", r[2]>>>>
               \/ \E l \in link' : /\ l.rel = "PUBLISHED" /\ l.from = n
                                   /\ l.to = <<r[1], <<"source", r[2]>>>>
      BY <1>5, <3>1, Zenon DEF TakedownsSound
    <3> QED
      BY <3>1, <3>2 DEF TakedownsSound
  <2>8. NodesAwaited'
    <3>1. \A n : ~ Covered(Leads(e), n)
      <4>1. Leads(e) = <<e>> /\ Elements(<<e>>) = {e}
        BY <1>3, Tuples DEF Leads
      <4> QED
        BY <1>11, <4>1 DEF Covered, Names
    <3>2. Needs(e) = Merged(e) /\ label \subseteq label'
      BY <1>3, <2>3 DEF Needs
    <3> QED
      BY <1>1, <1>2, <1>7, <3>1, <3>2, ConsumeNodes
  <2> QED
    BY <1>6, <1>8, <2>5, <2>6, <2>7, <2>8 DEF IInv
<1>12. CASE m.type = "takedown"
  <2> DEFINE source == <<t, m.id>>
             marked == {l.from : l \in {k \in link : k.rel = "PUBLISHED" /\ k.to = source}}
  <2>1. PICK r \in requested : t = r[1] /\ m.id = <<"source", r[2]>>
    BY <1>4, <1>12 DEF MutationSound
  <2>2. Merged(e) = {}
    BY <1>12 DEF Merged
  <2>3. /\ label' = label /\ link' = link /\ node' = node
        /\ \/ takedown' = takedown
           \/ source \in node /\ takedown' = takedown \cup {source} \cup marked
    BY <1>2, <1>7, <1>12, <2>2 DEF Apply, GraphNode, TakedownMarks
  <2>4. \A n \in marked : \E l \in link : /\ l.rel = "PUBLISHED" /\ l.to = source
                                          /\ n = l.from
    OBVIOUS
  <2> HIDE DEF marked
  <2>5. GraphClosed'
    <3>1. marked \subseteq node
      BY <1>5, <2>4 DEF GraphClosed
    <3>2. takedown' \subseteq node'
      BY <1>5, <2>3, <3>1 DEF GraphClosed
    <3> QED
      BY <1>5, <2>3, <3>2 DEF GraphClosed
  <2>6. GraphSound'
    BY <1>2, <1>5, <1>9, <2>3 DEF GraphSound
  <2>7. TakedownsSound'
    <3>1. \A n \in marked :
            /\ n[1] = r[1]
            /\ \E l \in link : /\ l.rel = "PUBLISHED" /\ l.from = n
                               /\ l.to = <<r[1], <<"source", r[2]>>>>
      <4> TAKE n \in marked
      <4>1. PICK l \in link : l.rel = "PUBLISHED" /\ l.to = source /\ n = l.from
        BY <2>4
      <4>2. l.from[1] = l.to[1]
        BY <1>5 DEF GraphClosed
      <4>3. l.to = <<r[1], <<"source", r[2]>>>> /\ l.to[1] = r[1]
        BY <2>1, <4>1
      <4> QED
        BY <4>1, <4>2, <4>3
    <3>2. source[1] = r[1] /\ source = <<r[1], <<"source", r[2]>>>>
      BY <2>1
    <3> HIDE DEF source
    <3>3. \A n \in takedown' : n \in takedown \/ n = source \/ n \in marked
      BY <2>3
    <3>4. \A n \in takedown' : \E k \in requested' :
            /\ n[1] = k[1]
            /\ \/ n = <<k[1], <<"source", k[2]>>>>
               \/ \E l \in link' : /\ l.rel = "PUBLISHED" /\ l.from = n
                                   /\ l.to = <<k[1], <<"source", k[2]>>>>
      <4> TAKE n \in takedown'
      <4>1. CASE n \in takedown
        BY <1>2, <1>5, <2>3, <4>1 DEF TakedownsSound
      <4>2. CASE n = source
        BY <1>2, <3>2, <4>2
      <4>3. CASE n \in marked
        BY <1>2, <2>3, <3>1, <4>3
      <4> QED
        BY <3>3, <4>1, <4>2, <4>3
    <3> QED
      BY <3>4 DEF TakedownsSound
  <2>8. NodesAwaited'
    <3>1. \A n : ~ Covered(Leads(e), n)
      <4>1. Leads(e) = <<e>> /\ Elements(<<e>>) = {e}
        BY <1>3, Tuples DEF Leads
      <4> QED
        BY <1>12, <4>1 DEF Covered, Names
    <3> QED
      BY <1>1, <1>2, <2>3, <3>1, ConsumeNodes
  <2> QED
    BY <1>6, <1>8, <2>5, <2>6, <2>7, <2>8 DEF IInv
<1> QED
  BY <1>4, <1>10, <1>11, <1>12 DEF MutationSound

-------------------------------------------------------------------------------
(* Theorems *)

LEMMA Inductive == Spec => []IInv
<1>1. Init => IInv
  BY InitInvariant
<1>2. ASSUME IInv, [Next]_vars
      PROVE  IInv'
  <2>1. CASE Refresh
    BY <1>2, <2>1, RefreshStep
  <2>2. ASSUME NEW e \in outbox, Announce(e)
        PROVE  IInv'
    BY <1>2, <2>2, AnnounceStep
  <2>3. ASSUME NEW q \in Queue, GraphProjector(q)
        PROVE  IInv'
    BY <1>2, <2>3, GraphProjectorStep
  <2>4. ASSUME NEW q \in Queue, SearchProjector(q)
        PROVE  IInv'
    BY <1>2, <2>4, SearchProjectorStep
  <2>5. ASSUME NEW q \in Queue, VelatoEngine(q)
        PROVE  IInv'
    BY <1>2, <2>5, VelatoEngineStep
  <2>6. ASSUME NEW q \in Queue, GraphAnalytics(q)
        PROVE  IInv'
    BY <1>2, <2>6, GraphAnalyticsStep
  <2>7. ASSUME NEW q \in Queue, EntityResolution(q)
        PROVE  IInv'
    BY <1>2, <2>7, EntityResolutionStep
  <2>8. ASSUME NEW q \in Queue, ClaimIntelligence(q)
        PROVE  IInv'
    BY <1>2, <2>8, ClaimIntelligenceStep
  <2>9. ASSUME NEW q \in Queue, NlpPipeline(q)
        PROVE  IInv'
    BY <1>2, <2>9, NlpPipelineStep
  <2>10. ASSUME NEW q \in Queue, ResetOffsets(q)
         PROVE  IInv'
    BY <1>2, <2>10, ResetOffsetsStep
  <2>11. ASSUME NEW tenant \in Tenant, NEW source \in Source, RequestTakedown(tenant, source)
         PROVE  IInv'
    BY <1>2, <2>11, RequestTakedownStep
  <2>12. CASE UNCHANGED vars
    <3>1. UNCHANGED <<input, log, pos, requested, outbox, graph, indexed, alerts, attempts,
                      faults, resets, quiet>>
      BY <2>12 DEF vars, search
    <3>2. Requests'
      BY <1>2, <3>1, RequestsStay DEF IInv
    <3> QED
      BY <1>2, <3>1, <3>2, LogsStay, OffsetsStay, PassiveStep
  <2> QED
    BY <1>2, <2>1, <2>2, <2>3, <2>4, <2>5, <2>6, <2>7, <2>8, <2>9, <2>10, <2>11, <2>12
       DEF Next, Progress, Work
<1> QED
  BY <1>1, <1>2, PTL DEF Spec

\* Offsets stay within their partitions, records in the partitions of their keys, and
\* the graph's labels, relationships and marks on its nodes.
THEOREM TypeCorrect == Spec => []TypeOK
<1>1. ASSUME IInv
      PROVE  TypeOK
  <2>1. Shape /\ LogSound /\ Requests /\ GraphClosed
    BY <1>1 DEF IInv
  <2>2. /\ \A q \in Queue : pos[q] \in 1..(Len(log[q]) + 1)
        /\ \A q \in Queue : \A i \in DOMAIN log[q] : QueueOf(log[q][i]) = q
    <3>1. \A q \in Queue : DOMAIN log[q] = 1..Len(log[q])
      BY <2>1, SelfTyped DEF Shape, Sequence
    <3> QED
      BY <2>1, <3>1 DEF Shape, LogSound
  <2>3. quiet \subseteq requested /\ requested \subseteq input.takedowns
    BY <2>1 DEF Requests
  <2>4. node \subseteq Tenant \X {n[2] : n \in node}
    <3>1. \A n \in node : n = <<n[1], n[2]>> /\ n[1] \in Tenant
      BY <2>1 DEF GraphClosed
    <3> QED
      BY <3>1
  <2>5. {l[1] : l \in label} \cup takedown \cup {l.from : l \in link}
          \cup {l.to : l \in link} \subseteq node
    BY <2>1 DEF GraphClosed
  <2> QED
    BY <2>1, <2>2, <2>3, <2>4, <2>5 DEF TypeOK, Shape
<1> QED
  BY <1>1, Inductive, PTL

\* However often the policy worker evaluates a document, and for however many
\* tenants, each tenant has one alert for it, by an id no other alert has.
THEOREM OneAlertPerDocumentAlways == Spec => []OneAlertPerDocument
<1>1. ASSUME IInv
      PROVE  OneAlertPerDocument
  <2>1. AlertsNamed
    BY <1>1 DEF IInv
  <2>2. ASSUME NEW a \in alerts, NEW b \in alerts
        PROVE  a.id = b.id <=> (a.tenant = b.tenant /\ a.document = b.document)
    BY <2>1 DEF AlertsNamed
  <2> QED
    BY <2>2 DEF OneAlertPerDocument
<1> QED
  BY <1>1, Inductive, PTL

\* graph-query filters the entity by tenant and collects evidence and articles from
\* there: it finds only the tenant's, for no relationship crosses tenants.
THEOREM QueriesStayInTenantAlways == Spec => []QueriesStayInTenant
<1>1. ASSUME IInv
      PROVE  QueriesStayInTenant
  <2>1. \A l \in link : l.from[1] = l.to[1]
    BY <1>1 DEF IInv, GraphClosed
  <2>2. ASSUME NEW tenant \in Tenant, NEW n \in node, NEW found \in entity(tenant, n[2])
        PROVE  found[1] = tenant
    <3> DEFINE id == n[2]
               roots == {k \in node : k = <<tenant, id>> /\ <<k, "Entity">> \in label}
    <3>1. \A k \in roots : k[1] = tenant
      OBVIOUS
    <3>2. found \in roots \/ \E l \in link : l.from = found /\ l.to \in roots
      BY <2>2, Zenon DEF entity
    <3> HIDE DEF roots
    <3> QED
      BY <2>1, <3>1, <3>2
  <2> QED
    BY <2>2 DEF QueriesStayInTenant
<1> QED
  BY <1>1, Inductive, PTL

\* A node the projector created bare, ahead of its upsert, is one whose upsert waits
\* in the topic, or in a worker that has still to publish it.
THEOREM PlaceholdersAwaitedAlways == Spec => []PlaceholdersAwaited
<1>1. ASSUME IInv
      PROVE  PlaceholdersAwaited
  <2>1. ASSUME NEW n \in node, \A l \in label : l[1] # n
        PROVE  \E q \in Queue : \E i \in pos[q]..Len(log[q]) :
                 \E e \in Elements(Leads(log[q][i])) :
                   /\ e.topic = "graph" /\ e.payload.type = "upsert"
                   /\ n \in Merged(e)
    <3>1. Awaited(n)
      BY <1>1 DEF IInv, NodesAwaited
    <3>2. \E q \in Queue : \E i \in pos[q]..Len(log[q]) : Covered(Leads(log[q][i]), n)
      BY <2>1, <3>1 DEF Awaited
    <3> QED
      BY <3>2 DEF Covered, Names
  <2> QED
    BY <2>1 DEF PlaceholdersAwaited
<1> QED
  BY <1>1, Inductive, PTL

-------------------------------------------------------------------------------
(* Relationships are as many as what was said *)

\* The image of a finite set is finite, and so is a finite union of finite sets.
LEMMA FiniteImage ==
    ASSUME NEW S, IsFiniteSet(S), NEW f
    PROVE  /\ IsFiniteSet({f[x] : x \in S})
           /\ (\A x \in S : IsFiniteSet(f[x])) => IsFiniteSet(UNION {f[x] : x \in S})
<1> DEFINE T == {f[x] : x \in S}
           g == [x \in S |-> f[x]]
<1>1. g \in Surjection(S, T)
  BY DEF Surjection
<1>2. \A U \in T : \E x \in S : U = f[x]
  OBVIOUS
<1> HIDE DEF g, T
<1>3. IsFiniteSet(T)
  BY <1>1, FS_Surjection
<1>4. (\A x \in S : IsFiniteSet(f[x])) => IsFiniteSet(UNION T)
  BY <1>2, <1>3, FS_UNION
<1> QED
  BY <1>3, <1>4 DEF T

LEMMA PairFinite ==
    ASSUME NEW a, NEW b
    PROVE  IsFiniteSet({a, b})
<1>1. IsFiniteSet({a}) /\ IsFiniteSet({b})
  BY FS_Singleton, Zenon
<1>2. IsFiniteSet({a} \cup {b})
  BY <1>1, FS_Union
<1>3. {a} \cup {b} = {a, b}
  OBVIOUS
<1> QED
  BY <1>2, <1>3

LEMMA ElementsFinite ==
    ASSUME NEW s, Sequence(s)
    PROVE  IsFiniteSet(Elements(s))
<1>1. Len(s) \in Nat /\ DOMAIN s = 1..Len(s)
  BY SelfTyped DEF Sequence
<1>2. IsFiniteSet(1..Len(s))
  BY <1>1, FS_Interval
<1>3. IsFiniteSet({s[i] : i \in 1..Len(s)})
  BY <1>2, FiniteImage
<1> QED
  BY <1>1, <1>3 DEF Elements

\* What a document calls for is finite.
LEMMA LinksFinite ==
    ASSUME NEW s \in Scenarios, NEW x \in Elements(s.documents)
    PROVE  IsFiniteSet(LinksOf(x.document))
<1> DEFINE d == x.document
           base == {<<"PUBLISHED", article_id(d), source_id(d), d.id>>,
                    <<"DERIVED_FROM", article_id(d), d.id, d.id>>}
           ofMention == [m \in Mentions(d) |->
             {<<"MENTIONS", article_id(d), resolve_mention(m), evidence(d.id, m)>>,
              <<"EVIDENCE_FOR", evidence(d.id, m), resolve_mention(m), evidence(d.id, m)>>}]
           ofClaim == [c \in Claims(d) |->
             {<<"MAKES_CLAIM", article_id(d), claim_id(c), claim_id(c)>>,
              <<"EVIDENCE_FOR", evidence(d.id, c), claim_id(c), evidence(d.id, c)>>}]
           ofRelation == [r \in Relations(d) |->
             <<r.predicate, resolve_mention(r.subject), resolve_mention(r.object),
               evidence(d.id, r.sentence)>>]
           A == UNION {ofMention[m] : m \in Mentions(d)}
           B == UNION {ofClaim[c] : c \in Claims(d)}
           C == {ofRelation[r] : r \in Relations(d)}
<1>1. IsFiniteSet(Mentions(d)) /\ IsFiniteSet(Claims(d)) /\ IsFiniteSet(Relations(d))
  <2>1. Sequence(extract[d].mentions) /\ Sequence(extract[d].claims)
        /\ Sequence(extract[d].relations)
    BY ExtractTyped
  <2> HIDE DEF d
  <2> QED
    BY <2>1, ElementsFinite DEF Mentions, Claims, Relations
<1> HIDE DEF d
<1>2. IsFiniteSet(base)
  BY PairFinite
<1>3. IsFiniteSet(A)
  <2>1. \A m \in Mentions(d) : IsFiniteSet(ofMention[m])
    <3> TAKE m \in Mentions(d)
    <3>1. ofMention[m] =
            {<<"MENTIONS", article_id(d), resolve_mention(m), evidence(d.id, m)>>,
             <<"EVIDENCE_FOR", evidence(d.id, m), resolve_mention(m), evidence(d.id, m)>>}
      BY Zenon
    <3> HIDE DEF ofMention
    <3> QED
      BY <3>1, PairFinite
  <2> HIDE DEF ofMention
  <2> QED
    BY <1>1, <2>1, FiniteImage
<1>4. IsFiniteSet(B)
  <2>1. \A c \in Claims(d) : IsFiniteSet(ofClaim[c])
    <3> TAKE c \in Claims(d)
    <3>1. ofClaim[c] =
            {<<"MAKES_CLAIM", article_id(d), claim_id(c), claim_id(c)>>,
             <<"EVIDENCE_FOR", evidence(d.id, c), claim_id(c), evidence(d.id, c)>>}
      BY Zenon
    <3> HIDE DEF ofClaim
    <3> QED
      BY <3>1, PairFinite
  <2> HIDE DEF ofClaim
  <2> QED
    BY <1>1, <2>1, FiniteImage
<1>5. IsFiniteSet(C)
  <2> HIDE DEF ofRelation
  <2> QED
    BY <1>1, FiniteImage
<1>6. LinksOf(d) = base \cup A \cup B \cup C
  <2>1. A = UNION {{<<"MENTIONS", article_id(d), resolve_mention(m), evidence(d.id, m)>>,
                    <<"EVIDENCE_FOR", evidence(d.id, m), resolve_mention(m),
                      evidence(d.id, m)>>} : m \in Mentions(d)}
    BY Zenon
  <2>2. B = UNION {{<<"MAKES_CLAIM", article_id(d), claim_id(c), claim_id(c)>>,
                    <<"EVIDENCE_FOR", evidence(d.id, c), claim_id(c), evidence(d.id, c)>>} :
                    c \in Claims(d)}
    BY Zenon
  <2>3. C = {<<r.predicate, resolve_mention(r.subject), resolve_mention(r.object),
               evidence(d.id, r.sentence)>> : r \in Relations(d)}
    BY Zenon
  <2> HIDE DEF A, B, C
  <2> QED
    BY <2>1, <2>2, <2>3, Zenon DEF LinksOf
<1> HIDE DEF base, A, B, C
<1>7. IsFiniteSet(base \cup A)
  BY <1>2, <1>3, FS_Union
<1>8. IsFiniteSet(base \cup A \cup B)
  BY <1>4, <1>7, FS_Union
<1>9. IsFiniteSet(base \cup A \cup B \cup C)
  BY <1>5, <1>8, FS_Union
<1> QED
  BY <1>6, <1>9 DEF d

LEMMA ExpectedFinite ==
    ASSUME NEW s \in Scenarios
    PROVE  IsFiniteSet(ExpectedLinks[s])
<1> DEFINE of(x) == {<<l[1], <<x.tenant, l[2]>>, <<x.tenant, l[3]>>, l[4]>> :
                       l \in LinksOf(x.document)}
           ofDocument == [x \in Read(s) |-> of(x)]
<1>1. IsFiniteSet(Read(s))
  <2>1. IsFiniteSet(Elements(s.documents))
    BY ScenarioAssumption, ElementsFinite DEF Sequence
  <2>2. Read(s) \subseteq Elements(s.documents)
    BY DEF Read
  <2> QED
    BY <2>1, <2>2, FS_Subset
<1>2. \A x \in Read(s) : IsFiniteSet(of(x))
  <2> TAKE x \in Read(s)
  <2>1. IsFiniteSet(LinksOf(x.document))
    BY LinksFinite DEF Read
  <2> DEFINE ends(l) == <<l[1], <<x.tenant, l[2]>>, <<x.tenant, l[3]>>, l[4]>>
             f == [l \in LinksOf(x.document) |-> ends(l)]
  <2>2. of(x) = {ends(l) : l \in LinksOf(x.document)}
    OBVIOUS
  <2>3. \A l \in LinksOf(x.document) : f[l] = ends(l)
    OBVIOUS
  <2> HIDE DEF f, of, ends
  <2> DEFINE F == {f[l] : l \in LinksOf(x.document)}
  <2>4. \A z \in of(x) : z \in F
    BY <2>2, <2>3
  <2>5. IsFiniteSet(F)
    BY <2>1, FiniteImage
  <2> HIDE DEF F
  <2> QED
    BY <2>4, <2>5, FS_Subset
<1>3. ExpectedLinks[s] = UNION {of(x) : x \in Read(s)}
  BY DEF ExpectedLinks
<1>4. \A x \in Read(s) : ofDocument[x] = of(x)
  OBVIOUS
<1> HIDE DEF of, ofDocument
<1>5. \A x \in Read(s) : IsFiniteSet(ofDocument[x])
  BY <1>2, <1>4
<1> DEFINE U == UNION {ofDocument[x] : x \in Read(s)}
<1>6. IsFiniteSet(U)
  BY <1>1, <1>5, FiniteImage
<1>7. \A z \in ExpectedLinks[s] : z \in U
  BY <1>3, <1>4
<1> HIDE DEF U
<1> QED
  BY <1>6, <1>7, FS_Subset

\* What a relationship rests on determines its id: a document of a tenant is known by
\* its hash, a sentence by where it starts, and a sentence has one relation.
LEMMA StatesOne ==
    ASSUME input \in Scenarios, NEW c, NEW a, NEW b, States(a, c), States(b, c)
    PROVE  a = b
<1>1. \A p \in Elements(Predicates) :
        p \notin {"PUBLISHED", "DERIVED_FROM", "MENTIONS", "MAKES_CLAIM", "EVIDENCE_FOR"}
  BY DEF Elements, Predicates
<1>2. CASE c[1] \notin Elements(Predicates)
  BY <1>2 DEF States
<1>3. CASE c[1] \in Elements(Predicates)
  <2>1. ASSUME NEW id, States(id, c)
        PROVE  \E x \in Read(input) : \E r \in Relations(x.document) :
                 /\ x.tenant = c[2][1] /\ evidence(x.document.id, r.sentence) = c[4]
                 /\ id = r.id
    <3> HIDE DEF Read, Relations, evidence
    <3> QED
      BY <1>1, <1>3, <2>1 DEF States
  <2>2. PICK x \in Read(input) : \E r \in Relations(x.document) :
          /\ x.tenant = c[2][1] /\ evidence(x.document.id, r.sentence) = c[4]
          /\ a = r.id
    BY <2>1
  <2>3. PICK r \in Relations(x.document) :
          /\ x.tenant = c[2][1] /\ evidence(x.document.id, r.sentence) = c[4]
          /\ a = r.id
    BY <2>2
  <2>4. PICK y \in Read(input) : \E s \in Relations(y.document) :
          /\ y.tenant = c[2][1] /\ evidence(y.document.id, s.sentence) = c[4]
          /\ b = s.id
    BY <2>1
  <2>5. PICK s \in Relations(y.document) :
          /\ y.tenant = c[2][1] /\ evidence(y.document.id, s.sentence) = c[4]
          /\ b = s.id
    BY <2>4
  <2>6. /\ x.document.id = y.document.id
        /\ r.sentence.start = s.sentence.start
    BY <2>3, <2>5 DEF evidence
  <2>7. x \in Elements(input.documents) /\ y \in Elements(input.documents)
    BY DEF Read
  <2>8. x = y
    BY <2>3, <2>5, <2>6, <2>7, ScenarioAssumption
  <2>9. /\ r = RelationOf(x.document.id, x.document.text, r.sentence)
        /\ r.sentence \in x.document.text.sentences
        /\ s = RelationOf(x.document.id, x.document.text, s.sentence)
        /\ s.sentence \in x.document.text.sentences
    BY <2>7, <2>8, ExtractTyped
  <2>10. DocumentOK(x.document)
    BY <2>7, ReadTyped
  <2>11. r.sentence = s.sentence
    BY <2>6, <2>9, <2>10 DEF DocumentOK, TextOK
  <2> QED
    BY <2>3, <2>5, <2>9, <2>11
<1> QED
  BY <1>2, <1>3

\* The labels, the relationships and the index hold nothing but what the documents
\* that were read call for, and a relationship once for each time it was said,
\* after any redelivery, death or replay.
THEOREM NothingInventedAlways == Spec => []NothingInvented
<1>1. ASSUME IInv
      PROVE  NothingInvented
  <2>1. input \in Scenarios /\ GraphSound
    BY <1>1 DEF IInv, Shape
  <2>2. ASSUME NEW l \in link
        PROVE  Cardinality(Between(l)) <= Cardinality(Called(l))
    <3>1. PICK B : B = Between(l)
      OBVIOUS
    <3>2. PICK C : C = Called(l)
      OBVIOUS
    <3>3. \A k \in B : /\ \E c \in C : States(k.id, c)
                       /\ k = [rel |-> l.rel, id |-> k.id, from |-> l.from, to |-> l.to]
      <4> TAKE k \in B
      <4>1. k \in link /\ k.rel = l.rel /\ k.from = l.from /\ k.to = l.to
        BY <3>1 DEF Between
      <4>2. Called(k) = Called(l)
        BY <4>1 DEF Called
      <4>3. PICK c \in Called(k) : States(k.id, c)
        BY <2>1, <4>1 DEF GraphSound
      <4>4. k = [rel |-> k.rel, id |-> k.id, from |-> k.from, to |-> k.to]
        BY <2>1, <4>1 DEF GraphSound
      <4> QED
        BY <3>2, <4>1, <4>2, <4>3, <4>4
    <3> DEFINE f == [k \in B |-> CHOOSE c \in C : States(k.id, c)]
    <3>4. \A k \in B : f[k] \in C /\ States(k.id, f[k])
      BY <3>3
    <3>5. f \in [B -> C]
      BY <3>4
    <3> HIDE DEF f
    <3>6. ASSUME NEW j \in B, NEW k \in B, f[j] = f[k]
          PROVE  j = k
      <4>1. PICK c : c = f[j]
        OBVIOUS
      <4>2. States(j.id, c) /\ States(k.id, c)
        BY <3>4, <3>6, <4>1
      <4>3. j.id = k.id
        BY <2>1, <4>2, StatesOne
      <4> QED
        BY <3>3, <4>3
    <3>7. f \in Injection(B, C)
      BY <3>5, <3>6 DEF Injection, IsInjective
    <3>8. IsFiniteSet(C)
      <4>1. PICK s \in Scenarios : s = input
        BY <2>1
      <4>2. C \subseteq ExpectedLinks[s]
        BY <3>2, <4>1 DEF Called
      <4> QED
        BY <4>2, ExpectedFinite, FS_Subset
    <3> QED
      BY <3>1, <3>2, <3>7, <3>8, FS_Injection
  <2> QED
    BY <2>1, <2>2 DEF GraphSound, NothingInvented
<1> QED
  BY <1>1, Inductive, PTL

\* Whatever the patterns find in the texts of a scenario, and whichever of its
\* candidates they find, the mentions and relations extracted are the right ones.
THEOREM ExtractionExactAlways == Spec => []ExtractionExact
<1>1. ASSUME NEW text, TextOK(text), NEW found \in SUBSET text.candidates
      PROVE  TextOK([text EXCEPT !.candidates = found])
  <2> DEFINE new == [text EXCEPT !.candidates = found]
  <2>1. text = [size |-> text.size, candidates |-> text.candidates,
                sentences |-> text.sentences]
    BY <1>1 DEF TextOK
  <2>2. new = [size |-> text.size, candidates |-> found, sentences |-> text.sentences]
    BY <2>1
  <2> HIDE DEF new
  <2>3. new.size = text.size /\ new.candidates = found /\ new.sentences = text.sentences
    BY <2>2
  <2>4. IsFiniteSet(found)
    BY <1>1, FS_Subset DEF TextOK
  <2>5. TextOK(new)
    BY <1>1, <2>2, <2>3, <2>4 DEF TextOK
  <2> QED
    BY <2>5 DEF new
<1>2. ASSUME IInv
      PROVE  ExtractionExact
  <2>1. input \in Scenarios
    BY <1>2 DEF IInv, Shape
  <2> SUFFICES ASSUME NEW x \in Elements(input.documents),
                      NEW found \in SUBSET x.document.text.candidates
               PROVE  LET text == [x.document.text EXCEPT !.candidates = found]
                      IN  MentionsExact(text) /\ RelationsExact(x.document.id, text)
    BY DEF ExtractionExact
  <2>2. TextOK(x.document.text)
    BY <2>1, ReadTyped DEF DocumentOK
  <2>3. PICK text, new : text = x.document.text /\ new = [text EXCEPT !.candidates = found]
    OBVIOUS
  <2>4. TextOK(new)
    BY <1>1, <2>2, <2>3
  <2>5. MentionsExact(new) /\ RelationsExact(x.document.id, new)
    BY <2>4, MentionsAreExact, RelationsAreExact
  <2> QED
    BY <2>3, <2>5
<1> QED
  BY <1>2, Inductive, PTL

\* The projector marks nothing by mistake: a node with a takedown status belongs to a
\* tenant that requested it, and is the source it named or an article linked to it.
THEOREM MarksJustifiedAlways == Spec => []TakedownsSound
<1>1. IInv => TakedownsSound
  BY DEF IInv
<1> QED
  BY <1>1, Inductive, PTL
===============================================================================
