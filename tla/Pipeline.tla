------------------------------- MODULE Pipeline -------------------------------
(***************************************************************************)
(* From a normalised document to the projections: the NLP pipeline, entity *)
(* resolution, claim intelligence, the graph projector, the search         *)
(* projector, the policy worker and graph analytics, joined by Kafka       *)
(* topics, and the takedown of a source that passes through them.          *)
(*                                                                         *)
(* A topic is a log per partition; a key always goes to one partition.     *)
(* Each worker handles a record as KafkaWorker shows: it publishes or      *)
(* writes, then commits; it can die after any part of that, and handles    *)
(* the record again.  An operator can reset an input topic to an earlier   *)
(* offset.                                                                 *)
(*                                                                         *)
(* Timestamps, texts, scores and the other properties of nodes are left    *)
(* out: what is kept is which nodes, labels, relationships, search         *)
(* entries and alerts exist, and for whom.                                 *)
(***************************************************************************)
EXTENDS Extraction

CONSTANTS
    Tenant,          \* organizations
    Source,          \* identifiers of sources
    Partition,       \* partitions of a topic
    Scenarios        \* records: the documents and analytics requests announced,
                     \* the takedowns to come, the partition of each kind of
                     \* key, and two bounds: maxFaults, deaths of a worker in the
                     \* middle of a record, and maxResets, offset resets

\* The kinds of keys of the records.
Kind == {"doc", "article", "source", "entity", "ev", "claim", "claim-cluster", "published",
         "article-document", "mentions", "evidence-entity", "evidence-claim",
         "article-claim", "relationship", "request"}

\* A document is identified, within its tenant, by the hash of its content.
DocumentOK(d) == d.id[1] = "doc" /\ TextOK(d.text)

ASSUME ScenarioAssumption ==
    \A s \in Scenarios :
      /\ s.maxFaults \in Nat /\ s.maxResets \in Nat
      /\ s.hash \in [Kind -> Partition]
      /\ s.takedowns \subseteq Tenant \X Source
      /\ s.documents \in Seq(Elements(s.documents))
      /\ s.analytics \in Seq(Elements(s.analytics))
      /\ \A x \in Elements(s.documents) : x.tenant \in Tenant /\ DocumentOK(x.document)
      /\ \A x, y \in Elements(s.documents) :
           x.tenant = y.tenant /\ x.document.id = y.document.id => x = y
      /\ \A x \in Elements(s.analytics) : x.tenant \in Tenant /\ x.entity[1] = "entity"

VARIABLES
    input,       \* the scenario, one of Scenarios
    log,         \* log[<<topic, partition>>]: the records of a partition
    pos,         \* pos[<<topic, partition>>]: the consumer's next offset
    requested,   \* takedowns recorded by the control plane, <<tenant, source>>
    outbox,      \* their events that are not yet published
    node,        \* Neo4j: nodes, <<tenant, stable_id>>
    label,       \* Neo4j: <<node, label>>
    link,        \* Neo4j: relationships
    takedown,    \* Neo4j: nodes with a takedown_status
    articles,    \* OpenSearch: articles a query finds, <<tenant, document>>
    dirty,       \* OpenSearch: articles written since the last refresh
    indexed,     \* OpenSearch: entities and claims
    alerts,      \* records of alert.created.v1
    signals,     \* records of intelligence.signal-created.v1
    attempts,    \* requests for a policy evaluation so far
    quiet,       \* the takedowns requested with nothing of the source under way
    faults, resets

graph  == <<node, label, link, takedown>>
search == <<articles, dirty, indexed>>
vars   == <<input, log, pos, requested, outbox, graph, search, alerts, signals, attempts,
            quiet, faults, resets>>

Topic == {"nlp-requested", "normalized", "takedown", "mention", "relationship",
          "claim", "resolved", "clustered", "policy", "graph", "analytics"}
Queue == Topic \X Partition

\* The partition of a key is a function of the key; here, of the kind of key.
QueueOf(e) == <<e.topic, input.hash[e.key[1]]>>

Record(topic, key, tenant, payload) ==
    [topic |-> topic, key |-> key, tenant |-> tenant, payload |-> payload]

\* The records that belong to a queue, in the order given.
Only(records, q) == Picked(records, {i \in DOMAIN records : QueueOf(records[i]) = q})

\* Records appended to their partitions, in the order given.
Appended(queues, records) ==
    [q \in Queue |-> queues[q] \o Only(records, q)]

----------------------------------------------------------------------------
(* What each worker publishes for a record *)

\* extract, for every document there is.
extract ==
    [d \in {x.document : x \in UNION {Elements(s.documents) : s \in Scenarios}} |->
       [mentions  |-> extract_mentions(d.text),
        claims    |-> extract_claims(d.text),
        relations |-> extract_relations(d.id, d.text)]]

source_id(d) == <<"source", d.source>>
article_id(d) == <<"article", d.id>>

upsert(id, labels) == [type |-> "upsert", id |-> id, labels |-> labels]
relate(rel, id, from, to) ==
    [type |-> "link", rel |-> rel, id |-> id, from |-> from, to |-> to]

\* publish(graph.mutation-requested.v1): mutations with their keys.
Mutations(tenant, mutations) ==
    [i \in DOMAIN mutations |->
       Record("graph", mutations[i].id, tenant, mutations[i])]

\* Mutant: the relationship to the source gets a new id every time.
graph_base_mutations_fresh(d) ==
    <<upsert(d.id, {"Document"}),
      upsert(article_id(d), {"Article"}),
      upsert(source_id(d), {"Source"}),
      relate("PUBLISHED", <<"published", article_id(d), source_id(d), attempts>>,
             article_id(d), source_id(d)),
      relate("DERIVED_FROM", <<"article-document", article_id(d), d.id>>,
             article_id(d), d.id)>>

\* graph_base_mutations: the document, its article, its source, and the links.
graph_base_mutations(d) ==
    <<upsert(d.id, {"Document"}),
      upsert(article_id(d), {"Article"}),
      upsert(source_id(d), {"Source"}),
      relate("PUBLISHED", <<"published", article_id(d), source_id(d)>>,
             article_id(d), source_id(d)),
      relate("DERIVED_FROM", <<"article-document", article_id(d), d.id>>,
             article_id(d), d.id)>>

\* handle_one_message of the NLP pipeline: graph mutations, mentions, claims,
\* relations, and the request for a policy evaluation, whose event_id is new
\* every time while its idempotency key is made of the document.
NlpRecords(tenant, d) ==
    LET mentions  == extract[d].mentions
        claims    == extract[d].claims
        relations == extract[d].relations
    IN  Mutations(tenant, graph_base_mutations(d))
        \o [i \in DOMAIN mentions |->
              Record("mention", d.id, tenant,
                     [document |-> d, mention |-> mentions[i]])]
        \o [i \in DOMAIN claims |->
              Record("claim", claim_id(claims[i]), tenant,
                     [document |-> d, claim |-> claims[i]])]
        \o [i \in DOMAIN relations |->
              Record("relationship", relations[i].id, tenant,
                     [document |-> d, relation |-> relations[i]])]
        \o <<Record("policy", d.id, tenant,
                    [document |-> d.id, event_id |-> attempts,
                     idempotency_key |-> <<"policy", d.id>>])>>

\* Mutant: an entity's evidence is linked and never written.
graph_events_unsupported(d, m) ==
    LET entity == resolve_mention(m)
        ev     == evidence(d.id, m)
    IN  <<upsert(entity, {"Entity", m.type}),
          relate("MENTIONS", <<"mentions", ev>>, article_id(d), entity),
          relate("EVIDENCE_FOR", <<"evidence-entity", ev, entity>>, ev, entity)>>

\* graph_events: a resolved mention, its evidence, and the links to both.
graph_events(d, m) ==
    LET entity == resolve_mention(m)
        ev     == evidence(d.id, m)
    IN  <<upsert(entity, {"Entity", m.type}),
          upsert(ev, {"Evidence"}),
          relate("MENTIONS", <<"mentions", ev>>, article_id(d), entity),
          relate("EVIDENCE_FOR", <<"evidence-entity", ev, entity>>, ev, entity)>>

\* relation_graph_events: subject and object over again, and the relationship.
relation_graph_events(d, r) ==
    graph_events(d, r.subject) \o graph_events(d, r.object)
    \o <<relate(r.predicate, r.id, resolve_mention(r.subject), resolve_mention(r.object))>>

\* handle_one_message of entity resolution, for either of its topics.
EntityRecords(e) ==
    IF e.topic = "mention"
    THEN <<Record("resolved", resolve_mention(e.payload.mention), e.tenant,
                  resolve_mention(e.payload.mention))>>
         \o Mutations(e.tenant, graph_events(e.payload.document, e.payload.mention))
    ELSE Mutations(e.tenant,
                   relation_graph_events(e.payload.document, e.payload.relation))

\* graph_mutations of claim intelligence.
graph_mutations(d, claim) ==
    LET id == claim_id(claim)
        ev == evidence(d.id, claim)
    IN  <<upsert(id, {"Claim"}),
          upsert(ev, {"Evidence"}),
          relate("MAKES_CLAIM", <<"article-claim", article_id(d), id>>, article_id(d), id),
          relate("EVIDENCE_FOR", <<"evidence-claim", ev, id>>, ev, id)>>

\* handle_one_message of claim intelligence.
ClaimRecords(e) ==
    <<Record("clustered", cluster_id(e.payload.claim), e.tenant,
             claim_id(e.payload.claim))>>
    \o Mutations(e.tenant, graph_mutations(e.payload.document, e.payload.claim))

----------------------------------------------------------------------------
(* Init *)

\* The stream normalizer has announced every document, to the search projector
\* and to the NLP pipeline; somebody has asked for analytics of some entities.
Inputs(scenario) ==
    [i \in DOMAIN scenario.documents |->
       Record("nlp-requested", scenario.documents[i].document.id,
              scenario.documents[i].tenant, scenario.documents[i].document)]
    \o [i \in DOMAIN scenario.documents |->
          Record("normalized", scenario.documents[i].document.id,
                 scenario.documents[i].tenant, scenario.documents[i].document)]
    \o [i \in DOMAIN scenario.analytics |->
          Record("analytics", scenario.analytics[i].entity,
                 scenario.analytics[i].tenant, scenario.analytics[i].entity)]

Init ==
    /\ input \in Scenarios
    /\ log = Appended([q \in Queue |-> <<>>], Inputs(input))
    /\ pos = [q \in Queue |-> 1]
    /\ requested = {} /\ outbox = {}
    /\ node = {} /\ label = {} /\ link = {} /\ takedown = {}
    /\ articles = {} /\ dirty = {} /\ indexed = {}
    /\ alerts = {} /\ signals = {} /\ quiet = {}
    /\ attempts = 0 /\ faults = 0 /\ resets = 0

----------------------------------------------------------------------------
(* Steps common to the workers *)

Pending(q) == pos[q] <= Len(log[q])
Current(q) == log[q][pos[q]]

\* The record is committed, or the worker dies first and will handle it again.
CommitOrDie(q) ==
    \/ /\ pos' = [pos EXCEPT ![q] = @ + 1]
       /\ UNCHANGED faults
    \/ /\ faults < input.maxFaults
       /\ faults' = faults + 1
       /\ UNCHANGED pos

\* Mutant: the offset is committed while the records are still being sent.
PublishCommitted(q, records) ==
    /\ pos' = [pos EXCEPT ![q] = @ + 1]
    /\ \/ log' = Appended(log, records) /\ UNCHANGED faults
       \/ \E n \in 0..(Len(records) - 1) :
            /\ faults < input.maxFaults
            /\ faults' = faults + 1
            /\ log' = Appended(log, SubSeq(records, 1, n))

\* produce() hands the records of a message to the client, which sends each
\* partition's in order and the partitions independently: all of them, or, when
\* the worker dies, some first part of every partition's.
Publish(q, outputs) ==
    \E records \in {outputs} :
      LET to == {QueueOf(records[i]) : i \in DOMAIN records}
      IN  \/ /\ log' = Appended(log, records)
             /\ CommitOrDie(q)
          \/ /\ faults < input.maxFaults
             /\ faults' = faults + 1
             /\ \E of \in {[r \in to |-> Only(records, r)]} :
                \E sent \in [to -> 0..Len(records)] :
                  /\ \A r \in to : sent[r] <= Len(of[r])
                  /\ log' = [r \in Queue |->
                       IF r \in to THEN log[r] \o SubSeq(of[r], 1, sent[r]) ELSE log[r]]
             /\ UNCHANGED pos

----------------------------------------------------------------------------
(* The workers that publish *)

\* nlp-pipeline: text that extract() refuses goes to the dead-letter topic.
NlpPipeline(q) ==
    /\ q[1] = "nlp-requested" /\ Pending(q)
    /\ LET e == Current(q)
       IN  IF ExtractRefuses(e.payload.text)
           THEN /\ CommitOrDie(q)
                /\ UNCHANGED <<log, attempts>>
           ELSE /\ Publish(q, NlpRecords(e.tenant, e.payload))
                /\ attempts' = attempts + 1
    /\ UNCHANGED <<input, requested, outbox, graph, search, alerts, signals, resets, quiet>>

EntityResolution(q) ==
    /\ q[1] \in {"mention", "relationship"} /\ Pending(q)
    /\ Publish(q, EntityRecords(Current(q)))
    /\ UNCHANGED <<input, requested, outbox, graph, search, alerts, signals, attempts,
                   resets, quiet>>

ClaimIntelligence(q) ==
    /\ q[1] = "claim" /\ Pending(q)
    /\ Publish(q, ClaimRecords(Current(q)))
    /\ UNCHANGED <<input, requested, outbox, graph, search, alerts, signals, attempts,
                   resets, quiet>>

\* Mutant: the alert is named after the event that asked for it.
alert_id_of_event(e) == <<e.tenant, e.payload.event_id>>

\* stable_alert_id of the policy worker (the policy version is always "v1").
stable_alert_id(e) == <<e.tenant, e.payload.idempotency_key>>

\* velato-engine: one alert.created.v1 per evaluation.
VelatoEngine(q) ==
    /\ q[1] = "policy" /\ Pending(q)
    /\ LET e == Current(q)
       IN  alerts' = alerts \cup {[id |-> stable_alert_id(e), tenant |-> e.tenant,
                                   document |-> e.payload.document]}
    /\ CommitOrDie(q)
    /\ UNCHANGED <<input, log, requested, outbox, graph, search, signals, attempts, resets,
                   quiet>>

----------------------------------------------------------------------------
(* graph-projector *)

\* Mutant: an endpoint is looked up by its stable_id alone.
GraphNodeShared(tenant, id) ==
    IF \E n \in node : n[2] = id THEN CHOOSE n \in node : n[2] = id ELSE <<tenant, id>>

\* A node's identity: (:GraphNode {tenant_id, stable_id}).
GraphNode(tenant, id) == <<tenant, id>>

\* Mutant: the target of a relationship is expected to be there.
MergedSource(e) ==
    LET m == e.payload
    IN  CASE m.type = "upsert"   -> {GraphNode(e.tenant, m.id)}
          [] m.type = "link"     -> {GraphNode(e.tenant, m.from)}
          [] m.type = "takedown" -> {}

\* The nodes a mutation merges; a takedown only matches.
Merged(e) ==
    LET m == e.payload
    IN  CASE m.type = "upsert"   -> {GraphNode(e.tenant, m.id)}
          [] m.type = "link"     -> {GraphNode(e.tenant, m.from), GraphNode(e.tenant, m.to)}
          [] m.type = "takedown" -> {}

\* The constraint graph_node_stable: Neo4j refuses to create a node whose stable_id
\* another node has.  The error is no ValueError, so the worker dies and finds the
\* same record again.
Refused(e) == \E n \in Merged(e) \ node : \E other \in node : other[2] = n[2]

\* Mutant: a takedown marks the source and not the articles it published.
TakedownMarksSource(source) == {source}

\* The nodes marked by a takedown: the source and the articles linked to it now.
TakedownMarks(source) ==
    {source} \cup {l.from : l \in {k \in link : k.rel = "PUBLISHED" /\ k.to = source}}

\* build_statement, run in one transaction.  Projector pods work on several partitions
\* at a time; that none of them creates a node a second time rests on the constraint,
\* whose index entry is locked while a node is merged (a transaction that comes too
\* late finds the node, or fails and is tried again), and none a relationship, on the
\* locks on its two ends.
Apply(e) ==
    LET m == e.payload
        source == GraphNode(e.tenant, m.id)
    IN  /\ node' = node \cup Merged(e)
        /\ label' = IF m.type # "upsert" THEN label
                    ELSE label \cup (Merged(e) \X m.labels)
        /\ link' = IF m.type # "link" THEN link
                   ELSE link \cup {[rel |-> m.rel, id |-> m.id,
                                    from |-> GraphNode(e.tenant, m.from),
                                    to |-> GraphNode(e.tenant, m.to)]}
        /\ takedown' = IF m.type # "takedown" \/ source \notin node THEN takedown
                       ELSE takedown \cup TakedownMarks(source)

GraphProjector(q) ==
    /\ q[1] = "graph" /\ Pending(q)
    /\ ~Refused(Current(q))
    /\ Apply(Current(q))
    /\ CommitOrDie(q)
    /\ UNCHANGED <<input, log, requested, outbox, search, alerts, signals, attempts, resets,
                   quiet>>

----------------------------------------------------------------------------
(* search-projector and graph-analytics *)

article(tenant, d) == [tenant |-> tenant, document |-> d.id, source |-> d.source]

\* project: an article, entity or claim is written under its tenant and id.  A
\* takedown deletes what its query finds, the articles seen by the last refresh;
\* one written since then conflicts and is skipped.  It ends with a refresh.
Project(e) ==
    CASE e.topic = "normalized" ->
           /\ dirty' = IF e.payload.text.size = "huge" THEN dirty
                       ELSE dirty \cup {article(e.tenant, e.payload)}
           /\ UNCHANGED <<articles, indexed>>
      [] e.topic = "takedown" ->
           LET found == {a \in articles : a.tenant = e.tenant /\ a.source = e.payload}
           IN  /\ articles' = (articles \ found) \cup dirty
               /\ dirty' = {}
               /\ UNCHANGED indexed
      [] e.topic \in {"resolved", "clustered"} ->
           /\ indexed' = indexed \cup {<<e.tenant, e.payload>>}
           /\ UNCHANGED <<articles, dirty>>

SearchProjector(q) ==
    /\ q[1] \in {"normalized", "takedown", "resolved", "clustered"} /\ Pending(q)
    /\ Project(Current(q))
    /\ CommitOrDie(q)
    /\ UNCHANGED <<input, log, requested, outbox, graph, alerts, signals, attempts, resets,
                   quiet>>

\* OpenSearch makes the writes of the last second searchable.
Refresh ==
    /\ dirty # {}
    /\ articles' = articles \cup dirty
    /\ dirty' = {}
    /\ UNCHANGED <<input, log, pos, requested, outbox, graph, indexed, alerts, signals,
                   attempts, faults, resets, quiet>>

\* graph-analytics: a signal about an entity of the graph.  For an entity that is
\* not there analyze() raises an HTTPException, no ValueError: the worker dies.
GraphAnalytics(q) ==
    /\ q[1] = "analytics" /\ Pending(q)
    /\ LET e == Current(q)
       IN  /\ <<GraphNode(e.tenant, e.payload), "Entity">> \in label
           /\ signals' = signals \cup {<<e.tenant, e.payload, pos[q]>>}
    /\ CommitOrDie(q)
    /\ UNCHANGED <<input, log, requested, outbox, graph, search, alerts, attempts, resets,
                   quiet>>

----------------------------------------------------------------------------
(* The control plane and the operator *)

\* Nothing about the source is on its way to a projection or waits for a refresh,
\* and no replay will follow.
Settled(tenant, source) ==
    /\ resets = input.maxResets
    /\ \A a \in dirty : ~(a.tenant = tenant /\ a.source = source)
    /\ \A q \in Queue : \A i \in pos[q]..Len(log[q]) : log[q][i].tenant = tenant =>
         /\ q[1] \in {"nlp-requested", "normalized"} => log[q][i].payload.source # source
         /\ q[1] = "graph" => log[q][i].payload.type = "takedown"

\* apply_request! and publish_governance_event!, in one transaction.
RequestTakedown(tenant, source) ==
    /\ <<tenant, source>> \in input.takedowns \ requested
    /\ requested' = requested \cup {<<tenant, source>>}
    /\ outbox' = outbox \cup
         {Record("takedown", <<"request", source>>, tenant, source),
          Record("graph", <<"source", source>>, tenant,
                 [type |-> "takedown", id |-> <<"source", source>>])}
    /\ quiet' = IF Settled(tenant, source) THEN quiet \cup {<<tenant, source>>} ELSE quiet
    /\ UNCHANGED <<input, log, pos, graph, search, alerts, signals, attempts, faults, resets>>

\* The outbox publisher (Outbox).
Announce(e) ==
    /\ e \in outbox
    /\ outbox' = outbox \ {e}
    /\ log' = Appended(log, <<e>>)
    /\ UNCHANGED <<input, pos, requested, graph, search, alerts, signals, attempts, faults,
                   resets, quiet>>

\* replay-kafka.sh: a consumer group starts again from an earlier offset.
ResetOffsets(q) ==
    /\ q[1] \in {"nlp-requested", "normalized"}
    /\ resets < input.maxResets
    /\ \E n \in 1..(pos[q] - 1) : pos' = [pos EXCEPT ![q] = n]
    /\ resets' = resets + 1
    /\ UNCHANGED <<input, log, requested, outbox, graph, search, alerts, signals, attempts,
                   faults, quiet>>

----------------------------------------------------------------------------

Work(q) == \/ GraphProjector(q) \/ SearchProjector(q) \/ VelatoEngine(q)
           \/ GraphAnalytics(q) \/ EntityResolution(q) \/ ClaimIntelligence(q)
           \/ NlpPipeline(q)

Progress ==
    \/ Refresh
    \/ \E e \in outbox : Announce(e)
    \/ \E q \in Queue : Work(q)

Next ==
    \/ Progress
    \/ \E q \in Queue : ResetOffsets(q)
    \/ \E tenant \in Tenant, source \in Source : RequestTakedown(tenant, source)

\* Consumers, the outbox publisher and OpenSearch run all the time: as long as
\* one of them can do something, something is done.  A step stays possible until
\* it is taken, and there are finitely many, so this is all the workers together
\* are asked for.
Fairness == WF_vars(Progress)

Spec == Init /\ [][Next]_vars /\ Fairness

----------------------------------------------------------------------------
(* What the documents call for *)

\* The documents of a scenario that extract() accepts, each with its tenant.
Read(s) == {x \in Elements(s.documents) : ~ExtractRefuses(x.document.text)}

Mentions(d) == Elements(extract[d].mentions)
Claims(d) == Elements(extract[d].claims)
Relations(d) == Elements(extract[d].relations)

\* The labelled nodes and the relationships of one document.  A relationship is
\* given with what it rests on, which keeps two between the same nodes apart.
LabelsOf(d) ==
    {<<d.id, "Document">>, <<article_id(d), "Article">>, <<source_id(d), "Source">>}
    \cup (UNION {{<<resolve_mention(m), "Entity">>, <<resolve_mention(m), m.type>>,
                  <<evidence(d.id, m), "Evidence">>} : m \in Mentions(d)})
    \cup (UNION {{<<claim_id(c), "Claim">>, <<evidence(d.id, c), "Evidence">>} :
                  c \in Claims(d)})

LinksOf(d) ==
    {<<"PUBLISHED", article_id(d), source_id(d), d.id>>,
     <<"DERIVED_FROM", article_id(d), d.id, d.id>>}
    \cup (UNION {{<<"MENTIONS", article_id(d), resolve_mention(m), evidence(d.id, m)>>,
                  <<"EVIDENCE_FOR", evidence(d.id, m), resolve_mention(m),
                    evidence(d.id, m)>>} : m \in Mentions(d)})
    \cup (UNION {{<<"MAKES_CLAIM", article_id(d), claim_id(c), claim_id(c)>>,
                  <<"EVIDENCE_FOR", evidence(d.id, c), claim_id(c), evidence(d.id, c)>>} :
                  c \in Claims(d)})
    \cup {<<r.predicate, resolve_mention(r.subject), resolve_mention(r.object),
            evidence(d.id, r.sentence)>> : r \in Relations(d)}

\* The same for a whole scenario, and the entities and claims of the index.
ExpectedLabels ==
    [s \in Scenarios |->
       UNION {{<<<<x.tenant, l[1]>>, l[2]>> : l \in LabelsOf(x.document)} : x \in Read(s)}]
ExpectedLinks ==
    [s \in Scenarios |->
       UNION {{<<l[1], <<x.tenant, l[2]>>, <<x.tenant, l[3]>>, l[4]>> :
                 l \in LinksOf(x.document)} : x \in Read(s)}]
ExpectedIndex ==
    [s \in Scenarios |->
       UNION {{<<x.tenant, resolve_mention(m)>> : m \in Mentions(x.document)}
              \cup {<<x.tenant, claim_id(c)>> : c \in Claims(x.document)} : x \in Read(s)}]

Ends(l) == <<l[1], l[2], l[3]>>
Between(l) == {k \in link : k.rel = l.rel /\ k.from = l.from /\ k.to = l.to}
Called(l) == {x \in ExpectedLinks[input] : Ends(x) = <<l.rel, l.from, l.to>>}

----------------------------------------------------------------------------
(* Properties *)

\* Every variable has the shape the actions rely on.
TypeOK ==
    /\ input \in Scenarios
    /\ \A q \in Queue : pos[q] \in 1..(Len(log[q]) + 1)
    /\ \A q \in Queue : \A i \in DOMAIN log[q] : QueueOf(log[q][i]) = q
    /\ quiet \subseteq requested /\ requested \subseteq input.takedowns
    /\ node \subseteq Tenant \X {n[2] : n \in node}
    /\ {l[1] : l \in label} \cup takedown \cup {l.from : l \in link}
         \cup {l.to : l \in link} \subseteq node
    /\ faults \in 0..input.maxFaults /\ resets \in 0..input.maxResets /\ attempts \in Nat

\* At no time does the graph or the index hold anything the documents do not call
\* for: no second relationship for what was said once, after any redelivery, and
\* nothing of a document that extract() refused.
NothingInvented ==
    /\ label \subseteq ExpectedLabels[input]
    /\ \A l \in link : Cardinality(Between(l)) <= Cardinality(Called(l))
    /\ indexed \subseteq ExpectedIndex[input]

\* The mutations a record stands for: itself, or what its worker publishes.
Leads(e) ==
    IF e.topic = "graph" THEN <<e>>
    ELSE IF e.topic = "nlp-requested"
    THEN IF ExtractRefuses(e.payload.text) THEN <<>>
         ELSE Mutations(e.tenant, graph_base_mutations(e.payload))
    ELSE IF e.topic \in {"mention", "relationship"} THEN EntityRecords(e)
    ELSE IF e.topic = "claim" THEN ClaimRecords(e) ELSE <<>>

\* A relationship may overtake the nodes it joins, and then the projector creates
\* them bare.  Whenever a node has no label, the upsert that will give it one is in
\* the topic already, or a worker that died while it published has still to
\* publish it again.
PlaceholdersAwaited ==
    \A n \in node : (\A l \in label : l[1] # n) =>
      \E q \in Queue : \E i \in pos[q]..Len(log[q]) :
        \E e \in Elements(Leads(log[q][i])) :
          /\ e.topic = "graph" /\ e.payload.type = "upsert"
          /\ n \in Merged(e)

\* However often a document is read again, its tenant gets one alert for it, and
\* two tenants never share one (the alert's id is what every projector dedupes by).
OneAlertPerDocument ==
    \A a, b \in alerts :
      a.id = b.id <=> (a.tenant = b.tenant /\ a.document = b.document)

\* GET /v1/entities/{id} of graph-query: it filters the entity by tenant, and
\* neither the evidence nor the articles it collects from there.
entity(tenant, id) ==
    LET roots == {n \in node : n = <<tenant, id>> /\ <<n, "Entity">> \in label}
        linked(rel, kind) == {l.from : l \in {k \in link : k.rel = rel /\ k.to \in roots
                                                    /\ <<k.from, kind>> \in label}}
    IN  roots \cup linked("EVIDENCE_FOR", "Evidence") \cup linked("MENTIONS", "Article")

\* A query about an entity returns nodes of the asking tenant only, also when two
\* tenants read about the same entity.
QueriesStayInTenant ==
    \A tenant \in Tenant : \A n \in node :
      \A found \in entity(tenant, n[2]) : found[1] = tenant

\* The mentions and relations taken from each document are the right ones, and so
\* are those of every text in which the patterns find only some of its candidates.
ExtractionExact ==
    \A x \in Elements(input.documents) : \A found \in SUBSET x.document.text.candidates :
      LET text == [x.document.text EXCEPT !.candidates = found]
      IN  MentionsExact(text) /\ RelationsExact(x.document.id, text)

\* The documents of two tenants call for nodes of one stable_id.
Colliding ==
    \E a, b \in {l[1] : l \in ExpectedLabels[input]} : a # b /\ a[2] = b[2]

\* The graph holds exactly the labels and relationships the documents call for, and
\* nothing waits for it, save for a request about an entity that no document mentions,
\* which stops its partition of the analytics topic.
GraphConverged ==
    /\ label = ExpectedLabels[input]
    /\ Cardinality(link) = Cardinality(ExpectedLinks[input])
    /\ \A l \in link : Called(l) # {}
    /\ \A q \in Queue : q[1] \in {"graph", "analytics"} /\ Pending(q) =>
         /\ q[1] = "analytics"
         /\ <<<<Current(q).tenant, Current(q).payload>>, "Entity">> \notin ExpectedLabels[input]

\* All projections hold exactly what the documents call for; the graph, unless the
\* schema keeps one tenant's nodes out because another tenant has them
\* (TenantsIndependent), which must hold up no other projection.
Converged ==
    /\ ~Colliding => GraphConverged
    /\ \A q \in Queue : Pending(q) => q[1] \in {"graph", "analytics"}
    /\ indexed = ExpectedIndex[input]
    /\ {<<a.tenant, a.document>> : a \in alerts}
         = {<<x.tenant, x.document.id>> : x \in Read(input)}
    /\ \A x \in Elements(input.documents) :
         \/ x.document.text.size = "huge"
         \/ <<x.tenant, x.document.source>> \in requested
         \/ article(x.tenant, x.document) \in articles

\* Whatever the order of the records, whoever dies and however often a record is
\* handled again, the projections end up the same.
EventuallyConverged == <>[]Converged

\* Source and articles are marked in the graph and the articles out of the index.
TakenDown(tenant, source) ==
    /\ \A x \in Read(input) : x.tenant = tenant /\ x.document.source = source =>
         {<<tenant, article_id(x.document)>>, <<tenant, source_id(x.document)>>} \subseteq takedown
    /\ \A a \in articles \cup dirty : ~(a.tenant = tenant /\ a.source = source)

\* A takedown requested when everything of the source has been projected, and not
\* followed by a replay, marks the source and its articles in the graph and takes
\* the articles out of the search index, for good.
TakedownTakes == <>[](\A t \in quiet : TakenDown(t[1], t[2]))

\* The graph keeps every tenant's nodes apart, under (tenant_id, stable_id): the
\* projector is never refused a node because another tenant has one by that id.
TenantsIndependent ==
    \A q \in Queue : q[1] = "graph" /\ Pending(q) => ~Refused(Current(q))
===============================================================================
