------------------------------ MODULE MCPipeline ------------------------------
(***************************************************************************)
(* Small inputs for Pipeline: a document that says a lot, two tenants that *)
(* read about the same entity, a source that is taken down, and texts that *)
(* are refused.                                                            *)
(***************************************************************************)
EXTENDS Pipeline

\* Spellings, what casefold and slug make of them, and the aliases of resolver.py.
MCFold == [n \in {"Acme Corporation", "Globex Inc", "GLOBEX Inc", "Berlin", "Ada Lovelace"} |->
             CASE n = "Acme Corporation" -> "acme corporation"
               [] n \in {"Globex Inc", "GLOBEX Inc"} -> "globex inc"
               [] n = "Berlin" -> "berlin"
               [] n = "Ada Lovelace" -> "ada lovelace"]
MCAliases == [n \in {"acme corporation", "berlin"} |->
                IF n = "berlin" THEN <<"entity", "Location", "berlin">>
                ELSE <<"entity", "Company", "acme">>]

span(start, end, type, name) == [start |-> start, end |-> end, type |-> type, name |-> name]
sentence(start, end, keywords, claim, digest) ==
    [start |-> start, end |-> end, keywords |-> keywords, claim |-> claim,
     digest |-> digest, normalized |-> digest]

Text(size, candidates, sentences) ==
    [size |-> size, candidates |-> candidates, sentences |-> sentences]
Berlin == Text("ok", {span(0, 6, "Location", "Berlin")}, {})
Acme == Text("ok", {span(0, 4, "Company", "Acme Corporation")}, {})
Plain == Text("ok", {}, {})
Claiming == Text("ok", {}, {sentence(0, 9, {}, TRUE, 1)})

\* "Acme Corporation acquired Globex Inc ... Ada Lovelace", where the person
\* pattern also matches at the first name and inside the second.
Names == {span(0, 4, "Company", "Acme Corporation"), span(0, 4, "Person", "Acme Corporation"),
          span(6, 8, "Company", "Globex Inc"), span(7, 9, "Person", "Ada Lovelace"),
          span(0, 2, "Location", "Berlin")}
Telling(candidates) ==
    Text("ok", candidates, {sentence(0, 9, {"ACQUIRED", "AFFECTS"}, FALSE, 2)})

doc(n, source, text) == [id |-> <<"doc", n>>, source |-> source, text |-> text]
of(tenant, d) == [tenant |-> tenant, document |-> d]

\* Ways of spreading the kinds of keys over the partitions.
Split(kinds) == [k \in Kind |-> IF k \in kinds THEN 2 ELSE 1]
LinksApart == Split({"published", "article-document", "mentions", "evidence-entity",
                     "evidence-claim", "article-claim", "relationship"})
NodesApart == Split({"article", "entity"})
Together == Split({})

scenario(documents, takedowns, analytics, hash, maxFaults, maxResets) ==
    [documents |-> documents, takedowns |-> takedowns, analytics |-> analytics, hash |-> hash,
     maxFaults |-> maxFaults, maxResets |-> maxResets]

Ask(tenant, id) == [tenant |-> tenant, entity |-> id]
BerlinId == <<"entity", "Location", "berlin">>
AcmeId == <<"entity", "Company", "acme">>

\* A rich text; two tenants that have one source id and one entity in common, or
\* nothing, and ask about an entity of their own.
Rich == {scenario(<<of("t1", doc(1, "s1", Telling(Names)))>>, {}, <<>>, LinksApart, 0, 0)}
Shared ==
    {scenario(<<of("t1", doc(1, "s1", Berlin)), of("t2", doc(2, "s1", Berlin))>>, {},
              <<Ask("t2", BerlinId)>>, NodesApart, 0, 0)}
Apart ==
    {scenario(<<of("t1", doc(1, "s1", Berlin)), of("t2", doc(2, "s2", Acme))>>, {},
              <<Ask("t2", AcmeId)>>, NodesApart, 0, 0)}
\* Deaths at every point, with a claim, with a mention, with refused texts.
Faulty ==
    {scenario(<<of("t1", doc(1, "s1", Claiming))>>, {}, <<>>, Together, 1, 0),
     scenario(<<of("t1", doc(1, "s1", Berlin))>>, {}, <<>>, NodesApart, 1, 0)}
    \cup {scenario(<<of("t1", doc(1, "s1", Text(size, {}, {})))>>, {},
                   <<Ask("t1", BerlinId)>>, LinksApart, 1, 1) : size \in {"blank", "long", "huge"}}
\* A takedown that races the documents of its source, a death, or a replay.
Racing ==
    {scenario(<<of("t1", doc(1, "s1", Plain)), of("t1", doc(2, "s1", Plain))>>,
              {<<"t1", "s1">>}, <<>>, LinksApart, 0, 0)}
    \cup {scenario(<<of("t1", doc(1, "s1", Plain))>>, {<<"t1", "s1">>}, <<>>, Together, 1, 0),
          scenario(<<of("t1", doc(1, "s1", Plain))>>, {<<"t1", "s1">>}, <<>>, LinksApart, 0, 1)}

MCScenarios == Rich \cup Shared \cup Apart \cup Faulty \cup Racing
===============================================================================
