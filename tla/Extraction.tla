------------------------------ MODULE Extraction ------------------------------
(***************************************************************************)
(* What the NLP pipeline reads out of a text and how its findings are      *)
(* identified: services/nlp-pipeline/app.py, entity-resolution/resolver.py *)
(* and claim-intelligence/engine.py.                                       *)
(*                                                                         *)
(* A text is what the regular expressions find in it: the spans matched by *)
(* the entity patterns, and the sentences with the relation keywords they  *)
(* contain, whether the claim pattern matches them, and a digest.  An      *)
(* identifier is a tuple whose first component is the kind of identifier.  *)
(***************************************************************************)
EXTENDS Integers, FiniteSets, Sequences

CONSTANTS casefolded,      \* casefolded[n]: n.casefold(), blanks collapsed
          slug,            \* slug[n]: the identifier made of n
          DEFAULT_ALIASES  \* known entities: casefolded spelling -> entity id

\* The aliases name entities (company:acme and the like).
ASSUME AliasAssumption ==
    \A n \in DOMAIN DEFAULT_ALIASES : DEFAULT_ALIASES[n][1] = "entity"

EntityType == {"Company", "GovernmentAgency", "Organization", "Location", "Person"}
Predicates == <<"PARTNERED_WITH", "ACQUIRED", "INVESTED_IN", "COMPETES_WITH",
                "REGULATES", "AFFECTS">>

\* The confidence of each pattern, in hundredths.
Confidence == [Company |-> 94, GovernmentAgency |-> 93, Organization |-> 91,
               Location |-> 97, Person |-> 83]

\* The elements of seq at the given positions, in order: what a filtering loop
\* leaves.
Picked(seq, positions) ==
    LET first[n \in 0..Len(seq)] ==
          IF n = 0 THEN <<>>
          ELSE IF n \in positions THEN Append(first[n - 1], seq[n]) ELSE first[n - 1]
    IN  first[Len(seq)]

Elements(seq) == {seq[i] : i \in DOMAIN seq}

\* What the expressions can find: a pattern matches no empty span and none twice from
\* one place, and neither does the one for sentences.
TextOK(text) ==
    /\ text = [size |-> text.size, candidates |-> text.candidates,
               sentences |-> text.sentences]
    /\ IsFiniteSet(text.candidates) /\ IsFiniteSet(text.sentences)
    /\ \A c \in text.candidates :
         c.type \in EntityType /\ c.start \in Nat /\ c.end \in Nat /\ c.start < c.end
    /\ \A b, c \in text.candidates : b.type = c.type /\ b.start = c.start => b = c
    /\ \A s \in text.sentences :
         s.start \in Nat /\ s.end \in Nat /\ s.keywords \subseteq Elements(Predicates)
    /\ \A r, s \in text.sentences : r.start = s.start => r = s

----------------------------------------------------------------------------
(* app.py *)

evidence(document, span) == <<"ev", document, span.start, span.end>>

\* Document and extract: a text that is blank, or longer than two million
\* characters, fails validation, and with it the whole document.
ExtractRefuses(text) == text.size \in {"blank", "long", "huge"}

Overlap(a, b) == a.start < b.end /\ a.end > b.start

\* Mutant: nested candidates are sorted by confidence alone.
BeforeConfident(a, b) ==
    \/ a.start < b.start
    \/ a.start = b.start /\ Confidence[a.type] > Confidence[b.type]

\* The sort key of the candidates: leftmost, then longest, then most confident.
Before(a, b) ==
    \/ a.start < b.start
    \/ /\ a.start = b.start
       /\ \/ a.end > b.end
          \/ a.end = b.end /\ Confidence[a.type] > Confidence[b.type]

\* A set of spans as a sequence, in that order.
InOrder(spans) ==
    [i \in 1..Cardinality(spans) |->
       CHOOSE c \in spans : Cardinality({b \in spans : Before(b, c)}) = i - 1]

\* extract_mentions: candidates in order, each kept if it overlaps none so far.
extract_mentions(text) ==
    LET spans == InOrder(text.candidates)
        accepted[n \in 0..Len(spans)] ==
          IF n = 0 THEN {}
          ELSE LET before == accepted[n - 1]
               IN  IF \E i \in before : Overlap(spans[n], spans[i])
                   THEN before ELSE before \cup {n}
    IN  Picked(spans, accepted[Len(spans)])

\* The sentences of a text by position.
Sentences(text) ==
    [i \in 1..Cardinality(text.sentences) |->
       CHOOSE s \in text.sentences :
         Cardinality({r \in text.sentences : r.start < s.start}) = i - 1]

\* extract_claims: a claim for every sentence the claim pattern matches.
claim_id(sentence) == <<"claim", sentence.digest>>
extract_claims(text) ==
    LET sentences == Sentences(text)
    IN  Picked(sentences, {i \in DOMAIN sentences : sentences[i].claim})

Within(mentions, sentence) ==
    Picked(mentions, {i \in DOMAIN mentions : /\ mentions[i].start >= sentence.start
                                             /\ mentions[i].end <= sentence.end})

\* The first predicate, in the table's order, that has a keyword in the sentence.
PredicateOf(sentence) ==
    Picked(Predicates, {i \in DOMAIN Predicates : Predicates[i] \in sentence.keywords})[1]

\* extract_relations: the first two mentions of every sentence that has two
\* mentions and a keyword.
extract_relations(document, text) ==
    LET mentions  == extract_mentions(text)
        sentences == Sentences(text)
        related   == Picked(sentences, {i \in DOMAIN sentences :
                      Len(Within(mentions, sentences[i])) >= 2 /\ sentences[i].keywords # {}})
        relation(s) ==
            LET subject == Within(mentions, s)[1]
                object  == Within(mentions, s)[2]
            IN  [id |-> <<"relationship", evidence(document, subject),
                          PredicateOf(s), evidence(document, object), s.digest>>,
                 subject |-> subject, predicate |-> PredicateOf(s), object |-> object,
                 sentence |-> s]
    IN  [i \in DOMAIN related |-> relation(related[i])]

----------------------------------------------------------------------------
(* resolver.py *)

\* resolve_mention: a known alias, an identifier made of type and spelling when
\* the pattern is trusted, and a candidate of its own, spelt as it is, otherwise.
resolve_mention(m) ==
    IF casefolded[m.name] \in DOMAIN DEFAULT_ALIASES
    THEN DEFAULT_ALIASES[casefolded[m.name]]
    ELSE IF Confidence[m.type] >= 90
    THEN <<"entity", m.type, slug[m.name]>>
    ELSE <<"entity", "candidate", m.type, m.name>>

\* engine.py: claims that differ in case and punctuation only share a cluster.
cluster_id(sentence) == <<"claim-cluster", sentence.normalized>>

----------------------------------------------------------------------------
(* Properties *)

\* The mentions of a text are spans that do not overlap, and a candidate is left
\* out only for one that starts before it, or starts with it and is longer, or is
\* as long and more certain (the sort and the loop of extract_mentions).
MentionsExact(text) ==
    LET mentions == Elements(extract_mentions(text))
        wins(a, b) == \/ a.start < b.start
                      \/ a.start = b.start /\ a.end > b.end
                      \/ /\ a.start = b.start /\ a.end = b.end
                         /\ Confidence[a.type] >= Confidence[b.type]
    IN  /\ mentions \subseteq text.candidates
        /\ \A a, b \in mentions : Overlap(a, b) => a = b
        /\ \A c \in text.candidates \ mentions :
             \E m \in mentions : Overlap(c, m) /\ wins(m, c)

\* A relation joins two different mentions of the document, both inside one
\* sentence, the subject first, with no third mention of the sentence before or
\* between them; a sentence yields one relation at most (extract_relations).
RelationsExact(document, text) ==
    LET relations == extract_relations(document, text)
        mentions  == Elements(extract_mentions(text))
    IN  /\ \A i \in DOMAIN relations :
             LET r == relations[i]
             IN  /\ {r.subject, r.object} \subseteq mentions
                 /\ r.subject.end <= r.object.start
                 /\ \A m \in mentions \ {r.subject, r.object} :
                      m.start >= r.sentence.start => m.start >= r.object.end
                 /\ r.sentence.start <= r.subject.start
                 /\ r.object.end <= r.sentence.end
        /\ \A i, j \in DOMAIN relations :
             relations[i].sentence = relations[j].sentence => i = j
===============================================================================
