---------------------------- MODULE GroundedAnswers ----------------------------
(*****************************************************************************)
(* From chunks to cited answers: the evidence of buildLocalRepositoryReview,  *)
(* the claims of buildDeterministicReviewBundle, the lexical index of         *)
(* packages/retrieval, the answerer of packages/answering, the one that asks  *)
(* a model, and the citations of apps/api.                                    *)
(*                                                                            *)
(* A text is the sequence of its words and its number of bytes, one for a     *)
(* character; a question of no bytes is a blank one.  Identifiers sort as     *)
(* their parts do.  The overview's claim stands for those of the flow,        *)
(* coverage and uncertainty concepts, which cite the same evidence.           *)
(*****************************************************************************)
EXTENDS Integers, Sequences, FiniteSets, SequencesExt

CONSTANTS
  NameRank,       \* the order of names
  Configuration,  \* the names whose evidence is of kind configuration
  StopWords,
  ConceptWords, ConceptBytes, \* the text of a derived document, by concept
  ResultLimit, ContextBytes, QueryBytes, \* of the deterministic answerer
  ProviderResults, Supplement, ProviderBytes, \* of the one that asks a model
  Documentation   \* names of documentation

ASSUME AnswerAssumption ==
  /\ ResultLimit \in Nat \ {0} /\ ContextBytes \in Nat \ {0} /\ QueryBytes \in Nat \ {0}
  /\ ProviderResults \in Nat \ {0} /\ Supplement \in Nat \ {0} /\ ProviderBytes \in Nat \ {0}
  /\ ConceptBytes \in Nat \ {0}
  /\ \A m, n \in DOMAIN NameRank :
       NameRank[m] \in Nat /\ (NameRank[m] = NameRank[n] => m = n)

Concepts == {"component", "integration", "overview"}

-----------------------------------------------------------------------------
PathBefore(p, q) ==
  \E k \in DOMAIN q :
    /\ k - 1 <= Len(p) /\ SubSeq(p, 1, k - 1) = SubSeq(q, 1, k - 1)
    /\ k > Len(p) \/ NameRank[p[k]] < NameRank[q[k]]

\* path, start_line, id.
EvidenceBefore(e, f) ==
  \/ PathBefore(e.path, f.path)
  \/ /\ e.path = f.path
     /\ \/ e.start < f.start
        \/ e.start = f.start /\ e.end < f.end
        \/ e.start = f.start /\ e.end = f.end /\ e.offset < f.offset

First(S) == CHOOSE e \in S : \A f \in S : f = e \/ EvidenceBefore(e, f)

FirstOr(S, all) == IF S # {} THEN First(S) ELSE First(all)

\* evidence_ids[0] of the claim of a concept.
Cited(concept, evidence) ==
  CASE concept = "component"   -> FirstOr({e \in evidence : e.symbol}, evidence)
    [] concept = "integration" ->
         FirstOr({e \in evidence : e.path[Len(e.path)] \in Configuration}, evidence)
    [] concept = "overview"    -> First(evidence)

\* primaryDocuments and derivedDocuments: a text and where it comes from.
Documents(evidence) ==
  {[layer |-> "primary", concept |-> "none", words |-> e.words, bytes |-> e.bytes,
    source |-> e] : e \in evidence}
  \cup {[layer |-> "derived", concept |-> c, words |-> ConceptWords[c], bytes |-> ConceptBytes,
         source |-> Cited(c, evidence)] : c \in Concepts}

\* The identifiers sort derived records first, by concept.
DocumentBefore(d, e) ==
  \/ d.layer = "derived" /\ e.layer = "primary"
  \/ /\ d.layer = "derived" /\ e.layer = "derived"
     /\ <<d.concept, e.concept>> \in {<<"component", "integration">>, <<"component", "overview">>,
                                      <<"integration", "overview">>}
  \/ d.layer = "primary" /\ e.layer = "primary" /\ EvidenceBefore(d.source, e.source)

-----------------------------------------------------------------------------
Terms(question) == question.words \ StopWords

Score(document, terms) == Cardinality({i \in DOMAIN document.words : document.words[i] \in terms})

Better(d, e, terms) ==
  \/ Score(d, terms) > Score(e, terms)
  \/ Score(d, terms) = Score(e, terms) /\ DocumentBefore(d, e)

Ranked(documents, terms) ==
  LET matches == {d \in documents : Score(d, terms) > 0}
  IN  [i \in 1 .. Cardinality(matches) |->
         CHOOSE d \in matches : Cardinality({e \in matches : Better(e, d, terms)}) = i - 1]

\* Of texts of these sizes, put together within a limit, the bytes of the first i.
Taken(sizes, limit) ==
  LET taken[i \in 0 .. Len(sizes)] ==
        IF i = 0 THEN 0
        ELSE IF taken[i - 1] + sizes[i] > limit THEN limit ELSE taken[i - 1] + sizes[i]
  IN  taken

\* The first results, each cut to the bytes that remain; the first one for
\* which nothing remains ends the list.
Results(ranked, results, limit) ==
  LET taken == Taken([i \in DOMAIN ranked |-> ranked[i].bytes], limit)
      kept == {i \in DOMAIN ranked : i <= results /\ taken[i - 1] < limit}
  IN  [i \in 1 .. Cardinality(kept) |-> [document |-> ranked[i], bytes |-> taken[i] - taken[i - 1]]]

Insufficient(reason) == [status |-> reason, results |-> <<>>]

\* query of the index.
Query(documents, question, results, limit) ==
  LET ranked == Ranked(documents, Terms(question))
  IN  IF question.bytes = 0 THEN Insufficient("empty-question")
      ELSE IF Terms(question) = {} THEN Insufficient("no-search-terms")
      ELSE IF ranked = <<>> THEN Insufficient("no-matches")
      ELSE [status |-> "answered", results |-> Results(ranked, results, limit)]

\* The deterministic answerer.
Answer(documents, question) ==
  IF question.bytes > QueryBytes THEN Insufficient("query-too-large")
  ELSE Query(documents, question, ResultLimit, ContextBytes)

-----------------------------------------------------------------------------
\* Which of the other documents the provider is shown first: the file the
\* question names, derived records, documentation.
Urgency(d, question) ==
  LET path == d.source.path
  IN  (IF path[Len(path)] = question.file THEN 0 ELSE 4)
      + (IF d.layer = "derived" THEN 0 ELSE 2)
      + (IF \E k \in DOMAIN path : path[k] \in Documentation THEN 0 ELSE 1)

ShownBefore(d, e, question) ==
  \/ Urgency(d, question) < Urgency(e, question)
  \/ /\ Urgency(d, question) = Urgency(e, question)
     /\ \/ PathBefore(d.source.path, e.source.path)
        \/ d.source.path = e.source.path /\ DocumentBefore(d, e)

\* The documents of the prompt: what the index finds, and of the rest as many
\* as are missing, or three for a broad question.
Selected(documents, question) ==
  LET found == Query(documents, question, ProviderResults, ProviderBytes).results
      retrieved == [i \in DOMAIN found |-> found[i].document]
      rest == documents \ {retrieved[i] : i \in DOMAIN retrieved}
      more == IF question.broad THEN Supplement ELSE ProviderResults - Len(retrieved)
      shown(i) == CHOOSE d \in rest : Cardinality({e \in rest : ShownBefore(e, d, question)}) = i - 1
  IN  retrieved \o [i \in 1 .. IF more < Cardinality(rest) THEN more ELSE Cardinality(rest)
                      |-> shown(i)]

\* createProviderAnswerer: of the identifiers the model names, those of the
\* prompt are cited.
ProviderAnswer(prompt, reply) ==
  LET allowed == {prompt[i] : i \in DOMAIN prompt}
      cited == FlattenSeq([i \in DOMAIN reply |->
                 IF reply[i] \in allowed THEN <<reply[i]>> ELSE <<>>])
  IN  IF cited = <<>> THEN Insufficient("no-matches")
      ELSE [status |-> "answered",
            results |-> [i \in DOMAIN cited |-> [document |-> cited[i], bytes |-> 0]]]

\* Mutant: a derived record is cited as the first piece of evidence.
CitesTheFirst(result, evidence) ==
  [path |-> result.document.source.path, start |-> result.document.source.start,
   end |-> result.document.source.end, excerpt |-> First(evidence).words]

\* mapCitation: provenance from the record, the excerpt from the evidence that
\* its identifier, or its claim, names.
Citation(result, evidence) ==
  LET d == result.document
      e == IF d.layer = "primary" THEN d.source ELSE Cited(d.concept, evidence)
  IN  [path |-> d.source.path, start |-> d.source.start, end |-> d.source.end, excerpt |-> e.words]
=============================================================================
