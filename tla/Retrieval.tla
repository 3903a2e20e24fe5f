------------------------------ MODULE Retrieval ------------------------------
(***************************************************************************)
(* How a run finds its notices: HybridSearcher.search, then the nodes       *)
(* resolve_duplicates and verify_evidence, beside importers that commit new *)
(* versions between any two of its queries.                                 *)
(*                                                                         *)
(* A version never changes once it is there, except that its embedding may *)
(* be filled in.  A text is <<what it says, how it is formatted>>; the ways *)
(* to normalize texts, numbers and URLs all keep what it says.  What it says *)
(* is "" for a text of spaces only, and NoText is None or the empty string. *)
(***************************************************************************)
EXTENDS Integers, Sequences, FiniteSets, SequencesExt

CONSTANTS
    Versions,   \* notice versions
    Corpora,    \* what the versions may be: functions from Versions to records
    Queries,    \* retrieval plans
    TopK,       \* top_k: 20
    RrfK        \* RRF_K: 60

ASSUME RetrievalAssumption == {TopK, RrfK} \subseteq Nat \ {0} /\ IsFiniteSet(Versions)

VARIABLES
    corpus, query,  \* fixed
    library,        \* versions that are committed
    embedded,       \* those with an embedding
    at,             \* the step the run is at
    admitted,       \* candidate_ids of the search
    lexical, vector,
    degraded,
    found,          \* candidate_notice_ids
    next,           \* the pair of candidates that is compared next
    groups,         \* duplicate_groups: [pair, by]
    opportunities,  \* verified_opportunities: [version, spans]
    evidence        \* evidence_by_id, by the hash of the text

storeVars  == <<library, embedded>>
searchVars == <<admitted, lexical, vector, degraded>>
reportVars == <<groups, opportunities, evidence>>
retrievalVars == <<corpus, query, storeVars, at, searchVars, found, next, reportVars>>

Null == -1
NoText == <<"", 0>>
Says(text) == text[1]

RetrievalInit ==
    /\ corpus \in Corpora /\ query \in Queries
    /\ library \in SUBSET Versions /\ embedded \in SUBSET library
    /\ at = "filter"
    /\ admitted = {} /\ lexical = <<>> /\ vector = <<>> /\ degraded = FALSE
    /\ found = <<>> /\ next = 1
    /\ groups = {} /\ opportunities = <<>> /\ evidence = <<>>

Goto(step) == at' = step

-----------------------------------------------------------------------------
(* The search                                                              *)

\* _apply_structured_filters.  A region stands for those it is a prefix of, and a
\* column without a value passes no comparison.
Admits(q, x) ==
    /\ ~x.cancelled
    /\ q.regions = {} \/ \E r \in q.regions : IsPrefix(r, x.region)
    /\ q.from = Null \/ (x.published # Null /\ x.published >= q.from)
    /\ q.to = Null \/ (x.published # Null /\ x.published <= q.to)
    /\ q.budget = Null \/ (x.budget # Null /\ x.budget >= q.budget)

\* ORDER BY ... LIMIT top_k: the orders in which a ranked query may return S.
RankedBy(S, score) ==
    LET sorted == {s \in SetToSeqs(S) : \A i, j \in DOMAIN s : i < j => score[s[i]] >= score[s[j]]}
    IN  {SubSeq(s, 1, IF Len(s) < TopK THEN Len(s) ELSE TopK) : s \in sorted}

Similarity == [v \in Versions |-> corpus[v].similarity]
Nearness   == [v \in Versions |-> -corpus[v].distance]

Filter ==
    /\ at = "filter" /\ Goto("lexical")
    /\ admitted' = {v \in library : Admits(query, corpus[v])}
    /\ UNCHANGED <<corpus, query, storeVars, lexical, vector, degraded, found, next, reportVars>>

\* Fault: the titles are ranked first and filtered afterwards.
LexicalRecallFirst ==
    /\ at = "lexical" /\ Goto("embed")
    /\ \E s \in RankedBy(library, Similarity) :
         lexical' = SelectSeq(s, LAMBDA v : v \in admitted)
    /\ UNCHANGED <<corpus, query, storeVars, admitted, vector, degraded, found, next, reportVars>>

LexicalRecall ==
    /\ at = "lexical" /\ Goto("embed")
    /\ lexical' \in RankedBy(admitted, Similarity)
    /\ UNCHANGED <<corpus, query, storeVars, admitted, vector, degraded, found, next, reportVars>>

\* _embed_query: a blank query has no embedding, and any failure degrades the search.
EmbedQuery ==
    /\ at = "embed"
    /\ \/ Goto(IF query.blank THEN "fuse" ELSE "vector") /\ UNCHANGED degraded
       \/ ~query.blank /\ Goto("fuse") /\ degraded' = TRUE
    /\ UNCHANGED <<corpus, query, storeVars, admitted, lexical, vector, found, next, reportVars>>

\* Fault: the embeddings of all versions are searched.
VectorRecallAll ==
    /\ at = "vector" /\ Goto("fuse")
    /\ \E S \in SUBSET embedded : vector' \in RankedBy(S, Nearness)
    /\ UNCHANGED <<corpus, query, storeVars, admitted, lexical, degraded, found, next, reportVars>>

\* The index over the embeddings is approximate and may leave rows out.
VectorRecall ==
    /\ at = "vector" /\ Goto("fuse")
    /\ \E S \in SUBSET (admitted \cap embedded) : vector' \in RankedBy(S, Nearness)
    /\ UNCHANGED <<corpus, query, storeVars, admitted, lexical, degraded, found, next, reportVars>>

\* The 1-based rank of v, or 0.
Rank(ranked, v) == SelectInSeq(ranked, LAMBDA w : w = v)

\* The sum of 1 / (RrfK + rank) over the lists that have v, as a fraction.
Score(v) ==
    LET l == RrfK + Rank(lexical, v)  w == RrfK + Rank(vector, v) IN
    CASE v \notin Range(vector)  -> <<1, l>>
      [] v \notin Range(lexical) -> <<1, w>>
      [] OTHER -> <<l + w, l * w>>

Higher(v, w) == Score(v)[1] * Score(w)[2] > Score(w)[1] * Score(v)[2]

\* Fault: the lowest score comes first.
FusedAscending ==
    CHOOSE s \in SetToSeqs(Range(lexical) \cup Range(vector)) :
        \A i, j \in DOMAIN s : i < j => ~Higher(s[i], s[j])

Ahead(ranked, v, w) ==
    v \in Range(ranked) /\ (w \notin Range(ranked) \/ Rank(ranked, v) < Rank(ranked, w))

\* Scores are kept in the order in which the lists name the versions.
NamedBefore(v, w) ==
    \/ Ahead(lexical, v, w)
    \/ {v, w} \cap Range(lexical) = {} /\ Ahead(vector, v, w)

\* _reciprocal_rank_fuse: the highest score first, and the sort is stable.
FusedBefore(v, w) == Higher(v, w) \/ (~Higher(w, v) /\ NamedBefore(v, w))

Fused ==
    CHOOSE s \in SetToSeqs(Range(lexical) \cup Range(vector)) :
        \A i, j \in DOMAIN s : i < j => FusedBefore(s[i], s[j])

Fuse ==
    /\ at = "fuse" /\ Goto("resolve")
    /\ found' = Fused /\ next' = 1
    /\ UNCHANGED <<corpus, query, storeVars, searchVars, reportVars>>

-----------------------------------------------------------------------------
(* Duplicates                                                              *)

\* Fault: only the number of the first notice is stripped.
SameNumberHalf(x, y) ==
    Says(x.number) # "" /\ <<Says(x.number), 0>> = y.number

SameNumber(x, y) == Says(x.number) # "" /\ Says(x.number) = Says(y.number)

\* _distinct_reasons: the numbers are compared as they are written.
Conflict(x, y) ==
    /\ x.number # NoText /\ y.number # NoText /\ x.number # y.number
    /\ \/ Says(x.purchaser) # Says(y.purchaser)
       \/ x.budget # y.budget
       \/ x.region # y.region

\* classify_duplicate
Classify(x, y) ==
    CASE \/ x.hash = y.hash
         \/ SameNumber(x, y)
         \/ x.source = y.source /\ Says(x.url) = Says(y.url) -> "exact"
      [] OTHER -> IF Conflict(x, y) THEN "distinct" ELSE "ambiguous"

Pairs == Len(found) * Len(found)
Pair(k) == <<found[1 + ((k - 1) \div Len(found))], found[1 + ((k - 1) % Len(found))]>>

\* One pair: the rules decide it, or the model is asked.  Its answer goes into the
\* group and is not looked at again.
ResolvePair ==
    LET pair == Pair(next)
        decision == Classify(corpus[pair[1]], corpus[pair[2]])
    IN  /\ at = "resolve" /\ next <= Pairs
        /\ next' = next + 1
        /\ groups' = IF pair[1] = pair[2] \/ decision = "distinct" THEN groups
                     ELSE groups \cup {[pair |-> pair,
                                        by |-> IF decision = "exact" THEN "rules" ELSE "model"]}
        /\ UNCHANGED <<corpus, query, storeVars, at, searchVars, found, opportunities, evidence>>

\* The model fails, and the node with it.
ModelFails ==
    /\ at = "resolve" /\ next <= Pairs
    /\ LET pair == Pair(next) IN
       pair[1] # pair[2] /\ Classify(corpus[pair[1]], corpus[pair[2]]) = "ambiguous"
    /\ Goto("failed")
    /\ UNCHANGED <<corpus, query, storeVars, searchVars, found, next, reportVars>>

-----------------------------------------------------------------------------
(* Evidence                                                                *)

\* extract_evidence: the texts of a version are joined in their order, and each is
\* found again behind the one before.
Spans(v) == corpus[v].texts

Texts == UNION {Range(Spans(v)) : v \in Range(found)}

\* Fault: a text that two versions share belongs to the last of them.
EvidenceLast ==
    [text \in Texts |-> {CHOOSE v \in Range(found) :
        /\ text \in Range(Spans(v))
        /\ \A w \in Range(found) : text \in Range(Spans(w)) => Rank(found, w) <= Rank(found, v)}]

\* The spans under a hash, by the version each belongs to.
EvidenceOf == [text \in Texts |-> {v \in Range(found) : text \in Range(Spans(v))}]

VerifyEvidence ==
    /\ at = "resolve" /\ next > Pairs /\ Goto("done")
    /\ opportunities' = [i \in DOMAIN found |-> [version |-> found[i], spans |-> Spans(found[i])]]
    /\ evidence' = EvidenceOf
    /\ UNCHANGED <<corpus, query, storeVars, searchVars, found, next, groups>>

-----------------------------------------------------------------------------

StoreOnly == UNCHANGED <<corpus, query, at, searchVars, found, next, reportVars>>

Commit(v) ==
    /\ v \notin library /\ library' = library \cup {v}
    /\ UNCHANGED embedded /\ StoreOnly

\* Nothing in the backend writes an embedding; whoever does may do so at any time.
Embed(v) ==
    /\ v \in library \ embedded /\ embedded' = embedded \cup {v}
    /\ UNCHANGED library /\ StoreOnly

RetrievalNext ==
    \/ Filter \/ LexicalRecall \/ EmbedQuery \/ VectorRecall \/ Fuse
    \/ ResolvePair \/ ModelFails \/ VerifyEvidence
    \/ \E v \in Versions : Commit(v) \/ Embed(v)

RetrievalSpec == RetrievalInit /\ [][RetrievalNext]_retrievalVars

-----------------------------------------------------------------------------
(* Properties                                                              *)

Searched == at \in {"resolve", "failed", "done"}

\* The filters come first: nothing is found that they do not admit, or that has come
\* after they were applied, and nothing they admit is crowded out by what they do
\* not: it is found, or top_k admitted versions are.
FilterComesFirst ==
    Searched =>
        /\ Range(found) \subseteq admitted
        /\ admitted \subseteq Range(found) \/ Len(found) >= TopK

NotBehind(ranked, v, w) == w \in Range(ranked) => Ahead(ranked, v, w)

\* The fusion names each version once, and where one list puts a version ahead of
\* another and the other list does not object, so does the fused one.
FusionKeepsAgreement ==
    Searched =>
        /\ IsInjective(found) /\ Range(found) = Range(lexical) \cup Range(vector)
        /\ \A v, w \in Range(found) :
             /\ Ahead(lexical, v, w) \/ Ahead(vector, v, w)
             /\ NotBehind(lexical, v, w) /\ NotBehind(vector, v, w)
             => Rank(found, v) < Rank(found, w)

\* Each pair is compared in both directions: whether the rules call it a duplicate
\* or the model is asked does not depend on which notice comes first.  What the model
\* then says is not in groups: it is asked for each direction and may differ by it.
PairsAreMutual ==
    next > Pairs => \A d \in groups : [d EXCEPT !.pair = <<@[2], @[1]>>] \in groups

\* Every span of every opportunity is found under its hash with its own version,
\* also when other versions have the same text.
SpansResolve ==
    at = "done" =>
        /\ Len(opportunities) = Len(found)
        /\ \A o \in Range(opportunities) :
             \A text \in Range(o.spans) : o.version \in evidence[text]
=============================================================================
