------------------------------- MODULE Search -------------------------------
(***************************************************************************)
(* The document list (server/app.py:120-151, server/store.py:223-358): the *)
(* filters, the keyword and the semantic leg, their fusion by reciprocal   *)
(* ranks, the cuts, and the rows read one by one.  Each statement sees the *)
(* database of its own moment: documents are corrected and removed between *)
(* them.                                                                   *)
(***************************************************************************)
EXTENDS Orders

CONSTANTS
    Docs,       \* rowids; a larger one was created later
    Distances,  \* distances of vectors to the query that are tried, in hundredths
    Far,        \* one more, beyond every cap: also of a document without vector
    Limits,     \* values of limit that clients ask for
    KeywordTop, VectorTop,  \* how many hits each leg returns (100)
    MaxLimit,   \* largest answer (200)
    RrfK,       \* _RRF_K
    MaxDistance, SoloMaxDistance, SoloMargin,  \* the _VEC_ constants, in hundredths
    MaxWrites   \* bound: corrections and removals during the search

ASSUME SearchAssumption ==
    /\ Docs \subseteq Nat /\ IsFiniteSet(Docs)
    /\ Distances \cup {Far, KeywordTop, VectorTop, MaxLimit, RrfK, MaxDistance, SoloMaxDistance, SoloMargin,
                       MaxWrites} \subseteq Nat
    /\ Far > MaxDistance
    /\ Limits \subseteq Int

VARIABLES
    matches,   \* documents that exist, and whether the filters hold for them
    hits,      \* doc_fts: documents that have the query's terms, by bm25
    distance,  \* doc_vec: how far their vectors are from the query's
    request,   \* the request
    step,      \* its next statement
    allowed,   \* allowed_ids; None is NoFilter
    keyword,   \* fts_ranked
    ids,       \* ids, those not yet fetched
    answer,    \* docs
    written    \* history: documents corrected or removed since the request

store == <<matches, hits, distance>>
frame == <<request, step, allowed, keyword, ids, answer>>
searchVars == <<store, frame, written>>

Request == [query : BOOLEAN, filter : BOOLEAN, limit : Limits]
\* Orders of some documents.
Rankings ==
    UNION {{seq \in [1 .. n -> Docs] : Distinct(seq)} : n \in 0 .. Cardinality(Docs)}
NoFilter == [all |-> TRUE, ids |-> {}]
Filtered(S) == [all |-> FALSE, ids |-> S]

\* limit, clamped.
Clamped(limit) ==
    LET most == IF limit < MaxLimit THEN limit ELSE MaxLimit IN IF most < 1 THEN 1 ELSE most

-----------------------------------------------------------------------------
\* (broken) an empty set is taken for no filter.
AllowedIfAny(d) == allowed.all \/ allowed.ids = {} \/ d \in allowed.ids
Allowed(d) == allowed.all \/ d \in allowed.ids

\* _filtered_ids.
Filter ==
    /\ step = "filter"
    /\ allowed' = IF request.filter THEN Filtered({d \in Docs : matches[d] = "yes"}) ELSE NoFilter
    /\ step' = IF request.query THEN "keyword" ELSE "newest"
    /\ UNCHANGED <<store, request, keyword, ids, answer, written>>

\* Without a query: the newest.
Newer == {p \in Docs \X Docs : p[1] > p[2]}
Newest ==
    /\ step = "newest"
    /\ ids' = Cut(InOrder({d \in Docs : matches[d] # "absent" /\ Allowed(d)}, Newer),
                  Clamped(request.limit))
    /\ step' = "fetch"
    /\ UNCHANGED <<store, request, allowed, keyword, answer, written>>

\* The keyword leg.
Keyword ==
    /\ step = "keyword"
    /\ keyword' = Cut(hits, KeywordTop)
    /\ step' = "vector"
    /\ UNCHANGED <<store, request, allowed, ids, answer, written>>

Confirmed(d) == d \in Elements(keyword)

\* The nearest documents, nearest first, under the sanity cap.
Nearer ==
    {p \in Docs \X Docs :
        \/ distance[p[1]] < distance[p[2]]
        \/ distance[p[1]] = distance[p[2]] /\ p[1] < p[2]}
Candidates ==
    Sift(Cut(InOrder({d \in Docs : distance[d] # Far}, Nearer), VectorTop),
         {d \in Docs : distance[d] <= MaxDistance})

\* (broken) the margin is to the candidate before.
MarginToPrevious(candidates, d) ==
    LET i == Rank(candidates, d) IN
    /\ ~Confirmed(candidates[1]) /\ d \in Elements(candidates)
    /\ i = 1 \/ distance[d] <= distance[candidates[IF i = 1 THEN 1 ELSE i - 1]] + SoloMargin
\* Near the best candidate, where that is not confirmed by the keyword leg.
WithinMargin(candidates, d) ==
    /\ ~Confirmed(candidates[1])
    /\ distance[d] <= distance[candidates[1]] + SoloMargin

\* The semantic leg: confirmed hits, strong evidence, or near the best.
Admitted(candidates) ==
    Sift(candidates, {d \in Docs :
        Confirmed(d) \/ distance[d] <= SoloMaxDistance \/ WithinMargin(candidates, d)})

\* Reciprocal ranks are kept as fractions.
Reciprocal(seq, d) == [n |-> 1, d |-> RrfK + Rank(seq, d)]
Plus(x, y) == [n |-> x.n * y.d + y.n * x.d, d |-> x.d * y.d]
Greater(x, y) == x.n * y.d > y.n * x.d

\* The sum over the legs that found it.
Score(d, semantic) ==
    IF ~Confirmed(d) THEN Reciprocal(semantic, d)
    ELSE IF d \in Elements(semantic) THEN Plus(Reciprocal(keyword, d), Reciprocal(semantic, d))
    ELSE Reciprocal(keyword, d)

\* Best score first; equals in the order they were entered.
Entered(semantic) == keyword \o Sift(semantic, Docs \ Elements(keyword))
Better(semantic) ==
    LET scored == Elements(Entered(semantic)) IN
    {p \in scored \X scored :
        \/ Greater(Score(p[1], semantic), Score(p[2], semantic))
        \/ /\ ~Greater(Score(p[2], semantic), Score(p[1], semantic))
           /\ Rank(Entered(semantic), p[1]) < Rank(Entered(semantic), p[2])}
Fused(semantic) == InOrder(Elements(Entered(semantic)), Better(semantic))

AllAllowed == {d \in Docs : Allowed(d)}
\* (broken) the list is cut before it is filtered.
CutThenFilter(ranked) == Sift(Cut(ranked, Clamped(request.limit)), AllAllowed)
FilterThenCut(ranked) == Cut(Sift(ranked, AllAllowed), Clamped(request.limit))

\* The semantic leg, or none when the query could not be embedded.
Vector ==
    /\ step = "vector"
    /\ \E embedded \in BOOLEAN :
        ids' = FilterThenCut(Fused(IF embedded /\ Candidates # <<>> THEN Admitted(Candidates) ELSE <<>>))
    /\ step' = "fetch"
    /\ UNCHANGED <<store, request, allowed, keyword, answer, written>>

\* The row of one document, if it is still there; then the answer.
Fetch ==
    /\ step = "fetch"
    /\ IF ids = <<>> THEN step' = "end" /\ UNCHANGED <<ids, answer>>
       ELSE /\ ids' = Tail(ids)
            /\ answer' = IF matches[Head(ids)] = "absent" THEN answer ELSE Append(answer, Head(ids))
            /\ UNCHANGED step
    /\ UNCHANGED <<store, request, allowed, keyword, written>>

-----------------------------------------------------------------------------
(* Writers *)

MayWrite(d) ==
    /\ step # "end"
    /\ matches[d] # "absent"
    /\ Cardinality(written) < MaxWrites

\* Whether the filters hold for a document; without any they do.
Verdicts == IF request.filter THEN {"yes", "no"} ELSE {"yes"}

\* apply_correction commits the row ...
Correct(d) ==
    /\ MayWrite(d)
    /\ \E verdict \in Verdicts : matches' = [matches EXCEPT ![d] = verdict]
    /\ written' = written \cup {d}
    /\ UNCHANGED <<hits, distance, frame>>

\* ... and index_document, in a transaction of its own, builds its keyword row
\* anew, and its vector where the text could be embedded: it may match now, no
\* longer match, or rank elsewhere.
Rebuild(d) ==
    /\ request.query /\ step # "end"
    /\ d \in written /\ matches[d] # "absent"
    /\ hits' \in {ranking \in Rankings : Sift(ranking, Docs \ {d}) = Sift(hits, Docs \ {d})}
    /\ \E far \in Distances \cup {distance[d]} : distance' = [distance EXCEPT ![d] = far]
    /\ UNCHANGED <<matches, written, frame>>

\* delete_document: the row and both index entries.
Delete(d) ==
    /\ MayWrite(d)
    /\ matches' = [matches EXCEPT ![d] = "absent"]
    /\ hits' = Sift(hits, Docs \ {d})
    /\ distance' = [distance EXCEPT ![d] = Far]
    /\ written' = written \cup {d}
    /\ UNCHANGED frame

-----------------------------------------------------------------------------
\* Without a query there is nothing to match or to be near to.
SearchInit ==
    /\ request \in Request
    /\ matches \in [Docs -> Verdicts]
    /\ hits \in IF request.query THEN Rankings ELSE {<<>>}
    /\ distance \in [Docs -> IF request.query THEN Distances \cup {Far} ELSE {Far}]
    /\ step = "filter"
    /\ allowed = NoFilter
    /\ keyword = <<>> /\ ids = <<>> /\ answer = <<>>
    /\ written = {}

SearchNext ==
    \/ Filter \/ Newest \/ Keyword \/ Vector \/ Fetch
    \/ \E d \in Docs : Correct(d) \/ Rebuild(d) \/ Delete(d)

SearchSpec == SearchInit /\ [][SearchNext]_searchVars

-----------------------------------------------------------------------------
(* Properties, of answers to which documents were written or not meanwhile *)

Answered == step = "end"
Undisturbed == Docs \ written
Passes(d) == d \in Undisturbed /\ (request.filter => matches[d] = "yes")
Shown(d) == d \in Elements(answer)

\* Whether a query's answer was full before documents were removed from it.
Full == Len(answer) + Cardinality(written) >= Clamped(request.limit)

\* Every answer satisfies the filters, or was written since they were
\* evaluated (store.py:282, 341-342).
AnswersPass == Answered => \A d \in Elements(answer) : Passes(d) \/ d \in written

\* A keyword hit, or any document when there is no query, is left out only when
\* it does not pass the filters or the answer is full: the filters come first
\* ("Pre-filter by structured criteria", store.py:231).
NothingLost ==
    Answered => \A d \in Docs :
        Passes(d) /\ ~Shown(d) /\ (request.query => d \in Elements(hits)) => Full

\* What is left of it, of the hits among the first KeywordTop, which are cut
\* before the filters are applied: neither the semantic leg nor the order of the
\* filter and the last cut loses one, and no limit empties the list
\* (store.py:281-294, 335-343).
TopHitsKept ==
    Answered => \A d \in Docs :
        Passes(d) /\ ~Shown(d) /\ (request.query => Confirmed(d)) => Full

\* The rank in the keyword leg, past its end for a document it did not find.
KeywordRank(d) == IF Confirmed(d) THEN Rank(keyword, d) ELSE KeywordTop + 1

\* A document that is closer to the query than another, and not behind it in
\* the keyword leg, comes before it and is not left out for it, whichever of
\* the rules on margins and evidence let the other in (store.py:318-343).
BetterFirst ==
    Answered /\ request.query =>
        \A d, e \in Undisturbed :
            /\ Passes(d) /\ Shown(e)
            /\ KeywordRank(d) <= KeywordRank(e)
            /\ distance[d] < distance[e]
            => Shown(d) /\ Rank(answer, d) < Rank(answer, e)
=============================================================================
