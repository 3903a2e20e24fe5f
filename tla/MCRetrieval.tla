----------------------------- MODULE MCRetrieval -----------------------------
(* Retrieval over three versions.  The first two range over what their texts   *)
(* may be, which is where the rules on duplicates make their differences; all  *)
(* three differ in what the search sees of them.                               *)
EXTENDS Retrieval, TLC
CONSTANTS v1, v2, v3

Numbers == {NoText, <<"", 1>>, <<"A", 0>>, <<"A", 1>>, <<"B", 0>>}
Fact(similarity, distance, region, published, budget, number, purchaser, url, hash, texts) ==
    [similarity |-> similarity, distance |-> distance, region |-> region,
     published |-> published, budget |-> budget, cancelled |-> FALSE,
     number |-> number, purchaser |-> purchaser, source |-> "ccgp", url |-> url,
     hash |-> hash, texts |-> texts]

First(number) ==
    Fact(2, 1, <<"zj">>, 1, 5, number, <<"P", 0>>, <<"u1", 0>>, 1, <<"t1", "t2">>)
Second(number, purchaser, url) ==
    Fact(1, 1, <<"zj", "province">>, 2, Null, number, purchaser, url, 2, <<"t2">>)
Third(cancelled) ==
    [Fact(2, 2, <<"js">>, Null, 5, NoText, <<"P", 0>>, <<"u3", 0>>, 3, <<"t2", "t1", "t1">>)
        EXCEPT !.cancelled = cancelled]

MCCorpora ==
    {(v1 :> First(n)) @@ (v2 :> Second(m, p, u)) @@ (v3 :> Third(c)) :
        n \in Numbers, m \in Numbers, p \in {<<"P", 1>>, <<"Q", 0>>},
        u \in {<<"u1", 1>>, <<"u2", 0>>}, c \in BOOLEAN}

Query(regions, from, to, budget, blank) ==
    [regions |-> regions, from |-> from, to |-> to, budget |-> budget, blank |-> blank]
MCQueries ==
    {Query({}, Null, Null, Null, FALSE), Query({<<"zj">>}, 1, Null, Null, FALSE),
     Query({<<"js">>, <<"zj">>}, Null, Null, 5, TRUE), Query({}, 1, 1, Null, FALSE)}
=============================================================================
