----------------------------- MODULE Retrieval -----------------------------
(***************************************************************************)
(* rag/retrieval_service.py with the dense search of rag/qdrant_store.py,  *)
(* the sparse search of rag/bm25.py and the fusion of rag/rrf.py.          *)
(*                                                                         *)
(* A chunk is a number, and numbers are ordered as chunk ids are.  A query *)
(* carries what the embedding model and BM25 make of it: the points of the *)
(* collection by falling similarity, and a score for each chunk.  A ranked *)
(* list is the set of its members with an order, the pairs <<a, b>> where  *)
(* a is ahead of b.                                                        *)
(***************************************************************************)
EXTENDS Integers, Sequences, FiniteSets

CONSTANTS
    Chunks,         \* the chunks of the collection, positive numbers
    Source,         \* the source of each chunk
    District, Poi,  \* the payload fields a filter can name, for each chunk
    Depth,          \* points each search fetches at least (20 in the code)
    RrfK            \* DEFAULT_RRF_K

Marker == 0         \* the fingerprint point, a point like any other to a search
NoSource == "no source"
Unset == "any"        \* a filter field the caller leaves out

Points == Chunks \cup {Marker}

-----------------------------------------------------------------------------
\* Ranked lists

Ahead(x, S, order) == { y \in S : <<y, x>> \in order }

\* The place of a member, 0 of anything else.
Rank(x, S, order) == IF x \in S THEN Cardinality(Ahead(x, S, order)) + 1 ELSE 0

\* The first n members.
Best(S, order, n) == { x \in S : Rank(x, S, order) <= n }

\* The list written out.
InOrder(S, order) == [i \in 1..Cardinality(S) |-> CHOOSE x \in S : Rank(x, S, order) = i]

-----------------------------------------------------------------------------
\* The two searches

Limit(q) == IF q.topK > Depth THEN q.topK ELSE Depth

\* _build_filter: every field given must match, and the marker has none of them.
Matches(q, point) ==
    \/ q.district = Unset /\ q.poi = Unset
    \/ /\ point # Marker
       /\ q.district \in {Unset, District[point]} /\ q.poi \in {Unset, Poi[point]}

DenseOrder(q) ==
    { p \in Points \X Points :
        \E i, j \in DOMAIN q.dense : i < j /\ q.dense[i] = p[1] /\ q.dense[j] = p[2] }

\* dense_search: the best points that match, and of those the chunks.
DenseSearch(q) ==
    Best({ p \in Points : Matches(q, p) }, DenseOrder(q), Limit(q)) \ {Marker}

SparseOrder(q) ==
    { p \in Chunks \X Chunks :
        \/ q.sparse[p[1]] > q.sparse[p[2]]
        \/ q.sparse[p[1]] = q.sparse[p[2]] /\ p[1] < p[2] }

\* BM25Index.search: the chunks that score, best first, then by id.  It knows no
\* filter.
Bm25Search(q) == Best({ c \in Chunks : q.sparse[c] > 0 }, SparseOrder(q), Limit(q))

-----------------------------------------------------------------------------
\* Fusion and search

ScoreOfRanks(d, s) == <<d + s, 1>>

\* reciprocal_rank_fusion: 1/(k + rank) for each list, as a fraction, then by id.
RrfScore(d, s) ==
    IF d = 0 THEN <<1, RrfK + s>>
    ELSE IF s = 0 THEN <<1, RrfK + d>>
    ELSE <<2 * RrfK + d + s, (RrfK + d) * (RrfK + s)>>

\* What a fraction is worth before another.
Above(x, y) == x[1] * y[2] > y[1] * x[2]

FusedOrder(q) ==
    LET dense == DenseSearch(q)
        sparse == Bm25Search(q)
        score == [c \in Chunks |-> RrfScore(Rank(c, dense, DenseOrder(q)),
                                            Rank(c, sparse, SparseOrder(q)))]
    IN { p \in Chunks \X Chunks :
           \/ Above(score[p[1]], score[p[2]])
           \/ ~Above(score[p[2]], score[p[1]]) /\ p[1] < p[2] }

\* The chunks of the result and their order.
Found(q) ==
    IF q.mode = "dense" THEN Best(DenseSearch(q), DenseOrder(q), q.topK)
    ELSE Best(DenseSearch(q) \cup Bm25Search(q), FusedOrder(q), q.topK)

OrderOf(q) == IF q.mode = "dense" THEN DenseOrder(q) ELSE FusedOrder(q)

\* search: the items of the result, best first.  A client that is missing or
\* fails gives none.  Only a dense hit knows its source.
Search(q) ==
    LET ranked == InOrder(Found(q), OrderOf(q))
        Item(c) == [chunk |-> c,
                    source |-> IF c \in DenseSearch(q) THEN Source[c] ELSE NoSource]
    IN IF q.client # "up" THEN <<>> ELSE [i \in DOMAIN ranked |-> Item(ranked[i])]
=============================================================================
