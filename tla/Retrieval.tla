------------------------------- MODULE Retrieval -------------------------------
(***************************************************************************)
(* context of src/seshat/store.py: a query is embedded without the lock,   *)
(* the keyword index and the vectors (src/seshat/vectors.py) are ranked by *)
(* a SELECT each, over the notes pooled at that moment, and the two        *)
(* rankings are fused by reciprocal rank, cut and handed out.  The lock    *)
(* keeps this process's writers away, not those of other processes.        *)
(*                                                                         *)
(* What a retriever makes of a query is any ranking.  Scores are kept as   *)
(* fractions, so that no rounding decides an order.                        *)
(***************************************************************************)
EXTENDS Integers, Sequences, FiniteSets

CONSTANTS
    Notes,         \* the notes, numbered by id; nobody writes one meanwhile
    K,             \* RRF_K
    Limit          \* the caller's limit

ASSUME RetrievalAssumption ==
    /\ Notes \subseteq Nat
    /\ K \in Nat \ {0}
    /\ Limit \in Nat \ {0}

VARIABLES
    pool,          \* the notes that pool_retained puts at theta or above
    step,          \* how far the query has come
    query,         \* whether it has a vector: the embedder answered in time
    keyword,       \* the ranking of the keyword index
    found,         \* the ranking of the vector side
    answer         \* the hits handed out

vars == <<pool, step, query, keyword, found, answer>>

Init ==
    /\ pool    = Notes
    /\ step    = "idle"
    /\ query   = FALSE
    /\ keyword = <<>>
    /\ found   = <<>>
    /\ answer  = <<>>

--------------------------------------------------------------------------------
(* Rankings and their fusion. *)

\* At most Limit of the notes of S, each once: ORDER BY ... LIMIT.
Rankings(S) ==
    {r \in UNION {[1..n -> S] : n \in 0..Limit} :
        \A i, j \in DOMAIN r : r[i] = r[j] => i = j}

In(ranking, n) == \E i \in DOMAIN ranking : ranking[i] = n

\* Mutant of Rank: ranks from 0.
RankFromZero(ranking, n) == (CHOOSE i \in DOMAIN ranking : ranking[i] = n) - 1

\* 1-indexed.
Rank(ranking, n) == CHOOSE i \in DOMAIN ranking : ranking[i] = n

Scored   == {n \in Notes : In(keyword, n) \/ In(found, n)}
ByBoth   == {n \in Notes : In(keyword, n) /\ In(found, n)}

\* fuse: 1/(k + rank) over the rankings that hold the note.
Fused(n) ==
    LET a == K + Rank(keyword, n)
        b == K + Rank(found, n)
    IN  IF n \in ByBoth THEN [num |-> a + b, den |-> a * b]
        ELSE [num |-> 1, den |-> IF In(keyword, n) THEN a ELSE b]

Outscores(m, n) == Fused(m).num * Fused(n).den > Fused(n).num * Fused(m).den

\* sorted(..., key=(-score, id))
Precedes(m, n) == Outscores(m, n) \/ (~Outscores(n, m) /\ m < n)

\* Mutant of Hits: cut in the order of the ids, sorted after.
HitsCutFirst ==
    {r \in Rankings(Scored) :
        /\ \A i, j \in DOMAIN r : i < j => Precedes(r[i], r[j])
        /\ \A n \in Scored : In(r, n) \/ (Len(r) = Limit /\ \A i \in DOMAIN r : r[i] < n)}

\* The first Limit of the scored notes, best first.
Hits ==
    {r \in Rankings(Scored) :
        /\ \A i, j \in DOMAIN r : i < j => Precedes(r[i], r[j])
        /\ \A n \in Scored :
             In(r, n) \/ (Len(r) = Limit /\ \A i \in DOMAIN r : Precedes(r[i], n))}

\* The youngest of the pool; ids are drawn at random, so any order may be it.
Recent ==
    {r \in Rankings(pool) : Len(r) = Limit \/ \A n \in pool : In(r, n)}

--------------------------------------------------------------------------------
(* Actions *)

\* Another process moves a note out of the pool, or back into it.
Reassess(n) ==
    /\ pool' = IF n \in pool THEN pool \ {n} ELSE pool \cup {n}
    /\ UNCHANGED <<step, query, keyword, found, answer>>

\* _embed_query, before the lock; None whenever the vector side cannot answer.
EmbedQuery ==
    /\ step = "idle"
    /\ query' \in BOOLEAN
    /\ step' = "embedded"
    /\ UNCHANGED <<pool, keyword, found, answer>>

\* Nothing in the query to match on: _recency_listing, with no scores.
ListRecent ==
    /\ step = "idle"
    /\ answer' \in Recent
    /\ step' = "listed"
    /\ UNCHANGED <<pool, query, keyword, found>>

RankKeyword ==
    /\ step = "embedded"
    /\ keyword' \in Rankings(pool)
    /\ step' = "ranked"
    /\ UNCHANGED <<pool, query, found, answer>>

\* vectors.search, unless there is no vector or the side is in its cooldown,
\* which a failure in another thread may have started meanwhile.
RankVectors ==
    /\ step = "ranked"
    /\ \/ query /\ found' \in Rankings(pool)
       \/ found' = <<>>
    /\ step' = "fused"
    /\ UNCHANGED <<pool, query, keyword, answer>>

\* fuse and _hydrate.
Hydrate ==
    /\ step = "fused"
    /\ answer' \in Hits
    /\ step' = "answered"
    /\ UNCHANGED <<pool, query, keyword, found>>

Return ==
    /\ step \in {"listed", "answered"}
    /\ step'    = "idle"
    /\ query'   = FALSE
    /\ keyword' = <<>>
    /\ found'   = <<>>
    /\ answer'  = <<>>
    /\ UNCHANGED pool

Next ==
    \/ \E n \in Notes : Reassess(n)
    \/ EmbedQuery \/ ListRecent
    \/ RankKeyword \/ RankVectors
    \/ Hydrate \/ Return

Spec == Init /\ [][Next]_vars

--------------------------------------------------------------------------------
(* Properties. *)

\* A note both retrievers found comes before every note only one of them found,
\* at any ranks within the limit: the docstring of fuse.
BothBeatOne ==
    step = "answered" =>
        \A i, j \in DOMAIN answer :
            answer[i] \notin ByBoth /\ answer[j] \in ByBoth => j < i

\* Cutting to the caller's limit after fusing never drops a note that both
\* retrievers found.
BothSurvive ==
    step = "answered" => \A n \in ByBoth : In(answer, n)
================================================================================
