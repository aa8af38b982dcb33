---------------------------- MODULE RetrievalProofs ----------------------------
(***************************************************************************)
(* Proofs about Retrieval: while the limit is at most K + 1 -- RRF_K is    *)
(* 60, the default limit 20 -- agreement of the two retrievers decides,    *)
(* whatever they rank and whatever leaves the pool between the SELECTs.    *)
(***************************************************************************)
EXTENDS Retrieval, FiniteSetTheorems, TLAPS

\* A reciprocal rank loses to the sum of two others, none of which is past K+1.
LEMMA SumOfTwo ==
    ASSUME NEW k \in Nat, NEW a \in Nat, NEW b \in Nat, NEW c \in Nat,
           1 <= a, 1 <= b, a <= 2 * k + 1, b <= 2 * k + 1, k + 1 <= c
    PROVE  (a + b) * c > a * b
<1>1. a * b <= (2 * k + 1) * b
  BY SMT
<1>2. a * b <= (2 * k + 1) * a
  BY SMT
<1>3. (a + b) * (k + 1) <= (a + b) * c
  BY SMT
<1>4. 2 * (a * b) <= (2 * k + 1) * (a + b)
  BY <1>1, <1>2, SMT
<1>5. (2 * k + 1) * (a + b) < 2 * ((a + b) * (k + 1))
  BY SMT
<1>6. QED
  BY <1>3, <1>4, <1>5, SMT

\* A ranking holds a note at its rank, and no rank is past the limit.
LEMMA RankIn ==
    ASSUME NEW S, NEW r \in Rankings(S), NEW n, In(r, n)
    PROVE  /\ Rank(r, n) \in DOMAIN r
           /\ r[Rank(r, n)] = n
           /\ Rank(r, n) \in Nat
           /\ 1 <= Rank(r, n) /\ Rank(r, n) <= Limit
<1>1. Rank(r, n) \in DOMAIN r /\ r[Rank(r, n)] = n
  BY DEF In, Rank
<1>2. PICK m \in 0..Limit : r \in [1..m -> S]
  BY DEF Rankings
<1>3. DOMAIN r = 1..m
  BY <1>2
<1>4. QED
  BY <1>1, <1>2, <1>3, RetrievalAssumption

\* What the invariant says of the state.
RInv ==
    /\ pool \subseteq Notes
    /\ keyword \in Rankings(Notes)
    /\ found \in Rankings(Notes)
    /\ step = "answered" => answer \in Hits

\* A ranking of some notes is a ranking of more.
LEMMA RankingsGrow ==
    ASSUME NEW S, NEW T, S \subseteq T
    PROVE  Rankings(S) \subseteq Rankings(T)
  BY DEF Rankings

LEMMA EmptyRanking ==
    ASSUME NEW S
    PROVE  <<>> \in Rankings(S)
<1>1. 0 \in 0..Limit
  BY RetrievalAssumption
<1>2. <<>> \in [1..0 -> S]
  OBVIOUS
<1>3. \A i, j \in DOMAIN <<>> : <<>>[i] = <<>>[j] => i = j
  OBVIOUS
<1>4. QED
  BY <1>1, <1>2, <1>3 DEF Rankings

LEMMA RInvInductive == Spec => []RInv
<1>1. Init => RInv
  BY EmptyRanking DEF Init, RInv
<1>2. RInv /\ [Next]_vars => RInv'
  <2> SUFFICES ASSUME RInv, [Next]_vars
               PROVE  RInv'
    OBVIOUS
  <2>1. (pool \subseteq Notes)'
    BY DEF RInv, Next, vars, Reassess, EmbedQuery, ListRecent, RankKeyword,
           RankVectors, Hydrate, Return
  <2>2. (keyword \in Rankings(Notes))'
    <3>1. Rankings(pool) \subseteq Rankings(Notes)
      BY RankingsGrow DEF RInv
    <3>2. QED
      BY <3>1, EmptyRanking DEF RInv, Next, vars, Reassess, EmbedQuery, ListRecent,
         RankKeyword, RankVectors, Hydrate, Return
  <2>3. (found \in Rankings(Notes))'
    <3>1. Rankings(pool) \subseteq Rankings(Notes)
      BY RankingsGrow DEF RInv
    <3>2. QED
      BY <3>1, EmptyRanking DEF RInv, Next, vars, Reassess, EmbedQuery, ListRecent,
         RankKeyword, RankVectors, Hydrate, Return
  <2>4. (step = "answered" => answer \in Hits)'
    <3>1. CASE Hydrate
      <4>1. answer' \in Hits /\ keyword' = keyword /\ found' = found
        BY <3>1 DEF Hydrate
      <4>2. QED
        BY <4>1 DEF Hits, Scored, Precedes, Outscores, Fused, ByBoth
    <3>2. CASE UNCHANGED <<step, keyword, found, answer>>
      BY <3>2 DEF RInv, Hits, Scored, Precedes, Outscores, Fused, ByBoth
    <3>3. CASE step' # "answered"
      BY <3>3
    <3>4. QED
      BY <3>1, <3>2, <3>3 DEF Next, vars, Reassess, EmbedQuery, ListRecent,
         RankKeyword, RankVectors, Return
  <2>5. QED
    BY <2>1, <2>2, <2>3, <2>4 DEF RInv
<1>3. QED
  BY <1>1, <1>2, PTL DEF Spec

\* What both retrievers found outscores what one of them found.
LEMMA BothOutscores ==
    ASSUME RInv, Limit <= K + 1,
           NEW m \in ByBoth, NEW n \in Scored, n \notin ByBoth
    PROVE  Outscores(m, n) /\ ~Outscores(n, m)
<1> DEFINE a == K + Rank(keyword, m)
           b == K + Rank(found, m)
           c == IF In(keyword, n) THEN K + Rank(keyword, n) ELSE K + Rank(found, n)
<1>1. K \in Nat /\ Limit \in Nat
  BY RetrievalAssumption
<1>2. a \in Nat /\ 1 <= a /\ a <= 2 * K + 1
  BY <1>1, RankIn DEF RInv, ByBoth
<1>3. b \in Nat /\ 1 <= b /\ b <= 2 * K + 1
  BY <1>1, RankIn DEF RInv, ByBoth
<1>4. c \in Nat /\ K + 1 <= c
  <2>1. CASE In(keyword, n)
    BY <2>1, <1>1, RankIn DEF RInv
  <2>2. CASE ~In(keyword, n)
    BY <2>2, <1>1, RankIn DEF RInv, Scored
  <2>3. QED
    BY <2>1, <2>2
<1>5. Fused(m) = [num |-> a + b, den |-> a * b]
  BY DEF Fused
<1>6. Fused(n) = [num |-> 1, den |-> c]
  BY DEF Fused
<1> HIDE DEF a, b, c
<1>7. (a + b) * c > a * b
  BY <1>1, <1>2, <1>3, <1>4, SumOfTwo
<1>8. Fused(m).num * Fused(n).den = (a + b) * c
  BY <1>5, <1>6
<1>9. Fused(n).num * Fused(m).den = a * b
  <2>1. Fused(n).num = 1 /\ Fused(m).den = a * b
    BY <1>5, <1>6
  <2>2. a * b \in Nat
    BY <1>2, <1>3
  <2>3. QED
    BY <2>1, <2>2
<1>10. (a + b) * c \in Nat /\ a * b \in Nat
  BY <1>2, <1>3, <1>4
<1>11. QED
  BY <1>7, <1>8, <1>9, <1>10 DEF Outscores

\* For every number of notes, K and limit up to K + 1: a note both retrievers
\* found comes before every note only one of them found (fuse, 234-250).
THEOREM AgreementDecides ==
    Limit <= K + 1 => (Spec => []BothBeatOne)
<1> SUFFICES ASSUME Limit <= K + 1
             PROVE  Spec => []BothBeatOne
  OBVIOUS
<1>1. RInv => BothBeatOne
  <2> SUFFICES ASSUME RInv, step = "answered",
                      NEW i \in DOMAIN answer, NEW j \in DOMAIN answer,
                      answer[i] \notin ByBoth, answer[j] \in ByBoth
               PROVE  j < i
    BY DEF BothBeatOne
  <2>1. answer \in Rankings(Scored)
    BY DEF RInv, Hits
  <2>2. PICK len \in 0..Limit : answer \in [1..len -> Scored]
    BY <2>1 DEF Rankings
  <2>3. i \in Int /\ j \in Int /\ i # j /\ answer[i] \in Scored
    BY <2>2
  <2>4. ~Precedes(answer[i], answer[j])
    BY <2>3, BothOutscores DEF Precedes
  <2>5. ~(i < j)
    BY <2>4 DEF RInv, Hits
  <2>6. QED
    BY <2>3, <2>5
<1>2. QED
  BY <1>1, RInvInductive, PTL

\* Under the same condition the cut to the caller's limit, which comes after the
\* fusion, drops no note that both retrievers found (_hydrate, 926).
THEOREM AgreementSurvives ==
    Limit <= K + 1 => (Spec => []BothSurvive)
<1> SUFFICES ASSUME Limit <= K + 1
             PROVE  Spec => []BothSurvive
  OBVIOUS
<1>1. RInv => BothSurvive
  <2> SUFFICES ASSUME RInv, step = "answered",
                      NEW n \in ByBoth, ~In(answer, n)
               PROVE  FALSE
    BY DEF BothSurvive
  <2>1. /\ answer \in Rankings(Scored)
        /\ Len(answer) = Limit
        /\ \A i \in DOMAIN answer : Precedes(answer[i], n)
    BY DEF RInv, Hits, ByBoth, Scored
  <2>2. PICK len \in 0..Limit : answer \in [1..len -> Scored]
    BY <2>1 DEF Rankings
  <2>3. /\ Limit \in Nat
        /\ DOMAIN answer = 1..Limit
        /\ \A i \in 1..Limit : answer[i] \in Scored
    BY <2>1, <2>2, RetrievalAssumption
  <2>4. \A i \in 1..Limit : answer[i] \in ByBoth
    BY <2>1, <2>3, BothOutscores DEF Precedes
  <2> DEFINE note(i) == IF i \in 1..Limit THEN answer[i] ELSE n
             rank == [i \in 1..(Limit + 1) |-> Rank(keyword, note(i))]
  <2>5. \A i \in 1..(Limit + 1) :
            Rank(keyword, note(i)) \in 1..Limit /\ keyword[Rank(keyword, note(i))] = note(i)
    <3> SUFFICES ASSUME NEW i \in 1..(Limit + 1)
                 PROVE  /\ Rank(keyword, note(i)) \in 1..Limit
                        /\ keyword[Rank(keyword, note(i))] = note(i)
      OBVIOUS
    <3>1. In(keyword, note(i))
      BY <2>4 DEF ByBoth
    <3>2. QED
      BY <2>3, <3>1, RankIn DEF RInv
  <2>6. rank \in [1..(Limit + 1) -> 1..Limit]
    BY <2>5
  <2>7. /\ IsFiniteSet(1..(Limit + 1)) /\ IsFiniteSet(1..Limit)
        /\ Cardinality(1..Limit) < Cardinality(1..(Limit + 1))
    <3>1. Cardinality(1..Limit) = Limit
      BY <2>3, FS_Interval
    <3>2. Cardinality(1..(Limit + 1)) = Limit + 1
      BY <2>3, FS_Interval
    <3>3. QED
      BY <2>3, <3>1, <3>2, FS_Interval
  <2>8. PICK x, y \in 1..(Limit + 1) : x # y /\ rank[x] = rank[y]
    <3> HIDE DEF rank
    <3> QED
      BY <2>6, <2>7, FS_PigeonHole
  <2>9. note(x) = note(y)
    BY <2>5, <2>8
  <2>10. CASE x \in 1..Limit /\ y \in 1..Limit
    BY <2>1, <2>3, <2>8, <2>9, <2>10 DEF Rankings
  <2>11. CASE x \notin 1..Limit \/ y \notin 1..Limit
    <3>1. \E i \in 1..Limit : answer[i] = n
      BY <2>3, <2>8, <2>9, <2>11
    <3>2. QED
      BY <2>3, <3>1 DEF In
  <2>12. QED
    BY <2>10, <2>11
<1>2. QED
  BY <1>1, RInvInductive, PTL
================================================================================
