----------------------------- MODULE ReadersProofs -----------------------------
(* What TLAPS proves of Readers and of Findings, for every value of their      *)
(* constants and any number of writing processes.                             *)
EXTENDS Readers, Findings, NotesProofs

--------------------------------------------------------------------------------
(* PoolAccounted: the findings against the pool.                               *)

LEMMA ScoresAreNumbers ==
    ASSUME TypeOK, NEW s \in Supersession
    PROVE  s.retained \in 0..100
    BY NotesAssumption DEF TypeOK, Assessment, Supersession

LEMMA FindingsCoverThePool ==
    ASSUME TypeOK, Theta # 0
    PROVE  PoolAccounted
    <1> USE NotesAssumption
    <1> SUFFICES ASSUME NEW n \in notes \ Reported
                 PROVE  /\ InPool(n) /\ Out(n) # {} =>
                             /\ n \notin Retracted
                             /\ \E s \in Above(n) : s.new \notin Retracted
                        /\ Heads(n) = {n} =>
                             \A s \in Supersession :
                               s.new = n /\ s.old \in Retracted => s.retained < Theta
                        /\ ~InPool(n) =>
                             \A s \in Out(n) : s.retained = 0 => s.new \notin Retracted
      BY DEF PoolAccounted
    <1>1. ASSUME InPool(n), Out(n) # {}
          PROVE  n \notin Retracted /\ \E s \in Above(n) : s.new \notin Retracted
      <2>1. Above(n) # {}
        BY <1>1 DEF InPool, Out, Above
      <2>2. Below(n) = {}
        BY <2>1 DEF Reported, ConflictingFork
      <2>3. n \notin Retracted
        <3> SUFFICES ASSUME NEW s \in Supersession, s.retained = 0, s.old = n
                     PROVE  FALSE
          BY DEF Retracted
        <3>1. s \in Below(n)
          BY DEF Below, Out
        <3> QED BY <2>2, <3>1
      <2>4. \E s \in Above(n) : s.new \notin Retracted
        BY <2>1 DEF Reported, DeadJustification
      <2> QED BY <2>3, <2>4
    <1>2. ASSUME Heads(n) = {n}, NEW s \in Supersession, s.new = n, s.old \in Retracted
          PROVE  s.retained < Theta
      <2>1. Out(n) = {}
        <3>1. \A e \in Edges : e[1] # n
          BY <1>2 DEF Heads
        <3>2. \A r \in assessments : <<r.old, r.new>> \in Edges
          BY DEF Edges
        <3>3. \A r \in assessments : r.old # n
          BY <3>1, <3>2
        <3> QED BY <3>3 DEF Out, Supersession
      <2>2. SUFFICES ASSUME s.retained >= Theta
                     PROVE  FALSE
        BY ScoresAreNumbers
      <2>3. s \in Above(s.old)
        BY <2>2 DEF Above, Out
      <2>4. <<s.old, n>> \in OrphanedRetraction
        BY <1>2, <2>1, <2>3 DEF OrphanedRetraction
      <2> QED BY <2>4 DEF Reported
    <1>3. ASSUME NEW s \in Out(n), s.retained = 0, s.new \in Retracted
          PROVE  FALSE
      <2>1. PICK r \in Supersession : r.retained = 0 /\ r.old = s.new
        BY <1>3 DEF Retracted
      <2>2. s \in Supersession /\ s.old = n
        BY DEF Out
      <2>3. <<s.old, s.new, r.new>> \in DoubleRetraction
        <3> DEFINE d == <<s, r>>
        <3>1. /\ d \in Supersession \X Supersession /\ d[1] = s /\ d[2] = r
          BY <2>1, <2>2
        <3> HIDE DEF d
        <3> QED BY <1>3, <2>1, <3>1 DEF DoubleRetraction
      <2> QED BY <2>2, <2>3 DEF Reported
    <1> QED BY <1>1, <1>2, <1>3

\* No note is served, or withheld, on a disputed ground that the checker does
\* not report, for any threshold above zero.  At zero every edge keeps its note
\* in the pool and none counts as below it, a retracting one included.
THEOREM NothingServedInSilence == Theta # 0 => (Spec => []PoolAccounted)
    <1> SUFFICES ASSUME Theta # 0
                 PROVE  Spec => []PoolAccounted
      OBVIOUS
    <1>1. TypeInv => PoolAccounted
      BY FindingsCoverThePool DEF TypeInv
    <1> QED BY <1>1, Typed, PTL

--------------------------------------------------------------------------------
(* OwnHead: the counts of a record are read before its heads, and edges are    *)
(* never removed.                                                              *)

\* The writers do not depend on who reads.
LEMMA Underneath == RSpec => Spec
    <1>1. RInit => Init
      BY DEF RInit
    <1>2. [RNext]_<<vars, reading>> => [Next]_vars
      BY DEF RNext, Read
    <1> QED BY <1>1, <1>2, PTL DEF RSpec, Spec

Opened(step, n, total, rows, heads) ==
    [step |-> step, note |-> n, total |-> total, rows |-> rows, heads |-> heads]

\* What is counted or listed of a note's edges is there still.
RecordInv ==
    /\ At("out") => \E n, c :
         /\ reading = Opened("out", n, <<c>>, <<>>, {})
         /\ c # 0 => Onward(n) # {}
    /\ At("listed") => \E n, c, r :
         /\ reading = Opened("listed", n, <<c>>, <<r>>, {})
         /\ c # 0 \/ r # 0 => Onward(n) # {}
    /\ At("in") => \E n, c, d, r :
         /\ reading = Opened("in", n, <<c, d>>, <<r>>, {})
         /\ c # 0 \/ r # 0 => Onward(n) # {}
    /\ At("heads") => \E n, c, d, r, q :
         /\ reading = Opened("heads", n, <<c, d>>, <<r, q>>, {})
         /\ c # 0 \/ r # 0 => Onward(n) # {}
    /\ OwnHead

LEMMA CountsOfNone ==
    ASSUME NEW S
    PROVE  /\ Cardinality(S) # 0 => S # {}
           /\ Cut(S) # 0 => S # {}
    BY FS_EmptySet, ReadersAssumption DEF Cut

LEMMA OneMore ==
    ASSUME NEW c, NEW d
    PROVE  Append(<<>>, c) = <<c>> /\ Append(<<c>>, d) = <<c, d>>
    <1>1. <<>> \in Seq({c, d}) /\ <<c>> \in Seq({c, d}) /\ <<c, d>> \in Seq({c, d})
      OBVIOUS
    <1>2. /\ Append(<<>>, c) \in Seq({c, d}) /\ Len(Append(<<>>, c)) = 1
          /\ Append(<<>>, c)[1] = c
      BY <1>1, AppendProperties
    <1>3. /\ Append(<<c>>, d) \in Seq({c, d}) /\ Len(Append(<<c>>, d)) = 2
          /\ Append(<<c>>, d)[1] = c /\ Append(<<c>>, d)[2] = d
      BY <1>1, AppendProperties
    <1>4. Append(<<>>, c) = <<c>>
      BY <1>1, <1>2
    <1>5. Append(<<c>>, d) = <<c, d>>
      <2>1. \A i \in 1..2 : Append(<<c>>, d)[i] = <<c, d>>[i]
        BY <1>3
      <2>2. Len(<<c, d>>) = 2
        OBVIOUS
      <2> QED BY <1>1, <1>3, <2>1, <2>2, SeqEqual
    <1> QED BY <1>4, <1>5

LEMMA RecordSteps ==
    ASSUME NEW s, NEW n, NEW tot, NEW rows, NEW heads,
           reading = Opened(s, n, tot, rows, heads), NEW z, NEW side
    PROVE  /\ [Listed(side) EXCEPT !.step = z]
                = Opened(z, n, tot, Append(rows, Cut(side)), heads)
           /\ [Counted(side) EXCEPT !.step = z]
                = Opened(z, n, Append(tot, Cardinality(side)), rows, heads)
           /\ reading.note = n /\ reading.step = s
    <1>1. Listed(side) = Opened(s, n, tot, Append(rows, Cut(side)), heads)
      BY DEF Opened, Listed
    <1>2. Counted(side) = Opened(s, n, Append(tot, Cardinality(side)), rows, heads)
      BY DEF Opened, Counted
    <1>3. ASSUME NEW t, NEW r
          PROVE  [Opened(s, n, t, r, heads) EXCEPT !.step = z] = Opened(z, n, t, r, heads)
      BY DEF Opened
    <1>4. reading.note = n /\ reading.step = s
      BY DEF Opened
    <1> QED BY <1>1, <1>2, <1>3, <1>4

LEMMA ReadEdgesSteps ==
    ASSUME RecordInv, ReadEdges
    PROVE  reading'.step \in {"listed", "in", "heads"}
    <1>1. PICK s, n, tot, rows, heads : reading = Opened(s, n, tot, rows, heads)
      <2>1. CASE At("out")
        BY <2>1 DEF RecordInv
      <2>2. CASE At("listed")
        BY <2>2 DEF RecordInv
      <2>3. CASE At("in")
        BY <2>3 DEF RecordInv
      <2> QED BY <2>1, <2>2, <2>3 DEF ReadEdges
    <1>2. PICK z \in {"listed", "in", "heads"} :
             \E side : \/ reading' = [Listed(side) EXCEPT !.step = z]
                       \/ reading' = [Counted(side) EXCEPT !.step = z]
      BY DEF ReadEdges
    <1>3. PICK side :
             \/ reading' = [Listed(side) EXCEPT !.step = z]
             \/ reading' = [Counted(side) EXCEPT !.step = z]
      BY <1>2
    <1>4. PICK t, r : reading' = Opened(z, n, t, r, heads)
      <2>1. /\ [Listed(side) EXCEPT !.step = z]
                 = Opened(z, n, tot, Append(rows, Cut(side)), heads)
            /\ [Counted(side) EXCEPT !.step = z]
                 = Opened(z, n, Append(tot, Cardinality(side)), rows, heads)
        BY <1>1, RecordSteps
      <2> QED BY <1>3, <2>1
    <1> QED BY <1>4 DEF Opened

LEMMA RecordStep ==
    ASSUME RecordInv, [RNext]_<<vars, reading>>
    PROVE  RecordInv'
    <1>1. ASSUME Next, UNCHANGED reading
          PROVE  RecordInv'
      <2>1. assessments \subseteq assessments'
        BY <1>1, AppendOnly
      <2>2. \A n : Onward(n) # {} => Onward(n)' # {}
        BY <2>1 DEF Onward, Edges
      <2> QED BY <1>1, <2>2 DEF RecordInv, At, OwnHead
    <1>2. ASSUME NEW n \in notes, OpenRecord(n), UNCHANGED vars
          PROVE  RecordInv'
      <2>1. /\ reading' = Opened("out", n, <<Cardinality(Onward(n))>>, <<>>, {})
            /\ Onward(n)' = Onward(n)
        BY <1>2 DEF OpenRecord, Opened, Onward, Edges, vars, store
      <2>2. reading'.step = "out"
        BY <2>1 DEF Opened
      <2> QED BY <2>1, <2>2, CountsOfNone DEF RecordInv, At, OwnHead
    <1>3. ASSUME ReadEdges, UNCHANGED vars
          PROVE  RecordInv'
      <2>0. \A n : Onward(n)' = Onward(n)
        BY <1>3 DEF Onward, Edges, vars, store
      <2>1. CASE At("out")
        <3>1. PICK n, c : /\ reading = Opened("out", n, <<c>>, <<>>, {})
                          /\ c # 0 => Onward(n) # {}
          BY <2>1 DEF RecordInv
        <3>2. reading' = Opened("listed", n, <<c>>, <<Cut(Onward(n))>>, {})
          <4>1. reading.note = n /\ reading.step = "out"
            BY <3>1, RecordSteps
          <4>2. reading' = [Listed(Onward(n)) EXCEPT !.step = "listed"]
            BY <1>3, <4>1 DEF ReadEdges, At
          <4>3. [Listed(Onward(n)) EXCEPT !.step = "listed"]
                  = Opened("listed", n, <<c>>, Append(<<>>, Cut(Onward(n))), {})
            <5> DEFINE none == <<>>
            <5>1. reading = Opened("out", n, <<c>>, none, {})
              BY <3>1
            <5> HIDE DEF none
            <5>2. [Listed(Onward(n)) EXCEPT !.step = "listed"]
                    = Opened("listed", n, <<c>>, Append(none, Cut(Onward(n))), {})
              BY <5>1, RecordSteps
            <5> QED BY <5>2 DEF none
          <4> QED BY <4>2, <4>3, OneMore
        <3>3. reading'.step = "listed"
          BY <3>2 DEF Opened
        <3> QED BY <2>0, <3>1, <3>2, <3>3, CountsOfNone DEF RecordInv, At, OwnHead
      <2>2. CASE At("listed")
        <3>1. PICK n, c, r : /\ reading = Opened("listed", n, <<c>>, <<r>>, {})
                             /\ c # 0 \/ r # 0 => Onward(n) # {}
          BY <2>2 DEF RecordInv
        <3>2. reading' = Opened("in", n, <<c, Cardinality(Backward(n))>>, <<r>>, {})
          <4>1. reading.note = n /\ reading.step = "listed"
            BY <3>1, RecordSteps
          <4>2. reading' = [Counted(Backward(n)) EXCEPT !.step = "in"]
            BY <1>3, <4>1 DEF ReadEdges, At
          <4>3. [Counted(Backward(n)) EXCEPT !.step = "in"]
                  = Opened("in", n, Append(<<c>>, Cardinality(Backward(n))), <<r>>, {})
            BY <3>1, RecordSteps
          <4> QED BY <4>2, <4>3, OneMore
        <3>3. reading'.step = "in"
          BY <3>2 DEF Opened
        <3> QED BY <2>0, <3>1, <3>2, <3>3 DEF RecordInv, At, OwnHead
      <2>3. CASE At("in")
        <3>1. PICK n, c, d, r : /\ reading = Opened("in", n, <<c, d>>, <<r>>, {})
                                /\ c # 0 \/ r # 0 => Onward(n) # {}
          BY <2>3 DEF RecordInv
        <3>2. reading' = Opened("heads", n, <<c, d>>, <<r, Cut(Backward(n))>>, {})
          <4>1. reading.note = n /\ reading.step = "in"
            BY <3>1, RecordSteps
          <4>2. reading' = [Listed(Backward(n)) EXCEPT !.step = "heads"]
            BY <1>3, <4>1 DEF ReadEdges, At
          <4>3. [Listed(Backward(n)) EXCEPT !.step = "heads"]
                  = Opened("heads", n, <<c, d>>, Append(<<r>>, Cut(Backward(n))), {})
            BY <3>1, RecordSteps
          <4> QED BY <4>2, <4>3, OneMore
        <3>3. reading'.step = "heads"
          BY <3>2 DEF Opened
        <3> QED BY <2>0, <3>1, <3>2, <3>3 DEF RecordInv, At, OwnHead
      <2> QED BY <1>3, <2>1, <2>2, <2>3 DEF ReadEdges
    <1>4. ASSUME CloseRecord, UNCHANGED vars
          PROVE  RecordInv'
      <2>1. PICK n, c, d, r, q : /\ reading = Opened("heads", n, <<c, d>>, <<r, q>>, {})
                                 /\ c # 0 \/ r # 0 => Onward(n) # {}
        BY <1>4 DEF CloseRecord, RecordInv
      <2>2. reading' = Opened("record", n, <<c, d>>, <<r, q>>, Heads(n))
        BY <1>4, <2>1 DEF CloseRecord, Opened
      <2>3. Heads(n) = {n} => Onward(n) = {}
        BY DEF Heads, Onward
      <2>4. /\ reading'.step = "record" /\ reading'.note = n /\ reading'.heads = Heads(n)
            /\ reading'.total[1] = c /\ reading'.rows[1] = r
        BY <2>2 DEF Opened
      <2> QED BY <2>1, <2>3, <2>4 DEF RecordInv, At, OwnHead
    <1>5. ASSUME \/ \E n \in notes : ChainNodes(n)
                 \/ ChainEdges \/ CheckEdges \/ CheckNodes \/ CheckVectors \/ CheckPairs
                 \/ Answer
          PROVE  RecordInv'
      <2>1. \/ reading' = None
            \/ reading'.step \in {"nodes", "chain", "edges", "verdict", "vectors",
                                  "suggested"}
        BY <1>5
        DEF ChainNodes, ChainEdges, CheckEdges, CheckNodes, CheckVectors, CheckPairs,
            Answer
      <2> QED BY <2>1 DEF RecordInv, At, OwnHead
    <1>6. CASE UNCHANGED <<vars, reading>>
      <2>1. reading' = reading /\ \A n : Onward(n)' = Onward(n)
        BY <1>6 DEF Onward, Edges, vars, store
      <2> QED BY <2>1 DEF RecordInv, At, OwnHead
    <1>7. CASE Read
      <2>1. CASE ReadEdges
        BY <1>3, <1>7, <2>1 DEF Read
      <2>2. CASE CloseRecord
        BY <1>4, <1>7, <2>2 DEF Read
      <2>3. ASSUME NEW n \in notes, OpenRecord(n)
            PROVE  RecordInv'
        BY <1>2, <1>7, <2>3 DEF Read
      <2> QED BY <1>5, <1>7, <2>1, <2>2, <2>3 DEF Read
    <1> QED BY <1>1, <1>6, <1>7 DEF RNext

LEMMA Recorded == RSpec => []RecordInv
    <1>1. RInit => RecordInv
      BY DEF RInit, RecordInv, At, OwnHead
    <1>2. RecordInv /\ [RNext]_<<vars, reading>> => RecordInv'
      BY RecordStep
    <1> QED BY <1>1, <1>2, PTL DEF RSpec

\* A record that names its note as the head shows nothing that supersedes it,
\* though its SELECTs run while other processes write: the heads are read last.
THEOREM HeadsAreReadLast == RSpec => []OwnHead
    BY Recorded, PTL DEF RecordInv

--------------------------------------------------------------------------------
(* ChainConnected: nodes found by the edges of one moment, joined by those of  *)
(* a later one.                                                                *)

\* Every path that led to a node of the chain lies inside the chain, so edges
\* read later, cut down to the chain, still hold it.
LEMMA ChainHolds ==
    ASSUME NEW N \in SUBSET Ids, NEW E \in SUBSET (N \X N), NEW F, E \subseteq F,
           NEW n \in N, NEW m \in N
    PROVE  LET C == {x \in N : Reaches(E, n, x) \/ Reaches(E, x, n)}
               G == {e \in F : {e[1], e[2]} \subseteq C}
           IN  m \in C => Reaches(G, n, m) \/ Reaches(G, m, n)
    <1> DEFINE C == {x \in N : Reaches(E, n, x) \/ Reaches(E, x, n)}
               G == {e \in F : {e[1], e[2]} \subseteq C}
               D == {x \in N : Reaches(E, n, x)}
               U == {x \in N : Reaches(E, x, n)}
    <1>1. Reaches(E, n, n)
      BY DEF Reaches
    <1>2. \A e \in E : e[1] \in D => e[2] \in D
      BY DEF Reaches
    <1>3. \A e \in E : e[2] \in U => e[1] \in U
      BY DEF Reaches
    <1>4. \A e \in E : (e[1] \in D /\ e[2] \in D) \/ (e[1] \in U /\ e[2] \in U) => e \in G
      OBVIOUS
    <1>5. ASSUME Reaches(E, n, m), NEW S \in SUBSET Ids, n \in S, Closed(G, S)
          PROVE  m \in S
      <2> HIDE DEF C, G, U
      <2>1. S \cap D \in SUBSET Ids /\ n \in S \cap D
        BY <1>1, <1>5
      <2>2. \A e \in E : e[1] \in S \cap D => e[2] \in S \cap D
        BY <1>2, <1>4, <1>5 DEF Closed
      <2>3. m \in S \cap D
        BY <1>5, <2>1, <2>2 DEF Reaches
      <2> QED BY <2>3
    <1>6. ASSUME Reaches(E, m, n), NEW S \in SUBSET Ids, m \in S, Closed(G, S)
          PROVE  n \in S
      <2> HIDE DEF C, G, D
      <2> DEFINE T == (S \cap U) \cup (Ids \ U)
      <2>1. T \in SUBSET Ids /\ m \in T
        BY <1>6
      <2>2. \A e \in E : e[1] \in T => e[2] \in T
        BY <1>3, <1>4, <1>6 DEF Closed
      <2>3. n \in T
        BY <1>6, <2>1, <2>2 DEF Reaches
      <2> QED BY <1>1, <2>3
    <1>7. m \in C => Reaches(G, n, m) \/ Reaches(G, m, n)
      <2> HIDE DEF G
      <2> QED BY <1>5, <1>6 DEF Reaches, Closed
    <1> QED BY <1>7

\* What chain found among its nodes goes back to edges that are there still.
NodesInv ==
    At("nodes") => \E N \in SUBSET Ids : \E E \in SUBSET (N \X N) :
        /\ E \subseteq Edges
        /\ reading.note \in N
        /\ reading.nodes = {x \in N : \/ Reaches(E, reading.note, x)
                                      \/ Reaches(E, x, reading.note)}

ChainInv == NodesInv /\ ChainConnected

LEMMA ChainStep ==
    ASSUME TypeInv, RecordInv, ChainInv, [RNext]_<<vars, reading>>
    PROVE  ChainInv'
    <1>1. ASSUME Edges \subseteq Edges', UNCHANGED reading
          PROVE  ChainInv'
      <2>1. ChainConnected'
        BY <1>1 DEF ChainInv, ChainConnected, At, Reaches
      <2>2. NodesInv'
        <3>1. CASE ~At("nodes")
          BY <1>1, <3>1 DEF NodesInv, At
        <3>2. CASE At("nodes")
          <4>1. PICK N \in SUBSET Ids : \E E \in SUBSET (N \X N) :
                   /\ E \subseteq Edges
                   /\ reading.note \in N
                   /\ reading.nodes = {x \in N : \/ Reaches(E, reading.note, x)
                                                 \/ Reaches(E, x, reading.note)}
            BY <3>2 DEF ChainInv, NodesInv
          <4>2. PICK E \in SUBSET (N \X N) :
                   /\ E \subseteq Edges'
                   /\ reading'.note \in N
                   /\ reading'.nodes = {x \in N : \/ Reaches(E, reading'.note, x)
                                                  \/ Reaches(E, x, reading'.note)}
            BY <1>1, <4>1
          <4> QED BY <4>2 DEF NodesInv, Reaches
        <3> QED BY <3>1, <3>2
      <2> QED BY <2>1, <2>2 DEF ChainInv
    <1>2. ASSUME UNCHANGED vars, NEW n \in notes, ChainNodes(n)
          PROVE  ChainInv'
      <2>1. /\ notes \in SUBSET Ids /\ Edges \in SUBSET (notes \X notes)
            /\ Edges' = Edges
        BY <1>2, EdgesInside DEF TypeInv, TypeOK, vars, store, Edges
      <2>2. /\ reading'.step = "nodes" /\ reading'.note = n
            /\ reading'.nodes = Closure(n)
        BY <1>2 DEF ChainNodes
      <2>3. reading'.nodes = {x \in notes : Reaches(Edges, n, x) \/ Reaches(Edges, x, n)}
        BY <2>2 DEF Closure
      <2>4. ChainConnected'
        BY <2>2 DEF ChainConnected, At
      <2>5. NodesInv'
        <3>1. /\ notes \in SUBSET Ids /\ Edges \in SUBSET (notes \X notes)
              /\ Edges \subseteq Edges' /\ reading'.note \in notes
              /\ reading'.nodes = {x \in notes : \/ Reaches(Edges, reading'.note, x)
                                                 \/ Reaches(Edges, x, reading'.note)}
          BY <2>1, <2>2, <2>3
        <3> QED BY <3>1 DEF NodesInv, Reaches
      <2> QED BY <2>4, <2>5 DEF ChainInv
    <1>3. ASSUME UNCHANGED vars, ChainEdges
          PROVE  ChainInv'
      <2> DEFINE n == reading.note
                 C == reading.nodes
                 G == {e \in Edges : {e[1], e[2]} \subseteq C}
      <2>1. PICK N \in SUBSET Ids : \E E \in SUBSET (N \X N) :
               /\ E \subseteq Edges /\ n \in N
               /\ C = {x \in N : Reaches(E, n, x) \/ Reaches(E, x, n)}
        BY <1>3 DEF ChainEdges, ChainInv, NodesInv
      <2>2. \A m \in C : Reaches(G, n, m) \/ Reaches(G, m, n)
        <3>1. PICK E \in SUBSET (N \X N) :
                 /\ E \subseteq Edges /\ n \in N
                 /\ C = {x \in N : Reaches(E, n, x) \/ Reaches(E, x, n)}
          BY <2>1
        <3> DEFINE C2 == {x \in N : Reaches(E, n, x) \/ Reaches(E, x, n)}
                   G2 == {e \in Edges : {e[1], e[2]} \subseteq C2}
        <3>2. \A m \in N : m \in C2 => Reaches(G2, n, m) \/ Reaches(G2, m, n)
          <4> HIDE DEF n
          <4> QED BY <3>1, ChainHolds
        <3>3. C2 = C /\ G2 = G /\ C2 \subseteq N
          BY <3>1
        <3> HIDE DEF C2, G2, C, G, n
        <3> QED BY <3>2, <3>3
      <2>3. /\ reading'.step = "chain" /\ reading'.note = n
            /\ reading'.nodes = C /\ reading'.edges = G
        BY <1>3 DEF ChainEdges
      <2> HIDE DEF n, C, G
      <2>4. ChainConnected'
        BY <2>2, <2>3 DEF ChainConnected, At, Reaches
      <2>5. NodesInv'
        BY <2>3 DEF NodesInv, At
      <2> QED BY <2>4, <2>5 DEF ChainInv
    <1>4. ASSUME \/ \E n \in notes : OpenRecord(n)
                 \/ ReadEdges \/ CloseRecord
                 \/ CheckEdges \/ CheckNodes \/ CheckVectors \/ CheckPairs
                 \/ Answer
          PROVE  ChainInv'
      <2>1. \/ reading' = None
            \/ reading'.step \in {"out", "listed", "in", "heads", "record",
                                  "edges", "verdict", "vectors", "suggested"}
        <3>1. ASSUME NEW n \in notes, OpenRecord(n)
              PROVE  reading'.step = "out"
          BY <3>1 DEF OpenRecord
        <3>2. ASSUME ReadEdges
              PROVE  reading'.step \in {"listed", "in", "heads"}
          BY <3>2, ReadEdgesSteps
        <3>3. ASSUME CloseRecord
              PROVE  reading'.step = "record"
          BY <3>3 DEF CloseRecord, RecordInv, Opened
        <3> QED
          BY <1>4, <3>1, <3>2, <3>3
          DEF CheckEdges, CheckNodes, CheckVectors, CheckPairs, Answer
      <2> QED BY <2>1 DEF ChainInv, NodesInv, ChainConnected, At
    <1>5. CASE Next /\ UNCHANGED reading
      BY <1>1, <1>5, AppendOnly DEF Edges
    <1>6. CASE UNCHANGED <<vars, reading>>
      BY <1>1, <1>6 DEF Edges, vars, store
    <1>7. CASE Read
      <2>1. ASSUME NEW n \in notes, ChainNodes(n)
            PROVE  ChainInv'
        BY <1>2, <1>7, <2>1 DEF Read
      <2>2. CASE ChainEdges
        BY <1>3, <1>7, <2>2 DEF Read
      <2> QED BY <1>4, <1>7, <2>1, <2>2 DEF Read
    <1> QED BY <1>5, <1>6, <1>7 DEF RNext

\* chain hands out a connected graph: every note in it is joined to the note it
\* was asked for by the edges handed out with it, written by whomever meanwhile.
THEOREM ChainsAreConnected == RSpec => []ChainConnected
    <1>1. RInit => ChainInv
      BY DEF RInit, ChainInv, NodesInv, ChainConnected, At
    <1>2. TypeInv /\ RecordInv /\ ChainInv /\ [RNext]_<<vars, reading>> => ChainInv'
      BY ChainStep
    <1>3. ChainInv => ChainConnected
      BY DEF ChainInv
    <1>4. RSpec => []TypeInv
      BY Underneath, Typed, PTL
    <1> QED BY <1>1, <1>2, <1>3, <1>4, Recorded, PTL DEF RSpec

--------------------------------------------------------------------------------
(* CycleVerdict and SuggestedUnlinked: the algorithms of Descent go round by   *)
(* round, |Ids| times, which is enough for them to come to rest.               *)

\* What holds at round 0 and from one round to the next holds at every round.
LEMMA EveryRound ==
    ASSUME NEW K \in Nat, NEW f, NEW T, f[0] \in T,
           \A r \in 1..K : f[r - 1] \in T => f[r] \in T
    PROVE  \A r \in 0..K : f[r] \in T
    <1> DEFINE Bad == {r \in 0..K : f[r] \notin T}
    <1>1. ASSUME Bad # {}
          PROVE  FALSE
      <2>1. PICK m \in Bad : \A k \in Bad : m <= k
        <3>1. Bad \in SUBSET Nat
          OBVIOUS
        <3> HIDE DEF Bad
        <3> QED BY <1>1, <3>1, LeastNumber
      <2>2. m # 0 /\ m \in 1..K
        OBVIOUS
      <2>3. m - 1 \in 0..K /\ ~(m <= m - 1)
        BY <2>2
      <2>4. f[m - 1] \in T
        BY <2>1, <2>3
      <2> QED BY <2>2, <2>4
    <1> QED BY <1>1

\* f runs from s by the steps of F.
Rounds(F, s, K, f) ==
    f = [r \in 0..K |-> IF r = 0 THEN s ELSE F[f[r - 1]]]

\* Rounds of any length can be run: a shortest that cannot would run one further.
LEMMA RoundsExist ==
    ASSUME NEW F, NEW s, NEW K \in Nat
    PROVE  \E f : Rounds(F, s, K, f)
    <1> DEFINE Open == {k \in Nat : \A f : ~Rounds(F, s, k, f)}
    <1>1. ASSUME Open # {}
          PROVE  FALSE
      <2>1. PICK m \in Open : \A k \in Open : m <= k
        <3>1. Open \in SUBSET Nat
          OBVIOUS
        <3> HIDE DEF Open
        <3> QED BY <1>1, <3>1, LeastNumber
      <2>2. CASE m = 0
        <3>1. PICK f : f = [r \in 0..0 |-> s]
          OBVIOUS
        <3>2. f = [r \in 0..0 |-> IF r = 0 THEN s ELSE F[f[r - 1]]]
          BY <3>1
        <3> QED BY <2>1, <2>2, <3>2 DEF Rounds
      <2>3. CASE m # 0
        <3>1. m - 1 \in Nat /\ m - 1 \notin Open /\ m \in Nat
          BY <2>1, <2>3
        <3>2. PICK g : Rounds(F, s, m - 1, g)
          BY <3>1
        <3>3. PICK f : f = [r \in 0..m |-> IF r = 0 THEN s ELSE F[g[r - 1]]]
          OBVIOUS
        <3>4. \A r \in 0..(m - 1) : f[r] = g[r]
          BY <3>1, <3>2, <3>3 DEF Rounds
        <3>5. \A r \in 0..m : r # 0 => F[g[r - 1]] = F[f[r - 1]]
          <4>1. ASSUME NEW r \in 0..m, r # 0
                PROVE  f[r - 1] = g[r - 1]
            <5>1. r - 1 \in 0..(m - 1)
              BY <3>1, <4>1
            <5> QED BY <3>4, <5>1
          <4> QED BY <4>1
        <3>6. f = [r \in 0..m |-> IF r = 0 THEN s ELSE F[f[r - 1]]]
          BY <3>3, <3>5
        <3> QED BY <2>1, <3>6 DEF Rounds
      <2> QED BY <2>2, <2>3
    <1> QED BY <1>1

\* Rounds that add at most the members of a finite set come to rest.
LEMMA RoundsRest ==
    ASSUME NEW V, IsFiniteSet(V), NEW f,
           \A r \in 0..Cardinality(V) : f[r] \in SUBSET V,
           \A r \in 1..Cardinality(V) : f[r - 1] \subseteq f[r],
           \A r \in 1..Cardinality(V), q \in 1..Cardinality(V) :
              f[r - 1] = f[q - 1] => f[r] = f[q]
    PROVE  \/ f[Cardinality(V)] = V
           \/ Cardinality(V) # 0 /\ f[Cardinality(V)] = f[Cardinality(V) - 1]
    <1> DEFINE K == Cardinality(V)
    <1>0. K \in Nat
      BY FS_CardinalityType
    <1>1. \A r \in 0..K : IsFiniteSet(f[r]) /\ Cardinality(f[r]) \in Nat
      BY FS_Subset, FS_CardinalityType
    <1>2. ASSUME \A r \in 1..K : f[r] # f[r - 1]
          PROVE  f[K] = V
      <2> DEFINE Bad == {r \in 0..K : ~(Cardinality(f[r]) >= r)}
      <2>1. ASSUME Bad # {}
            PROVE  FALSE
        <3>1. PICK m \in Bad : \A k \in Bad : m <= k
          <4>1. Bad \in SUBSET Nat
            BY <1>0
          <4> HIDE DEF Bad
          <4> QED BY <2>1, <4>1, LeastNumber
        <3>2. m \in 0..K /\ ~(Cardinality(f[m]) >= m)
          OBVIOUS
        <3>3. m # 0
          BY <1>0, <1>1, <3>2
        <3>4. m - 1 \in 0..K /\ m \in 1..K /\ ~(m <= m - 1)
          BY <1>0, <3>2, <3>3
        <3>5. Cardinality(f[m - 1]) >= m - 1
          BY <3>1, <3>4
        <3>6. f[m - 1] \subseteq f[m] /\ f[m - 1] # f[m]
          BY <1>2, <3>4
        <3>7. Cardinality(f[m - 1]) < Cardinality(f[m])
          <4>1. IsFiniteSet(f[m]) /\ f[m - 1] \in SUBSET f[m]
            BY <1>1, <3>6
          <4>2. /\ Cardinality(f[m - 1]) <= Cardinality(f[m])
                /\ Cardinality(f[m]) # Cardinality(f[m - 1])
            BY <3>6, <4>1, FS_Subset
          <4> QED BY <1>1, <3>4, <4>2
        <3> QED BY <1>0, <1>1, <3>2, <3>4, <3>5, <3>7
      <2>2. Cardinality(f[K]) >= K
        BY <1>0, <2>1
      <2>3. f[K] \subseteq V
        BY <1>0
      <2>4. Cardinality(f[K]) <= K /\ Cardinality(f[K]) \in Nat
        BY <1>0, <1>1, <2>3, FS_Subset
      <2>5. Cardinality(f[K]) = Cardinality(V)
        BY <1>0, <2>2, <2>4
      <2> QED BY <2>3, <2>5, FS_Subset
    <1>3. ASSUME NEW q \in 1..K, f[q] = f[q - 1]
          PROVE  f[K] = f[K - 1]
      <2> DEFINE Bad == {r \in Nat : r >= q /\ r <= K /\ f[r] # f[r - 1]}
      <2>1. ASSUME Bad # {}
            PROVE  FALSE
        <3>1. PICK m \in Bad : \A k \in Bad : m <= k
          <4>1. Bad \in SUBSET Nat
            OBVIOUS
          <4> HIDE DEF Bad
          <4> QED BY <2>1, <4>1, LeastNumber
        <3>2. m \in Nat /\ q \in Nat /\ m >= q /\ q >= 1 /\ m <= K /\ f[m] # f[m - 1]
          BY <1>0
        <3>3. m # q
          BY <1>3, <3>2
        <3>4. /\ m - 1 \in Nat /\ m - 1 >= q /\ m - 1 <= K /\ ~(m <= m - 1)
              /\ m \in 1..K /\ m - 1 \in 1..K
          BY <1>0, <3>2, <3>3
        <3>5. f[m - 1] = f[(m - 1) - 1]
          BY <3>1, <3>4
        <3>6. f[m] = f[m - 1]
          BY <3>4, <3>5
        <3> QED BY <3>2, <3>6
      <2>2. K \in Nat /\ K >= q /\ K <= K
        BY <1>0
      <2> QED BY <2>1, <2>2
    <1> HIDE DEF K
    <1>4. CASE \A r \in 1..K : f[r] # f[r - 1]
      BY <1>2, <1>4 DEF K
    <1>5. CASE \E r \in 1..K : f[r] = f[r - 1]
      <2>1. K # 0
        BY <1>0, <1>5
      <2> QED BY <1>3, <1>5, <2>1 DEF K
    <1> QED BY <1>4, <1>5

\* A graph over the ids, and its closures by name.
Into(E, n) == Graph!Predecessors(E, n)
From(E, n) == Graph!Successors(E, n)

\* A step of _reachable and of the popping.
Wider(E, S) == S \cup UNION {From(E, n) : n \in S}
Looser(E, S) == S \cup {n \in Ids : Into(E, n) # {} /\ Into(E, n) \subseteq S}

Descending(E, a, f) ==
    f = [r \in 0..Cardinality(Ids) |-> IF r = 0 THEN From(E, a) ELSE Wider(E, f[r - 1])]

Popping(E, N, f) ==
    f = [r \in 0..Cardinality(Ids) |->
           IF r = 0 THEN {n \in N : Into(E, n) = {}} ELSE Looser(E, f[r - 1])]

\* Descent counts as Readers does.
LEMMA Counts == \A S : Graph!Cardinality(S) = Cardinality(S)
    BY Zenon DEF Graph!Cardinality, Cardinality, Graph!IsFiniteSet, IsFiniteSet

\* The two algorithms are the last of such rounds, if there are any.
LEMMA DescendantsRun ==
    ASSUME NEW E, NEW a, \E f : Descending(E, a, f)
    PROVE  \E f : Descending(E, a, f) /\ Graph!Descendants(E, a) = f[Cardinality(Ids)]
    <1>1. PICK f : f = CHOOSE g : Descending(E, a, g)
      OBVIOUS
    <1>2. Descending(E, a, f)
      BY <1>1
    <1>3. Graph!Descendants(E, a) = f[Cardinality(Ids)]
      BY <1>1, Counts DEF Graph!Descendants, Descending, Wider, From
    <1> QED BY <1>2, <1>3

LEMMA PoppedRun ==
    ASSUME NEW E, NEW N, \E f : Popping(E, N, f)
    PROVE  \E f : Popping(E, N, f) /\ Graph!Popped(E, N) = f[Cardinality(Ids)]
    <1>1. PICK f : f = CHOOSE g : Popping(E, N, g)
      OBVIOUS
    <1>2. Popping(E, N, f)
      BY <1>1
    <1>3. Graph!Popped(E, N) = f[Cardinality(Ids)]
      BY <1>1, Counts DEF Graph!Popped, Popping, Looser, Into
    <1> QED BY <1>2, <1>3

LEMMA Ends ==
    ASSUME NEW E \in SUBSET (Ids \X Ids), NEW n
    PROVE  /\ Into(E, n) \in SUBSET Ids /\ From(E, n) \in SUBSET Ids
           /\ \A m : m \in Into(E, n) <=> <<m, n>> \in E
           /\ \A m : m \in From(E, n) <=> <<n, m>> \in E
    BY DEF Into, From, Graph!Predecessors, Graph!Successors

\* PathFrom by its ends alone.
LEMMA PathMeans ==
    ASSUME NEW E, NEW a, NEW b
    PROVE  Graph!PathFrom(E, a, b) <=>
             \A S \in SUBSET Ids :
               (From(E, a) \subseteq S /\ \A n \in S : From(E, n) \subseteq S) => b \in S
    BY DEF Graph!PathFrom, From

LEMMA DescendingExists ==
    ASSUME NEW E \in SUBSET (Ids \X Ids), NEW a, Cardinality(Ids) \in Nat
    PROVE  \E f : Descending(E, a, f)
    <1> DEFINE K == Cardinality(Ids)
               F == [S \in SUBSET Ids |-> Wider(E, S)]
    <1>1. PICK f : Rounds(F, From(E, a), K, f)
      <2> HIDE DEF F
      <2> QED BY RoundsExist
    <1>2. From(E, a) \in SUBSET Ids /\ \A S \in SUBSET Ids : Wider(E, S) \in SUBSET Ids
      BY Ends DEF Wider
    <1>3. \A r \in 0..K : f[r] \in SUBSET Ids
      <2>1. f[0] = From(E, a)
        BY <1>1 DEF Rounds
      <2>2. \A r \in 1..K : f[r] = F[f[r - 1]]
        <3>1. \A r \in 1..K : r \in 0..K /\ r # 0
          OBVIOUS
        <3> HIDE DEF F, K
        <3> QED BY <1>1, <3>1 DEF Rounds
      <2>3. \A r \in 1..K : f[r - 1] \in SUBSET Ids => f[r] \in SUBSET Ids
        BY <1>2, <2>2
      <2> HIDE DEF F, K
      <2> QED BY <1>2, <2>1, <2>3, EveryRound DEF K
    <1>4. \A r \in 0..K : r # 0 => F[f[r - 1]] = Wider(E, f[r - 1])
      <2>1. \A r \in 0..K : r # 0 => r - 1 \in 0..K
        OBVIOUS
      <2> QED BY <1>3, <2>1
    <1>5. Descending(E, a, f)
      <2> HIDE DEF F
      <2> QED BY <1>1, <1>4 DEF Rounds, Descending
    <1> QED BY <1>5

\* _reachable finds, for one root, what a path leads to, and no more.
LEMMA DescendantsArePaths ==
    ASSUME IsFiniteSet(Ids), NEW E \in SUBSET (Ids \X Ids), NEW a
    PROVE  Graph!Descendants(E, a) = {b \in Ids : Graph!PathFrom(E, a, b)}
    <1> DEFINE K == Cardinality(Ids)
    <1>0. K \in Nat
      BY FS_CardinalityType
    <1>1. PICK f : Descending(E, a, f) /\ Graph!Descendants(E, a) = f[K]
      BY <1>0, DescendingExists, DescendantsRun
    <1>2. f[0] = From(E, a) /\ \A r \in 1..K : f[r] = Wider(E, f[r - 1])
      BY <1>0, <1>1 DEF Descending
    <1>3. ASSUME NEW S \in SUBSET Ids, From(E, a) \subseteq S,
                 \A n \in S : From(E, n) \subseteq S
          PROVE  \A r \in 0..K : f[r] \in SUBSET S
      <2>1. \A r \in 1..K : f[r - 1] \in SUBSET S => f[r] \in SUBSET S
        BY <1>2, <1>3 DEF Wider
      <2> HIDE DEF K
      <2> QED BY <1>0, <1>2, <1>3, <2>1, EveryRound
    <1>4. \A r \in 0..K : f[r] \in SUBSET Ids
      BY <1>3, Ends
    <1>5. From(E, a) \subseteq f[K]
      <2> DEFINE T == {S \in SUBSET Ids : From(E, a) \subseteq S}
      <2>1. f[0] \in T
        BY <1>2, Ends
      <2>2. \A r \in 1..K : f[r - 1] \in T => f[r] \in T
        <3>1. \A r \in 1..K : r \in 0..K
          BY <1>0
        <3> QED BY <1>2, <1>4, <3>1 DEF Wider
      <2>3. \A r \in 0..K : f[r] \in T
        <3> HIDE DEF T, K
        <3> QED BY <1>0, <2>1, <2>2, EveryRound
      <2> QED BY <1>0, <2>3
    <1>6. \A n \in f[K] : From(E, n) \subseteq f[K]
      <2>1. \A r \in 1..K : f[r - 1] \subseteq f[r]
        BY <1>2 DEF Wider
      <2>2. \A r \in 1..K, q \in 1..K : f[r - 1] = f[q - 1] => f[r] = f[q]
        BY <1>2
      <2>3. f[K] = Ids \/ (K # 0 /\ f[K] = f[K - 1])
        BY <1>4, <2>1, <2>2, RoundsRest
      <2>4. CASE f[K] = Ids
        BY <2>4, Ends
      <2>5. CASE K # 0 /\ f[K] = f[K - 1]
        <3>1. f[K] = Wider(E, f[K])
          BY <1>0, <1>2, <2>5
        <3> QED BY <3>1 DEF Wider
      <2> QED BY <2>3, <2>4, <2>5
    <1>7. ASSUME NEW b \in Ids
          PROVE  b \in f[K] <=> Graph!PathFrom(E, a, b)
      <2>1. ASSUME b \in f[K]
            PROVE  Graph!PathFrom(E, a, b)
        BY <1>0, <1>3, <2>1, PathMeans
      <2>2. ASSUME Graph!PathFrom(E, a, b)
            PROVE  b \in f[K]
        <3>1. f[K] \in SUBSET Ids
          BY <1>0, <1>4
        <3> QED BY <1>5, <1>6, <2>2, <3>1, PathMeans
      <2> QED BY <2>1, <2>2
    <1>8. f[K] \subseteq Ids
      BY <1>0, <1>4
    <1> QED BY <1>1, <1>7, <1>8

LEMMA PoppingExists ==
    ASSUME NEW N \in SUBSET Ids, NEW E \in SUBSET (N \X N), Cardinality(Ids) \in Nat
    PROVE  \E f : Popping(E, N, f)
    <1> DEFINE K == Cardinality(Ids)
               F == [S \in SUBSET Ids |-> Looser(E, S)]
               s == {n \in N : Into(E, n) = {}}
    <1>1. PICK f : Rounds(F, s, K, f)
      <2> HIDE DEF F, s
      <2> QED BY RoundsExist
    <1>2. s \in SUBSET Ids /\ \A S \in SUBSET Ids : Looser(E, S) \in SUBSET Ids
      BY DEF Looser
    <1>3. \A r \in 0..K : f[r] \in SUBSET Ids
      <2>1. f[0] = s
        BY <1>1 DEF Rounds
      <2>2. \A r \in 1..K : f[r] = F[f[r - 1]]
        <3>1. \A r \in 1..K : r \in 0..K /\ r # 0
          OBVIOUS
        <3> HIDE DEF F, K, s
        <3> QED BY <1>1, <3>1 DEF Rounds
      <2>3. \A r \in 1..K : f[r - 1] \in SUBSET Ids => f[r] \in SUBSET Ids
        BY <1>2, <2>2
      <2> HIDE DEF F, K, s
      <2> QED BY <1>2, <2>1, <2>3, EveryRound DEF K
    <1>4. \A r \in 0..K : r # 0 => F[f[r - 1]] = Looser(E, f[r - 1])
      <2>1. \A r \in 0..K : r # 0 => r - 1 \in 0..K
        OBVIOUS
      <2> QED BY <1>3, <2>1
    <1>5. Popping(E, N, f)
      <2> HIDE DEF F
      <2> QED BY <1>1, <1>4 DEF Rounds, Popping
    <1> QED BY <1>5

\* What comes to rest: the notes without a predecessor are popped, and so is every
\* note all of whose predecessors are; and nothing else that a set like it can keep out.
LEMMA PoppedMeans ==
    ASSUME IsFiniteSet(Ids), NEW N \in SUBSET Ids, NEW E \in SUBSET (N \X N)
    PROVE  LET P == Graph!Popped(E, N)
           IN  /\ P \in SUBSET N
               /\ \A n \in N : Into(E, n) \subseteq P => n \in P
               /\ \A T \in SUBSET N :
                    (\A n \in N : Into(E, n) \subseteq T => n \in T) => P \subseteq T
    <1> DEFINE K == Cardinality(Ids)
               s == {n \in N : Into(E, n) = {}}
    <1>0. K \in Nat /\ E \in SUBSET (Ids \X Ids)
      BY FS_CardinalityType
    <1>1. PICK f : Popping(E, N, f) /\ Graph!Popped(E, N) = f[K]
      BY <1>0, PoppingExists, PoppedRun
    <1>2. f[0] = s /\ \A r \in 1..K : f[r] = Looser(E, f[r - 1])
      <2>1. f = [r \in 0..K |-> IF r = 0 THEN s ELSE Looser(E, f[r - 1])]
        BY <1>1 DEF Popping
      <2>2. 0 \in 0..K /\ \A r \in 1..K : r \in 0..K /\ r # 0
        BY <1>0
      <2> HIDE DEF s, K
      <2> QED BY <2>1, <2>2
    <1>3. \A n \in Ids : Into(E, n) # {} => n \in N
      <2>1. ASSUME NEW n \in Ids, NEW m \in Into(E, n)
            PROVE  n \in N
        <3>1. <<m, n>> \in E
          BY <1>0, Ends
        <3> QED BY <3>1
      <2> QED BY <2>1
    <1>4. ASSUME NEW T \in SUBSET N, \A n \in N : Into(E, n) \subseteq T => n \in T
          PROVE  \A r \in 0..K : f[r] \in SUBSET T
      <2>1. f[0] \in SUBSET T
        BY <1>2, <1>4
      <2>2. \A r \in 1..K : f[r - 1] \in SUBSET T => f[r] \in SUBSET T
        BY <1>2, <1>3, <1>4 DEF Looser
      <2> HIDE DEF K
      <2> QED BY <1>0, <2>1, <2>2, EveryRound
    <1>5. \A r \in 0..K : f[r] \in SUBSET N
      BY <1>4
    <1>6. s \subseteq f[K]
      <2> DEFINE T == {S \in SUBSET N : s \subseteq S}
      <2>1. f[0] \in T
        BY <1>2
      <2>2. \A r \in 1..K : f[r - 1] \in T => f[r] \in T
        <3>1. \A r \in 1..K : r \in 0..K
          BY <1>0
        <3> QED BY <1>2, <1>5, <3>1 DEF Looser
      <2>3. \A r \in 0..K : f[r] \in T
        <3> HIDE DEF T, K
        <3> QED BY <1>0, <2>1, <2>2, EveryRound
      <2> QED BY <1>0, <2>3
    <1>7. \A n \in N : Into(E, n) # {} /\ Into(E, n) \subseteq f[K] => n \in f[K]
      <2>1. \A r \in 1..K : f[r - 1] \subseteq f[r]
        BY <1>2 DEF Looser
      <2>2. \A r \in 1..K, q \in 1..K : f[r - 1] = f[q - 1] => f[r] = f[q]
        BY <1>2
      <2>3. \A r \in 0..K : f[r] \in SUBSET Ids
        BY <1>5
      <2>4. f[K] = Ids \/ (K # 0 /\ f[K] = f[K - 1])
        BY <2>1, <2>2, <2>3, RoundsRest
      <2>5. CASE f[K] = Ids
        BY <2>5
      <2>6. CASE K # 0 /\ f[K] = f[K - 1]
        <3>1. f[K] = Looser(E, f[K])
          BY <1>0, <1>2, <2>6
        <3> QED BY <3>1 DEF Looser
      <2> QED BY <2>4, <2>5, <2>6
    <1>8. f[K] \in SUBSET N
      BY <1>0, <1>5
    <1>9. \A n \in N : Into(E, n) \subseteq f[K] => n \in f[K]
      BY <1>6, <1>7
    <1>10. \A T \in SUBSET N :
             (\A n \in N : Into(E, n) \subseteq T => n \in T) => f[K] \subseteq T
      <2>1. K \in 0..K
        BY <1>0
      <2> HIDE DEF K
      <2> QED BY <1>4, <2>1
    <1> HIDE DEF K
    <1> QED BY <1>1, <1>8, <1>9, <1>10

\* A note on a cycle has a predecessor on it.
LEMMA CycleGoesBack ==
    ASSUME NEW E \in SUBSET (Ids \X Ids), NEW n \in Graph!OnCycle(E)
    PROVE  \E m \in Graph!OnCycle(E) : <<m, n>> \in E /\ Graph!PathFrom(E, n, m)
    <1> DEFINE D == {b \in Ids : Graph!PathFrom(E, n, b)}
    <1>1. n \in Ids /\ Graph!PathFrom(E, n, n)
      BY DEF Graph!OnCycle
    <1>2. From(E, n) \subseteq D
      BY Ends, PathMeans
    <1>3. \A m \in D : From(E, m) \subseteq D
      <2> SUFFICES ASSUME NEW m \in D, NEW k \in From(E, m)
                   PROVE  k \in D
        OBVIOUS
      <2>1. k \in Ids
        BY Ends
      <2>2. Graph!PathFrom(E, n, k)
        BY PathMeans
      <2> QED BY <2>1, <2>2
    <1>4. PICK m \in D : <<m, n>> \in E
      <2> SUFFICES ASSUME \A m \in D : <<m, n>> \notin E
                   PROVE  FALSE
        OBVIOUS
      <2> DEFINE S == D \ {n}
      <2>1. n \in D
        BY <1>1
      <2>2. From(E, n) \subseteq S /\ \A m \in S : From(E, m) \subseteq S
        BY <1>2, <1>3, <2>1, Ends
      <2>3. S \in SUBSET Ids
        OBVIOUS
      <2>4. n \in S
        <3> HIDE DEF S
        <3> QED BY <1>1, <2>2, <2>3, PathMeans
      <2> QED BY <2>4
    <1>5. Graph!PathFrom(E, m, m)
      <2> SUFFICES ASSUME NEW S \in SUBSET Ids, From(E, m) \subseteq S,
                          \A k \in S : From(E, k) \subseteq S
                   PROVE  m \in S
        BY PathMeans
      <2>1. n \in S
        BY <1>4, Ends
      <2>2. Graph!PathFrom(E, n, m)
        OBVIOUS
      <2> QED BY <2>1, <2>2, PathMeans
    <1> QED BY <1>4, <1>5 DEF Graph!OnCycle

\* Finitely many notes each with a predecessor among them hold a cycle.
LEMMA NoSourceNoEnd ==
    ASSUME NEW E \in SUBSET (Ids \X Ids), NEW U \in SUBSET Ids, IsFiniteSet(U), U # {},
           \A n \in U : \E m \in U : <<m, n>> \in E
    PROVE  Graph!OnCycle(E) # {}
    <1> DEFINE Endless(W) == W # {} /\ \A n \in W : \E m \in W : <<m, n>> \in E
               Sizes == {Cardinality(W) : W \in {W \in SUBSET U : Endless(W)}}
    <1>1. \A W \in SUBSET U : IsFiniteSet(W) /\ Cardinality(W) \in Nat
      BY FS_Subset, FS_CardinalityType
    <1>2. Sizes \in SUBSET Nat /\ Sizes # {}
      <2>1. Endless(U)
        OBVIOUS
      <2> HIDE DEF Endless
      <2>2. Cardinality(U) \in Sizes
        BY <2>1
      <2> QED BY <1>1, <2>2
    <1>3. PICK k \in Sizes : \A j \in Sizes : k <= j
      <2> HIDE DEF Sizes
      <2> QED BY <1>2, LeastNumber
    <1>4. PICK W \in SUBSET U : Endless(W) /\ k = Cardinality(W)
      BY <1>3
    <1>5. PICK n \in W : TRUE
      BY <1>4
    <1> DEFINE A == {m \in W : Graph!PathFrom(E, m, n)}
    <1>6. \A m \in W, l \in W : <<l, m>> \in E /\ (m = n \/ m \in A) => l \in A
      <2> SUFFICES ASSUME NEW m \in W, NEW l \in W, <<l, m>> \in E, m = n \/ m \in A
                   PROVE  Graph!PathFrom(E, l, n)
        OBVIOUS
      <2> SUFFICES ASSUME NEW S \in SUBSET Ids, From(E, l) \subseteq S,
                          \A k2 \in S : From(E, k2) \subseteq S
                   PROVE  n \in S
        BY PathMeans
      <2>1. m \in S
        BY Ends
      <2>2. CASE m \in A
        BY <2>1, <2>2, PathMeans
      <2> QED BY <2>1, <2>2
    <1>7. Endless(A)
      <2>1. PICK m \in W : <<m, n>> \in E
        BY <1>4
      <2>2. m \in A
        BY <1>6, <2>1
      <2>3. \A x \in A : \E y \in A : <<y, x>> \in E
        <3> SUFFICES ASSUME NEW x \in A
                     PROVE  \E y \in A : <<y, x>> \in E
          OBVIOUS
        <3>1. PICK y \in W : <<y, x>> \in E
          BY <1>4
        <3>2. y \in A
          BY <1>6, <3>1
        <3> QED BY <3>1, <3>2
      <2> HIDE DEF A
      <2> QED BY <2>2, <2>3
    <1>8. A = W
      <2>1. A \in SUBSET W /\ A \in SUBSET U
        OBVIOUS
      <2> HIDE DEF Endless, A
      <2>2. Cardinality(A) \in Sizes
        BY <1>7, <2>1
      <2>3. Cardinality(W) <= Cardinality(A)
        BY <1>3, <1>4, <2>2
      <2>4. IsFiniteSet(W) /\ Cardinality(A) <= Cardinality(W)
        BY <1>1, <2>1, FS_Subset
      <2>5. Cardinality(W) = Cardinality(A)
        BY <1>1, <2>1, <2>3, <2>4
      <2> QED BY <2>1, <2>4, <2>5, FS_Subset
    <1>9. n \in Graph!OnCycle(E)
      BY <1>5, <1>8 DEF Graph!OnCycle
    <1> QED BY <1>9

\* check_cycles: the notes never popped are there exactly when a cycle is, and hold
\* every note on one.
LEMMA VerdictHolds ==
    ASSUME IsFiniteSet(Ids), NEW N \in SUBSET Ids, NEW E \in SUBSET (N \X N)
    PROVE  /\ Graph!CycleFound(E, N) <=> Graph!OnCycle(E) # {}
           /\ Graph!OnCycle(E) \subseteq Graph!Stuck(E, N)
    <1> DEFINE P == Graph!Popped(E, N)
               C == Graph!OnCycle(E)
    <1>0. E \in SUBSET (Ids \X Ids) /\ IsFiniteSet(N)
      BY FS_Subset
    <1>1. /\ P \in SUBSET N
          /\ \A n \in N : Into(E, n) \subseteq P => n \in P
          /\ \A T \in SUBSET N :
               (\A n \in N : Into(E, n) \subseteq T => n \in T) => P \subseteq T
      BY PoppedMeans
    <1>2. C \subseteq N
      <2>1. ASSUME NEW n \in C
            PROVE  n \in N
        <3>1. PICK m \in C : <<m, n>> \in E
          BY <1>0, CycleGoesBack
        <3> QED BY <3>1
      <2> QED BY <2>1
    <1>3. P \subseteq N \ C
      <2> DEFINE T == N \ C
      <2>1. \A n \in N : Into(E, n) \subseteq T => n \in T
        <3> SUFFICES ASSUME NEW n \in C
                     PROVE  \E m \in Into(E, n) : m \in C
          OBVIOUS
        <3>1. PICK m \in C : <<m, n>> \in E
          BY <1>0, CycleGoesBack
        <3> QED BY <1>0, <3>1, Ends
      <2>2. T \in SUBSET N
        OBVIOUS
      <2> HIDE DEF T, P
      <2>3. P \subseteq T
        BY <1>1, <2>1, <2>2
      <2> QED BY <2>3 DEF T
    <1>4. C \subseteq N \ P
      BY <1>2, <1>3
    <1>5. ASSUME P # N
          PROVE  C # {}
      <2> DEFINE U == N \ P
      <2>1. U \in SUBSET Ids /\ U # {}
        BY <1>1, <1>5
      <2>2. IsFiniteSet(U)
        BY <2>1, FS_Subset
      <2>3. \A n \in U : \E m \in U : <<m, n>> \in E
        <3> SUFFICES ASSUME NEW n \in U
                     PROVE  \E m \in U : <<m, n>> \in E
          OBVIOUS
        <3>1. PICK m \in Into(E, n) : m \notin P
          BY <1>1
        <3>2. <<m, n>> \in E
          BY <1>0, <3>1, Ends
        <3> QED BY <3>1, <3>2
      <2> HIDE DEF U
      <2> QED BY <1>0, <2>1, <2>2, <2>3, NoSourceNoEnd
    <1>6. Cardinality(P) # Cardinality(N) <=> P # N
      <2> HIDE DEF P
      <2> QED BY <1>0, <1>1, FS_Subset
    <1>7. Graph!CycleFound(E, N) <=> P # N
      BY <1>6, Counts DEF Graph!CycleFound
    <1>8. P # N <=> C # {}
      BY <1>1, <1>4, <1>5
    <1>9. Graph!Stuck(E, N) = N \ P
      BY DEF Graph!Stuck
    <1> QED BY <1>4, <1>7, <1>8, <1>9

\* check_suggested_links: two notes are compared exactly when no path links them.
LEMMA PairsHold ==
    ASSUME IsFiniteSet(Ids), NEW N \in SUBSET Ids, NEW E \in SUBSET (Ids \X Ids),
           NEW n \in N, NEW m \in N, n # m
    PROVE  {n, m} \in Graph!Unlinked(E, N)
             <=> ~Graph!PathFrom(E, n, m) /\ ~Graph!PathFrom(E, m, n)
    <1>1. \A a, b \in Ids : b \in Graph!Descendants(E, a) <=> Graph!PathFrom(E, a, b)
      BY DescendantsArePaths
    <1>2. Cardinality({n, m}) = 2
      <2>1. Cardinality({n}) = 1 /\ IsFiniteSet({n})
        BY FS_Singleton
      <2>2. Cardinality({n} \cup {m}) = Cardinality({n}) + 1
        BY <2>1, FS_AddElement
      <2>3. {n} \cup {m} = {n, m}
        OBVIOUS
      <2> QED BY <2>1, <2>2, <2>3
    <1>3. {n, m} \in {{a, b} : a \in N, b \in N}
      OBVIOUS
    <1>4. {n, m} \in Graph!Unlinked(E, N)
            <=> m \notin Graph!Descendants(E, n) /\ n \notin Graph!Descendants(E, m)
      <2>1. {n, m} \in Graph!Unlinked(E, N)
              <=> \A a, b \in {n, m} : a # b => b \notin Graph!Descendants(E, a)
        BY <1>2, <1>3, Counts DEF Graph!Unlinked
      <2> QED BY <2>1
    <1> QED BY <1>1, <1>4

LEMMA MorePaths ==
    ASSUME NEW E, NEW F, E \subseteq F, NEW a, NEW b, Graph!PathFrom(E, a, b)
    PROVE  Graph!PathFrom(F, a, b)
    <1>1. \A n : From(E, n) \subseteq From(F, n)
      BY DEF From, Graph!Successors
    <1> QED BY <1>1, PathMeans

\* What the checker holds between its SELECTs was so, and is there still.
CheckInv ==
    /\ At("edges") => reading.edges \in SUBSET (notes \X notes)
    /\ At("vectors") => reading.notes \in SUBSET notes /\ reading.edges \subseteq Edges
    /\ CycleVerdict /\ SuggestedUnlinked

LEMMA StoreGrows ==
    ASSUME [Next]_vars
    PROVE  notes \subseteq notes' /\ Edges \subseteq Edges'
    <1>1. notes \subseteq notes'
      BY Writes DEF CommitNote, Insert
    <1>2. assessments \subseteq assessments'
      BY AppendOnly
    <1> QED BY <1>1, <1>2 DEF Edges

\* CheckInv is inductive beside the invariants of the writers.
LEMMA CheckStep ==
    ASSUME IsFiniteSet(Ids), TypeInv, RecordInv, CheckInv, [RNext]_<<vars, reading>>
    PROVE  CheckInv'
    <1>0. notes \in SUBSET Ids /\ Edges \in SUBSET (notes \X notes)
      BY EdgesInside DEF TypeInv, TypeOK
    <1>1. ASSUME notes \subseteq notes', Edges \subseteq Edges', UNCHANGED reading
          PROVE  CheckInv'
      <2>1. At("edges")' => reading'.edges \in SUBSET (notes' \X notes')
        BY <1>1 DEF CheckInv, At
      <2>2. At("vectors")' => /\ reading'.notes \in SUBSET notes'
                              /\ reading'.edges \subseteq Edges'
        BY <1>1 DEF CheckInv, At
      <2>3. CycleVerdict'
        <3>1. PICK E : E = reading.edges
          OBVIOUS
        <3>2. CASE ~At("verdict")
          BY <1>1, <3>2 DEF CycleVerdict, At
        <3>3. CASE At("verdict")
          <4>1. /\ reading.cyclic <=> Graph!OnCycle(E) # {}
                /\ Graph!OnCycle(E) \subseteq reading.stuck
            BY <3>1, <3>3 DEF CheckInv, CycleVerdict
          <4>2. /\ reading'.edges = E
                /\ reading'.cyclic = reading.cyclic /\ reading'.stuck = reading.stuck
            BY <1>1, <3>1
          <4>3. Graph!OnCycle(reading.edges)' = Graph!OnCycle(E)
            BY <4>2 DEF Graph!OnCycle, Graph!PathFrom, Graph!Successors
          <4> QED BY <4>1, <4>2, <4>3 DEF CycleVerdict
        <3> QED BY <3>2, <3>3
      <2>4. SuggestedUnlinked'
        <3>1. PICK E, F, N : E = reading.edges /\ F = Edges' /\ N = reading.notes
          OBVIOUS
        <3>2. /\ reading'.edges = E /\ reading'.notes = N
              /\ reading'.pairs = reading.pairs
          BY <1>1, <3>1
        <3>3. ASSUME At("suggested"), NEW n \in N, NEW m \in N, n # m
              PROVE  /\ {n, m} \in reading.pairs => ~Graph!PathFrom(E, n, m)
                     /\ {n, m} \notin reading.pairs =>
                          Graph!PathFrom(F, n, m) \/ Graph!PathFrom(F, m, n)
          <4>1. /\ {n, m} \in reading.pairs => ~Graph!PathFrom(E, n, m)
                /\ {n, m} \notin reading.pairs =>
                     Graph!PathFrom(Edges, n, m) \/ Graph!PathFrom(Edges, m, n)
            BY <3>1, <3>3 DEF CheckInv, SuggestedUnlinked
          <4> QED BY <1>1, <3>1, <4>1, MorePaths
        <3>4. CASE ~At("suggested")
          BY <1>1, <3>4 DEF SuggestedUnlinked, At
        <3>5. CASE At("suggested")
          <4>1. \A n, m : Graph!PathFrom(reading.edges, n, m)' <=> Graph!PathFrom(E, n, m)
            BY <3>2 DEF Graph!PathFrom, Graph!Successors
          <4>2. \A n, m : Graph!PathFrom(Edges, n, m)' <=> Graph!PathFrom(F, n, m)
            BY <3>1 DEF Graph!PathFrom, Graph!Successors
          <4> QED BY <3>2, <3>3, <3>5, <4>1, <4>2 DEF SuggestedUnlinked
        <3> QED BY <3>4, <3>5
      <2> QED BY <2>1, <2>2, <2>3, <2>4 DEF CheckInv
    <1>2. ASSUME reading' = None \/ reading'.step \in {"out", "listed", "in", "heads", "record",
                                                       "nodes", "chain"}
          PROVE  CheckInv'
      BY <1>2 DEF CheckInv, CycleVerdict, SuggestedUnlinked, At
    <1>3. ASSUME UNCHANGED vars, CheckEdges
          PROVE  CheckInv'
      <2>1. reading'.step = "edges" /\ reading'.edges = Edges /\ notes' = notes
        BY <1>3 DEF CheckEdges, vars, store
      <2> QED BY <1>0, <2>1 DEF CheckInv, CycleVerdict, SuggestedUnlinked, At
    <1>4. ASSUME UNCHANGED vars, CheckNodes
          PROVE  CheckInv'
      <2>1. PICK E \in SUBSET (notes \X notes) : E = reading.edges
        BY <1>4 DEF CheckNodes, CheckInv
      <2>2. /\ reading'.step = "verdict" /\ reading'.edges = E
            /\ reading'.cyclic = Graph!CycleFound(E, notes)
            /\ reading'.stuck = Graph!Stuck(E, notes)
        BY <1>4, <2>1 DEF CheckNodes
      <2>3. /\ Graph!CycleFound(E, notes) <=> Graph!OnCycle(E) # {}
            /\ Graph!OnCycle(E) \subseteq Graph!Stuck(E, notes)
        BY <1>0, VerdictHolds
      <2>4. CycleVerdict'
        BY <2>2, <2>3
        DEF CycleVerdict, At, Graph!OnCycle, Graph!PathFrom, Graph!Successors
      <2> QED BY <2>2, <2>4 DEF CheckInv, SuggestedUnlinked, At
    <1>5. ASSUME UNCHANGED vars, CheckVectors
          PROVE  CheckInv'
      <2>1. /\ reading'.step = "vectors" /\ reading'.notes = notes
            /\ reading'.edges = Edges /\ notes' = notes /\ Edges' = Edges
        BY <1>5 DEF CheckVectors, vars, store, Edges
      <2> QED BY <2>1 DEF CheckInv, CycleVerdict, SuggestedUnlinked, At
    <1>6. ASSUME UNCHANGED vars, CheckPairs
          PROVE  CheckInv'
      <2>1. PICK N \in SUBSET Ids : N = reading.notes
        BY <1>0, <1>6 DEF CheckPairs, CheckInv
      <2>2. PICK E : E = reading.edges /\ E \subseteq Edges
        BY <1>6 DEF CheckPairs, CheckInv
      <2>3. /\ reading'.step = "suggested" /\ reading'.notes = N /\ reading'.edges = E
            /\ reading'.pairs = Graph!Unlinked(Edges, N) /\ Edges' = Edges
        BY <1>6, <2>1, <2>2 DEF CheckPairs, vars, store, Edges
      <2>4. ASSUME NEW n \in N, NEW m \in N, n # m
            PROVE  /\ {n, m} \in Graph!Unlinked(Edges, N) => ~Graph!PathFrom(E, n, m)
                   /\ {n, m} \notin Graph!Unlinked(Edges, N) =>
                        Graph!PathFrom(Edges, n, m) \/ Graph!PathFrom(Edges, m, n)
        <3>1. {n, m} \in Graph!Unlinked(Edges, N)
                <=> ~Graph!PathFrom(Edges, n, m) /\ ~Graph!PathFrom(Edges, m, n)
          <4>1. Edges \in SUBSET (Ids \X Ids)
            BY <1>0
          <4> QED BY <2>4, <4>1, PairsHold
        <3> QED BY <2>2, <3>1, MorePaths
      <2>5. SuggestedUnlinked'
        BY <2>3, <2>4 DEF SuggestedUnlinked, At, Graph!PathFrom, Graph!Successors
      <2> QED BY <2>3, <2>5 DEF CheckInv, CycleVerdict, At
    <1>7. CASE Next /\ UNCHANGED reading
      BY <1>1, <1>7, StoreGrows
    <1>8. CASE UNCHANGED <<vars, reading>>
      BY <1>1, <1>8 DEF Edges, vars, store
    <1>9. CASE Read
      <2>1. UNCHANGED vars
        BY <1>9 DEF Read
      <2>2. ASSUME NEW n \in notes, OpenRecord(n) \/ ChainNodes(n)
            PROVE  reading'.step \in {"out", "nodes"}
        BY <2>2 DEF OpenRecord, ChainNodes
      <2>3. ASSUME ReadEdges
            PROVE  reading'.step \in {"listed", "in", "heads"}
        BY <2>3, ReadEdgesSteps
      <2>4. ASSUME CloseRecord
            PROVE  reading'.step = "record"
        BY <2>4 DEF CloseRecord, RecordInv, Opened
      <2>5. ASSUME ChainEdges
            PROVE  reading'.step = "chain"
        BY <2>5 DEF ChainEdges
      <2>6. ASSUME Answer
            PROVE  reading' = None
        BY <2>6 DEF Answer
      <2> QED BY <1>2, <1>3, <1>4, <1>5, <1>6, <1>9, <2>1, <2>2, <2>3, <2>4, <2>5, <2>6 DEF Read
    <1> QED BY <1>7, <1>8, <1>9 DEF RNext

LEMMA Checked == IsFiniteSet(Ids) => (RSpec => []CheckInv)
    <1> SUFFICES ASSUME IsFiniteSet(Ids)
                 PROVE  RSpec => []CheckInv
      OBVIOUS
    <1>1. RInit => CheckInv
      BY DEF RInit, CheckInv, CycleVerdict, SuggestedUnlinked, At
    <1>2. TypeInv /\ RecordInv /\ CheckInv /\ [RNext]_<<vars, reading>> => CheckInv'
      BY CheckStep
    <1>3. RSpec => []TypeInv
      BY Underneath, Typed, PTL
    <1> QED BY <1>1, <1>2, <1>3, Recorded, PTL DEF RSpec

\* check_cycles, on any graph and with whatever was written between its SELECTs,
\* fires exactly when the edges it read hold a cycle, and names every note on one.
THEOREM CyclesAreFound == IsFiniteSet(Ids) => (RSpec => []CycleVerdict)
    <1>1. CheckInv => CycleVerdict
      BY DEF CheckInv
    <1> QED BY <1>1, Checked, PTL

\* check_suggested_links, likewise, compares the pairs of notes without a path
\* between them, and no pair that had one when it began.
THEOREM SuggestionsAreUnlinked == IsFiniteSet(Ids) => (RSpec => []SuggestedUnlinked)
    <1>1. CheckInv => SuggestedUnlinked
      BY DEF CheckInv
    <1> QED BY <1>1, Checked, PTL

--------------------------------------------------------------------------------
(* Heads: what the DAG of one process is good for.                             *)

\* However long the chain, some note at its end is there to be shown.
Headed == \A n \in notes : Heads(n) # {}

LEMMA AcyclicIsHeaded ==
    ASSUME IsFiniteSet(Ids), TypeInv, Acyclic
    PROVE  Headed
    <1> SUFFICES ASSUME NEW n \in notes, Heads(n) = {}
                 PROVE  FALSE
      BY DEF Headed
    <1> DEFINE W == {m \in notes : Reaches(Edges, n, m)}
               R == {<<e[2], e[1]>> : e \in Edges}
    <1>1. notes \in SUBSET Ids /\ Edges \in SUBSET (notes \X notes)
      BY EdgesInside DEF TypeInv, TypeOK
    <1>2. \A m, k : <<k, m>> \in R <=> <<m, k>> \in Edges
      <2>1. \A e \in Edges : e = <<e[1], e[2]>>
        BY <1>1
      <2> QED BY <2>1
    <1>3. R \in SUBSET (Ids \X Ids)
      BY <1>1
    <1>4. \A m \in W : \E k \in W : <<k, m>> \in R
      <2> SUFFICES ASSUME NEW m \in W
                   PROVE  \E k \in W : <<m, k>> \in Edges
        BY <1>2
      <2>1. PICK e \in Edges : e[1] = m
        BY DEF Heads
      <2>2. e[2] \in notes /\ e = <<m, e[2]>>
        BY <1>1, <2>1
      <2>3. Reaches(Edges, n, e[2])
        BY <2>1 DEF Reaches
      <2> QED BY <2>2, <2>3
    <1>5. PICK x \in Graph!OnCycle(R) : TRUE
      <2>1. n \in W /\ W \in SUBSET Ids
        BY <1>1 DEF Reaches
      <2>2. IsFiniteSet(W)
        BY <2>1, FS_Subset
      <2> HIDE DEF W, R
      <2> QED BY <1>3, <1>4, <2>1, <2>2, NoSourceNoEnd
    <1>6. PICK y \in Ids : <<y, x>> \in R /\ Graph!PathFrom(R, x, y)
      <2>1. PICK y \in Graph!OnCycle(R) : <<y, x>> \in R /\ Graph!PathFrom(R, x, y)
        <3> HIDE DEF R
        <3> QED BY <1>3, CycleGoesBack
      <2> QED BY <2>1 DEF Graph!OnCycle
    <1> HIDE DEF W, R
    <1>7. PICK S \in SUBSET Ids :
             y \in S /\ (\A e \in Edges : e[1] \in S => e[2] \in S) /\ x \notin S
      <2>1. <<x, y>> \in Edges /\ <<x, y>>[1] = x /\ <<x, y>>[2] = y
        BY <1>2, <1>6
      <2> QED BY <2>1 DEF Acyclic, Reaches
    <1>8. \A m \in Ids \ S : From(R, m) \subseteq Ids \ S
      <2> SUFFICES ASSUME NEW m \in Ids \ S, NEW k \in From(R, m)
                   PROVE  k \in Ids \ S
        OBVIOUS
      <2>1. k \in Ids /\ <<m, k>> \in R
        BY <1>3, Ends
      <2>2. <<k, m>> \in Edges /\ <<k, m>>[1] = k /\ <<k, m>>[2] = m
        BY <1>2, <2>1
      <2> QED BY <1>7, <2>1, <2>2
    <1>9. x \in Ids
      BY <1>5 DEF Graph!OnCycle
    <1> DEFINE T == Ids \ S
    <1>10. T \in SUBSET Ids /\ From(R, x) \subseteq T /\ y \notin T
      BY <1>7, <1>8, <1>9
    <1>11. y \in T
      <2> HIDE DEF T
      <2>1. \A m \in T : From(R, m) \subseteq T
        BY <1>8 DEF T
      <2> QED BY <1>6, <1>10, <2>1, PathMeans
    <1> QED BY <1>10, <1>11

\* While one Store writes, heads never comes back empty: whatever note is asked
\* for, what supersedes it ends somewhere.
THEOREM EveryNoteHasAHead == OneProcess /\ IsFiniteSet(Ids) => (Spec => []Headed)
    <1> SUFFICES ASSUME OneProcess, IsFiniteSet(Ids)
                 PROVE  Spec => []Headed
      OBVIOUS
    <1>1. TypeInv /\ Acyclic => Headed
      BY AcyclicIsHeaded
    <1> QED BY <1>1, Typed, SupersessionIsAcyclic, PTL
================================================================================
