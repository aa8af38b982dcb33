------------------------------ MODULE NotesProofs ------------------------------
(* What TLAPS proves of Notes, for every value of its constants.              *)
EXTENDS Notes, SequenceTheorems, FiniteSetTheorems, TLAPS

Writing == {"minted", "committed"}
Judging == {"accepted", "compared", "stamped"}

\* What a thread carries fits where it stands, and names notes that exist.
ThreadOK ==
    \A t \in Threads :
      /\ pc[t] \in Writing =>
           /\ job[t] \in Creation
           /\ job[t].at <= clock
           /\ \A i \in DOMAIN job[t].edges : job[t].edges[i].old \in notes
      /\ pc[t] \in Judging =>
           /\ job[t] \in Judgment
           /\ {job[t].old, job[t].new} \subseteq notes

\* The foreign keys of the assessment table.
EndsOK == \A r \in assessments : {r.old, r.new} \subseteq notes

TypeInv == TypeOK /\ ThreadOK /\ EndsOK

--------------------------------------------------------------------------------
(* Type correctness. *)

LEMMA EdgeListType ==
    ASSUME NEW edges \in EdgeLists, TypeOK
    PROVE  /\ edges \in Seq(Edge)
           /\ \A i \in DOMAIN edges : edges[i].old \in notes
    <1>1. PICK k \in 0..MaxEdges : edges \in [1..k -> [old : notes, retained : Scores]]
      BY DEF EdgeLists
    <1>2. [old : notes, retained : Scores] \subseteq Edge
      BY DEF TypeOK, Edge
    <1>3. k \in Nat
      BY NotesAssumption
    <1>4. edges \in [1..k -> Edge]
      BY <1>1, <1>2
    <1> QED BY <1>1, <1>3, <1>4, SeqDef

LEMMA EdgeRowsType ==
    ASSUME NEW c \in Creation
    PROVE  \A r \in EdgeRows(c) :
             /\ r \in Assessment
             /\ r.new = c.note /\ r.at = c.at
             /\ \E i \in DOMAIN c.edges : r.old = c.edges[i].old
    <1> SUFFICES ASSUME NEW r \in EdgeRows(c)
                 PROVE  /\ r \in Assessment
                        /\ r.new = c.note /\ r.at = c.at
                        /\ \E i \in DOMAIN c.edges : r.old = c.edges[i].old
      OBVIOUS
    <1>1. PICK i \in DOMAIN c.edges :
             r = [old |-> c.edges[i].old, new |-> c.note,
                  retained |-> c.edges[i].retained, at |-> c.at]
      BY DEF EdgeRows
    <1>2. c.edges \in Seq(Edge) /\ c.note \in Ids /\ c.at \in Nat
      BY DEF Creation
    <1>3. c.edges[i] \in Edge
      BY <1>2
    <1> QED BY <1>1, <1>2, <1>3 DEF Edge, Assessment

LEMMA NudgedType ==
    ASSUME NEW j \in Judgment
    PROVE  /\ Nudged(j) \in Judgment
           /\ Nudged(j).at = j.at + 1
           /\ Nudged(j).old = j.old /\ Nudged(j).new = j.new
           /\ Nudged(j).retained = j.retained /\ Nudged(j).prior = j.prior
    <1>1. j.at + 1 \in Nat /\ j.tries + 1 \in Nat
      BY DEF Judgment
    <1> DEFINE k == [j EXCEPT !.at = j.at + 1]
    <1>2. /\ k \in Judgment
          /\ k.at = j.at + 1
          /\ k.old = j.old /\ k.new = j.new
          /\ k.retained = j.retained /\ k.prior = j.prior
      BY <1>1 DEF Judgment
    <1>3. Nudged(j) = [k EXCEPT !.tries = j.tries + 1]
      BY DEF Nudged
    <1> HIDE DEF k
    <1> QED BY <1>1, <1>2, <1>3 DEF Judgment

LEMMA RowOfType ==
    ASSUME NEW j \in Judgment
    PROVE  /\ RowOf(j) \in Assessment
           /\ RowOf(j).old = j.old /\ RowOf(j).new = j.new /\ RowOf(j).at = j.at
    BY DEF RowOf, Judgment, Assessment

LEMMA TypeStep == TypeInv /\ [Next]_vars => TypeInv'
    <1> SUFFICES ASSUME TypeInv, [Next]_vars
                 PROVE  TypeInv'
      OBVIOUS
    <1> USE NotesAssumption
    <1>1. ASSUME NEW t \in Threads, NEW n \in Ids, NEW edges \in EdgeLists,
                 Mint(t, n, edges)
          PROVE  TypeInv'
      <2>1. [note |-> n, edges |-> edges, at |-> clock] \in Creation
        BY EdgeListType DEF TypeInv, TypeOK, Creation
      <2>2. \A i \in DOMAIN edges : edges[i].old \in notes
        BY EdgeListType DEF TypeInv
      <2>3. TypeOK'
        BY <1>1, <2>1 DEF Mint, Goto, Hold, TypeInv, TypeOK, store
      <2>4. ThreadOK'
        BY <1>1, <2>1, <2>2
        DEF Mint, Goto, TypeInv, TypeOK, ThreadOK, Writing, Judging, store
      <2>5. EndsOK'
        BY <1>1 DEF Mint, TypeInv, EndsOK, store
      <2> QED BY <2>3, <2>4, <2>5 DEF TypeInv
    <1>2. ASSUME NEW t \in Threads, CommitNote(t)
          PROVE  TypeInv'
      <2>1. /\ job[t] \in Creation /\ job[t].note \in Ids
            /\ \A i \in DOMAIN job[t].edges : job[t].edges[i].old \in notes
        BY <1>2 DEF CommitNote, TypeInv, ThreadOK, Writing, Creation
      <2>2. /\ EdgeRows(job[t]) \subseteq Assessment
            /\ \A r \in EdgeRows(job[t]) : r.new = job[t].note /\ r.old \in notes
        BY <2>1, EdgeRowsType
      <2>3. TypeOK'
        BY <1>2, <2>1, <2>2 DEF CommitNote, Goto, Hold, TypeInv, TypeOK
      <2>4. ThreadOK'
        BY <1>2 DEF CommitNote, Goto, TypeInv, TypeOK, ThreadOK, Writing, Judging
      <2>5. EndsOK'
        BY <1>2, <2>2 DEF CommitNote, TypeInv, EndsOK
      <2> QED BY <2>3, <2>4, <2>5 DEF TypeInv
    <1>3. ASSUME NEW t \in Threads, RollBackNote(t)
          PROVE  TypeInv'
      <2>1. TypeOK'
        BY <1>3 DEF RollBackNote, Leave, Release, TypeInv, TypeOK, store
      <2>2. ThreadOK'
        BY <1>3
        DEF RollBackNote, Leave, TypeInv, TypeOK, ThreadOK, Writing, Judging, store
      <2>3. EndsOK'
        BY <1>3 DEF RollBackNote, TypeInv, EndsOK, store
      <2> QED BY <2>1, <2>2, <2>3 DEF TypeInv
    <1>4. ASSUME NEW t \in Threads, QueueCaptures(t)
          PROVE  TypeInv'
      <2>1. TypeOK'
        BY <1>4 DEF QueueCaptures, store, Leave, Release, TypeInv, TypeOK
      <2>2. ThreadOK'
        BY <1>4
        DEF QueueCaptures, store, Leave, TypeInv, TypeOK, ThreadOK, Writing, Judging
      <2>3. EndsOK'
        BY <1>4 DEF QueueCaptures, store, TypeInv, EndsOK
      <2> QED BY <2>1, <2>2, <2>3 DEF TypeInv
    <1>5. ASSUME NEW t \in Threads, NEW old \in notes, NEW new \in notes,
                 NEW retained \in Scores, CheckCycle(t, old, new, retained)
          PROVE  TypeInv'
      <2> DEFINE j == [old |-> old, new |-> new, retained |-> retained,
                       at |-> 0, tries |-> 0, prior |-> None]
      <2>1. j \in Judgment /\ j.old \in notes /\ j.new \in notes
        BY DEF TypeInv, TypeOK, Judgment
      <2>2. Goto(t, "accepted", j) /\ UNCHANGED <<store, clock, crashes>>
        BY <1>5 DEF CheckCycle
      <2> HIDE DEF j
      <2>3. TypeOK'
        BY <2>1, <2>2 DEF Goto, Hold, TypeInv, TypeOK, store
      <2>4. ThreadOK'
        BY <2>1, <2>2 DEF Goto, TypeInv, TypeOK, ThreadOK, Writing, Judging, store
      <2>5. EndsOK'
        BY <2>2 DEF TypeInv, EndsOK, store
      <2> QED BY <2>3, <2>4, <2>5 DEF TypeInv
    <1>6. ASSUME NEW t \in Threads, NEW j \in Judgment, NEW stage \in Judging,
                 pc[t] \in Judging, j.old = job[t].old, j.new = job[t].new,
                 Goto(t, stage, j), UNCHANGED <<store, clock, crashes>>
          PROVE  TypeInv'
      <2>1. TypeOK'
        BY <1>6 DEF Goto, Hold, TypeInv, TypeOK, store, Judging
      <2>2. ThreadOK'
        BY <1>6 DEF Goto, TypeInv, TypeOK, ThreadOK, Writing, Judging, store
      <2>3. EndsOK'
        BY <1>6 DEF TypeInv, EndsOK, store
      <2> QED BY <2>1, <2>2, <2>3 DEF TypeInv
    <1>7. ASSUME NEW t \in Threads, ReadPrior(t)
          PROVE  TypeInv'
      <2>1. PICK prior \in Current(job[t].old, job[t].new) \cup {None} :
               Goto(t, "compared", [job[t] EXCEPT !.prior = prior])
        BY <1>7 DEF ReadPrior
      <2>2. prior \in Assessment \cup {None}
        BY <2>1 DEF Current, Supersession, TypeInv, TypeOK
      <2>3. job[t] \in Judgment
        BY <1>7 DEF ReadPrior, TypeInv, ThreadOK, Judging
      <2>4. /\ [job[t] EXCEPT !.prior = prior] \in Judgment
            /\ [job[t] EXCEPT !.prior = prior].old = job[t].old
            /\ [job[t] EXCEPT !.prior = prior].new = job[t].new
        BY <2>2, <2>3 DEF Judgment
      <2>5. pc[t] \in Judging /\ "compared" \in Judging /\ UNCHANGED <<store, clock, crashes>>
        BY <1>7 DEF ReadPrior, Judging
      <2> QED BY <1>6, <2>1, <2>4, <2>5
    <1>8. ASSUME NEW t \in Threads, Stamp(t)
          PROVE  TypeInv'
      <2>1. job[t] \in Judgment /\ clock \in Nat
        BY <1>8 DEF Stamp, TypeInv, TypeOK, ThreadOK, Judging
      <2>2. /\ [job[t] EXCEPT !.at = clock] \in Judgment
            /\ [job[t] EXCEPT !.at = clock].old = job[t].old
            /\ [job[t] EXCEPT !.at = clock].new = job[t].new
        BY <2>1 DEF Judgment
      <2>3. /\ pc[t] \in Judging /\ "stamped" \in Judging
            /\ Goto(t, "stamped", [job[t] EXCEPT !.at = clock])
            /\ UNCHANGED <<store, clock, crashes>>
        BY <1>8 DEF Stamp, Judging
      <2> QED BY <1>6, <2>2, <2>3
    <1>9. ASSUME NEW t \in Threads, Insert(t)
          PROVE  TypeInv'
      <2>1. job[t] \in Judgment /\ {job[t].old, job[t].new} \subseteq notes
        BY <1>9 DEF Insert, TypeInv, ThreadOK, Judging
      <2>2. RowOf(job[t]) \in Assessment /\ {RowOf(job[t]).old, RowOf(job[t]).new} \subseteq notes
        BY <2>1, RowOfType
      <2>3. assessments' = assessments \cup {RowOf(job[t])}
        BY <1>9 DEF Insert, Record
      <2>4. TypeOK'
        BY <1>9, <2>2, <2>3 DEF Insert, Leave, Release, TypeInv, TypeOK
      <2>5. ThreadOK'
        BY <1>9 DEF Insert, Leave, TypeInv, TypeOK, ThreadOK, Writing, Judging
      <2>6. EndsOK'
        BY <1>9, <2>2, <2>3 DEF Insert, TypeInv, EndsOK
      <2> QED BY <2>4, <2>5, <2>6 DEF TypeInv
    <1>10. ASSUME NEW t \in Threads, Collide(t)
           PROVE  TypeInv'
      <2>1. CASE Nudged(job[t]).tries < Retries
        <3>1. job[t] \in Judgment
          BY <1>10 DEF Collide, TypeInv, ThreadOK, Judging
        <3>2. /\ pc[t] \in Judging /\ "stamped" \in Judging
              /\ Goto(t, "stamped", Nudged(job[t]))
              /\ UNCHANGED <<store, clock, crashes>>
          BY <1>10, <2>1 DEF Collide, Judging
        <3> QED BY <1>6, <3>1, <3>2, NudgedType
      <2>2. CASE ~(Nudged(job[t]).tries < Retries)
        <3>1. Leave(t) /\ UNCHANGED <<store, clock, crashes>>
          BY <1>10, <2>2 DEF Collide
        <3>2. TypeOK'
          BY <3>1 DEF Leave, Release, TypeInv, TypeOK, store
        <3>3. ThreadOK'
          BY <3>1 DEF Leave, TypeInv, TypeOK, ThreadOK, Writing, Judging, store
        <3>4. EndsOK'
          BY <3>1 DEF TypeInv, EndsOK, store
        <3> QED BY <3>2, <3>3, <3>4 DEF TypeInv
      <2> QED BY <2>1, <2>2
    <1>11. ASSUME NEW p \in Processes, Crash(p)
           PROVE  TypeInv'
      <2>1. TypeOK'
        BY <1>11 DEF Crash, TypeInv, TypeOK, store
      <2>2. ThreadOK'
        BY <1>11 DEF Crash, TypeInv, TypeOK, ThreadOK, Writing, Judging, store
      <2>3. EndsOK'
        BY <1>11 DEF Crash, TypeInv, EndsOK, store
      <2> QED BY <2>1, <2>2, <2>3 DEF TypeInv
    <1>12. ASSUME Tick
           PROVE  TypeInv'
      <2>1. TypeOK'
        BY <1>12 DEF Tick, TypeInv, TypeOK, store, threads
      <2>2. ThreadOK'
        <3> SUFFICES ASSUME NEW t \in Threads, pc[t] \in Writing
                     PROVE  job[t].at <= clock + 1
          BY <1>12 DEF Tick, TypeInv, ThreadOK, store, threads
        <3>1. job[t].at \in Nat /\ clock \in Nat /\ job[t].at <= clock
          BY DEF TypeInv, TypeOK, ThreadOK, Creation
        <3> QED BY <3>1
      <2>3. EndsOK'
        BY <1>12 DEF Tick, TypeInv, EndsOK, store
      <2> QED BY <2>1, <2>2, <2>3 DEF TypeInv
    <1>13. CASE UNCHANGED vars
      BY <1>13 DEF vars, store, threads, TypeInv, TypeOK, ThreadOK, EndsOK
    <1> QED
      BY <1>1, <1>2, <1>3, <1>4, <1>5, <1>7, <1>8, <1>9, <1>10, <1>11, <1>12, <1>13
      DEF Next, CreateNote, AddAssessment

LEMMA TypeInit == Init => TypeInv
    BY NotesAssumption
    DEF Init, TypeInv, TypeOK, ThreadOK, EndsOK, Writing, Judging

LEMMA Typed == Spec => []TypeInv
    BY TypeInit, TypeStep, PTL DEF Spec

\* Every variable keeps its type, whatever the number of processes, the clock's
\* and the retries' bounds.
THEOREM TypeCorrect == Spec => []TypeOK
    BY Typed, PTL DEF TypeInv

--------------------------------------------------------------------------------
(* Reachability, without recursion: a closed set that leaves b out shows that  *)
(* a does not reach b.                                                         *)

Closed(E, S) == \A e \in E : e[1] \in S => e[2] \in S

LEMMA Witness ==
    ASSUME NEW E, NEW a, NEW b
    PROVE  ~Reaches(E, a, b) <=>
             \E S \in SUBSET Ids : a \in S /\ Closed(E, S) /\ b \notin S
    BY DEF Reaches, Closed

\* An edge from o to n closes no cycle when n does not reach o.
LEMMA EdgeKeepsAcyclic ==
    ASSUME NEW E \in SUBSET (Ids \X Ids), NEW o \in Ids, NEW n \in Ids,
           o # n, ~Reaches(E, n, o),
           \A e \in E : ~Reaches(E, e[2], e[1])
    PROVE  LET F == E \cup {<<o, n>>}
           IN  \A e \in F : ~Reaches(F, e[2], e[1])
    <1> DEFINE F == E \cup {<<o, n>>}
    <1>1. PICK D \in SUBSET Ids : n \in D /\ Closed(E, D) /\ o \notin D
      BY Witness
    <1>2. Closed(F, D)
      BY <1>1 DEF Closed
    <1>3. ~Reaches(F, n, o)
      BY <1>1, <1>2, Witness
    <1>4. ASSUME NEW e \in E
          PROVE  ~Reaches(F, e[2], e[1])
      <2>1. PICK S \in SUBSET Ids : e[2] \in S /\ Closed(E, S) /\ e[1] \notin S
        BY Witness
      <2>2. CASE o \notin S
        <3>1. Closed(F, S)
          BY <2>1, <2>2 DEF Closed
        <3> QED BY <2>1, <3>1, Witness
      <2>3. CASE o \in S /\ e[1] \notin D
        <3>1. Closed(F, S \cup D)
          BY <1>1, <2>1 DEF Closed
        <3>2. S \cup D \in SUBSET Ids /\ e[2] \in S \cup D /\ e[1] \notin S \cup D
          BY <2>1, <2>3
        <3> QED BY <3>1, <3>2, Witness
      <2>4. CASE o \in S /\ e[1] \in D
        <3>1. Closed(F, S \cap D)
          BY <1>1, <2>1 DEF Closed
        <3>2. S \cap D \in SUBSET Ids /\ e[2] \in S \cap D /\ e[1] \notin S \cap D
          BY <1>1, <2>1, <2>4 DEF Closed
        <3> QED BY <3>1, <3>2, Witness
      <2> QED BY <2>2, <2>3, <2>4
    <1>5. \A e \in F : ~Reaches(F, e[2], e[1])
      <2> SUFFICES ASSUME NEW e \in F
                   PROVE  ~Reaches(F, e[2], e[1])
        OBVIOUS
      <2>1. CASE e \in E
        BY <1>4, <2>1
      <2>2. CASE e = <<o, n>>
        BY <1>3, <2>2
      <2> QED BY <2>1, <2>2
    <1> QED BY <1>5

\* Edges into a note that has no edge yet close no cycle either.
LEMMA FreshNoteKeepsAcyclic ==
    ASSUME NEW N \in SUBSET Ids, NEW E \in SUBSET (N \X N), NEW n \in Ids, n \notin N,
           NEW G \in SUBSET (N \X {n}),
           \A e \in E : ~Reaches(E, e[2], e[1])
    PROVE  LET F == E \cup G
           IN  \A e \in F : ~Reaches(F, e[2], e[1])
    <1> DEFINE F == E \cup G
    <1>1. ASSUME NEW e \in E
          PROVE  ~Reaches(F, e[2], e[1])
      <2>1. PICK S \in SUBSET Ids : e[2] \in S /\ Closed(E, S) /\ e[1] \notin S
        BY Witness
      <2>2. Closed(F, S \cup {n})
        BY <2>1 DEF Closed
      <2>3. /\ S \cup {n} \in SUBSET Ids
            /\ e[2] \in S \cup {n} /\ e[1] \notin S \cup {n}
        BY <2>1
      <2> QED BY <2>2, <2>3, Witness
    <1>2. ASSUME NEW e \in G
          PROVE  ~Reaches(F, e[2], e[1])
      <2>1. Closed(F, {n}) /\ {n} \in SUBSET Ids
        BY DEF Closed
      <2>2. e[2] \in {n} /\ e[1] \notin {n}
        OBVIOUS
      <2> QED BY <2>1, <2>2, Witness
    <1> QED BY <1>1, <1>2

--------------------------------------------------------------------------------
(* The graph stays a DAG when one lock spans the check and the write.          *)

\* A thread inside an operation holds its process's lock.
LockInv == \A t \in Threads : pc[t] # "idle" => lock[ProcessOf[t]] = t

\* What CheckCycle found still holds when the row is written.
Grounded ==
    \A t \in Threads : pc[t] \in Judging =>
        job[t].old # job[t].new /\ ~Reaches(Edges, job[t].new, job[t].old)

DagInv == LockInv /\ Grounded /\ Acyclic

LEMMA Exclusive ==
    ASSUME OneProcess, LockInv, NEW t \in Threads, Free(t) \/ pc[t] # "idle"
    PROVE  \A u \in Threads : u # t => pc[u] = "idle"
    BY NotesAssumption DEF OneProcess, LockInv, Free

LEMMA LockStep ==
    ASSUME OneProcess, TypeOK, LockInv, [Next]_vars
    PROVE  LockInv'
    <1> USE NotesAssumption
    <1>1. ASSUME NEW t \in Threads, NEW stage, NEW work,
                 Free(t) \/ pc[t] # "idle", Goto(t, stage, work)
          PROVE  LockInv'
      BY <1>1, Exclusive DEF Goto, Hold, LockInv, TypeOK
    <1>2. ASSUME NEW t \in Threads, pc[t] # "idle", Leave(t)
          PROVE  LockInv'
      BY <1>2, Exclusive DEF Leave, Release, LockInv, TypeOK
    <1>3. ASSUME NEW t \in Threads, CreateNote(t)
          PROVE  LockInv'
      BY <1>1, <1>2, <1>3
      DEF CreateNote, Mint, CommitNote, RollBackNote, QueueCaptures
    <1>4. ASSUME NEW t \in Threads, AddAssessment(t)
          PROVE  LockInv'
      BY <1>1, <1>2, <1>4
      DEF AddAssessment, CheckCycle, ReadPrior, Stamp, Insert, Collide
    <1>5. ASSUME NEW p \in Processes, Crash(p)
          PROVE  LockInv'
      BY <1>5 DEF Crash, LockInv, TypeOK
    <1>6. CASE Tick
      BY <1>6 DEF Tick, threads, LockInv
    <1>7. CASE UNCHANGED vars
      BY <1>7 DEF vars, threads, LockInv
    <1> QED BY <1>3, <1>4, <1>5, <1>6, <1>7 DEF Next

LEMMA EdgesInside == TypeInv => Edges \in SUBSET (notes \X notes)
    BY DEF TypeInv, EndsOK, Edges

LEMMA DagStep ==
    ASSUME OneProcess, TypeInv, DagInv, [Next]_vars
    PROVE  (Grounded /\ Acyclic)'
    <1>1. ASSUME UNCHANGED assessments
          PROVE  Acyclic' /\ Edges' = Edges
      BY <1>1 DEF DagInv, Acyclic, Edges, Reaches
    <1>2. ASSUME UNCHANGED assessments, NEW t \in Threads,
                 \A u \in Threads \ {t} : pc'[u] = pc[u] /\ job'[u] = job[u],
                 pc'[t] \in Judging =>
                     \/ /\ job'[t].old # job'[t].new
                        /\ ~Reaches(Edges, job'[t].new, job'[t].old)
                     \/ /\ pc[t] \in Judging
                        /\ job'[t].old = job[t].old /\ job'[t].new = job[t].new
          PROVE  (Grounded /\ Acyclic)'
      <2>1. Edges' = Edges
        BY <1>1, <1>2
      <2>2. Grounded'
        BY <1>2, <2>1 DEF DagInv, Grounded, Reaches
      <2> QED BY <1>1, <1>2, <2>2
    <1>3. ASSUME NEW t \in Threads, NEW n \in Ids, NEW edges \in EdgeLists, Mint(t, n, edges)
          PROVE  (Grounded /\ Acyclic)'
      BY <1>2, <1>3 DEF Mint, Goto, store, Judging, TypeInv, TypeOK
    <1>4. ASSUME NEW t \in Threads, CommitNote(t)
          PROVE  (Grounded /\ Acyclic)'
      <2> DEFINE n == job[t].note
                 G == {<<r.old, r.new>> : r \in EdgeRows(job[t])}
      <2>1. /\ job[t] \in Creation /\ n \in Ids /\ n \notin notes
            /\ \A i \in DOMAIN job[t].edges : job[t].edges[i].old \in notes
        BY <1>4 DEF CommitNote, Violates, TypeInv, ThreadOK, Writing, Creation
      <2>2. G \in SUBSET (notes \X {n})
        BY <2>1, EdgeRowsType
      <2>3. Edges' = Edges \cup G
        BY <1>4 DEF CommitNote, Edges
      <2>4. Edges \in SUBSET (notes \X notes) /\ notes \in SUBSET Ids
        BY EdgesInside DEF TypeInv, TypeOK
      <2>5. \A e \in Edges : ~Reaches(Edges, e[2], e[1])
        BY DEF DagInv, Acyclic
      <2> HIDE DEF n, G
      <2>6. \A e \in Edges \cup G : ~Reaches(Edges \cup G, e[2], e[1])
        BY <2>1, <2>2, <2>4, <2>5, FreshNoteKeepsAcyclic
      <2>7. Acyclic'
        BY <2>3, <2>6 DEF Acyclic, Reaches
      <2>8. \A u \in Threads : u # t => pc[u] = "idle"
        BY <1>4, Exclusive DEF CommitNote, DagInv
      <2>9. Grounded'
        BY <1>4, <2>8 DEF CommitNote, Goto, Grounded, Judging, TypeInv, TypeOK
      <2> QED BY <2>7, <2>9
    <1>5. ASSUME NEW t \in Threads, RollBackNote(t)
          PROVE  (Grounded /\ Acyclic)'
      BY <1>2, <1>5 DEF RollBackNote, Leave, store, Judging, TypeInv, TypeOK
    <1>6. ASSUME NEW t \in Threads, QueueCaptures(t)
          PROVE  (Grounded /\ Acyclic)'
      BY <1>2, <1>6 DEF QueueCaptures, store, Leave, Judging, TypeInv, TypeOK
    <1>7. ASSUME NEW t \in Threads, NEW old \in notes, NEW new \in notes,
                 NEW retained \in Scores, CheckCycle(t, old, new, retained)
          PROVE  (Grounded /\ Acyclic)'
      BY <1>2, <1>7 DEF CheckCycle, Accepted, Goto, store, TypeInv, TypeOK
    <1>8. ASSUME NEW t \in Threads, ReadPrior(t)
          PROVE  (Grounded /\ Acyclic)'
      <2>1. PICK prior : Goto(t, "compared", [job[t] EXCEPT !.prior = prior])
        BY <1>8 DEF ReadPrior
      <2>2. job[t] \in Judgment /\ pc[t] \in Judging
        BY <1>8 DEF ReadPrior, TypeInv, ThreadOK, Judging
      <2>3. /\ [job[t] EXCEPT !.prior = prior].old = job[t].old
            /\ [job[t] EXCEPT !.prior = prior].new = job[t].new
        BY <2>2 DEF Judgment
      <2> QED
        BY <1>2, <1>8, <2>1, <2>2, <2>3 DEF ReadPrior, Goto, store, TypeInv, TypeOK
    <1>9. ASSUME NEW t \in Threads, Stamp(t)
          PROVE  (Grounded /\ Acyclic)'
      <2>1. job[t] \in Judgment /\ pc[t] \in Judging
        BY <1>9 DEF Stamp, TypeInv, ThreadOK, Judging
      <2>2. /\ [job[t] EXCEPT !.at = clock].old = job[t].old
            /\ [job[t] EXCEPT !.at = clock].new = job[t].new
        BY <2>1 DEF Judgment
      <2> QED BY <1>2, <1>9, <2>1, <2>2 DEF Stamp, Goto, store, TypeInv, TypeOK
    <1>10. ASSUME NEW t \in Threads, Insert(t)
           PROVE  (Grounded /\ Acyclic)'
      <2> DEFINE o == job[t].old
                 n == job[t].new
      <2>1. /\ job[t] \in Judgment /\ o \in Ids /\ n \in Ids
            /\ o # n /\ ~Reaches(Edges, n, o)
        BY <1>10 DEF Insert, DagInv, Grounded, TypeInv, ThreadOK, Judging, Judgment
      <2>2. assessments' = assessments \cup {RowOf(job[t])}
        BY <1>10 DEF Insert, Record
      <2>3. RowOf(job[t]).old = o /\ RowOf(job[t]).new = n
        BY <2>1, RowOfType
      <2>4. Edges' = Edges \cup {<<o, n>>}
        BY <2>2, <2>3 DEF Edges
      <2>5. Edges \in SUBSET (Ids \X Ids)
        BY EdgesInside DEF TypeInv, TypeOK
      <2>6. \A e \in Edges : ~Reaches(Edges, e[2], e[1])
        BY DEF DagInv, Acyclic
      <2> HIDE DEF o, n
      <2>7. \A e \in Edges \cup {<<o, n>>} : ~Reaches(Edges \cup {<<o, n>>}, e[2], e[1])
        BY <2>1, <2>5, <2>6, EdgeKeepsAcyclic
      <2>8. Acyclic'
        BY <2>4, <2>7 DEF Acyclic, Reaches
      <2>9. \A u \in Threads : u # t => pc[u] = "idle"
        BY <1>10, Exclusive DEF Insert, DagInv
      <2>10. Grounded'
        BY <1>10, <2>9 DEF Insert, Leave, Grounded, Judging, TypeInv, TypeOK
      <2> QED BY <2>8, <2>10
    <1>11. ASSUME NEW t \in Threads, Collide(t)
           PROVE  (Grounded /\ Acyclic)'
      <2>1. job[t] \in Judgment /\ pc[t] \in Judging
        BY <1>11 DEF Collide, TypeInv, ThreadOK, Judging
      <2>2. Nudged(job[t]).old = job[t].old /\ Nudged(job[t]).new = job[t].new
        BY <2>1, NudgedType
      <2> QED
        BY <1>2, <1>11, <2>1, <2>2
        DEF Collide, Goto, Leave, store, Judging, TypeInv, TypeOK
    <1>12. ASSUME NEW p \in Processes, Crash(p)
           PROVE  (Grounded /\ Acyclic)'
      <2>1. Acyclic' /\ Edges' = Edges
        BY <1>1, <1>12 DEF Crash, store
      <2>2. Grounded'
        BY <1>12, <2>1 DEF Crash, DagInv, Grounded, Judging, Reaches, TypeInv, TypeOK
      <2> QED BY <2>1, <2>2
    <1>13. CASE Tick \/ UNCHANGED vars
      <2>1. UNCHANGED <<assessments, pc, job>>
        BY <1>13 DEF Tick, vars, store, threads
      <2>2. Acyclic' /\ Edges' = Edges
        BY <1>1, <2>1
      <2>3. Grounded'
        BY <2>1, <2>2 DEF DagInv, Grounded, Reaches
      <2> QED BY <2>2, <2>3
    <1> QED
      BY <1>3, <1>4, <1>5, <1>6, <1>7, <1>8, <1>9, <1>10, <1>11, <1>12, <1>13
      DEF Next, CreateNote, AddAssessment

\* While one Store writes the database, no chain of assessments and creations,
\* of whatever length and with crashes anywhere, closes a cycle.
THEOREM SupersessionIsAcyclic == OneProcess => (Spec => []Acyclic)
    <1> SUFFICES ASSUME OneProcess
                 PROVE  Spec => []Acyclic
      OBVIOUS
    <1>1. Init => DagInv
      BY DEF Init, DagInv, LockInv, Grounded, Judging, Acyclic, Edges
    <1>2. TypeInv /\ DagInv /\ [Next]_vars => DagInv'
      BY LockStep, DagStep DEF DagInv, TypeInv
    <1>3. DagInv => Acyclic
      BY DEF DagInv
    <1> QED BY <1>1, <1>2, <1>3, Typed, PTL DEF Spec

--------------------------------------------------------------------------------
(* Latest wins, for any number of processes: the stamps of an edge leave no    *)
(* gap from the clock up, so a stamp nudged past them passes every one.        *)

Taken(o, n, k) == \E r \in assessments : r.old = o /\ r.new = n /\ r.at = k

NoGap ==
    \A r \in assessments : \A k \in Nat :
        (clock <= k /\ k <= r.at) => Taken(r.old, r.new, k)

PriorOK ==
    \A t \in Threads :
        (pc[t] \in {"compared", "stamped"} /\ job[t].prior # None) =>
            /\ job[t].prior \in assessments
            /\ job[t].prior.old = job[t].old /\ job[t].prior.new = job[t].new

StampedOK ==
    \A t \in Threads : pc[t] = "stamped" =>
        \A k \in Nat :
            /\ clock <= k /\ k < job[t].at => Taken(job[t].old, job[t].new, k)
            /\ job[t].prior # None /\ job[t].at <= k /\ k <= job[t].prior.at =>
                   Taken(job[t].old, job[t].new, k)

StampInv == NoGap /\ PriorOK /\ StampedOK

\* A step that writes no assessment, leaves the clock and every job but t's.
LEMMA StampFrame ==
    ASSUME StampInv, NEW t \in Threads, UNCHANGED <<assessments, clock>>,
           \A u \in Threads \ {t} : pc'[u] = pc[u] /\ job'[u] = job[u],
           pc'[t] \notin {"compared", "stamped"}
    PROVE  StampInv'
    BY DEF StampInv, NoGap, PriorOK, StampedOK, Taken

LEMMA StampStep ==
    ASSUME TypeInv, StampInv, [Next]_vars
    PROVE  StampInv'
    <1>1. ASSUME NEW t \in Threads, NEW n \in Ids, NEW edges \in EdgeLists, Mint(t, n, edges)
          PROVE  StampInv'
      BY <1>1, StampFrame DEF Mint, Goto, store, TypeInv, TypeOK
    <1>2. ASSUME NEW t \in Threads, CommitNote(t)
          PROVE  StampInv'
      <2>1. /\ job[t] \in Creation /\ job[t].at <= clock /\ job[t].at \in Nat
        BY <1>2 DEF CommitNote, TypeInv, ThreadOK, Writing, Creation
      <2>2. /\ assessments' = assessments \cup EdgeRows(job[t])
            /\ clock' = clock /\ clock \in Nat
        BY <1>2 DEF CommitNote, TypeInv, TypeOK
      <2>3. NoGap'
        <3> SUFFICES ASSUME NEW r \in assessments', NEW k \in Nat, clock <= k, k <= r.at
                     PROVE  Taken(r.old, r.new, k)'
          BY <2>2 DEF NoGap
        <3>1. CASE r \in assessments
          BY <2>2, <3>1 DEF StampInv, NoGap, Taken
        <3>2. CASE r \in EdgeRows(job[t])
          <4>1. r.at = job[t].at
            BY <2>1, <3>2, EdgeRowsType
          <4>2. r.at = k
            BY <2>1, <2>2, <4>1
          <4> QED BY <4>2 DEF Taken
        <3> QED BY <2>2, <3>1, <3>2
      <2>4. /\ pc'[t] = "committed"
            /\ \A u \in Threads \ {t} : pc'[u] = pc[u] /\ job'[u] = job[u]
        BY <1>2 DEF CommitNote, Goto, TypeInv, TypeOK
      <2>5. PriorOK' /\ StampedOK'
        BY <2>2, <2>4 DEF StampInv, PriorOK, StampedOK, Taken
      <2> QED BY <2>3, <2>5 DEF StampInv
    <1>3. ASSUME NEW t \in Threads, RollBackNote(t)
          PROVE  StampInv'
      BY <1>3, StampFrame DEF RollBackNote, Leave, store, TypeInv, TypeOK
    <1>4. ASSUME NEW t \in Threads, QueueCaptures(t)
          PROVE  StampInv'
      BY <1>4, StampFrame DEF QueueCaptures, store, Leave, TypeInv, TypeOK
    <1>5. ASSUME NEW t \in Threads, NEW old \in notes, NEW new \in notes,
                 NEW retained \in Scores, CheckCycle(t, old, new, retained)
          PROVE  StampInv'
      BY <1>5, StampFrame DEF CheckCycle, Goto, store, TypeInv, TypeOK
    <1>6. ASSUME NEW t \in Threads, ReadPrior(t)
          PROVE  StampInv'
      <2>1. PICK prior \in Current(job[t].old, job[t].new) \cup {None} :
               Goto(t, "compared", [job[t] EXCEPT !.prior = prior])
        BY <1>6 DEF ReadPrior
      <2>2. job[t] \in Judgment
        BY <1>6 DEF ReadPrior, TypeInv, ThreadOK, Judging
      <2> DEFINE j == [job[t] EXCEPT !.prior = prior]
      <2>3. j.prior = prior /\ j.old = job[t].old /\ j.new = job[t].new
        BY <2>2 DEF Judgment
      <2>4. /\ pc'[t] = "compared" /\ job'[t] = j
            /\ \A u \in Threads \ {t} : pc'[u] = pc[u] /\ job'[u] = job[u]
            /\ UNCHANGED <<assessments, clock>>
        BY <1>6, <2>1 DEF ReadPrior, Goto, store, TypeInv, TypeOK
      <2> HIDE DEF j
      <2>5. prior # None => /\ prior \in assessments
                            /\ prior.old = job[t].old /\ prior.new = job[t].new
        BY <2>1 DEF Current, Supersession
      <2>6. PriorOK'
        BY <2>3, <2>4, <2>5 DEF StampInv, PriorOK
      <2>7. NoGap' /\ StampedOK'
        BY <2>4 DEF StampInv, NoGap, StampedOK, Taken
      <2> QED BY <2>6, <2>7 DEF StampInv
    <1>7. ASSUME NEW t \in Threads, Stamp(t)
          PROVE  StampInv'
      <2>1. job[t] \in Judgment /\ clock \in Nat
        BY <1>7 DEF Stamp, TypeInv, TypeOK, ThreadOK, Judging
      <2> DEFINE j == [job[t] EXCEPT !.at = clock]
      <2>2. j.at = clock /\ j.prior = job[t].prior /\ j.old = job[t].old /\ j.new = job[t].new
        BY <2>1 DEF Judgment
      <2>3. /\ pc[t] = "compared" /\ pc'[t] = "stamped" /\ job'[t] = j
            /\ \A u \in Threads \ {t} : pc'[u] = pc[u] /\ job'[u] = job[u]
            /\ UNCHANGED <<assessments, clock>>
        BY <1>7 DEF Stamp, Goto, store, TypeInv, TypeOK
      <2> HIDE DEF j
      <2>4. NoGap' /\ PriorOK'
        BY <2>2, <2>3 DEF StampInv, NoGap, PriorOK, Taken
      <2>5. ASSUME NEW k \in Nat
            PROVE  /\ clock <= k /\ k < j.at => Taken(j.old, j.new, k)
                   /\ j.prior # None /\ j.at <= k /\ k <= j.prior.at =>
                          Taken(j.old, j.new, k)
        <3>1. ~(clock <= k /\ k < j.at)
          BY <2>1, <2>2
        <3>2. j.prior # None => /\ j.prior \in assessments
                                /\ j.prior.old = j.old /\ j.prior.new = j.new
          BY <2>2, <2>3 DEF StampInv, PriorOK
        <3> QED BY <2>2, <3>1, <3>2 DEF StampInv, NoGap
      <2>6. StampedOK'
        BY <2>3, <2>5 DEF StampInv, StampedOK, Taken
      <2> QED BY <2>4, <2>6 DEF StampInv
    <1>8. ASSUME NEW t \in Threads, Insert(t)
          PROVE  StampInv'
      <2>1. job[t] \in Judgment /\ clock \in Nat
        BY <1>8 DEF Insert, TypeInv, TypeOK, ThreadOK, Judging
      <2>2. /\ RowOf(job[t]).old = job[t].old /\ RowOf(job[t]).new = job[t].new
            /\ RowOf(job[t]).at = job[t].at /\ job[t].at \in Nat
        BY <2>1, RowOfType DEF Judgment
      <2>3. assessments' = assessments \cup {RowOf(job[t])} /\ clock' = clock
        BY <1>8 DEF Insert, Record
      <2>4. NoGap'
        <3> SUFFICES ASSUME NEW r \in assessments', NEW k \in Nat, clock <= k, k <= r.at
                     PROVE  Taken(r.old, r.new, k)'
          BY <2>3 DEF NoGap
        <3>1. CASE r \in assessments
          BY <2>3, <3>1 DEF StampInv, NoGap, Taken
        <3>2. CASE r = RowOf(job[t]) /\ k = r.at
          BY <2>3, <3>2 DEF Taken
        <3>3. CASE r = RowOf(job[t]) /\ k # r.at
          <4>1. clock <= k /\ k < job[t].at
            BY <2>1, <2>2, <3>3
          <4>2. Taken(job[t].old, job[t].new, k)
            BY <1>8, <4>1 DEF Insert, StampInv, StampedOK
          <4> QED BY <2>2, <2>3, <3>3, <4>2 DEF Taken
        <3> QED BY <2>3, <3>1, <3>2, <3>3
      <2>5. /\ pc'[t] = "idle"
            /\ \A u \in Threads \ {t} : pc'[u] = pc[u] /\ job'[u] = job[u]
        BY <1>8 DEF Insert, Leave, TypeInv, TypeOK
      <2>6. PriorOK' /\ StampedOK'
        BY <2>3, <2>5 DEF StampInv, PriorOK, StampedOK, Taken
      <2> QED BY <2>4, <2>6 DEF StampInv
    <1>9. ASSUME NEW t \in Threads, Collide(t)
          PROVE  StampInv'
      <2>1. job[t] \in Judgment /\ job[t].at \in Nat
        BY <1>9 DEF Collide, TypeInv, ThreadOK, Judging, Judgment
      <2>2. CASE ~(Nudged(job[t]).tries < Retries)
        BY <1>9, <2>2, StampFrame DEF Collide, Leave, store, TypeInv, TypeOK
      <2>3. CASE Nudged(job[t]).tries < Retries
        <3> DEFINE j == Nudged(job[t])
        <3>1. /\ j.at = job[t].at + 1 /\ j.prior = job[t].prior
              /\ j.old = job[t].old /\ j.new = job[t].new
          BY <2>1, NudgedType
        <3>2. /\ pc[t] = "stamped" /\ pc'[t] = "stamped" /\ job'[t] = j
              /\ \A u \in Threads \ {t} : pc'[u] = pc[u] /\ job'[u] = job[u]
              /\ UNCHANGED <<assessments, clock>> /\ clock \in Nat
          BY <1>9, <2>3 DEF Collide, Goto, store, TypeInv, TypeOK
        <3>3. Taken(job[t].old, job[t].new, job[t].at)
          BY <1>9 DEF Collide, SameKey, Taken
        <3> HIDE DEF j
        <3>4. NoGap' /\ PriorOK'
          BY <3>1, <3>2 DEF StampInv, NoGap, PriorOK, Taken
        <3>5. ASSUME NEW k \in Nat
              PROVE  /\ clock <= k /\ k < j.at => Taken(j.old, j.new, k)
                     /\ j.prior # None /\ j.at <= k /\ k <= j.prior.at =>
                            Taken(j.old, j.new, k)
          <4>1. clock <= k /\ k < j.at => Taken(j.old, j.new, k)
            <5>1. k < j.at => k = job[t].at \/ k < job[t].at
              BY <2>1, <3>1
            <5>2. clock <= k /\ k < job[t].at => Taken(job[t].old, job[t].new, k)
              BY <3>2 DEF StampInv, StampedOK
            <5> QED BY <3>1, <3>3, <5>1, <5>2
          <4>2. j.prior # None /\ j.at <= k /\ k <= j.prior.at => Taken(j.old, j.new, k)
            <5>1. j.at <= k => job[t].at <= k
              BY <2>1, <3>1
            <5>2. job[t].prior # None /\ job[t].at <= k /\ k <= job[t].prior.at =>
                      Taken(job[t].old, job[t].new, k)
              BY <3>2 DEF StampInv, StampedOK
            <5> QED BY <3>1, <5>1, <5>2
          <4> QED BY <4>1, <4>2
        <3>6. StampedOK'
          BY <3>2, <3>5 DEF StampInv, StampedOK, Taken
        <3> QED BY <3>4, <3>6 DEF StampInv
      <2> QED BY <2>2, <2>3
    <1>10. ASSUME NEW p \in Processes, Crash(p)
           PROVE  StampInv'
      BY <1>10 DEF Crash, store, StampInv, NoGap, PriorOK, StampedOK, Taken, TypeInv, TypeOK
    <1>11. ASSUME Tick
           PROVE  StampInv'
      <2>1. /\ UNCHANGED <<assessments, pc, job>>
            /\ clock \in Nat /\ clock' = clock + 1
        BY <1>11 DEF Tick, store, threads, TypeInv, TypeOK
      <2>2. \A k \in Nat : clock + 1 <= k => clock <= k
        BY <2>1
      <2>3. NoGap'
        BY <2>1, <2>2 DEF StampInv, NoGap, Taken
      <2>4. PriorOK'
        BY <2>1 DEF StampInv, PriorOK
      <2>5. StampedOK'
        BY <2>1, <2>2 DEF StampInv, StampedOK, Taken
      <2> QED BY <2>3, <2>4, <2>5 DEF StampInv
    <1>12. CASE UNCHANGED vars
      BY <1>12 DEF vars, store, threads, StampInv, NoGap, PriorOK, StampedOK, Taken
    <1> QED
      BY <1>1, <1>2, <1>3, <1>4, <1>5, <1>6, <1>7, <1>8, <1>9, <1>10, <1>11, <1>12
      DEF Next, CreateNote, AddAssessment

\* No step touches a slot (old, new, at) that a new row would need: a row is
\* added only where SameKey is empty, or into a note that did not exist.
LEMMA AddedIsLater ==
    ASSUME TypeInv, StampInv, [Next]_vars, NEW t \in Threads,
           pc[t] = "stamped", job[t].prior # None, RowOf(job[t]) \in Added
    PROVE  job[t].at > job[t].prior.at
    <1>1. /\ job[t] \in Judgment /\ job[t].new \in notes /\ job[t].at \in Nat
          /\ RowOf(job[t]).old = job[t].old /\ RowOf(job[t]).new = job[t].new
          /\ RowOf(job[t]).at = job[t].at
      BY RowOfType DEF TypeInv, ThreadOK, Judging, Judgment
    <1>2. job[t].prior \in assessments /\ job[t].prior.at \in Nat
      BY DEF StampInv, PriorOK, TypeInv, TypeOK, Assessment
    <1>3. ~Taken(job[t].old, job[t].new, job[t].at)
      <2>1. ASSUME NEW u \in Threads, CommitNote(u)
            PROVE  FALSE
        <3>1. job[u] \in Creation /\ job[u].note \notin notes
          BY <2>1 DEF CommitNote, Violates, TypeInv, ThreadOK, Writing
        <3>2. RowOf(job[t]) \in EdgeRows(job[u])
          BY <2>1 DEF CommitNote, Added
        <3> QED BY <1>1, <3>1, <3>2, EdgeRowsType
      <2>2. ASSUME NEW u \in Threads, Insert(u)
            PROVE  ~Taken(job[t].old, job[t].new, job[t].at)
        <3>1. job[u] \in Judgment
          BY <2>2 DEF Insert, TypeInv, ThreadOK, Judging
        <3>2. RowOf(job[t]) = RowOf(job[u]) /\ SameKey(job[u]) = {}
          BY <2>2 DEF Insert, Record, Added
        <3>3. /\ job[t].old = job[u].old /\ job[t].new = job[u].new
              /\ job[t].at = job[u].at
          BY <1>1, <3>1, <3>2, RowOfType
        <3> QED BY <3>2, <3>3 DEF SameKey, Taken
      <2>3. ASSUME UNCHANGED assessments
            PROVE  FALSE
        BY <2>3 DEF Added
      <2>4. \/ \E u \in Threads : CommitNote(u) \/ Insert(u)
            \/ UNCHANGED assessments
        BY DEF Next, CreateNote, AddAssessment, Mint, RollBackNote, QueueCaptures,
               CheckCycle, ReadPrior, Stamp, Collide, Crash, Tick, vars, store
      <2> QED BY <2>1, <2>2, <2>3, <2>4
    <1>4. ~(job[t].at <= job[t].at /\ job[t].at <= job[t].prior.at)
      BY <1>1, <1>3 DEF StampInv, StampedOK
    <1> QED BY <1>1, <1>2, <1>4

\* A re-assessment outranks the one in force when its operation looked, with any
\* number of servers on the database and any number of stamp collisions.
THEOREM LatestWins == Spec => ReassessmentWins
    <1>1. Init => StampInv
      BY DEF Init, StampInv, NoGap, PriorOK, StampedOK
    <1>2. TypeInv /\ StampInv /\ [Next]_vars => StampInv'
      BY StampStep
    <1>3. TypeInv /\ StampInv /\ [Next]_vars =>
            [\A t \in Threads :
                (pc[t] = "stamped" /\ job[t].prior # None /\ RowOf(job[t]) \in Added)
                    => job[t].at > job[t].prior.at]_vars
      BY AddedIsLater
    <1> QED BY <1>1, <1>2, <1>3, Typed, PTL DEF Spec, ReassessmentWins

--------------------------------------------------------------------------------
(* HistoryKept: what an assessment says is never changed afterwards. *)

\* Rows are only ever added to the assessment table: an INSERT that meets its
\* key changes nothing, and no operation updates or deletes.  So in any number
\* of processes, with crashes and stamp collisions, no assessment is lost.
THEOREM HistoryIsAppendOnly == Spec => HistoryKept
    <1>1. ASSUME [Next]_vars
          PROVE  [assessments \subseteq assessments']_vars
      <2>1. ASSUME NEW t \in Threads, CommitNote(t) \/ Insert(t)
            PROVE  assessments \subseteq assessments'
        BY <2>1 DEF CommitNote, Insert, Record
      <2>2. \/ \E t \in Threads : CommitNote(t) \/ Insert(t)
            \/ UNCHANGED assessments
        BY <1>1
        DEF Next, CreateNote, AddAssessment, Mint, RollBackNote, QueueCaptures,
            CheckCycle, ReadPrior, Stamp, Collide, Crash, Tick, vars, store
      <2> QED BY <2>1, <2>2
    <1> QED BY <1>1, PTL DEF Spec, HistoryKept

--------------------------------------------------------------------------------
(* OneCurrentPerEdge: the stamps of an edge are distinct and bounded, so one   *)
(* of them is the greatest.                                                    *)

LEMMA LeastNumber ==
    ASSUME NEW S \in SUBSET Nat, S # {}
    PROVE  \E m \in S : \A k \in S : m <= k
    <1> DEFINE Less == OpToRel(<, Nat)
    <1>1. IsWellFoundedOn(Less, Nat)
      BY NatLessThanWellFounded
    <1>2. PICK m \in S : \A k \in S : ~(<<k, m>> \in Less)
      <2> HIDE DEF Less
      <2> QED BY <1>1, WFMin
    <1>3. \A k \in S : ~(k < m)
      BY <1>2 DEF OpToRel
    <1>4. \A k \in S : k \in Nat /\ m \in Nat
      OBVIOUS
    <1> QED BY <1>3, <1>4

LEMMA GreatestExists ==
    ASSUME NEW S \in SUBSET Nat, S # {}, NEW B \in Nat, \A k \in S : k <= B
    PROVE  \E k \in S : \A j \in S : j <= k
    <1> DEFINE Below == {B - k : k \in S}
    <1>1. Below \in SUBSET Nat /\ Below # {}
      <2>1. \A k \in S : k \in Nat /\ B - k \in Nat
        OBVIOUS
      <2>2. PICK k : k \in S
        OBVIOUS
      <2>3. B - k \in Below
        BY <2>2
      <2> QED BY <2>1, <2>3
    <1>2. PICK m \in Below : \A d \in Below : m <= d
      <2> HIDE DEF Below
      <2> QED BY <1>1, LeastNumber
    <1>3. PICK k \in S : m = B - k
      OBVIOUS
    <1>4. ASSUME NEW j \in S
          PROVE  j <= k
      <2>1. B - j \in Below
        OBVIOUS
      <2>2. B - k <= B - j
        BY <1>2, <1>3, <2>1
      <2>3. B \in Nat /\ j \in Nat /\ k \in Nat
        OBVIOUS
      <2> QED BY <2>2, <2>3
    <1> QED BY <1>4

SameEdge(a, b) == a.old = b.old /\ a.new = b.new

\* What the primary key (old_id, new_id, asserted_at) stands for.
KeyUnique ==
    \A a, b \in assessments : (SameEdge(a, b) /\ a.at = b.at) => a = b

Bounded == \E B \in Nat : \A a \in assessments : a.at <= B

KeyInv == KeyUnique /\ Bounded

\* The two steps that write the table, told apart.
LEMMA Writes ==
    ASSUME [Next]_vars
    PROVE  \/ \E t \in Threads : CommitNote(t)
           \/ \E t \in Threads : Insert(t)
           \/ UNCHANGED <<notes, assessments>>
    BY DEF Next, CreateNote, AddAssessment, Mint, RollBackNote, QueueCaptures,
           CheckCycle, ReadPrior, Stamp, Collide, Crash, Tick, vars, store

\* The rows of one commit are of different edges.
LEMMA CommitKeys ==
    ASSUME NEW c \in Creation, ~Violates(c),
           NEW a \in EdgeRows(c), NEW b \in EdgeRows(c), a.old = b.old
    PROVE  a = b
    BY DEF EdgeRows, Violates

LEMMA KeyStep ==
    ASSUME TypeInv, KeyInv, [Next]_vars
    PROVE  KeyInv'
    <1>1. ASSUME NEW t \in Threads, CommitNote(t)
          PROVE  KeyInv'
      <2>1. /\ job[t] \in Creation /\ job[t].note \notin notes
            /\ ~Violates(job[t]) /\ job[t].at \in Nat
            /\ assessments' = assessments \cup EdgeRows(job[t])
        BY <1>1 DEF CommitNote, Violates, TypeInv, ThreadOK, Writing, Creation
      <2>2. \A r \in EdgeRows(job[t]) : r.new = job[t].note /\ r.at = job[t].at
        BY <2>1, EdgeRowsType
      <2>3. \A r \in assessments : r.new # job[t].note
        BY <2>1 DEF TypeInv, EndsOK
      <2>4. KeyUnique'
        <3> SUFFICES ASSUME NEW a \in assessments', NEW b \in assessments',
                            a.old = b.old, a.new = b.new, a.at = b.at
                     PROVE  a = b
          BY DEF KeyUnique, SameEdge
        <3>1. CASE a \in assessments /\ b \in assessments
          BY <3>1 DEF KeyInv, KeyUnique, SameEdge
        <3>2. CASE a \in EdgeRows(job[t]) /\ b \in EdgeRows(job[t])
          BY <2>1, <3>2, CommitKeys
        <3> QED BY <2>1, <2>2, <2>3, <3>1, <3>2
      <2>5. Bounded'
        <3>1. PICK B \in Nat : \A a \in assessments : a.at <= B
          BY DEF KeyInv, Bounded
        <3>2. \A a \in assessments : a.at \in Nat
          BY DEF TypeInv, TypeOK, Assessment
        <3>3. B + job[t].at \in Nat /\ \A a \in assessments' : a.at <= B + job[t].at
          BY <2>1, <2>2, <3>1, <3>2
        <3> QED BY <3>3 DEF Bounded
      <2> QED BY <2>4, <2>5 DEF KeyInv
    <1>2. ASSUME NEW t \in Threads, Insert(t)
          PROVE  KeyInv'
      <2>1. /\ job[t] \in Judgment /\ SameKey(job[t]) = {} /\ job[t].at \in Nat
            /\ assessments' = assessments \cup {RowOf(job[t])}
        BY <1>2 DEF Insert, Record, TypeInv, ThreadOK, Judging, Judgment
      <2>2. /\ RowOf(job[t]).old = job[t].old /\ RowOf(job[t]).new = job[t].new
            /\ RowOf(job[t]).at = job[t].at
        BY <2>1, RowOfType
      <2>3. KeyUnique'
        BY <2>1, <2>2 DEF KeyInv, KeyUnique, SameEdge, SameKey
      <2>4. Bounded'
        <3>1. PICK B \in Nat : \A a \in assessments : a.at <= B
          BY DEF KeyInv, Bounded
        <3>2. \A a \in assessments : a.at \in Nat
          BY DEF TypeInv, TypeOK, Assessment
        <3>3. B + job[t].at \in Nat /\ \A a \in assessments' : a.at <= B + job[t].at
          BY <2>1, <2>2, <3>1, <3>2
        <3> QED BY <3>3 DEF Bounded
      <2> QED BY <2>3, <2>4 DEF KeyInv
    <1>3. CASE UNCHANGED <<notes, assessments>>
      BY <1>3 DEF KeyInv, KeyUnique, Bounded, SameEdge
    <1> QED BY <1>1, <1>2, <1>3, Writes

LEMMA KeyInit == Init => KeyInv
    <1>1. Init => \A a \in assessments : a.at <= 0
      BY DEF Init
    <1> QED BY <1>1 DEF Init, KeyInv, KeyUnique, Bounded

LEMMA Keyed == Spec => []KeyInv
    BY KeyInit, KeyStep, Typed, PTL DEF Spec

\* The view's row of an assessed edge: there is one, and no other.
LEMMA CurrentExists ==
    ASSUME TypeInv, KeyInv, NEW a \in assessments
    PROVE  \E s \in assessments :
             /\ SameEdge(s, a) /\ a.at <= s.at
             /\ s \in Supersession
             /\ Current(a.old, a.new) = {s}
    <1> DEFINE Rows   == {b \in assessments : SameEdge(b, a)}
               Stamps == {b.at : b \in Rows}
    <1>1. Stamps \in SUBSET Nat /\ a.at \in Stamps
      BY DEF TypeInv, TypeOK, Assessment, SameEdge
    <1>2. PICK B \in Nat : \A b \in assessments : b.at <= B
      BY DEF KeyInv, Bounded
    <1>3. PICK k \in Stamps : \A j \in Stamps : j <= k
      <2>1. \A j \in Stamps : j <= B
        BY <1>2
      <2> HIDE DEF Stamps
      <2> QED BY <1>1, <2>1, GreatestExists
    <1>4. PICK s \in Rows : s.at = k
      OBVIOUS
    <1>5. \A b \in assessments : (b.old = s.old /\ b.new = s.new) => b.at <= s.at
      BY <1>3, <1>4 DEF SameEdge
    <1>6. s \in Supersession /\ s.old = a.old /\ s.new = a.new /\ a.at <= s.at
      BY <1>5 DEF Supersession, SameEdge
    <1>7. ASSUME NEW r \in Current(a.old, a.new)
          PROVE  r = s
      <2>1. /\ r \in assessments /\ r.old = s.old /\ r.new = s.new
            /\ s.at <= r.at /\ r.at <= s.at
        BY <1>5, <1>6 DEF Current, Supersession
      <2>2. r.at \in Nat /\ s.at \in Nat
        BY <2>1 DEF TypeInv, TypeOK, Assessment
      <2> QED BY <2>1, <2>2 DEF KeyInv, KeyUnique, SameEdge
    <1> QED BY <1>6, <1>7 DEF Current, SameEdge

\* The supersession view holds one row of every assessed edge, for any number of
\* processes, any interleaving of their blocks and any crashes.
THEOREM OneRowOfEachEdge == Spec => []OneCurrentPerEdge
    <1>1. ASSUME TypeInv, KeyInv
          PROVE  OneCurrentPerEdge
      <2> SUFFICES ASSUME NEW a \in assessments
                   PROVE  Cardinality(Current(a.old, a.new)) = 1
        BY DEF OneCurrentPerEdge, Edges
      <2>1. PICK s : Current(a.old, a.new) = {s}
        BY <1>1, CurrentExists
      <2> QED BY <2>1, FS_Singleton
    <1> QED BY <1>1, Typed, Keyed, PTL

--------------------------------------------------------------------------------
(* PoolDropsRecorded: what a note that leaves the pool lost it to.             *)

\* CurrentExists, as a state predicate of its own.
Shown ==
    \A a \in assessments : \E s \in Supersession :
        SameEdge(s, a) /\ a.at <= s.at /\ Current(a.old, a.new) = {s}

LEMMA AlwaysShown == Spec => []Shown
    <1>1. TypeInv /\ KeyInv => Shown
      BY CurrentExists DEF Shown
    <1> QED BY <1>1, Typed, Keyed, PTL

LEMMA AppendOnly ==
    ASSUME [Next]_vars
    PROVE  assessments \subseteq assessments'
    BY Writes DEF CommitNote, Insert, Record

LEMMA DropStep ==
    ASSUME TypeInv, TypeInv', KeyInv, Shown, Shown', [Next]_vars,
           NEW n \in notes, InPool(n), ~InPool(n)'
    PROVE  \E a \in Added :
             /\ a.old = n
             /\ a.retained < Theta
             /\ (\E e \in Edges : e[1] = n) => <<n, a.new>> \in Edges
    <1> USE NotesAssumption
    <1>1. \A s \in Supersession' : s.old = n => s \in assessments' /\ s.retained < Theta
      <2> SUFFICES ASSUME NEW s \in Supersession', s.old = n
                   PROVE  s \in assessments' /\ s.retained < Theta
        OBVIOUS
      <2>1. s \in assessments' /\ s.retained \in 0..100
        BY DEF Supersession, TypeInv, TypeOK, Assessment
      <2>2. ~(s.retained >= Theta)
        BY DEF InPool
      <2> QED BY <2>1, <2>2
    <1>2. PICK s \in Supersession' : s.old = n
      BY DEF InPool
    <1>3. CASE \E r \in Supersession : r.old = n /\ r.retained >= Theta
      <2>1. PICK r \in Supersession : r.old = n /\ r.retained >= Theta
        BY <1>3
      <2>2. r \in assessments /\ r \in assessments' /\ <<n, r.new>> \in Edges
        BY <2>1, AppendOnly DEF Supersession, Edges
      <2>3. PICK q \in Supersession' : SameEdge(q, r) /\ r.at <= q.at
        BY <2>2 DEF Shown
      <2>4. q.old = n /\ q.new = r.new /\ q \in assessments' /\ q.retained < Theta
        BY <1>1, <2>1, <2>3 DEF SameEdge
      <2>5. q \notin assessments
        <3> SUFFICES ASSUME q \in assessments
                     PROVE  FALSE
          OBVIOUS
        <3>1. q.at <= r.at /\ q.at \in Nat /\ r.at \in Nat
          BY <2>1, <2>2, <2>4 DEF Supersession, TypeInv, TypeOK, Assessment
        <3>2. q = r
          BY <2>2, <2>3, <3>1 DEF KeyInv, KeyUnique
        <3>3. q.retained \in 0..100
          BY <2>4 DEF TypeInv, TypeOK, Assessment
        <3> QED BY <2>1, <2>4, <3>2, <3>3
      <2> QED BY <2>2, <2>4, <2>5 DEF Added
    <1>4. CASE \A r \in Supersession : r.old # n
      <2>1. \A a \in assessments : a.old # n
        BY <1>4 DEF Shown, SameEdge
      <2>2. ~ \E e \in Edges : e[1] = n
        BY <2>1 DEF Edges
      <2> QED BY <1>1, <1>2, <2>1, <2>2 DEF Added
    <1> QED BY <1>3, <1>4 DEF InPool

\* A note leaves the pool only by a row of its own below the threshold: the first
\* one it gets, or a new assessment of an edge it already had.
THEOREM DropsLeaveARow == Spec => PoolDropsRecorded
    <1>1. TypeInv /\ TypeInv' /\ KeyInv /\ Shown /\ Shown' /\ [Next]_vars =>
            [\A n \in notes :
                (InPool(n) /\ ~InPool(n)') =>
                    \E a \in Added :
                        /\ a.old = n
                        /\ a.retained < Theta
                        /\ (\E e \in Edges : e[1] = n) => <<n, a.new>> \in Edges]_vars
      BY DropStep
    <1> QED BY <1>1, Typed, Keyed, AlwaysShown, PTL DEF Spec, PoolDropsRecorded

--------------------------------------------------------------------------------
(* PriorReported: with one lock, what ReadPrior saw is still in force.         *)

PriorInForce ==
    \A t \in Threads : pc[t] \in {"compared", "stamped"} =>
        Current(job[t].old, job[t].new)
            = IF job[t].prior = None THEN {} ELSE {job[t].prior}

PriorInv == LockInv /\ PriorInForce

LEMMA PriorStep ==
    ASSUME OneProcess, TypeInv, Shown, PriorInv, [Next]_vars
    PROVE  PriorInForce'
    <1>1. ASSUME UNCHANGED assessments, NEW t \in Threads,
                 \A u \in Threads \ {t} : pc'[u] = pc[u] /\ job'[u] = job[u],
                 pc'[t] \in {"compared", "stamped"} =>
                   \/ /\ pc[t] \in {"compared", "stamped"}
                      /\ job'[t].old = job[t].old /\ job'[t].new = job[t].new
                      /\ job'[t].prior = job[t].prior
                   \/ Current(job'[t].old, job'[t].new)
                        = IF job'[t].prior = None THEN {} ELSE {job'[t].prior}
          PROVE  PriorInForce'
      BY <1>1 DEF PriorInv, PriorInForce, Current, Supersession
    <1>2. ASSUME NEW t \in Threads, pc[t] # "idle",
                 pc'[t] \in {"idle", "committed"},
                 \A u \in Threads \ {t} : pc'[u] = pc[u] /\ job'[u] = job[u]
          PROVE  PriorInForce'
      <2>1. \A u \in Threads : u # t => pc[u] = "idle"
        BY <1>2, Exclusive DEF PriorInv
      <2> QED BY <1>2, <2>1 DEF PriorInForce
    <1>3. ASSUME NEW t \in Threads, CreateNote(t)
          PROVE  PriorInForce'
      BY <1>1, <1>2, <1>3
      DEF CreateNote, Mint, CommitNote, RollBackNote, QueueCaptures, Goto, Leave,
          store, TypeInv, TypeOK
    <1>4. ASSUME NEW t \in Threads, NEW old \in notes, NEW new \in notes,
                 NEW retained \in Scores, CheckCycle(t, old, new, retained)
          PROVE  PriorInForce'
      BY <1>1, <1>4 DEF CheckCycle, Goto, store, TypeInv, TypeOK
    <1>5. ASSUME NEW t \in Threads, ReadPrior(t)
          PROVE  PriorInForce'
      <2> DEFINE current == Current(job[t].old, job[t].new)
      <2>1. PICK prior \in (IF current = {} THEN {None} ELSE current) :
               Goto(t, "compared", [job[t] EXCEPT !.prior = prior])
        BY <1>5 DEF ReadPrior
      <2>2. current = IF prior = None THEN {} ELSE {prior}
        <3>1. CASE current = {}
          BY <2>1, <3>1
        <3>2. CASE current # {}
          <4>1. prior \in assessments /\ prior.old = job[t].old /\ prior.new = job[t].new
            BY <2>1, <3>2 DEF Current, Supersession
          <4>2. prior # None
            BY <4>1, NotesAssumption DEF TypeInv, TypeOK
          <4>3. \E s : current = {s}
            BY <4>1 DEF Shown
          <4> QED BY <2>1, <3>2, <4>2, <4>3
        <3> QED BY <3>1, <3>2
      <2>3. job[t] \in Judgment
        BY <1>5 DEF ReadPrior, TypeInv, ThreadOK, Judging
      <2> DEFINE j == [job[t] EXCEPT !.prior = prior]
      <2>4. j.prior = prior /\ j.old = job[t].old /\ j.new = job[t].new
        BY <2>3 DEF Judgment
      <2>5. /\ job'[t] = j
            /\ \A u \in Threads \ {t} : pc'[u] = pc[u] /\ job'[u] = job[u]
            /\ UNCHANGED assessments
        BY <1>5, <2>1 DEF ReadPrior, Goto, store, TypeInv, TypeOK
      <2> HIDE DEF j
      <2> QED BY <1>1, <2>2, <2>4, <2>5
    <1>6. ASSUME NEW t \in Threads, Stamp(t)
          PROVE  PriorInForce'
      <2>1. job[t] \in Judgment
        BY <1>6 DEF Stamp, TypeInv, ThreadOK, Judging
      <2> DEFINE j == [job[t] EXCEPT !.at = clock]
      <2>2. j.prior = job[t].prior /\ j.old = job[t].old /\ j.new = job[t].new
        BY <2>1 DEF Judgment
      <2>3. /\ pc[t] = "compared" /\ job'[t] = j
            /\ \A u \in Threads \ {t} : pc'[u] = pc[u] /\ job'[u] = job[u]
            /\ UNCHANGED assessments
        BY <1>6 DEF Stamp, Goto, store, TypeInv, TypeOK
      <2> HIDE DEF j
      <2> QED BY <1>1, <2>2, <2>3
    <1>7. ASSUME NEW t \in Threads, Insert(t)
          PROVE  PriorInForce'
      BY <1>2, <1>7 DEF Insert, Leave, TypeInv, TypeOK
    <1>8. ASSUME NEW t \in Threads, Collide(t)
          PROVE  PriorInForce'
      <2>1. CASE ~(Nudged(job[t]).tries < Retries)
        BY <1>2, <1>8, <2>1 DEF Collide, Leave, TypeInv, TypeOK
      <2>2. CASE Nudged(job[t]).tries < Retries
        <3>1. job[t] \in Judgment
          BY <1>8 DEF Collide, TypeInv, ThreadOK, Judging
        <3>2. /\ pc[t] = "stamped" /\ job'[t] = Nudged(job[t])
              /\ \A u \in Threads \ {t} : pc'[u] = pc[u] /\ job'[u] = job[u]
              /\ UNCHANGED assessments
          BY <1>8, <2>2 DEF Collide, Goto, store, TypeInv, TypeOK
        <3> QED BY <1>1, <3>1, <3>2, NudgedType
      <2> QED BY <2>1, <2>2
    <1>9. ASSUME NEW p \in Processes, Crash(p)
          PROVE  PriorInForce'
      BY <1>9 DEF Crash, store, PriorInv, PriorInForce, Current, Supersession,
                  TypeInv, TypeOK
    <1>10. CASE Tick \/ UNCHANGED vars
      BY <1>10 DEF Tick, vars, store, threads, PriorInv, PriorInForce, Current,
                   Supersession
    <1> QED
      BY <1>3, <1>4, <1>5, <1>6, <1>7, <1>8, <1>9, <1>10 DEF Next, AddAssessment

\* While one Store writes the database, previous_retained is the score the new
\* row replaces: its block is not atomic, but the lock spans it.
THEOREM PriorIsTheOneReplaced == OneProcess => (Spec => PriorReported)
    <1> SUFFICES ASSUME OneProcess
                 PROVE  Spec => PriorReported
      OBVIOUS
    <1>1. Init => PriorInv
      BY DEF Init, PriorInv, LockInv, PriorInForce
    <1>2. TypeInv /\ Shown /\ PriorInv /\ [Next]_vars => PriorInv'
      BY LockStep, PriorStep DEF PriorInv, TypeInv
    <1>3. PriorInv =>
            [\A t \in Threads :
                (pc[t] = "stamped" /\ RowOf(job[t]) \in Added)
                    => Current(job[t].old, job[t].new)
                         = IF job[t].prior = None THEN {} ELSE {job[t].prior}]_vars
      BY DEF PriorInv, PriorInForce
    <1> QED BY <1>1, <1>2, <1>3, Typed, AlwaysShown, PTL DEF Spec, PriorReported
================================================================================
