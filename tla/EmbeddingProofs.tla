---------------------------- MODULE EmbeddingProofs ----------------------------
(* What TLAPS proves of Embedding, for every value of its constants.           *)
EXTENDS Embedding, FiniteSetTheorems, TLAPS

\* A server's worker never ends, and a drain that goes round again has a batch
\* left of its max_batches.
WorkerOK ==
    /\ \A s \in Servers : pc[s] \notin {"off", "drain"}
    /\ \A d \in Drains :
         /\ pc[d] # "idle"
         /\ pc[d] = "drain" => batches[d] < MaxBatches

TypeInv == TypeOK /\ WorkerOK

LEMMA NoneApart ==
    /\ None \notin Models /\ None \notin Ids /\ None \notin Embedders
    /\ \A p \in Embedders : ModelOf[p] \in Models
    /\ Embedders = Servers \cup Drains
    /\ \A p \in Servers : p \notin Drains
    BY EmbeddingAssumption DEF Embedders

LEMMA RankType ==
    ASSUME TypeOK
    PROVE  Cardinality(Minted) \in Nat
    <1>1. IsFiniteSet(Minted)
      BY EmbeddingAssumption, FS_Subset DEF Minted
    <1> QED BY <1>1, FS_CardinalityType

LEMMA BacklogType ==
    ASSUME TypeOK, NEW p \in Embedders
    PROVE  Oldest(Backlog(p)) \subseteq Ids
    <1>1. writing.by = p => writing.note \in Ids
      BY NoneApart DEF TypeOK, NoWriter
    <1>2. Backlog(p) \subseteq Ids
      BY <1>1 DEF Backlog, Visible, TypeOK
    <1> QED BY <1>2 DEF Oldest

LEMMA InitType == Init => TypeInv
    <1> SUFFICES ASSUME Init PROVE TypeInv
      OBVIOUS
    <1>1. TypeOK
      BY EmbeddingAssumption, NoneApart DEF Init, TypeOK, Rest
    <1>2. WorkerOK
      BY NoneApart DEF Init, WorkerOK, Rest
    <1> QED BY <1>1, <1>2 DEF TypeInv

LEMMA TypeStep == TypeInv /\ [Next]_vars => TypeInv'
    <1> SUFFICES ASSUME TypeInv, [Next]_vars PROVE TypeInv'
      OBVIOUS
    <1> USE NoneApart
    <1>1. ASSUME NEW s \in Servers, NEW n \in Ids, OpenNote(s, n)
          PROVE  TypeInv'
      BY <1>1, RankType, EmbeddingAssumption
      DEF TypeInv, TypeOK, WorkerOK, OpenNote, NoWriter, rows, vectors, workers, bounds
    <1>2. ASSUME CommitNote
          PROVE  TypeInv'
      BY <1>2, EmbeddingAssumption
      DEF TypeInv, TypeOK, WorkerOK, CommitNote, NoWriter, rows, vectors, workers, bounds
    <1>3. ASSUME RollBackNote
          PROVE  TypeInv'
      BY <1>3, EmbeddingAssumption
      DEF TypeInv, TypeOK, WorkerOK, RollBackNote, rows, vectors, workers, bounds
    <1>4. ASSUME UpOrDown
          PROVE  TypeInv'
      BY <1>4, EmbeddingAssumption
      DEF TypeInv, TypeOK, WorkerOK, UpOrDown, rows, vectors, workers, bounds
    <1>5. ASSUME NEW s \in Servers, QueryFails(s)
          PROVE  TypeInv'
      BY <1>5, EmbeddingAssumption
      DEF TypeInv, TypeOK, WorkerOK, QueryFails, rows, vectors, workers, bounds
    <1>6. ASSUME NEW s \in Servers, CoolOff(s)
          PROVE  TypeInv'
      BY <1>6, EmbeddingAssumption
      DEF TypeInv, TypeOK, WorkerOK, CoolOff, rows, vectors, workers, bounds
    <1>7. ASSUME NEW p \in Embedders, Look(p)
          PROVE  TypeInv'
      BY <1>7, BacklogType, EmbeddingAssumption
      DEF TypeInv, TypeOK, WorkerOK, Look, Rest, rows, vectors, workers, bounds
    <1>8. ASSUME NEW p \in Embedders, Embed(p)
          PROVE  TypeInv'
      BY <1>8, EmbeddingAssumption
      DEF TypeInv, TypeOK, WorkerOK, Embed, Rest, rows, vectors, workers, bounds
    <1>9. ASSUME NEW p \in Embedders, NEW n \in Ids, StoreEmbedding(p, n)
          PROVE  TypeInv'
      BY <1>9, EmbeddingAssumption
      DEF TypeInv, TypeOK, WorkerOK, StoreEmbedding, AfterBatch, Rest, rows, vectors, workers, bounds
    <1>10. ASSUME NEW d \in Drains, EmbedCommand(d)
          PROVE  TypeInv'
      BY <1>10, EmbeddingAssumption
      DEF TypeInv, TypeOK, WorkerOK, EmbedCommand, StartDrain, rows, vectors, workers, bounds
    <1>11. ASSUME NEW d \in Drains, ReembedCommand(d)
          PROVE  TypeInv'
      BY <1>11, EmbeddingAssumption
      DEF TypeInv, TypeOK, WorkerOK, ReembedCommand, StartDrain, ClearedVectors, rows, vectors, workers, bounds
    <1>12. ASSUME NEW p \in Embedders, Crash(p)
          PROVE  TypeInv'
      BY <1>12, EmbeddingAssumption
      DEF TypeInv, TypeOK, WorkerOK, Crash, Rest, rows, vectors, workers, bounds
    <1>13. CASE UNCHANGED vars
      BY <1>13 DEF TypeInv, TypeOK, WorkerOK, vars, rows, vectors, workers, bounds
    <1> QED
      BY <1>1, <1>2, <1>3, <1>4, <1>5, <1>6, <1>7, <1>8, <1>9, <1>10, <1>11, <1>12, <1>13
      DEF Next, RunOnce

LEMMA Typed == Spec => []TypeInv
    BY InitType, TypeStep, PTL DEF Spec

\* Every row, attribute and thread of the vector side keeps its type, and no
\* drain embeds more than max_batches batches.
THEOREM TypeCorrect == Spec => []TypeOK
    BY Typed, PTL DEF TypeInv

LEMMA RecordStep ==
    TypeInv /\ Drains \subseteq Loaded /\ VectorsOnRecord /\ [Next]_vars => VectorsOnRecord'
    <1> SUFFICES ASSUME TypeInv, Drains \subseteq Loaded, VectorsOnRecord, [Next]_vars
                 PROVE  VectorsOnRecord'
      OBVIOUS
    <1> USE NoneApart
    <1>1. ASSUME NEW s \in Servers, NEW n \in Ids, OpenNote(s, n)
          PROVE  VectorsOnRecord'
      BY <1>1
      DEF VectorsOnRecord, OpenNote, rows, vectors, workers, bounds
    <1>2. ASSUME CommitNote
          PROVE  VectorsOnRecord'
      BY <1>2
      DEF VectorsOnRecord, CommitNote, rows, vectors, workers, bounds
    <1>3. ASSUME RollBackNote
          PROVE  VectorsOnRecord'
      BY <1>3
      DEF VectorsOnRecord, RollBackNote, rows, vectors, workers, bounds
    <1>4. ASSUME UpOrDown
          PROVE  VectorsOnRecord'
      BY <1>4
      DEF VectorsOnRecord, UpOrDown, rows, vectors, workers, bounds
    <1>5. ASSUME NEW s \in Servers, QueryFails(s)
          PROVE  VectorsOnRecord'
      BY <1>5
      DEF VectorsOnRecord, QueryFails, rows, vectors, workers, bounds
    <1>6. ASSUME NEW s \in Servers, CoolOff(s)
          PROVE  VectorsOnRecord'
      BY <1>6
      DEF VectorsOnRecord, CoolOff, rows, vectors, workers, bounds
    <1>7. ASSUME NEW p \in Embedders, Look(p)
          PROVE  VectorsOnRecord'
      BY <1>7
      DEF VectorsOnRecord, Look, rows, vectors, workers, bounds
    <1>8. ASSUME NEW p \in Embedders, Embed(p)
          PROVE  VectorsOnRecord'
      BY <1>8
      DEF VectorsOnRecord, Embed, rows, vectors, workers, bounds
    <1>9. ASSUME NEW p \in Embedders, NEW n \in Ids, StoreEmbedding(p, n)
          PROVE  VectorsOnRecord'
      BY <1>9
      DEF TypeInv, TypeOK, VectorsOnRecord, StoreEmbedding, AfterBatch, Rest, rows, vectors, workers, bounds
    <1>10. ASSUME NEW d \in Drains, EmbedCommand(d)
          PROVE  VectorsOnRecord'
      BY <1>10
      DEF VectorsOnRecord, EmbedCommand, rows, vectors, workers, bounds
    <1>11. ASSUME NEW d \in Drains, ReembedCommand(d)
          PROVE  VectorsOnRecord'
      BY <1>11
      DEF TypeInv, TypeOK, VectorsOnRecord, ReembedCommand, StartDrain, ClearedVectors, rows, vectors, workers, bounds
    <1>12. ASSUME NEW p \in Embedders, Crash(p)
          PROVE  VectorsOnRecord'
      BY <1>12
      DEF VectorsOnRecord, Crash, rows, vectors, workers, bounds
    <1>13. CASE UNCHANGED vars
      BY <1>13 DEF TypeInv, TypeOK, VectorsOnRecord, vars, rows, vectors, workers, bounds
    <1> QED
      BY <1>1, <1>2, <1>3, <1>4, <1>5, <1>6, <1>7, <1>8, <1>9, <1>10, <1>11, <1>12, <1>13
      DEF Next, RunOnce

\* While every process that clears the provenance can clear the vectors, no
\* vector is held under a model other than the one on record.
THEOREM VectorsAreOnRecord == Drains \subseteq Loaded => (Spec => []VectorsOnRecord)
    <1> SUFFICES ASSUME Drains \subseteq Loaded
                 PROVE  Spec => []VectorsOnRecord
      OBVIOUS
    <1>1. Init => VectorsOnRecord
      BY DEF Init, VectorsOnRecord
    <1>2. TypeInv /\ VectorsOnRecord /\ [Next]_vars => VectorsOnRecord'
      BY RecordStep
    <1> QED BY <1>1, <1>2, Typed, PTL DEF Spec

LEMMA PhantomStep == TypeInv /\ NoPhantomVector /\ [Next]_vars => NoPhantomVector'
    <1> SUFFICES ASSUME TypeInv, NoPhantomVector, [Next]_vars PROVE NoPhantomVector'
      OBVIOUS
    <1> USE NoneApart
    <1>1. ASSUME NEW s \in Servers, NEW n \in Ids, OpenNote(s, n)
          PROVE  NoPhantomVector'
      BY <1>1
      DEF NoPhantomVector, OpenNote, rows, vectors, workers, bounds
    <1>2. ASSUME CommitNote
          PROVE  NoPhantomVector'
      BY <1>2
      DEF TypeInv, TypeOK, NoPhantomVector, CommitNote, NoWriter, rows, vectors, workers, bounds
    <1>3. ASSUME RollBackNote
          PROVE  NoPhantomVector'
      BY <1>3
      DEF NoPhantomVector, RollBackNote, rows, vectors, workers, bounds
    <1>4. ASSUME UpOrDown
          PROVE  NoPhantomVector'
      BY <1>4
      DEF NoPhantomVector, UpOrDown, rows, vectors, workers, bounds
    <1>5. ASSUME NEW s \in Servers, QueryFails(s)
          PROVE  NoPhantomVector'
      BY <1>5
      DEF NoPhantomVector, QueryFails, rows, vectors, workers, bounds
    <1>6. ASSUME NEW s \in Servers, CoolOff(s)
          PROVE  NoPhantomVector'
      BY <1>6
      DEF NoPhantomVector, CoolOff, rows, vectors, workers, bounds
    <1>7. ASSUME NEW p \in Embedders, Look(p)
          PROVE  NoPhantomVector'
      BY <1>7
      DEF NoPhantomVector, Look, rows, vectors, workers, bounds
    <1>8. ASSUME NEW p \in Embedders, Embed(p)
          PROVE  NoPhantomVector'
      BY <1>8
      DEF NoPhantomVector, Embed, rows, vectors, workers, bounds
    <1>9. ASSUME NEW p \in Embedders, NEW n \in Ids, StoreEmbedding(p, n)
          PROVE  NoPhantomVector'
      BY <1>9
      DEF TypeInv, TypeOK, NoPhantomVector, StoreEmbedding, Refused, rows, vectors, workers, bounds
    <1>10. ASSUME NEW d \in Drains, EmbedCommand(d)
          PROVE  NoPhantomVector'
      BY <1>10
      DEF NoPhantomVector, EmbedCommand, rows, vectors, workers, bounds
    <1>11. ASSUME NEW d \in Drains, ReembedCommand(d)
          PROVE  NoPhantomVector'
      BY <1>11
      DEF TypeInv, TypeOK, NoPhantomVector, ReembedCommand, StartDrain, ClearedVectors, rows, vectors, workers, bounds
    <1>12. ASSUME NEW p \in Embedders, Crash(p)
          PROVE  NoPhantomVector'
      BY <1>12
      DEF NoPhantomVector, Crash, rows, vectors, workers, bounds
    <1>13. CASE UNCHANGED vars
      BY <1>13 DEF TypeInv, TypeOK, NoPhantomVector, vars, rows, vectors, workers, bounds
    <1> QED
      BY <1>1, <1>2, <1>3, <1>4, <1>5, <1>6, <1>7, <1>8, <1>9, <1>10, <1>11, <1>12, <1>13
      DEF Next, RunOnce

\* A vector belongs to a committed note, whichever uncommitted rows the backlog
\* showed and whichever of them were rolled back.
THEOREM NoPhantoms == Spec => []NoPhantomVector
    <1>1. Init => NoPhantomVector
      BY DEF Init, NoPhantomVector
    <1> QED BY <1>1, PhantomStep, Typed, PTL DEF Spec
================================================================================
