------------------------------- MODULE Embedding -------------------------------
(***************************************************************************)
(* The vector side of seshat off the write path: EmbeddingWorker           *)
(* (src/seshat/worker.py) and the embedding part of Store                  *)
(* (src/seshat/store.py), for every process open on one notes database --  *)
(* `seshat serve` and `seshat review`, whose worker thread loops forever,  *)
(* and `seshat embed` / `seshat reembed`, which drain the backlog once.    *)
(*                                                                         *)
(* The backlog is a query: the notes without provenance under the model of *)
(* the process that asks.  It is asked on the connection the writer uses   *)
(* and without its lock, so it also shows the note being written.          *)
(***************************************************************************)
EXTENDS Naturals, FiniteSets

CONSTANTS
    Ids,           \* note ids
    Servers,       \* processes that write notes, answer queries and embed
    Drains,        \* command line processes: `embed`, `reembed`
    Models,        \* embedding models
    ModelOf,       \* the model a process was started with
    Loaded,        \* the processes that could load the vector extension
    BatchSize,     \* EmbeddingWorker.batch
    MaxBatches,    \* drain's max_batches
    MaxDrains,     \* bound on the command line invocations
    MaxCrashes,    \* bound on the number of process crashes explored
    None           \* no row, nobody

Embedders == Servers \cup Drains

ASSUME EmbeddingAssumption ==
    /\ IsFiniteSet(Ids)
    /\ Servers \cap Drains = {}
    /\ ModelOf \in [Embedders -> Models]
    /\ Loaded \subseteq Embedders
    /\ BatchSize \in Nat \ {0}
    /\ MaxBatches \in Nat \ {0}
    /\ MaxDrains \in Nat /\ MaxCrashes \in Nat
    /\ None \notin Models \cup Ids \cup Embedders

VARIABLES
    notes,     \* note: the committed rows
    stamped,   \* created_at of every id ever inserted, as a rank
    writing,   \* the open create_note block: who writes which note
    vec,       \* note_vec: the model that made the vector held for a note
    meta,      \* embedding_meta: the model recorded for a note
    up,        \* whether the embedder answers
    cooling,   \* processes whose _vector_cooldown_until is ahead
    pc,        \* where the worker of each process stands
    batch,     \* what needs_embedding returned to it and it has not stored
    batches,   \* batches of the drain so far
    drains,    \* command line invocations so far
    crashes    \* number of crashes so far

rows    == <<notes, stamped, writing>>
vectors == <<vec, meta>>
workers == <<pc, batch, batches>>
bounds  == <<drains, crashes>>
vars    == <<rows, vectors, up, cooling, workers, bounds>>

NoWriter == [by |-> None, note |-> None]
Rest(p)  == IF p \in Servers THEN "idle" ELSE "off"

Init ==
    /\ notes   = {}
    /\ stamped = [n \in Ids |-> None]
    /\ writing = NoWriter
    /\ vec     = [n \in Ids |-> None]
    /\ meta    = [n \in Ids |-> None]
    /\ up      = TRUE
    /\ cooling = {}
    /\ pc      = [p \in Embedders |-> Rest(p)]
    /\ batch   = [p \in Embedders |-> {}]
    /\ batches = [p \in Drains |-> 0]
    /\ drains  = 0
    /\ crashes = 0

--------------------------------------------------------------------------------
(* create_note, as far as the backlog sees it.  SQLite admits one writer.      *)

Minted == {n \in Ids : stamped[n] # None}

OpenNote(s, n) ==
    /\ writing = NoWriter
    /\ n \notin Minted
    /\ writing' = [by |-> s, note |-> n]
    /\ stamped' = [stamped EXCEPT ![n] = Cardinality(Minted)]
    /\ UNCHANGED <<notes, vectors, up, cooling, workers, bounds>>

\* The block ends: committed, or rolled back by a key that is there already.
CommitNote ==
    /\ writing # NoWriter
    /\ notes'   = notes \cup {writing.note}
    /\ writing' = NoWriter
    /\ UNCHANGED <<stamped, vectors, up, cooling, workers, bounds>>

RollBackNote ==
    /\ writing # NoWriter
    /\ writing' = NoWriter
    /\ UNCHANGED <<notes, stamped, vectors, up, cooling, workers, bounds>>

--------------------------------------------------------------------------------
(* The embedder and the cooldown a failed query starts. *)

UpOrDown ==
    /\ up' = ~up
    /\ UNCHANGED <<rows, vectors, cooling, workers, bounds>>

Ready(p) == p \in Loaded \ cooling      \* vector_ready

\* _embed_query: FTS only for this query, no vector side for a while.
QueryFails(s) ==
    /\ Ready(s)
    /\ ~up
    /\ cooling' = cooling \cup {s}
    /\ UNCHANGED <<rows, vectors, up, workers, bounds>>

CoolOff(s) ==
    /\ s \in cooling
    /\ cooling' = cooling \ {s}
    /\ UNCHANGED <<rows, vectors, up, workers, bounds>>

--------------------------------------------------------------------------------
(* run_once *)

\* The rows a connection sees: what is committed, and what it is writing itself.
Visible(p) == notes \cup (IF writing.by = p THEN {writing.note} ELSE {})

\* Mutant of Backlog: `OR e.model != ?` left out.
BacklogAbsent(p) == {n \in Visible(p) : meta[n] = None}

\* needs_embedding without its LIMIT.
Backlog(p) == {n \in Visible(p) : meta[n] # ModelOf[p]}

\* The BatchSize oldest of them.
Oldest(backlog) ==
    {n \in backlog :
        Cardinality({m \in backlog : stamped[m] < stamped[n]}) < BatchSize}

\* Mutant of AfterBatch: off by one.
AfterBatchOneMore(p) ==
    IF p \in Servers THEN "idle"
    ELSE IF batches[p] <= MaxBatches THEN "drain" ELSE "off"

\* A server loops straight on; a drain up to max_batches.
AfterBatch(p) ==
    IF p \in Servers THEN "idle"
    ELSE IF batches[p] < MaxBatches THEN "drain" ELSE "off"

Look(p) ==
    /\ pc[p] \in {"idle", "drain"}
    /\ IF Ready(p) /\ Backlog(p) # {}
       THEN /\ batch' = [batch EXCEPT ![p] = Oldest(Backlog(p))]
            /\ batches' = [d \in Drains |-> IF d = p THEN batches[d] + 1 ELSE batches[d]]
            /\ pc' = [pc EXCEPT ![p] = "embed"]
       ELSE /\ pc' = [pc EXCEPT ![p] = Rest(p)]
            /\ UNCHANGED <<batch, batches>>
    /\ UNCHANGED <<rows, vectors, up, cooling, bounds>>

\* The round trip, outside every lock; EmbedderUnavailable ends the batch, and
\* a drain with it, but only delays the loop of a server.
Embed(p) ==
    /\ pc[p] = "embed"
    /\ IF up
       THEN /\ pc' = [pc EXCEPT ![p] = "store"]
            /\ UNCHANGED batch
       ELSE /\ pc' = [pc EXCEPT ![p] = Rest(p)]
            /\ batch' = [batch EXCEPT ![p] = {}]
    /\ UNCHANGED <<rows, vectors, up, cooling, batches, bounds>>

\* Mutant of Refused: foreign_keys left at SQLite's default, off.
RefusedNever(n) == FALSE

\* embedding_meta.note_id REFERENCES note(id): the note was never committed.
Refused(n) == n \notin notes

\* store_embedding of the next note of the batch: the vector and its provenance,
\* one transaction.  A cooldown that began meanwhile drops the vector without a
\* word; a refusal drops the batch.
StoreEmbedding(p, n) ==
    /\ pc[p] = "store"
    /\ writing = NoWriter
    /\ n \in batch[p]
    /\ \A m \in batch[p] : stamped[n] <= stamped[m]
    /\ IF Ready(p) /\ ~Refused(n)
       THEN /\ vec'  = [vec EXCEPT ![n] = ModelOf[p]]
            /\ meta' = [meta EXCEPT ![n] = ModelOf[p]]
       ELSE UNCHANGED vectors
    /\ IF Ready(p) /\ Refused(n)
       THEN /\ batch' = [batch EXCEPT ![p] = {}]
            /\ pc'    = [pc EXCEPT ![p] = Rest(p)]
       ELSE /\ batch' = [batch EXCEPT ![p] = @ \ {n}]
            /\ pc'    = [pc EXCEPT ![p] = IF batch[p] = {n} THEN AfterBatch(p) ELSE @]
    /\ UNCHANGED <<rows, up, cooling, batches, bounds>>

RunOnce(p) ==
    \/ Look(p)
    \/ Embed(p)
    \/ \E n \in Ids : StoreEmbedding(p, n)

--------------------------------------------------------------------------------
(* The command line. *)

StartDrain(d) ==
    /\ pc[d] = "off"
    /\ drains < MaxDrains
    /\ drains'  = drains + 1
    /\ batches' = [batches EXCEPT ![d] = 0]
    /\ pc'      = [pc EXCEPT ![d] = "drain"]

\* `seshat embed`
EmbedCommand(d) ==
    /\ StartDrain(d)
    /\ UNCHANGED <<rows, vectors, up, cooling, batch, crashes>>

\* Mutant of ClearedVectors: gated on the cooldown, or simply forgotten.
ClearedVectorsNot(d) == vec

\* clear_embeddings: note_vec goes too, where the extension is there to do it.
ClearedVectors(d) == IF d \in Loaded THEN [n \in Ids |-> None] ELSE vec

\* `seshat reembed`
ReembedCommand(d) ==
    /\ StartDrain(d)
    /\ writing = NoWriter
    /\ meta' = [n \in Ids |-> None]
    /\ vec'  = ClearedVectors(d)
    /\ UNCHANGED <<rows, up, cooling, batch, crashes>>

\* A process dies; a server is started again, a command line is not.
Crash(p) ==
    /\ crashes < MaxCrashes
    /\ crashes' = crashes + 1
    /\ writing' = IF writing.by = p THEN NoWriter ELSE writing
    /\ cooling' = cooling \ {p}
    /\ pc'      = [pc EXCEPT ![p] = Rest(p)]
    /\ batch'   = [batch EXCEPT ![p] = {}]
    /\ UNCHANGED <<notes, stamped, vectors, up, batches, drains>>

Next ==
    \/ \E s \in Servers, n \in Ids : OpenNote(s, n)
    \/ CommitNote
    \/ RollBackNote
    \/ UpOrDown
    \/ \E s \in Servers : QueryFails(s) \/ CoolOff(s)
    \/ \E p \in Embedders : RunOnce(p)
    \/ \E d \in Drains : EmbedCommand(d) \/ ReembedCommand(d)
    \/ \E p \in Embedders : Crash(p)

Spec == Init /\ [][Next]_vars

\* The worker's loop comes round, a `with` block ends, thirty seconds pass.
\* Nobody owes a note, a query or a command; the embedder owes nothing either.
FairSpec ==
    /\ Spec
    /\ \A p \in Embedders : WF_vars(RunOnce(p))
    /\ \A s \in Servers : WF_vars(CoolOff(s))
    /\ WF_vars(CommitNote \/ RollBackNote)

--------------------------------------------------------------------------------
(* Properties. *)

\* Every variable has the type its column or its attribute has.
TypeOK ==
    /\ notes \subseteq Ids
    /\ stamped \in [Ids -> Nat \cup {None}]
    /\ writing \in [by : Servers, note : Ids] \cup {NoWriter}
    /\ vec  \in [Ids -> Models \cup {None}]
    /\ meta \in [Ids -> Models \cup {None}]
    /\ up \in BOOLEAN
    /\ cooling \subseteq Servers
    /\ pc \in [Embedders -> {"idle", "off", "drain", "embed", "store"}]
    /\ batch \in [Embedders -> SUBSET Ids]
    /\ batches \in [Drains -> 0..MaxBatches]
    /\ drains \in 0..MaxDrains
    /\ crashes \in 0..MaxCrashes

\* No vector ranks results under a name that is not on record: what made a
\* vector is what embedding_meta says, through a migration to another model that
\* servers of the old one go on undoing (clear_embeddings, 1010-1024).
VectorsOnRecord == \A n \in Ids : vec[n] # None => meta[n] = vec[n]

\* A vector belongs to a note there is, though the backlog is read without the
\* lock and may list a note whose block is rolled back (needs_embedding, 966).
NoPhantomVector == \A n \in Ids : vec[n] # None => n \in notes

\* Once the embedder stays up, every note gets a vector of the server's model,
\* whatever cooldowns, refusals, crashes and migrations went before.
EmbeddedEventually ==
    <>[]up => \A s \in Servers \cap Loaded, n \in Ids :
                 n \in notes ~> vec[n] = ModelOf[s]
================================================================================
