# seshat: a verification development

TLA+ models of seshat, the note store with a supersession graph, off-path
snapshot capture and hybrid retrieval whose source is under `src/src/seshat/`.
The modules model its state where it is written concurrently, the reads that are
put together from several queries, and the algorithms answers depend on. TLC
checks them on small instances, and TLAPS proves the most important invariants
for every value of the constants. `PROJECT.json` maps each definition to the
lines it stands for, lists the hazards of the code, and holds the findings.

    tlc -workers 2 -config SnapOneProcess.cfg MCSnapshots
    tlapm SnapshotsProofs.tla

## 1. Inventory

### The parts and their state

| part | source | state it keeps | operations that change it |
|---|---|---|---|
| note store | `store.py` | `note`, `assessment`, `link`, `near_miss`, `meta`; two FTS indexes by trigger; `Store._lock` | opening, `create_note`, `add_assessment`, `resolve` (records a miss) |
| embedding provenance | `store.py`, `vectors.py` | `embedding_meta`, `note_vec`; `_vector_cooldown_until` | `store_embedding`, `clear_embeddings`, a failed query |
| embedding worker | `worker.py` | a thread, a batch in flight | `run_once`, `drain` |
| snapshot store | `snapshots.py` | `fetch_queue`, `snapshot`, `raw`, `acknowledgement`, in a database of its own; `SnapshotStore._lock` | `enqueue`, `record`, `defer`, `store_extraction`, `reset_extraction`, `record_browser`, `paste`, `acknowledge`, `retry` |
| snapshot worker | `snapshots.py` | a thread, a list of pending keys, a body in flight | `run_once` |
| MCP server | `server.py` | one writable `Store`, one `SnapshotStore`, both workers | the tools `note`, `assess`, `read`, `context`, `chain`, ... |
| review interface | `review.py` | a read-only `Store`, a writer for the extension, a `SnapshotStore`, tokens | paste, repair, retry, acknowledge, `/api/capture` |
| command line | `cli.py` | one process per command | `fetch`, `extract`, `reextract`, `embed`, `reembed`, `paste`, `reset` |
| checker | `checker.py` | none: read-only connections | none |
| ids, links, markdown, extract | same names | none: pure functions | none |
| embedder | `embeddings.py` | none: an HTTP client | none |

### How they interact

Every MCP client starts a `seshat serve` of its own; `seshat review` and the
command line are further processes on the same two SQLite files. Inside a
process threads share one connection and one lock per store: `@synchronized`
holds it for a whole operation. Between processes only SQLite's own
serialisation of transactions remains -- and Python's `sqlite3` opens a
transaction at the first *write* of a `with self.db` block, so a SELECT that
precedes it is not part of it.

`create_note` commits, then hands the note's links to `SnapshotStore.enqueue`
(the other database; whatever goes wrong there is logged and swallowed) and
wakes the embedding worker. The snapshot worker lists
the queue, fetches without a lock, records, and reads the body it fetched. A
human repairs captures through the review interface or the extension. The
embedding worker asks for the backlog, embeds without a lock, stores row by row.
The checker opens read-only connections to both databases and reads them query
by query; `read`, `chain` and `context` also answer from several queries.

### What is hard about it

* Reads before the transaction they decide: `record`, `retry`,
  `add_assessment`, `mint_id`, `needs_embedding`.
* One logical operation in two transactions: `paste` and `record_browser` (make
  room, then fill), `create_note` (note, then queue), `record` and `extract_one`.
* Work outside every lock: the fetch, the embedding round trip.
* Crashes between any two of those; retries with a limit; an embedder that comes
  and goes; two processes running different models.
* Answers put together from several SELECTs while other processes write: `read`,
  `chain`, `context`, `resolve`, every check of the checker.
* A store opened by two processes at once, or half created, or renamed file by
  file beside a live server.
* Rules that hold over long sequences: the graph stays acyclic, the history is
  append-only, the bytes of a capture are immutable, what a human supplied is
  final, what was sought travels with the key.

### What makes each part correct

* **Snapshot side**: no target handed over is dropped, and a repair may come before
  the hand-over or without one; bytes never change and keep their row; a reading is
  filled in once, a paste is final; a machine reading is reproducible from the bytes;
  the queue drains; bytes get read.
* **Notes**: the graph is a DAG and every note has a head; one current assessment per
  edge, the latest; the history only grows; the pool changes on record.
* **Embeddings**: what ranks results is on record; no vector without a note; a note is
  eventually embedded.
* **From note to capture**: a capture is lost only between the two databases, and then
  the checker says so; nothing is queued or fetched for a note that is not there.
* **Ids**: a request is never corrected to two different notes; what is one word from
  an id is recovered and nothing else; a near miss that is recorded is true.
* **Retrieval**: a note found by both retrievers outranks one found by either, and is
  never cut.
* **Checker**: the cycle search and the closure agree with their graph-theoretic
  definitions, on cyclic graphs above all; every disputed ground on which a note is
  served or withheld is a finding.
* **Opening**: whatever serves is whole; two openers do not block each other for good;
  `reset` loses nothing.

## 2. What is modelled

Modules build on each other like this (E: EXTENDS, I: INSTANCE):

    Snapshots --I--> Witnesses            Notes <--E-- Findings
    Preservation --E--> Snapshots         Readers --E--> Notes, --I--> Descent
    Lookup --E--> Opening                 Embedding      Retrieval

### `Snapshots` -- the capture side

A *key* is a `(note_id, target)` pair, the primary key of all four tables:
`queue`, `snapshot`, `raw`, `ack` are those tables as functions (or a set) of
keys, `known` the keys `create_note` has handed over, whether or not a human had
acted on them before. `lock` is `_lock` of each process;
`pc`, `key`, `got`, `seen`, `todo`, `batch`, `progressed` are what a thread has
in its Python locals. A text is named by what it was read from (a body, or a
human's text); `Reads` says whether `extract()` makes a full text, a thin one or
an exception of a body.

| action | code |
|---|---|
| `Enqueue` | the targets of a committed note reach `enqueue` in one transaction, with the expectations derived for them |
| `ListPending`, `Fetch`, `DecideRetry`, `Defer` | `run_once`, `http_fetch`, `_retriable` (no lock), `defer` |
| `RecordRead`, `RecordSought`, `RecordWrite`, `RecordConflict` | `record`: its first SELECT, its second, the transaction, its `IntegrityError` |
| `ExtractFetched` | `extract_one` on the body just fetched |
| `Paste`, `RecordBrowser`, `StoreHuman` | the two transactions of `paste` and of `record_browser` |
| `RetryRead`, `Requeue` | `retry`: its reads, its transaction |
| `Acknowledge` | `acknowledge` |
| `Reextract`, `Extract`, `ReadBacklog`, `ExtractNext` | `reset_extraction`, `drain_extraction` batch by batch |
| `Crash` | a process dies: open transactions roll back, locals are gone |

A human operation takes any key: `paste` and `record_browser` make a row for a target
nobody cites as for one that is queued, and the command line and the review interface
ask for neither a link nor a hand-over (`Begin`). So a repair may come before the hand-over,
after one that failed, or without one; `/api/capture` is such a case. The two SELECTs of
`record` are two steps; those of `retry` are one (`RetryRead`), which loses nothing:
bytes only ever come (`BytesImmutable`), so if the second finds none there were none at the
first, and if it finds some `retry` does nothing.

A `SnapshotWorker` that a review handler or `seshat fetch` runs is a member of
`Workers` in that process. The limits of 32 and 1000 on batches and drains are
above every instance. `InBacklog` is the extraction backlog and `InTriage` the
list of failures a human sees: `NoSilentHole` says that a row without a text is
in one of them, or waived, or being filled. Not modelled here: which addresses
are refused and how HTML is parsed.

### `Witnesses` -- what capture at creation promises

The abstract specification: once handed over a target waits, is witnessed or is
waived, and goes back to waiting only while its witness holds nothing. A human may
bring a witness, or waive one, for a target nobody cited; only a cited one ever waits,
and what is witnessed already need not. Bytes and pasted text are never taken back. No
queue, lock, thread or transaction. `Snapshots` implements it in one process under the
mapping `Promise`: `cited` is `known`, `fate` comes from the three tables (a target
handed over that is in none of them is `"lost"`, a place the abstract specification
does not have), `bytes` is `raw`, `pasted` the text of a `manual` reading. The
property `PromiseKept` of `snapshots_one_process` is this refinement, and
`PromiseProofs` proves it. Across processes it fails, by the race of `retry` with a
paste described in section 5.

### `Preservation` -- from the note to its reading

The composition. `CommitLinks` is the block of `create_note` in the notes database,
with all links of the note at once, `HandOver` is `_queue_captures` reaching `Enqueue`
of `Snapshots`, `HandOverFails` the exception it swallows, `CrashAll` a process killed
with what it had in hand on either side. `ReadCaptured`, `ReadQueued`, `ReadLinks` are
the SELECTs of `check_snapshots` in their order, on read-only connections to the two
files, with everything else going on between them. `CapturesCited` speaks of what is
queued, what a worker carries and failures of a fetch, in any number of processes; a
row with a human's text or a browser's page says nothing of a citation, as any key may
have one.

### `Notes` -- the write path and the graph

`notes` and `assessments` are the two tables. `Supersession`, `Heads`, `InPool`
translate the view, the head query and `pool_retained`; `Reaches` is reachability
stated through closed sets, so that it can be proved about. `create_note` is
`Mint` (resolve, mint, stamp), `CommitNote` or `RollBackNote`, `QueueCaptures`
(here only the time it takes under the lock; what becomes of the captures is
`Preservation`); `add_assessment` is `CheckCycle`, `ReadPrior`, `Stamp`, then
`Insert` or, when another assessment of the edge has the same microsecond,
`Collide`. `Goto` and `Leave` hold and release the process's lock. Not modelled
here: note texts, rationales, FTS -- none of them decides anything on this path.

### `Findings`, `Descent`, `Readers` -- what is read from the graph

`Findings` extends `Notes` with the checks of `checker.py` on scores of direct
edges (conflicting fork, orphaned retraction, dead justification, double
retraction, self-supersession), each as the set its findings name at one instant.
`PoolAccounted` relates them to the pool: a note served or withheld on a disputed
ground is always named by one of them.

`Descent` holds `check_cycles`'s in-degree search (`Popped`, `CycleFound`, `Stuck`)
and `_reachable` (`Descendants`, `Unlinked`) as recursive functions, beside their
declarative definitions (`PathFrom`, `OnCycle`). `Readers` runs them, and `read` and
`chain`, beside two writing servers: each SELECT is a step of one reader, in the
order of the code (the counts, the rows and the heads of `read`; nodes then edges
of `chain`; edges then notes of `check_cycles`; vectors then edges of
`check_suggested_links`). Two servers can close a cycle, so the algorithms are
exercised on cyclic graphs. Note texts, links and backlinks of a record are left
out; every note is taken to have its vector.

### `Embedding` -- vectors and their provenance

`vec` and `meta` name, per note, the model that *made* the vector held and the
model *recorded* for it. `writing` is the open `create_note` block: the backlog
is read on the writer's connection without its lock, so `Visible` includes its
row. `Look`, `Embed`, `StoreEmbedding` are the stages of `run_once`;
`QueryFails` is a query that starts the cooldown, `CoolOff` its end;
`EmbedCommand` and `ReembedCommand` are `seshat embed` and `seshat reembed`.
`created_at` is a rank, because the backlog is served oldest first.

### `Retrieval` -- `context`

`EmbedQuery` is outside the lock; `RankKeyword` and `RankVectors` are one SELECT
each over the pool of that moment, which `Reassess` of another process changes in
between; what a retriever makes of a query is *any* ranking (`Rankings`). `Fused`
is reciprocal rank fusion in exact fractions, `Hits` the sort with its tie-break
and the cut. `ListRecent` is the listing of a query with nothing to match.

### `Opening` and `Lookup` -- coming to serve, and resolving ids

A file is the `log` of its commits, of which `kept` are in the file itself and the
rest in its `-wal`. `Connect`, `SwitchJournal` (`PRAGMA journal_mode = WAL`: of two
openers of an empty file one may be refused as locked, `JournalLocked`),
`EnsureSchema`, `Create` (a statement of `SCHEMA` each: `executescript` commits them
one by one, and none says IF NOT EXISTS), `SetVersion`, `WriteMeta`, `EnsureTable` are
`Store.__init__`; `MoveFile` and `MoveWal` are the renames of `_reset`. `vector` is
the vector side of a process, which is on only if `note_vec` has the width of its own
embedder.

`Lookup` composes with it what `resolve` does in every process that serves: the
exact look, the cached near miss, the scan, the upsert, each a step. `WordDistance`
is the Levenshtein distance over words; what `split` and `loose_words` make of a
request is data (`Meant`). All processes open the store to write; `review`'s read-only one
answers from its scan in the same way and leaves no row (`_bump_near_miss` returns first),
so it adds nothing to what others see. `Nearest` and `Outcome` give one candidate, several, or
none.

## 3. What the runs check

| run | instance | checks |
|---|---|---|
| `snapshots_one_process` | 1 key, 2 worker threads, 2 humans before, after or without the hand-over, one process, a crash anywhere | `TypeOK`, `RawWitnessed`, `NothingLost`, `AttemptsBounded`, `ManualFinal`, `PromiseKept` |
| `snapshots_serve_and_review` | 1 key, worker in one process, 2 humans in another, all three kinds of body | `NoSilentHole`, `BytesImmutable`, `FilledOnce`, `BytesGetRead` |
| `preservation` | 2 links, a writer, a worker, a human who retries, acknowledges, re-extracts, a checker, a crash | `CapturesCited`, `LossReported`, `LostOnlyInHand`, `ReadingReproducible`, `StatusFollowsReading`, `ExpectationKept`, `QueueDrains` |
| `notes_one_process` | 3 ids, 2 threads, `supersedes` lists up to 2, 5 assessments of 0 or theta, a crash | `TypeOK`, `Acyclic`, `PoolAccounted`, `PriorReported`, `PoolDropsRecorded` |
| `notes_checked` | 3 ids, 2 servers, 3 assessments on both sides of theta, colliding stamps, a reader | `OwnHead`, `ChainConnected`, `CycleVerdict`, `SuggestedUnlinked`, `OneCurrentPerEdge`, `HistoryKept`, `ReassessmentWins` |
| `embedding_migration` | 3 notes, batches of 2, a server on one model, a command line on another, outages, a crash | `TypeOK`, `VectorsOnRecord`, `NoPhantomVector`, `EmbeddedEventually` |
| `lookup` | 2 processes of two widths, 2 statements, 3 ids of 2 words, 2 corrupted requests, a crash | `ServedIsWhole`, `AllServe`, `RowsTellTheTruth`, `SameCorrection`, `OneEditRecovered` |
| `retrieval` | 4 notes, all rankings of up to 3 of them, K = 2 | `BothBeatOne`, `BothSurvive` |

Each property of these runs is also checked to fail under a plausible bug of the
code (`mutants` in `PROJECT.json`; the mutated operators stand beside the ones
they replace).

Four runs end in a counterexample, and each is a finding:

| run | what happens |
|---|---|
| `snapshots_reextract` | `seshat reextract` clears a reading the browser supplied and puts the fetcher's interstitial back |
| `snapshots_paste_race` | the worker fills the room a paste has just made, and the pasted text is dropped |
| `notes_cycle` | two servers accept opposite edges: a cycle |
| `reset_archive` | after a crash, `seshat reset` parts the archived file from its `-wal`: notes in it cannot be read by hand |

### Bounds, and why they are enough

*Snapshots, Preservation.* Keys meet only in the list `run_once` walks (and
abandons on an exception), in the batch of a drain, in the global reset and in
the checker's sets; two keys show those. Interference on a key needs at most one
thread between another's read and write; two workers and two humans on one key
give every pair and three-way overlap. `MaxAttempts = 2` gives a deferral and a
give-up. One crash is enough for a fault between any two transactions followed by
arbitrary recovery.
*Notes, Readers.* Three notes give chains, diamonds without their tip, merges and
retroactive edges; a cycle or a headless note needs two, a closure with a hole
three. `Scores` has a value on each side of `Theta` (0, a retraction, where
`Findings` needs one). `Retries = 2` (the code has more) makes giving up reachable.
With `MaxClock = 0` in `notes_checked` every re-assessment collides with the one
before it; `notes_one_process` has the clock move as well. `Limit = 1` truncates.
*Embedding.* Three notes and batches of two put one note behind a batch; one
migration of at most two batches leaves a partial one behind.
*Lookup, Opening.* Two statements give a schema that is half there; three ids of
two words over three words hold a pair at distance 1 and one at distance 2, so
that a request is near one note, two, or none. A reset needs two files.
*Retrieval.* With `K = 2` and `Limit = 3 = K + 1` the claim is at its edge.

### Fairness

`FairSpec` of `Snapshots` is weakly fair to each worker thread (its loop polls for
as long as the process lives, so a crash is followed by the loop of the restarted
process) and to the completion of a request that began; `PFairSpec` of
`Preservation` adds the end of a `create_note` that committed, by a hand-over or by
its swallowed failure. `FairSpec` of `Embedding` is weakly fair to each worker, to
the end of a `with` block and to the passing of the cooldown. `LSpec` of `Lookup` is
weakly fair to an opening that began and to the client that starts its server
again. Nobody owes a note, a paste, a retry, a check, a query or a command; the
embedder owes no answer, so `EmbeddedEventually` is conditional on its staying up,
and `AllServe` on nobody being killed while the schema is half created. Liveness
of the snapshot side is checked without crashes where it needs them absent
(`BytesGetRead`): a body recorded but not read when the process dies is left to
`seshat extract`, which nobody owes. `Notes`, `Readers`, `Opening` and `Retrieval`
state no liveness and have no fairness; runs turn deadlock checking off where every
bounded request may be used up.

## 4. What is proved

| theorem | says | assumes |
|---|---|---|
| `SnapshotsProofs!TypeCorrect` | `[]TypeOK` | -- |
| `SnapshotsProofs!BytesWitnessed` | bytes always have their snapshot row | one process |
| `SnapshotsProofs!NoCaptureLost` | a target once handed over is queued, captured or acknowledged | one process |
| `SnapshotsProofs!PastesAreFinal` | no step changes or deletes a pasted row | one process |
| `SnapshotsProofs!BytesAreFinal` | bytes held never change and are never deleted | -- |
| `SnapshotsProofs!ReadingsAreFilledOnce` | no reading is overwritten in place | -- |
| `SnapshotsProofs!HolesAreShown` | a row without a text is in the backlog, in triage, waived or being filled | no process has died |
| `SnapshotsProofs!TriesAreBounded` | a target is deferred at most `MaxAttempts - 1` times, plus once for each further worker | finitely many workers |
| `PromiseProofs!PromiseIsKept` | `Snapshots` implements `Witnesses`, with repairs of any key at any time | one process |
| `PreservationProofs!CapturesAreCited` | nothing is queued, in a worker's hands or a failed fetch for a note that is not there | -- |
| `PreservationProofs!LossIsReported` | a check reports every target lost by then | one process |
| `PreservationProofs!LossIsInHand` | a target is lost only between the two databases | one process |
| `PreservationProofs!ExpectationsAreKept` | what was sought travels with the target | one process, no human text |
| `PreservationProofs!ReadingsAreReproducible` | a machine reading is what the extractor makes of the bytes | one process, no human text, one worker |
| `PreservationProofs!StatusesFollowReadings` | the status is the one that reading calls for | the same |
| `NotesProofs!TypeCorrect` | `[]TypeOK` | -- |
| `NotesProofs!SupersessionIsAcyclic` | the graph stays a DAG | one process |
| `NotesProofs!LatestWins` | a re-assessment outranks the one in force when it began | monotone clock |
| `NotesProofs!HistoryIsAppendOnly` | no assessment is changed or removed | -- |
| `NotesProofs!OneRowOfEachEdge` | the supersession view has exactly one row of every assessed edge | -- |
| `NotesProofs!DropsLeaveARow` | a note leaves the pool by a row of its own below the threshold | -- |
| `NotesProofs!PriorIsTheOneReplaced` | `previous_retained` is the score replaced | one process |
| `ReadersProofs!NothingServedInSilence` | a note served or withheld on a disputed ground is a finding | `Theta # 0` |
| `ReadersProofs!HeadsAreReadLast` | no record names its note as head beside what supersedes it | -- |
| `ReadersProofs!ChainsAreConnected` | a chain is connected by the edges handed out with it | -- |
| `ReadersProofs!CyclesAreFound` | `check_cycles` fires exactly on cycles and names every note on one | finitely many ids |
| `ReadersProofs!SuggestionsAreUnlinked` | the pairs compared are exactly those without a path | finitely many ids |
| `ReadersProofs!EveryNoteHasAHead` | `heads` of any note is never empty | one process, finitely many ids |
| `OpeningProofs!WholeStoresAreServed` | who serves has the whole schema, and `note_vec` at its own width | no reset, a sound store to begin with |
| `OpeningProofs!LookupsServeWhole` | the same of `Lookup`, where no reset happens | a sound store to begin with |
| `OpeningProofs!MissesAreTrue` | what a near_miss row says is so | a sound store to begin with |
| `OpeningProofs!OneEditIsRecovered` | the candidates are exactly the ids one edit away | the same, `Radius = 1` |
| `OpeningProofs!CorrectionsAgree` | no request is corrected to two notes | the same, `Radius <= 1` |
| `EmbeddingProofs!TypeCorrect` | `[]TypeOK`, with `max_batches` | -- |
| `EmbeddingProofs!VectorsAreOnRecord` | the model recorded is the one that made the vector | whoever clears can load the extension |
| `EmbeddingProofs!NoPhantoms` | a vector belongs to a committed note | -- |
| `RetrievalProofs!AgreementDecides` | a note found by both precedes a note found by one | `Limit <= K + 1` |
| `RetrievalProofs!AgreementSurvives` | the cut drops no note found by both | `Limit <= K + 1` |

All rest on the named assumption of their module (`SnapshotsAssumption`,
`NotesAssumption`, `ReadersAssumption`, `EmbeddingAssumption`, `RetrievalAssumption`,
`OpeningAssumption`, `LookupAssumption`): disjoint sets of threads, a process for each,
`None` outside every type, natural bounds. The hypotheses are those under which the
property is true:

* "One process" is `OneProcess`: without it `ManualFinal`, `Acyclic` and `PriorReported`
  fail, by a write between another process's read and its own, and the invariants of the
  capture side that follow such a read are not kept.
* "No human text" is `FetcherOnly`, as in the run `preservation`: a paste makes a row that
  has no expectation, and a browser's body is read by another route. "One worker": a
  second one reads the body *it* fetched into a row that stands over the first one's.
* "No process has died": a paste is two transactions, and a death between them leaves a
  row that nothing shows.
* `Theta # 0`: with a threshold of 0 a retraction keeps its note in the pool by design.
* "Finitely many ids" is `IsFiniteSet(Ids)`; the code has 2048^4.
* "A sound store to begin with" is `FoundSound`: what is found at the path was left by
  openings like these, so the version is set only where every statement is there, and
  there is at most one `note_vec`. An empty path and a half created schema both are.
* `Radius = 1` is `RECOVERY_RADIUS`.

*Snapshots.* The invariants are not inductive: `RecordWrite` deletes a queue row on
the strength of a read some steps before. `IInv` adds `LockInv` (a thread between
its read and its write holds its process's lock), `SeenInv` (what it read is still
true) and `StoreInv` (bytes imply a row, every known key is somewhere, and a pasted
row has status `ok`, which is what keeps it out of a retry's reach). With one process,
`LockInv` makes at most one thread stand there, so nobody else writes; that gives
`SeenInv`, and `SeenInv` is what makes each write safe. `ThreadOK` ties what a thread
carries to where it stands.

`HolesAreShown` is inductive once it says which thread is *coming* to fill an unread row
(`Awaiting`, `Coming`). `TriesAreBounded` counts: the attempts on a key plus the workers
that passed `_retriable` and stand before `defer` never exceed the bound (`AttemptInv`).

`BytesAreFinal` and `ReadingsAreFilledOnce` need no lock and hold for any number of
processes: a plain INSERT that conflicts, an INSERT OR IGNORE and `extraction IS NULL`
are each one statement.

*The refinement.* `PInv` adds to `IInv` that what is queued, in a worker's hands or a
failure without bytes was handed over (`CitedInv`), and that a row marked `manual`
holds a human's text, as does the human about to store one (`TextRows`, `TextHands`).
`CitedInv` rests on no check of the human operations, for they make none, and on no
lock: only `create_note` queues a new key, a failed fetch is the worker's, `retry`
needs a failure without bytes, and a row a human makes is `ok`, or `thin` over bytes.
`MoveIsAbstract` reduces a step to the one key it touches: if that key moves as
`Witness`, `Retry` or `Waive` lets it and every other key stands still, the step is
one of `Witnesses`. Each transaction then has a lemma (`KeptRecord`, `KeptRequeue`,
...), and the hand-over, which moves all targets of a note, its own (`KeptEnqueue`);
`SeenInv` is what makes `Requeue` a `Retry`, and `NothingLost` what makes an
acknowledgement a `Waive`.

*The composition.* `CapturesAreCited` needs only `CitedInv` and that what the capture side
knows was committed, so it holds for any number of processes. `CInv` is `PInv` with
`HandoverInv`: what the capture side knows was committed, what a writer has in hand was
committed, what a check found was handed over or has a row. A row of a
key that was not handed over is a human's and never goes away (`UncitedRowsStay`). A target
that is lost is therefore in neither of the lists the check read before, which is
`LossReported`; no snapshot common to the two databases is needed. `ExpectationInv`
adds what `record` and `retry` carry from a read to a write; it speaks of keys nobody
waived, because an acknowledgement drops the queue row and its expectation with it.
`ReadingInv` is what makes a machine reading reproducible: a key that is queued, listed or
in the worker's hands has no row yet, so the worker always records into a fresh one, over
the bytes it is about to read; and what a drain carries is what is held.

*Notes.* `Acyclic` needs to know, at `Insert`, that the check made at `CheckCycle` still
holds. `DagInv` has `LockInv`, `Grounded` (edges run between existing notes) and
`Acyclic`; an edge `(a, b)` added where `b` does not reach `a` keeps acyclicity
(`EdgeKeepsAcyclic`, by the closed set of what `b` reaches), and so do edges into a
fresh note, from which nothing leaves (`FreshNoteKeepsAcyclic`).
`LatestWins` holds for any number of processes: `StampInv` says that, from the prior
assessment up to a stamp being tried, every slot in between is taken, so a stamp that
was not after the prior would be taken too and cannot be inserted. `OneRowOfEachEdge`
needs that the rows are unique by edge and stamp and that the stamps have a bound
(`KeyInv`), hence a greatest; `DropsLeaveARow` compares the pool before and after a row is
added by that greatest stamp; `PriorIsTheOneReplaced` needs the lock (`PriorInv`).

*What is read.* A record's counts are evidence of edges, and edges are never removed, so
when `heads` is read at last the note has one if anything was counted (`RecordInv`). For a
chain, `NodesInv` keeps the edges that its nodes came from; every path to a node of the
chain runs inside it (`ChainHolds`), so edges read later and cut down to the chain still
hold it. The graph algorithms are recursive functions over rounds. That there is such a
function is shown by a least number of rounds for which there is none (`RoundsExist`);
what every round satisfies, likewise (`EveryRound`). Rounds that only add, and add what
the last one determines, have come to rest after as many rounds as there are ids
(`RoundsRest`): until they rest, each adds a member. So `Descendants` is closed, hence
exactly what paths lead to (`DescendantsArePaths`), and `Popped` is the least set that
holds every note whose predecessors it holds (`PoppedMeans`). A note on a cycle has a
predecessor on it (`CycleGoesBack`), so none is ever popped; and finitely many notes each
with a predecessor among them hold a cycle (`NoSourceNoEnd`, at a smallest such set), so if
some note is never popped there is one. `CheckInv` carries this over the SELECTs: nodes
are read after edges, and only grow. `EveryNoteHasAHead` turns the graph round: notes
that lead to no head would each have a successor among them, hence a cycle.

*Opening.* `Calm` is the state of a store nobody reset: one file with one `-wal` and every
connection to it, the version set only where the schema stands (`VersionedWhole`), at most
one `note_vec` (`OneTable`), and for each process what it has passed on its way
(`Passed`). Files only gain commits (`Grows`), so what was passed stays true.

*Lookup.* `WordDistance` is a table over pairs, and the prover has no induction over
it; that the table exists and what its cells say is shown by the least counterexample,
over the sum of row and column (`TableExists`, `TableNumbers`, `TableZero`,
`TableOne`, `TableLengths`). `DistanceMeans` then says, for word lists of any length,
that the distance is a number, 0 exactly if they are equal, at most 1 exactly if they
are the same but for one place (`OneApart`), and no less than the difference of their
lengths, which is the filter of `nearest`. `EditedIsOneApart` ties this to the edits a
person makes. `LookInv` is `Calm` with `CallsTrue` and `RowsTrue`: a row is true in
the table, and already in the hands of the process about to write it, because notes
are only added. `Corrected` says that whatever is given, cached or in hand for a
request is one and the same note: only a scan offers anything new, its one candidate
is at distance 1 and the only note within reach, and whatever was offered before is
still there and would have been in reach too. No triangle inequality is needed.

*Embedding.* `TypeInv` adds that a server's worker never ends and that a drain which
goes round again has a batch left. The two other invariants are inductive on top
of it: the foreign key closes the gap the unlocked read opens, and vector and
provenance share a transaction.

*Retrieval.* `RInv` says that both rankings are rankings of at most `Limit` notes and
that the answer is a cut of their fusion. Two ranks up to `Limit <= K + 1` give
denominators up to `2K + 1`, so the sum of their reciprocals exceeds `1 / (K + 1)`,
the best score of a single find (`SumOfTwo`); hence order. A note found by both could
only be cut by `Limit` others that precede it, which then are all found by both: more
notes than a ranking holds. The pool plays no part, so nothing that other processes
do between the SELECTs matters.

Only model-checked: the liveness properties `BytesGetRead`, `QueueDrains`,
`EmbeddedEventually` and `AllServe`, since fairness and `ENABLED` are beyond the prover;
that the four findings of section 3 are violations, which are single behaviours; and that
the bounded instances reach every action. Every invariant and action property of the
passing runs is a theorem, under the hypotheses above, each of which its run satisfies. No
module uses RECURSIVE: recursion is by recursive functions, and what is needed of them was
proved without an induction rule, by least counterexample.

Two remarks on scope. `PoolDropsRecorded` states precisely what the specification's
"adding edges can only gain membership" (5.2) must mean: a note's *first* edge
replaces the default of 1.0 and may drop it. And the clock of `Notes` never goes
back; `now()` is the wall clock and the code does not guard against one set back.

## 5. What the models show of the code besides

Behaviours met while modelling which no run of its own reports:

* `retry` reads the row outside its transaction (`snapshots.py:843-873`), so with
  `serve` and `review` in separate processes a paste that lands in between is
  deleted with the row. `ManualFinal` and `PromiseKept` are stated for one process.
* A crash between the note's commit and the hand-over (`store.py:537-540`) leaves the
  note without its captures, in no queue. `preservation` shows that this is the only
  place where a capture is lost, and that the checker reports it; it may also report
  "preservation failed silently" of a hand-over that is merely in flight.
* Two servers on different embedding models overwrite each other's oldest batch for
  ever; what is behind it is never embedded (`store.py:978`).
* A process killed inside `executescript` leaves tables with `user_version` 0: every
  later opener fails on `table ... already exists` (`store.py:410`).
* When `note_vec` has another width, the warning advises `seshat reembed`
  (`store.py:364`), but `clear_embeddings` never drops the table, so the width stays.
* `fuse` says a note found by both retrievers outscores one found by either
  (`store.py:243`). That holds up to a limit of `RRF_K + 1 = 61`; `context` takes any
  limit (`server.py:311`), and two finds at rank 150 lose to one at rank 1.
* `/api/capture` creates its note before `record_browser` (`review.py:611-613`); if the
  second fails and the user tries again, there are two notes.

## 6. What is not modelled, and why

* Parsing and rendering: HTML extraction, links, markdown, FTS queries, review
  pages, tool help. Pure string work with no state; where its outcome decides
  something it is a constant (`Reads`, `Expected`, `Meant`).
* Access control of single requests (origin, token, bind address, refused targets):
  stateless predicates over strings.
* Checks that compare texts (no-op supersession, description fix, expectation) or
  that are one outer join (dangling links); the budget and wording of the report.
* `reindex`: it rebuilds `link` from texts nobody changes.
* The creation and additive upgrade of the snapshot database: every statement is
  IF NOT EXISTS or follows a look at the columns.
* The extension and the evaluation scripts: clients without state.

## 7. Plan

The models of the first plan are built, and their safety properties proved. What is left,
in order of importance:

1. `HolesAreShown` after a death: that the hole a death between the two transactions of a
   paste leaves is the only one.
2. `ReadingsAreReproducible` with humans: that what a browser captured is read from the
   bytes it captured, wherever no later fetch has its own.
3. The number of corrections with a larger radius: `SameCorrection` is stated for
   `RECOVERY_RADIUS`, and fails at two.
