------------------------------- MODULE Snapshots -------------------------------
(***************************************************************************)
(* The capture side of seshat: SnapshotStore and SnapshotWorker of         *)
(* src/seshat/snapshots.py, driven by every caller the repository has --   *)
(* the MCP server's worker thread, `seshat fetch`, the review interface    *)
(* and the command line -- over one snapshot database.                     *)
(*                                                                         *)
(* A key stands for a (note_id, target) pair, the primary key of all four  *)
(* tables.  One action is one transaction of the store, except where a     *)
(* handler reads before its first write: Python's sqlite3 opens the        *)
(* transaction at that first write, so the read and the write are two      *)
(* steps, held together only by the process's own _lock.                   *)
(***************************************************************************)
EXTENDS Naturals, FiniteSets

CONSTANTS
    Keys,          \* (note_id, target) pairs
    Workers,       \* threads running SnapshotWorker.run_once
    Humans,        \* threads serving one paste, repair, retry, ... at a time
    Processes,     \* each holds one SnapshotStore, hence one _lock
    ProcessOf,     \* the process a thread belongs to
    Bodies,        \* byte strings a fetch or a DOM capture may hold
    Doms,          \* those a browser capture may hold: a rendered DOM
    Reads,         \* what extract() makes of a body: "full", "thin", "failed"
    Texts,         \* texts a human may supply
    Expected,      \* the expectation create_note derives for a key, or None
    HumanOps,      \* which of the human operations the deployment uses
    MaxAttempts,   \* SnapshotWorker.max_attempts
    MaxCrashes,    \* bound on the number of process crashes explored
    None           \* SQL NULL, an absent row, an unheld lock

Actors == Workers \cup Humans

Statuses == {"ok", "gone", "unreachable", "thin"}
Machine  == {"fetch", "failed"}
Human    == {"browser", "manual"}
Expectations == {Expected[k] : k \in Keys} \cup {None}

\* Columns of one snapshot row and of one queue row that a decision reads.
\* A text is named by what it was read from: a body, or a human's text.
SnapshotRow == [status      : Statuses,
                extraction  : Machine \cup Human \cup {None},
                text        : Bodies \cup Texts \cup {None},
                expectation : Expectations]
QueueRow == [attempts : Nat, expectation : Expectations]

\* What http_fetch returns: only "ok" carries a body.
Fetched == [status : {"ok"}, body : Bodies]
             \cup [status : {"gone", "unreachable"}, body : {None}]

\* An Extraction about to be stored; status None keeps the row's own.
Reading == [by     : Machine \cup Human,
            text   : Bodies \cup Texts \cup {None},
            status : Statuses \cup {None}]

ASSUME SnapshotsAssumption ==
    /\ Workers \cap Humans = {}
    /\ ProcessOf \in [Actors -> Processes]
    /\ Doms \subseteq Bodies
    /\ Reads \in [Bodies -> {"full", "thin", "failed"}]
    /\ DOMAIN Expected = Keys
    /\ MaxAttempts \in Nat \ {0}
    /\ MaxCrashes \in Nat
    /\ None \notin Keys \cup Actors \cup Bodies \cup Texts \cup Statuses
                     \cup Machine \cup Human
    /\ None \notin SnapshotRow \cup QueueRow \cup Fetched \cup Reading

VARIABLES
    queue,         \* fetch_queue
    snapshot,      \* snapshot
    raw,           \* raw: the body held for a key
    ack,           \* acknowledgement
    known,         \* keys create_note has handed over (history)
    lock,          \* SnapshotStore._lock of each process
    pc,            \* where each thread stands
    key,           \* the key a thread is working on
    got,           \* the fetch result or the human's reading it carries
    seen,          \* what it read before its transaction began
    todo,          \* run_once: keys of the pending() list not yet tried
    batch,         \* drain_extraction: captures of the batch not yet read
    progressed,    \* drain_extraction: whether the batch changed anything
    crashes        \* number of crashes so far

store   == <<queue, snapshot, raw, ack, known>>
threads == <<pc, key, got, seen, todo, batch, progressed>>
vars    == <<store, lock, threads, crashes>>

NothingSeen == [existing |-> FALSE, expectation |-> None]

Init ==
    /\ queue      = [k \in Keys |-> None]
    /\ snapshot   = [k \in Keys |-> None]
    /\ raw        = [k \in Keys |-> None]
    /\ ack        = {}
    /\ known      = {}
    /\ lock       = [p \in Processes |-> None]
    /\ pc         = [a \in Actors |-> "idle"]
    /\ key        = [a \in Actors |-> None]
    /\ got        = [a \in Actors |-> None]
    /\ seen       = [a \in Actors |-> NothingSeen]
    /\ todo       = [w \in Workers |-> {}]
    /\ batch      = [h \in Humans |-> {}]
    /\ progressed = [h \in Humans |-> FALSE]
    /\ crashes    = 0

--------------------------------------------------------------------------------
(* Row operations: the SQL each transaction is made of. *)

NewRow(status, expectation) ==
    [status |-> status, extraction |-> None, text |-> None,
     expectation |-> expectation]

\* Mutants of Filled: the WHERE clause dropped; COALESCE dropped.
FilledAnyway(row, reading) ==
    IF row # None
    THEN [row EXCEPT !.extraction = reading.by, !.text = reading.text]
    ELSE row
FilledStatusNull(row, reading) ==
    IF row # None /\ row.extraction = None
    THEN [row EXCEPT !.extraction = reading.by, !.text = reading.text,
                     !.status = reading.status]
    ELSE row

\* UPDATE ... WHERE extraction IS NULL: a snapshot is filled, not rewritten.
Filled(row, reading) ==
    IF row # None /\ row.extraction = None
    THEN [row EXCEPT !.extraction = reading.by,
                     !.text       = reading.text,
                     !.status     = IF reading.status = None
                                    THEN row.status ELSE reading.status]
    ELSE row

\* Mutant of ReadingOf: a `failed:` marker that leaves the row `ok`.
ReadingOfFailureOk(body) ==
    [by     |-> IF Reads[body] = "failed" THEN "failed" ELSE "fetch",
     text   |-> IF Reads[body] = "failed" THEN None ELSE body,
     status |-> IF Reads[body] = "thin" THEN "thin" ELSE None]

\* extract_one: thin when structure says so, `failed:` when extract() raises.
ReadingOf(body) ==
    [by     |-> IF Reads[body] = "failed" THEN "failed" ELSE "fetch",
     text   |-> IF Reads[body] = "failed" THEN None ELSE body,
     status |-> IF Reads[body] = "full" THEN None ELSE "thin"]

\* _clear_machine_reading: title and text stay until something is stored.
ClearedForHuman(row) ==
    IF row.extraction \in Machine THEN [row EXCEPT !.extraction = None] ELSE row

\* Mutants of ResetRow: pasted text reset too; rows without bytes reset too.
ResetRowPasted(row, held, only) ==
    IF row # None /\ held /\ only \in {None, row.extraction}
    THEN [row EXCEPT !.extraction = None, !.text = None]
    ELSE row
ResetRowBare(row, held, only) ==
    IF row # None /\ row.extraction \notin {None, "manual"} /\ only \in {None, row.extraction}
    THEN [row EXCEPT !.extraction = None, !.text = None]
    ELSE row

\* reset_extraction: everything but `manual`, where bytes are held.
ResetRow(row, held, only) ==
    IF /\ row # None
       /\ held
       /\ row.extraction \notin {None, "manual"}
       /\ only \in {None, row.extraction}
    THEN [row EXCEPT !.extraction = None,
                     !.text       = None,
                     !.status     = IF @ = "thin" THEN "ok" ELSE @]
    ELSE row

\* Mutants: a deferral that does not count, or drops the row; a retry that forgets
\* what was sought.
DeferredUncounted(row) == row
DeferredAway(row)      == None
RequeuedBlank(expectation) == [attempts |-> 0, expectation |-> None]

\* defer, and the row retry puts back: the expectation travels with the key.
Deferred(row) == [row EXCEPT !.attempts = @ + 1]
Requeued(expectation) == [attempts |-> 0, expectation |-> expectation]

InBacklog(k) == snapshot[k] # None /\ snapshot[k].extraction = None /\ raw[k] # None
\* failures(): what the review interface puts before a human.
InTriage(k) == snapshot[k] # None /\ snapshot[k].status # "ok" /\ k \notin ack

Free(a) == lock[ProcessOf[a]] = None
Queued(k) == queue[k] # None

\* The thread is done with what it was doing.
Idle(a) ==
    /\ pc'   = [pc   EXCEPT ![a] = "idle"]
    /\ key'  = [key  EXCEPT ![a] = None]
    /\ got'  = [got  EXCEPT ![a] = None]
    /\ seen' = [seen EXCEPT ![a] = NothingSeen]

\* run_once's `for`: on to the next pending key, or out of the loop.
NextCapture(w) ==
    /\ pc'   = [pc   EXCEPT ![w] = IF todo[w] = {} THEN "idle" ELSE "next"]
    /\ key'  = [key  EXCEPT ![w] = None]
    /\ got'  = [got  EXCEPT ![w] = None]
    /\ seen' = [seen EXCEPT ![w] = NothingSeen]
    /\ UNCHANGED <<todo, batch, progressed>>

--------------------------------------------------------------------------------
(* The write path: create_note commits a note and queues its targets. *)

\* All targets of one note in one transaction.  A note is written once; what a
\* human did under its keys before the hand-over stays.
Enqueue(p, targets) ==
    /\ targets # {} /\ targets \cap known = {}
    /\ lock[p] = None
    /\ known' = known \cup targets
    /\ queue' = [k \in Keys |->
                   IF k \in targets /\ queue[k] = None
                   THEN [attempts |-> 0, expectation |-> Expected[k]]
                   ELSE queue[k]]
    /\ UNCHANGED <<snapshot, raw, ack, lock, threads, crashes>>

--------------------------------------------------------------------------------
(* SnapshotWorker.run_once. *)

ListPending(w) ==
    /\ pc[w] = "idle"
    /\ Free(w)
    /\ {k \in Keys : Queued(k)} # {}
    /\ todo' = [todo EXCEPT ![w] = {k \in Keys : Queued(k)}]
    /\ pc'   = [pc EXCEPT ![w] = "next"]
    /\ UNCHANGED <<store, lock, key, got, seen, batch, progressed, crashes>>

\* The fetch holds no lock; every other thread may move while it is out.
Fetch(w, k, result) ==
    /\ pc[w] = "next"
    /\ k \in todo[w]
    /\ todo' = [todo EXCEPT ![w] = @ \ {k}]
    /\ key'  = [key EXCEPT ![w] = k]
    /\ got'  = [got EXCEPT ![w] = result]
    /\ pc'   = [pc EXCEPT ![w] =
                  IF result.status = "unreachable" THEN "retriable" ELSE "record"]
    /\ UNCHANGED <<store, lock, seen, batch, progressed, crashes>>

\* Mutant of Retriable: off by one.
RetriableOnceMore(k) == Queued(k) /\ queue[k].attempts + 1 <= MaxAttempts

\* _retriable reads without taking _lock.
Retriable(k) == Queued(k) /\ queue[k].attempts + 1 < MaxAttempts

DecideRetry(w) ==
    /\ pc[w] = "retriable"
    /\ pc' = [pc EXCEPT ![w] = IF Retriable(key[w]) THEN "defer" ELSE "record"]
    /\ UNCHANGED <<store, lock, key, got, seen, todo, batch, progressed, crashes>>

Defer(w) ==
    /\ pc[w] = "defer"
    /\ Free(w)
    /\ queue' = [queue EXCEPT ![key[w]] =
                   IF @ = None THEN None ELSE Deferred(@)]
    /\ NextCapture(w)
    /\ UNCHANGED <<snapshot, raw, ack, known, lock, crashes>>

\* Mutant of RecordRead: the reads moved out of the lock.
RecordReadUnlocked(w) ==
    /\ pc[w] = "record"
    /\ seen' = [seen EXCEPT ![w].existing = snapshot[key[w]] # None]
    /\ pc'   = [pc EXCEPT ![w] = "sought"]
    /\ UNCHANGED <<store, lock, key, got, todo, batch, progressed, crashes>>

\* record's first SELECT: is there a snapshot?
RecordRead(w) ==
    /\ pc[w] = "record"
    /\ Free(w)
    /\ lock' = [lock EXCEPT ![ProcessOf[w]] = w]
    /\ seen' = [seen EXCEPT ![w].existing = snapshot[key[w]] # None]
    /\ pc'   = [pc EXCEPT ![w] = "sought"]
    /\ UNCHANGED <<store, key, got, todo, batch, progressed, crashes>>

\* Its second: what was sought?
RecordSought(w) ==
    /\ pc[w] = "sought"
    /\ seen' = [seen EXCEPT ![w].expectation =
                  IF Queued(key[w]) THEN queue[key[w]].expectation ELSE None]
    /\ pc'   = [pc EXCEPT ![w] = "write"]
    /\ UNCHANGED <<store, lock, key, got, todo, batch, progressed, crashes>>

\* The INSERTs of record violate a primary key: another process got there
\* between the reads and the transaction, or left bytes under this key.
Conflicts(w) ==
    /\ ~seen[w].existing
    /\ \/ snapshot[key[w]] # None
       \/ got[w].body # None /\ raw[key[w]] # None

\* Mutants: only readable bodies kept; the reading left for another day.
WithReadableBytes(held, result) ==
    IF result.body = None THEN held
    ELSE IF Reads[result.body] = "failed" THEN held ELSE result.body
ReadsLater(result) == FALSE

WithBytes(held, result) == IF result.body = None THEN held ELSE result.body
ReadsNow(result) == result.body # None      \* extract_now is on everywhere

RecordWrite(w) ==
    /\ pc[w] = "write"
    /\ ~Conflicts(w)
    /\ IF seen[w].existing
       THEN UNCHANGED <<snapshot, raw>>
       ELSE /\ snapshot' = [snapshot EXCEPT ![key[w]] =
                              NewRow(got[w].status, seen[w].expectation)]
            /\ raw' = [raw EXCEPT ![key[w]] = WithBytes(@, got[w])]
    /\ queue' = [queue EXCEPT ![key[w]] = None]
    /\ lock'  = [lock EXCEPT ![ProcessOf[w]] = None]
    /\ IF ReadsNow(got[w])
       THEN /\ pc' = [pc EXCEPT ![w] = "extract"]
            /\ UNCHANGED <<key, got, seen, todo, batch, progressed>>
       ELSE NextCapture(w)
    /\ UNCHANGED <<ack, known, crashes>>

\* IntegrityError: rolled back, and it leaves run_once with the rest untried.
RecordConflict(w) ==
    /\ pc[w] = "write"
    /\ Conflicts(w)
    /\ lock' = [lock EXCEPT ![ProcessOf[w]] = None]
    /\ todo' = [todo EXCEPT ![w] = {}]
    /\ Idle(w)
    /\ UNCHANGED <<store, batch, progressed, crashes>>

\* The worker reads the body it fetched, whether or not record stored it.
ExtractFetched(w) ==
    /\ pc[w] = "extract"
    /\ Free(w)
    /\ snapshot' = [snapshot EXCEPT ![key[w]] = Filled(@, ReadingOf(got[w].body))]
    /\ NextCapture(w)
    /\ UNCHANGED <<queue, raw, ack, known, lock, crashes>>

--------------------------------------------------------------------------------
(* Human operations, from the review interface, its extension and the CLI. *)

\* Neither the command line nor the review interface asks whether a note cites
\* the target, or whether it was ever handed over.
Begin(h, op) ==
    /\ op \in HumanOps
    /\ pc[h] = "idle"
    /\ Free(h)

\* paste, first transaction: a row to hold the text, and room in it.
Paste(h, k, text) ==
    /\ Begin(h, "paste")
    /\ snapshot' = [snapshot EXCEPT ![k] =
                      ClearedForHuman(IF @ = None THEN NewRow("ok", None) ELSE @)]
    /\ key' = [key EXCEPT ![h] = k]
    /\ got' = [got EXCEPT ![h] = [by |-> "manual", text |-> text, status |-> "ok"]]
    /\ pc'  = [pc  EXCEPT ![h] = "fill"]
    /\ UNCHANGED <<queue, raw, ack, known, lock, seen, todo, batch, progressed, crashes>>

\* Mutant of HeldAfter: INSERT OR REPLACE.
HeldReplaced(held, html) == IF html = None THEN held ELSE html

\* INSERT OR IGNORE INTO raw: the DOM never displaces a fetcher's bytes.
HeldAfter(held, html) == IF held = None THEN html ELSE held

\* record_browser, first transaction.  A rendered DOM that is large beside its
\* text is thin; without a DOM the two lengths agree and it cannot be.
RecordBrowser(h, k, text, html, expectation, status) ==
    /\ Begin(h, "browser")
    /\ status = "thin" => html # None
    /\ snapshot' = [snapshot EXCEPT ![k] =
                      ClearedForHuman(IF @ = None THEN NewRow(status, expectation) ELSE @)]
    /\ raw'   = [raw EXCEPT ![k] = HeldAfter(@, html)]
    /\ queue' = [queue EXCEPT ![k] = None]
    /\ key'   = [key EXCEPT ![h] = k]
    /\ got'   = [got EXCEPT ![h] = [by |-> "browser", text |-> text, status |-> status]]
    /\ pc'    = [pc  EXCEPT ![h] = "fill"]
    /\ UNCHANGED <<ack, known, lock, seen, todo, batch, progressed, crashes>>

\* The second transaction of both: store_extraction.
StoreHuman(h) ==
    /\ pc[h] = "fill"
    /\ Free(h)
    /\ snapshot' = [snapshot EXCEPT ![key[h]] = Filled(@, got[h])]
    /\ Idle(h)
    /\ UNCHANGED <<queue, raw, ack, known, lock, todo, batch, progressed, crashes>>

\* Mutant of MayRequeue: the check for bytes held dropped.
MayRequeueHeld(k) == snapshot[k] # None /\ snapshot[k].status # "ok"

\* retry reads status, then raw; only a failure that holds no bytes goes on.  One
\* step stands for both SELECTs: bytes only ever come (BytesImmutable), so where
\* the second finds none there were none at the first, and where it finds some
\* retry does nothing.
MayRequeue(k) == snapshot[k] # None /\ snapshot[k].status # "ok" /\ raw[k] = None

RetryRead(h, k) ==
    /\ Begin(h, "retry")
    /\ MayRequeue(k)
    /\ lock' = [lock EXCEPT ![ProcessOf[h]] = h]
    /\ key'  = [key  EXCEPT ![h] = k]
    /\ seen' = [seen EXCEPT ![h] =
                  [existing |-> TRUE, expectation |-> snapshot[k].expectation]]
    /\ pc'   = [pc   EXCEPT ![h] = "requeue"]
    /\ UNCHANGED <<store, got, todo, batch, progressed, crashes>>

Requeue(h) ==
    /\ pc[h] = "requeue"
    /\ snapshot' = [snapshot EXCEPT ![key[h]] = None]
    /\ queue' = [queue EXCEPT ![key[h]] =
                   Requeued(seen[h].expectation)]
    /\ lock'  = [lock EXCEPT ![ProcessOf[h]] = None]
    /\ Idle(h)
    /\ UNCHANGED <<raw, ack, known, todo, batch, progressed, crashes>>

Acknowledge(h, k) ==
    /\ Begin(h, "acknowledge")
    /\ ack'   = ack \cup {k}
    /\ queue' = [queue EXCEPT ![k] = None]
    /\ UNCHANGED <<snapshot, raw, known, lock, threads, crashes>>

\* `seshat reextract`: reset_extraction, then a drain.
Reextract(h, only) ==
    /\ Begin(h, "reextract")
    /\ snapshot' = [k \in Keys |-> ResetRow(snapshot[k], raw[k] # None, only)]
    /\ pc' = [pc EXCEPT ![h] = "drain"]
    /\ UNCHANGED <<queue, raw, ack, known, lock, key, got, seen, todo, batch,
                   progressed, crashes>>

\* `seshat extract`: the drain alone.
Extract(h) ==
    /\ "extract" \in HumanOps
    /\ pc[h] = "idle"
    /\ pc' = [pc EXCEPT ![h] = "drain"]
    /\ UNCHANGED <<store, lock, key, got, seen, todo, batch, progressed, crashes>>

\* needs_extraction; the limits of 32 and 1000 are above any instance checked.
ReadBacklog(h) ==
    /\ pc[h] = "drain"
    /\ Free(h)
    /\ batch' = [batch EXCEPT ![h] = {<<k, raw[k]>> : k \in {j \in Keys : InBacklog(j)}}]
    /\ progressed' = [progressed EXCEPT ![h] = FALSE]
    /\ pc' = [pc EXCEPT ![h] = IF \E k \in Keys : InBacklog(k) THEN "read" ELSE "idle"]
    /\ UNCHANGED <<store, lock, key, got, seen, todo, crashes>>

\* One capture of the batch; a drain that changed nothing gives up.
ExtractNext(h, k, body) ==
    /\ pc[h] = "read"
    /\ Free(h)
    /\ <<k, body>> \in batch[h]
    /\ LET row  == Filled(snapshot[k], ReadingOf(body))
           more == progressed[h] \/ row # snapshot[k]
           rest == batch[h] \ {<<k, body>>}
       IN  /\ snapshot'   = [snapshot EXCEPT ![k] = row]
           /\ batch'      = [batch EXCEPT ![h] = rest]
           /\ progressed' = [progressed EXCEPT ![h] = more /\ rest # {}]
           /\ pc' = [pc EXCEPT ![h] = IF rest # {} THEN "read"
                                      ELSE IF more THEN "drain" ELSE "idle"]
    /\ UNCHANGED <<queue, raw, ack, known, lock, key, got, seen, todo, crashes>>

--------------------------------------------------------------------------------
(* A process ends: killed, or stopped between two captures (stop, _stop).  An *)
(* open transaction is rolled back, and what the threads carried is gone.     *)

Crash(p) ==
    /\ crashes < MaxCrashes
    /\ \E a \in Actors : ProcessOf[a] = p /\ pc[a] # "idle"
    /\ crashes' = crashes + 1
    /\ lock' = [lock EXCEPT ![p] = None]
    /\ pc'   = [a \in Actors |-> IF ProcessOf[a] = p THEN "idle" ELSE pc[a]]
    /\ key'  = [a \in Actors |-> IF ProcessOf[a] = p THEN None ELSE key[a]]
    /\ got'  = [a \in Actors |-> IF ProcessOf[a] = p THEN None ELSE got[a]]
    /\ seen' = [a \in Actors |-> IF ProcessOf[a] = p THEN NothingSeen ELSE seen[a]]
    /\ todo' = [w \in Workers |-> IF ProcessOf[w] = p THEN {} ELSE todo[w]]
    /\ batch' = [h \in Humans |-> IF ProcessOf[h] = p THEN {} ELSE batch[h]]
    /\ progressed' = [h \in Humans |-> IF ProcessOf[h] = p THEN FALSE ELSE progressed[h]]
    /\ UNCHANGED store

WorkerStep(w) ==
    \/ ListPending(w)
    \/ \E k \in Keys, result \in Fetched : Fetch(w, k, result)
    \/ DecideRetry(w)
    \/ Defer(w)
    \/ RecordRead(w)
    \/ RecordSought(w)
    \/ RecordWrite(w)
    \/ RecordConflict(w)
    \/ ExtractFetched(w)

\* A request that has begun: its thread runs it to the end.
HumanFinish(h) ==
    \/ StoreHuman(h)
    \/ Requeue(h)
    \/ ReadBacklog(h)
    \/ \E k \in Keys, body \in Bodies : ExtractNext(h, k, body)

HumanBegin(h) ==
    \/ \E k \in Keys, text \in Texts : Paste(h, k, text)
    \/ \E k \in Keys, text \in Texts, html \in Doms \cup {None}, status \in {"ok", "thin"} :
         \E expectation \in {Expected[k], None} :
           RecordBrowser(h, k, text, html, expectation, status)
    \/ \E k \in Keys : RetryRead(h, k)
    \/ \E k \in Keys : Acknowledge(h, k)
    \/ \E only \in Machine \cup Human \cup {None} : Reextract(h, only)
    \/ Extract(h)

Next ==
    \/ \E p \in Processes, targets \in SUBSET Keys : Enqueue(p, targets)
    \/ \E w \in Workers : WorkerStep(w)
    \/ \E h \in Humans : HumanBegin(h) \/ HumanFinish(h)
    \/ \E p \in Processes : Crash(p)

Spec == Init /\ [][Next]_vars

\* Worker threads keep running and a request that began is finished; nobody
\* owes the store a new note, a paste or a retry.
FairSpec ==
    /\ Spec
    /\ \A w \in Workers : WF_vars(WorkerStep(w))
    /\ \A h \in Humans  : WF_vars(HumanFinish(h))

--------------------------------------------------------------------------------
(* Properties. *)

\* Every variable has the type its column or its Python local has.
TypeOK ==
    /\ queue      \in [Keys -> QueueRow \cup {None}]
    /\ snapshot   \in [Keys -> SnapshotRow \cup {None}]
    /\ raw        \in [Keys -> Bodies \cup {None}]
    /\ ack        \subseteq Keys
    /\ known      \subseteq Keys
    /\ lock       \in [Processes -> Actors \cup {None}]
    /\ pc \in [Actors -> {"idle", "next", "retriable", "defer", "record", "sought",
                          "write", "extract", "fill", "requeue", "drain", "read"}]
    /\ key        \in [Actors -> Keys \cup {None}]
    /\ got        \in [Actors -> Fetched \cup Reading \cup {None}]
    /\ seen       \in [Actors -> [existing : BOOLEAN, expectation : Expectations]]
    /\ todo       \in [Workers -> SUBSET Keys]
    /\ batch      \in [Humans -> SUBSET (Keys \X Bodies)]
    /\ progressed \in [Humans -> BOOLEAN]
    /\ crashes    \in 0 .. MaxCrashes

\* Every thread shares one SnapshotStore, hence one _lock.
OneProcess == \A a, b \in Actors : ProcessOf[a] = ProcessOf[b]

\* The bytes of a key always have the snapshot row that witnesses them: retry
\* (834-882) deletes a row only while nothing was retrieved for it.
RawWitnessed == \A k \in Keys : raw[k] # None => snapshot[k] # None

\* A target once handed over is never dropped on the floor: it is queued, or has
\* a snapshot, or a human acknowledged that it cannot be preserved (10.4), whatever
\* the order of records, retries, repairs and crashes.
NothingLost == \A k \in known : Queued(k) \/ snapshot[k] # None \/ k \in ack

\* A capture leaves the queue after max_attempts tries.  The check in _retriable
\* and the increment in defer are apart, so each further worker may add one.
AttemptsBounded ==
    \A k \in Keys : Queued(k) =>
        queue[k].attempts <= (MaxAttempts - 1) + (Cardinality(Workers) - 1)

\* A machine reading can be had again from the bytes held: its text is what the
\* extractor makes of raw (_clear_machine_reading, 648-651).
ReadingReproducible ==
    \A k \in Keys : snapshot[k] # None /\ snapshot[k].extraction \in Machine =>
        raw[k] # None /\ snapshot[k].text = ReadingOf(raw[k]).text

\* The status shown in triage follows the reading: thin exactly when the
\* extractor got too little, or nothing, out of the bytes (extract_one).
StatusFollowsReading ==
    \A k \in Keys : snapshot[k] # None /\ raw[k] # None /\ snapshot[k].extraction \in Machine =>
        (snapshot[k].status = "thin" <=> Reads[raw[k]] # "full")

\* What was sought is not lost on the way: through retries, deferrals and a
\* second failure the key keeps the expectation create_note derived for it.
ExpectationKept ==
    \A k \in known \ ack :
        /\ Queued(k) => queue[k].expectation = Expected[k]
        /\ snapshot[k] # None => snapshot[k].expectation = Expected[k]

\* Every capture without a reading is somewhere a reading can come from: in the
\* extraction backlog, in triage, given up by a human who saw it there, or with
\* a human who is storing its text right now.
NoSilentHole ==
    \A k \in Keys :
        snapshot[k] # None /\ snapshot[k].extraction = None =>
            \/ InBacklog(k) \/ InTriage(k)
            \/ k \in ack /\ snapshot[k].status # "ok"
            \/ \E h \in Humans : pc[h] = "fill" /\ key[h] = k

\* The room _clear_machine_reading makes is still there, or another human's
\* reading is, when the text that was supplied comes to be stored.
RoomForHuman ==
    \A h \in Humans : pc[h] = "fill" =>
        /\ snapshot[key[h]] # None
        /\ snapshot[key[h]].extraction \in Human \cup {None}

\* The bytes captured for a key never change and are never deleted.
BytesImmutable == [][\A k \in Keys : raw[k] # None => raw'[k] = raw[k]]_vars

\* A reading is never replaced in place: it is cleared first, or goes with the
\* whole row (store_extraction's `extraction IS NULL`, 586-616).
FilledOnce ==
    [][\A k \in Keys :
         /\ snapshot[k] # None  /\ snapshot[k].extraction # None
         /\ snapshot'[k] # None /\ snapshot'[k].extraction # None
         => snapshot'[k] = snapshot[k]]_vars

\* A row holding what a human supplied, by one of the given provenances, is final.
Final(provenances) ==
    \A k \in Keys :
        snapshot[k] # None /\ snapshot[k].extraction \in provenances
            => snapshot'[k] = snapshot[k]

\* Pasted text is never replaced, cleared or deleted (paste, 742-776).
ManualFinal == [][Final({"manual"})]_vars

\* Nothing human-supplied is: neither a paste nor a browser reading (657-665).
HumanFinal == [][Final(Human)]_vars

\* Where a key stands -- "lost" is no place Witnesses knows -- and the text pasted
\* for it.
FateOf(k) ==
    IF snapshot[k] # None THEN "witnessed"
    ELSE IF Queued(k) THEN "pending"
    ELSE IF k \in ack THEN "waived"
    ELSE IF k \notin known THEN "none" ELSE "lost"
PastedFor(k) ==
    IF snapshot[k] # None /\ snapshot[k].extraction = "manual"
    THEN snapshot[k].text ELSE None

Promise == INSTANCE Witnesses WITH
    cited  <- known,
    fate   <- [k \in Keys |-> FateOf(k)],
    bytes  <- raw,
    pasted <- [k \in Keys |-> PastedFor(k)]

\* Capture at creation keeps its promise: once handed over a target waits, is
\* witnessed or is waived and is never lost; only such a target is ever waiting,
\* and it goes back to waiting only while its witness holds nothing; neither bytes
\* nor pasted text are ever taken back, whatever workers, humans and crashes do
\* between the transactions, and in whatever order a repair and the hand-over come.
PromiseKept == Promise!Spec

\* Every queued capture is settled: recorded, or taken out by a human.
QueueDrains == \A k \in Keys : Queued(k) ~> ~Queued(k)

\* Bytes nothing has read do not stay unread: the reader of a fetch, of a
\* reextract or of a repair comes by.
BytesGetRead == \A k \in Keys : InBacklog(k) ~> ~InBacklog(k)
================================================================================
