---------------------------- MODULE SnapshotsProofs ----------------------------
(* What TLAPS proves of Snapshots, for every value of its constants.          *)
EXTENDS Snapshots, FiniteSetTheorems, TLAPS

WorkerPcs == {"idle", "next", "retriable", "defer", "record", "sought", "write",
              "extract"}
HumanPcs  == {"idle", "fill", "requeue", "drain", "read"}

\* What a thread carries fits the step it stands at.
ThreadOK ==
    /\ \A w \in Workers :
         /\ pc[w] \in WorkerPcs
         /\ pc[w] \in {"retriable", "defer", "record", "sought", "write", "extract"} =>
              key[w] \in Keys /\ got[w] \in Fetched
         /\ pc[w] = "extract" => got[w].body \in Bodies
    /\ \A h \in Humans :
         /\ pc[h] \in HumanPcs
         /\ pc[h] = "fill" =>
              /\ key[h] \in Keys /\ got[h] \in Reading
              /\ got[h].by = "manual" => got[h].status = "ok"
         /\ pc[h] = "requeue" => key[h] \in Keys

TypeInv == TypeOK /\ ThreadOK

--------------------------------------------------------------------------------
(* Row operations. *)

LEMMA NoneApart ==
    /\ None \notin SnapshotRow /\ None \notin QueueRow /\ None \notin Bodies
    /\ None \notin Machine /\ None \notin Human /\ None \notin Statuses
    /\ None \notin Keys /\ None \notin Actors
    BY SnapshotsAssumption

LEMMA NewRowType ==
    ASSUME NEW status \in Statuses, NEW expectation \in Expectations
    PROVE  /\ NewRow(status, expectation) \in SnapshotRow
           /\ NewRow(status, expectation).extraction = None
           /\ NewRow(status, expectation) # None
    <1>1. NewRow(status, expectation) \in SnapshotRow
      BY DEF NewRow, SnapshotRow
    <1>2. NewRow(status, expectation).extraction = None
      BY DEF NewRow
    <1> QED BY <1>1, <1>2, NoneApart

LEMMA FilledRow ==
    ASSUME NEW row \in SnapshotRow \cup {None}, NEW reading \in Reading
    PROVE  /\ Filled(row, reading) \in SnapshotRow \cup {None}
           /\ Filled(row, reading) = None <=> row = None
           /\ row # None /\ row.extraction # None => Filled(row, reading) = row
           /\ row # None /\ row.extraction = None =>
                /\ Filled(row, reading).extraction = reading.by
                /\ Filled(row, reading).text = reading.text
                /\ reading.status # None => Filled(row, reading).status = reading.status
    <1>1. CASE row # None /\ row.extraction = None
      <2>1. row \in SnapshotRow
        BY <1>1
      <2>2. Filled(row, reading) = [row EXCEPT !.extraction = reading.by,
                                      !.text = reading.text,
                                      !.status = IF reading.status = None
                                                 THEN row.status ELSE reading.status]
        BY <1>1 DEF Filled
      <2>3. /\ Filled(row, reading) \in SnapshotRow
            /\ Filled(row, reading).extraction = reading.by
            /\ Filled(row, reading).text = reading.text
            /\ reading.status # None => Filled(row, reading).status = reading.status
        BY <2>1, <2>2 DEF SnapshotRow, Reading
      <2> QED BY <1>1, <2>3, NoneApart
    <1>2. CASE ~(row # None /\ row.extraction = None)
      BY <1>2 DEF Filled
    <1> QED BY <1>1, <1>2

LEMMA ReadingOfType ==
    ASSUME NEW body \in Bodies
    PROVE  ReadingOf(body) \in Reading /\ ReadingOf(body).by \in Machine
    BY DEF ReadingOf, Reading, Machine, Human, Statuses

LEMMA ClearedRow ==
    ASSUME NEW row \in SnapshotRow
    PROVE  /\ ClearedForHuman(row) \in SnapshotRow
           /\ ClearedForHuman(row) # None
           /\ row.extraction \in Human => ClearedForHuman(row) = row
           /\ ClearedForHuman(row).extraction \in Human => ClearedForHuman(row) = row
    <1>1. CASE row.extraction \in Machine
      <2>1. ClearedForHuman(row) = [row EXCEPT !.extraction = None]
        BY <1>1 DEF ClearedForHuman
      <2>2. /\ ClearedForHuman(row) \in SnapshotRow
            /\ ClearedForHuman(row).extraction = None
        BY <2>1 DEF SnapshotRow
      <2> QED BY <1>1, <2>2, NoneApart DEF Machine, Human
    <1>2. CASE row.extraction \notin Machine
      BY <1>2, NoneApart DEF ClearedForHuman
    <1> QED BY <1>1, <1>2

LEMMA ResetRowType ==
    ASSUME NEW row \in SnapshotRow \cup {None}, NEW held \in BOOLEAN, NEW only
    PROVE  /\ ResetRow(row, held, only) \in SnapshotRow \cup {None}
           /\ ResetRow(row, held, only) = None <=> row = None
           /\ row # None /\ row.extraction = "manual" => ResetRow(row, held, only) = row
           /\ row # None /\ ResetRow(row, held, only).extraction = "manual" =>
                ResetRow(row, held, only) = row
    <1>1. CASE ResetRow(row, held, only) = row
      BY <1>1
    <1>2. CASE ResetRow(row, held, only) # row
      <2>1. /\ row # None /\ row.extraction # "manual"
            /\ ResetRow(row, held, only) =
                 [row EXCEPT !.extraction = None, !.text = None,
                             !.status = IF row.status = "thin" THEN "ok" ELSE row.status]
        BY <1>2 DEF ResetRow
      <2>2. /\ ResetRow(row, held, only) \in SnapshotRow
            /\ ResetRow(row, held, only).extraction = None
        BY <2>1 DEF SnapshotRow, Statuses
      <2> QED BY <2>1, <2>2, NoneApart DEF Human
    <1> QED BY <1>1, <1>2

--------------------------------------------------------------------------------
(* Type correctness. *)

LEMMA ActorFacts ==
    /\ \A w \in Workers : w \in Actors /\ w \notin Humans
    /\ \A h \in Humans  : h \in Actors /\ h \notin Workers
    /\ \A a \in Actors  : ProcessOf[a] \in Processes
    /\ NothingSeen \in [existing : BOOLEAN, expectation : Expectations]
    /\ \A k \in Keys : Expected[k] \in Expectations
    BY SnapshotsAssumption DEF Actors, NothingSeen, Expectations

\* The row create_note's hand-over puts into the queue.
LEMMA EnqueuedRow ==
    ASSUME NEW k \in Keys
    PROVE  /\ [attempts |-> 0, expectation |-> Expected[k]] \in QueueRow
           /\ [attempts |-> 0, expectation |-> Expected[k]] # None
    <1>1. Expected[k] \in Expectations
      BY ActorFacts
    <1>2. [attempts |-> 0, expectation |-> Expected[k]] \in QueueRow
      BY <1>1 DEF QueueRow
    <1> QED BY <1>2, NoneApart

LEMMA WorkerTypes ==
    ASSUME TypeInv, NEW w \in Workers, WorkerStep(w)
    PROVE  TypeInv'
    <1> USE DEF TypeInv, TypeOK, ThreadOK, WorkerPcs, HumanPcs
    <1> w \in Actors /\ w \notin Humans /\ ProcessOf[w] \in Processes
      BY ActorFacts
    <1>1. CASE ListPending(w)
      BY <1>1, ActorFacts DEF ListPending, store
    <1>2. ASSUME NEW k \in Keys, NEW result \in Fetched, Fetch(w, k, result)
          PROVE  TypeInv'
      BY <1>2, ActorFacts DEF Fetch, store
    <1>3. CASE DecideRetry(w)
      BY <1>3, ActorFacts DEF DecideRetry, store
    <1>4. CASE Defer(w)
      <2>1. ASSUME NEW row \in QueueRow
            PROVE  Deferred(row) \in QueueRow
        BY DEF Deferred, QueueRow
      <2>2. queue' \in [Keys -> QueueRow \cup {None}]
        BY <1>4, <2>1 DEF Defer
      <2> QED BY <1>4, <2>2, ActorFacts DEF Defer, NextCapture
    <1>5. CASE RecordRead(w)
      <2> DEFINE e == snapshot[key[w]] # None
      <2>1. e \in BOOLEAN
        OBVIOUS
      <2>2. [seen[w] EXCEPT !.existing = e] \in [existing : BOOLEAN, expectation : Expectations]
        <3>1. seen[w] \in [existing : BOOLEAN, expectation : Expectations]
          OBVIOUS
        <3> HIDE DEF e
        <3> QED BY <2>1, <3>1
      <2>3. seen' = [seen EXCEPT ![w] = [seen[w] EXCEPT !.existing = e]]
        BY <1>5 DEF RecordRead
      <2>4. seen' \in [Actors -> [existing : BOOLEAN, expectation : Expectations]]
        BY <2>2, <2>3
      <2> QED BY <1>5, <2>4 DEF RecordRead, store
    <1>9. CASE RecordSought(w)
      <2>1. (IF Queued(key[w]) THEN queue[key[w]].expectation ELSE None) \in Expectations
        BY <1>9 DEF RecordSought, Queued, QueueRow, Expectations
      <2>2. seen' \in [Actors -> [existing : BOOLEAN, expectation : Expectations]]
        BY <1>9, <2>1 DEF RecordSought
      <2> QED BY <1>9, <2>2 DEF RecordSought, store
    <1>6. CASE RecordWrite(w)
      <2> DEFINE k == key[w]
      <2>1. k \in Keys /\ got[w] \in Fetched /\ seen[w].expectation \in Expectations
        BY <1>6 DEF RecordWrite
      <2>2. got[w].status \in Statuses /\ got[w].body \in Bodies \cup {None}
        BY <2>1 DEF Fetched, Statuses
      <2>3. snapshot' \in [Keys -> SnapshotRow \cup {None}]
        BY <1>6, <2>1, <2>2, NewRowType DEF RecordWrite
      <2>4. raw' \in [Keys -> Bodies \cup {None}]
        BY <1>6, <2>1, <2>2 DEF RecordWrite, WithBytes
      <2>5. queue' \in [Keys -> QueueRow \cup {None}]
        BY <1>6, <2>1 DEF RecordWrite
      <2>6. lock' \in [Processes -> Actors \cup {None}] /\ UNCHANGED <<ack, known, crashes>>
        BY <1>6 DEF RecordWrite
      <2>7. CASE ReadsNow(got[w])
        <3>1. /\ pc' = [pc EXCEPT ![w] = "extract"]
              /\ UNCHANGED <<key, got, seen, todo, batch, progressed>>
          BY <1>6, <2>7 DEF RecordWrite
        <3>2. got[w].body \in Bodies
          BY <2>2, <2>7 DEF ReadsNow
        <3> QED BY <3>1, <3>2, <2>1, <2>3, <2>4, <2>5, <2>6
      <2>8. CASE ~ReadsNow(got[w])
        <3>1. NextCapture(w)
          BY <1>6, <2>8 DEF RecordWrite
        <3> QED BY <3>1, <2>3, <2>4, <2>5, <2>6, ActorFacts DEF NextCapture
      <2> QED BY <2>7, <2>8
    <1>7. CASE RecordConflict(w)
      BY <1>7, ActorFacts DEF RecordConflict, store, Idle
    <1>8. CASE ExtractFetched(w)
      <2>1. key[w] \in Keys /\ got[w].body \in Bodies
        BY <1>8 DEF ExtractFetched
      <2>2. Filled(snapshot[key[w]], ReadingOf(got[w].body)) \in SnapshotRow \cup {None}
        BY <2>1, FilledRow, ReadingOfType
      <2>3. snapshot' \in [Keys -> SnapshotRow \cup {None}]
        BY <1>8, <2>1, <2>2 DEF ExtractFetched
      <2> QED BY <1>8, <2>3, ActorFacts DEF ExtractFetched, NextCapture
    <1> QED
      BY <1>1, <1>2, <1>3, <1>4, <1>5, <1>6, <1>7, <1>8, <1>9 DEF WorkerStep

LEMMA HumanTypes ==
    ASSUME TypeInv, NEW h \in Humans, HumanBegin(h) \/ HumanFinish(h)
    PROVE  TypeInv'
    <1> USE DEF TypeInv, TypeOK, ThreadOK, WorkerPcs, HumanPcs
    <1> h \in Actors /\ h \notin Workers /\ ProcessOf[h] \in Processes
      BY ActorFacts
    <1>1. ASSUME NEW k \in Keys, NEW text \in Texts, Paste(h, k, text)
          PROVE  TypeInv'
      <2> DEFINE held == IF snapshot[k] = None THEN NewRow("ok", None) ELSE snapshot[k]
                 offer == [by |-> "manual", text |-> text, status |-> "ok"]
      <2>1. held \in SnapshotRow
        BY NewRowType DEF Statuses, Expectations
      <2>2. snapshot' = [snapshot EXCEPT ![k] = ClearedForHuman(held)]
        BY <1>1 DEF Paste
      <2>3. snapshot' \in [Keys -> SnapshotRow \cup {None}]
        BY <2>1, <2>2, ClearedRow
      <2>4. offer \in Reading
        BY DEF Reading, Human, Statuses
      <2> QED BY <1>1, <2>3, <2>4, ActorFacts DEF Paste
    <1>2. ASSUME NEW k \in Keys, NEW text \in Texts, NEW html \in Doms \cup {None},
                 NEW status \in {"ok", "thin"}, NEW expectation \in {Expected[k], None},
                 RecordBrowser(h, k, text, html, expectation, status)
          PROVE  TypeInv'
      <2> DEFINE held == IF snapshot[k] = None THEN NewRow(status, expectation) ELSE snapshot[k]
                 offer == [by |-> "browser", text |-> text, status |-> status]
      <2>1. held \in SnapshotRow
        BY NewRowType, ActorFacts DEF Statuses, Expectations
      <2>2. snapshot' = [snapshot EXCEPT ![k] = ClearedForHuman(held)]
        BY <1>2 DEF RecordBrowser
      <2>3. snapshot' \in [Keys -> SnapshotRow \cup {None}]
        BY <2>1, <2>2, ClearedRow
      <2>4. offer \in Reading /\ offer.by # "manual"
        BY DEF Reading, Human, Statuses
      <2>5. raw' \in [Keys -> Bodies \cup {None}]
        BY <1>2, SnapshotsAssumption DEF RecordBrowser, HeldAfter
      <2>6. queue' \in [Keys -> QueueRow \cup {None}]
        BY <1>2 DEF RecordBrowser
      <2> QED BY <1>2, <2>3, <2>4, <2>5, <2>6, ActorFacts DEF RecordBrowser
    <1>3. CASE StoreHuman(h)
      <2>1. key[h] \in Keys /\ got[h] \in Reading
        BY <1>3 DEF StoreHuman
      <2>2. snapshot' \in [Keys -> SnapshotRow \cup {None}]
        BY <1>3, <2>1, FilledRow DEF StoreHuman
      <2> QED BY <1>3, <2>2, ActorFacts DEF StoreHuman, Idle
    <1>4. ASSUME NEW k \in Keys, RetryRead(h, k)
          PROVE  TypeInv'
      <2>1. snapshot[k].expectation \in Expectations
        BY <1>4 DEF RetryRead, MayRequeue, SnapshotRow
      <2> QED BY <1>4, <2>1, ActorFacts DEF RetryRead, store
    <1>5. CASE Requeue(h)
      <2>1. Requeued(seen[h].expectation) \in QueueRow
        BY DEF Requeued, QueueRow
      <2> QED BY <1>5, <2>1, ActorFacts DEF Requeue, Idle
    <1>6. ASSUME NEW k \in Keys, Acknowledge(h, k)
          PROVE  TypeInv'
      BY <1>6 DEF Acknowledge, threads
    <1>7. ASSUME NEW only, Reextract(h, only)
          PROVE  TypeInv'
      <2>1. \A k \in Keys : ResetRow(snapshot[k], raw[k] # None, only) \in SnapshotRow \cup {None}
        BY ResetRowType
      <2>2. snapshot' \in [Keys -> SnapshotRow \cup {None}]
        BY <1>7, <2>1 DEF Reextract
      <2> QED BY <1>7, <2>2, ActorFacts DEF Reextract
    <1>8. CASE Extract(h)
      BY <1>8, ActorFacts DEF Extract, store
    <1>9. CASE ReadBacklog(h)
      <2>1. {<<k, raw[k]>> : k \in {j \in Keys : InBacklog(j)}} \in SUBSET (Keys \X Bodies)
        BY DEF InBacklog
      <2> QED BY <1>9, <2>1, ActorFacts DEF ReadBacklog, store
    <1>10. ASSUME NEW k \in Keys, NEW body \in Bodies, ExtractNext(h, k, body)
           PROVE  TypeInv'
      <2>1. Filled(snapshot[k], ReadingOf(body)) \in SnapshotRow \cup {None}
        BY FilledRow, ReadingOfType
      <2>2. snapshot' \in [Keys -> SnapshotRow \cup {None}]
        BY <1>10, <2>1 DEF ExtractNext
      <2>3. batch' \in [Humans -> SUBSET (Keys \X Bodies)]
        BY <1>10 DEF ExtractNext
      <2>4. progressed' \in [Humans -> BOOLEAN]
        BY <1>10 DEF ExtractNext
      <2> QED BY <1>10, <2>2, <2>3, <2>4, ActorFacts DEF ExtractNext
    <1> HIDE DEF TypeInv, TypeOK, ThreadOK
    <1>11. CASE HumanBegin(h)
      BY <1>11, <1>1, <1>2, <1>4, <1>6, <1>7, <1>8 DEF HumanBegin
    <1>12. CASE HumanFinish(h)
      BY <1>12, <1>3, <1>5, <1>9, <1>10 DEF HumanFinish
    <1> QED BY <1>11, <1>12

LEMMA TypeStep ==
    ASSUME TypeInv, [Next]_vars
    PROVE  TypeInv'
    <1>1. ASSUME NEW p \in Processes, NEW targets \in SUBSET Keys, Enqueue(p, targets)
          PROVE  TypeInv'
      <2>1. queue' \in [Keys -> QueueRow \cup {None}]
        BY <1>1, EnqueuedRow DEF Enqueue, TypeInv, TypeOK
      <2> QED BY <1>1, <2>1 DEF Enqueue, TypeInv, TypeOK, ThreadOK, threads
    <1>2. ASSUME NEW w \in Workers, WorkerStep(w)
          PROVE  TypeInv'
      BY <1>2, WorkerTypes
    <1>3. ASSUME NEW h \in Humans, HumanBegin(h) \/ HumanFinish(h)
          PROVE  TypeInv'
      BY <1>3, HumanTypes
    <1>4. ASSUME NEW p \in Processes, Crash(p)
          PROVE  TypeInv'
      <2> USE DEF TypeInv, TypeOK, ThreadOK, WorkerPcs, HumanPcs
      <2>1. crashes' \in 0 .. MaxCrashes
        BY <1>4, SnapshotsAssumption DEF Crash
      <2>2. /\ lock' \in [Processes -> Actors \cup {None}]
            /\ pc' \in [Actors -> WorkerPcs \cup HumanPcs]
            /\ key' \in [Actors -> Keys \cup {None}]
            /\ got' \in [Actors -> Fetched \cup Reading \cup {None}]
            /\ seen' \in [Actors -> [existing : BOOLEAN, expectation : Expectations]]
        BY <1>4, ActorFacts DEF Crash
      <2>3. /\ todo' \in [Workers -> SUBSET Keys]
            /\ batch' \in [Humans -> SUBSET (Keys \X Bodies)]
            /\ progressed' \in [Humans -> BOOLEAN]
        BY <1>4 DEF Crash
      <2>4. UNCHANGED store
        BY <1>4 DEF Crash
      <2>5. TypeOK'
        BY <2>1, <2>2, <2>3, <2>4 DEF store
      <2>6. \A a \in Actors :
               \/ pc'[a] = "idle"
               \/ pc'[a] = pc[a] /\ key'[a] = key[a] /\ got'[a] = got[a]
        BY <1>4 DEF Crash
      <2>7. ThreadOK'
        BY <2>6, ActorFacts
      <2> QED BY <2>5, <2>7
    <1>5. CASE UNCHANGED vars
      BY <1>5 DEF vars, store, threads, TypeInv, TypeOK, ThreadOK
    <1> QED
      BY <1>1, <1>2, <1>3, <1>4, <1>5 DEF Next

LEMMA TypeInvariant == Spec => []TypeInv
    <1>1. Init => TypeInv
      <2> MaxCrashes \in Nat
        BY SnapshotsAssumption
      <2> QED
        BY ActorFacts DEF Init, TypeInv, TypeOK, ThreadOK, WorkerPcs, HumanPcs
    <1>2. TypeInv /\ [Next]_vars => TypeInv'
      BY TypeStep
    <1> QED BY <1>1, <1>2, PTL DEF Spec

\* Type correctness: TypeOK holds in every reachable state, of any deployment.
THEOREM TypeCorrect == Spec => []TypeOK
    BY TypeInvariant, PTL DEF TypeInv

--------------------------------------------------------------------------------
(* One process: the lock joins the reads of record and retry to their writes. *)

Holding(a) == pc[a] \in {"sought", "write", "requeue"}

LockInv == \A a \in Actors : Holding(a) => lock[ProcessOf[a]] = a

LEMMA FreeOfHolders ==
    ASSUME OneProcess, TypeInv, LockInv, NEW a \in Actors, Free(a)
    PROVE  \A b \in Actors : ~Holding(b)
    BY NoneApart DEF OneProcess, LockInv, Free

LEMMA OneHolder ==
    ASSUME OneProcess, TypeInv, LockInv, NEW a \in Actors, Holding(a)
    PROVE  \A b \in Actors \ {a} : ~Holding(b)
    BY DEF OneProcess, LockInv

LEMMA LockStep ==
    ASSUME OneProcess, TypeInv, LockInv, [Next]_vars
    PROVE  LockInv'
    <1> USE DEF TypeInv, TypeOK, Holding
    <1>1. ASSUME NEW a \in Actors, Free(a),
                 lock' = lock \/ lock' = [lock EXCEPT ![ProcessOf[a]] = a],
                 \A b \in Actors \ {a} : pc'[b] = pc[b],
                 pc'[a] \in {"sought", "write", "requeue"} => lock' = [lock EXCEPT ![ProcessOf[a]] = a]
          PROVE  LockInv'
      BY <1>1, FreeOfHolders, ActorFacts DEF LockInv
    <1>2. ASSUME NEW a \in Actors, Holding(a), pc'[a] \notin {"sought", "write", "requeue"},
                 \A b \in Actors \ {a} : pc'[b] = pc[b]
          PROVE  LockInv'
      BY <1>2, OneHolder DEF LockInv
    <1>3. ASSUME NEW a \in Actors, lock' = lock, pc'[a] \notin {"sought", "write", "requeue"},
                 \A b \in Actors \ {a} : pc'[b] = pc[b]
          PROVE  LockInv'
      BY <1>3 DEF LockInv
    <1>4. ASSUME lock' = lock, pc' = pc
          PROVE  LockInv'
      BY <1>4 DEF LockInv
    <1>5. ASSUME NEW w \in Workers, WorkerStep(w)
          PROVE  LockInv'
      <2> w \in Actors
        BY ActorFacts
      <2>1. CASE RecordRead(w)
        BY <2>1, <1>1 DEF RecordRead
      <2>2. CASE RecordWrite(w)
        BY <2>2, <1>2 DEF RecordWrite, NextCapture
      <2>3. CASE RecordConflict(w)
        BY <2>3, <1>2 DEF RecordConflict, Idle
      <2>4. CASE ListPending(w) \/ DecideRetry(w) \/ \E k \in Keys, r \in Fetched : Fetch(w, k, r)
        BY <2>4, <1>3 DEF ListPending, DecideRetry, Fetch
      <2>5. CASE Defer(w) \/ ExtractFetched(w)
        BY <2>5, <1>3 DEF Defer, ExtractFetched, NextCapture
      <2>6. CASE RecordSought(w)
        BY <2>6 DEF RecordSought, LockInv
      <2> QED BY <1>5, <2>1, <2>2, <2>3, <2>4, <2>5, <2>6 DEF WorkerStep
    <1>6. ASSUME NEW h \in Humans, HumanBegin(h)
          PROVE  LockInv'
      <2> h \in Actors
        BY ActorFacts
      <2>1. ASSUME NEW k \in Keys, RetryRead(h, k)
            PROVE  LockInv'
        BY <2>1, <1>1 DEF RetryRead, Begin
      <2>2. ASSUME NEW k \in Keys, Acknowledge(h, k)
            PROVE  LockInv'
        BY <2>2, <1>4 DEF Acknowledge, threads
      <2>3. ASSUME NEW k, NEW text, Paste(h, k, text)
            PROVE  LockInv'
        BY <2>3, <1>3 DEF Paste
      <2>4. ASSUME NEW k, NEW text, NEW html, NEW expectation, NEW status,
                   RecordBrowser(h, k, text, html, expectation, status)
            PROVE  LockInv'
        BY <2>4, <1>3 DEF RecordBrowser
      <2>5. ASSUME NEW only, Reextract(h, only)
            PROVE  LockInv'
        BY <2>5, <1>3 DEF Reextract
      <2>6. CASE Extract(h)
        BY <2>6, <1>3 DEF Extract
      <2> QED BY <1>6, <2>1, <2>2, <2>3, <2>4, <2>5, <2>6 DEF HumanBegin
    <1>7. ASSUME NEW h \in Humans, HumanFinish(h)
          PROVE  LockInv'
      <2> h \in Actors
        BY ActorFacts
      <2>1. CASE Requeue(h)
        BY <2>1, <1>2 DEF Requeue, Idle
      <2>2. CASE StoreHuman(h)
        BY <2>2, <1>3 DEF StoreHuman, Idle
      <2>3. CASE ReadBacklog(h)
        BY <2>3, <1>3 DEF ReadBacklog
      <2>4. ASSUME NEW k, NEW body, ExtractNext(h, k, body)
            PROVE  LockInv'
        BY <2>4, <1>3 DEF ExtractNext
      <2> QED BY <1>7, <2>1, <2>2, <2>3, <2>4 DEF HumanFinish
    <1>8. ASSUME NEW p \in Processes, Crash(p)
          PROVE  LockInv'
      BY <1>8, ActorFacts DEF Crash, LockInv
    <1>9. ASSUME NEW p \in Processes, NEW targets \in SUBSET Keys, Enqueue(p, targets)
          PROVE  LockInv'
      BY <1>9, <1>4 DEF Enqueue, threads
    <1>10. CASE UNCHANGED vars
      BY <1>10, <1>4 DEF vars, threads
    <1> QED
      BY <1>5, <1>6, <1>7, <1>8, <1>9, <1>10 DEF Next

\* What record and retry read still holds when they write.
SeenInv ==
    /\ \A w \in Workers : pc[w] \in {"sought", "write"} =>
         (seen[w].existing <=> snapshot[key[w]] # None)
    /\ \A h \in Humans  : pc[h] = "requeue" => MayRequeue(key[h])

ManualOk == \A k \in Keys :
    snapshot[k] # None /\ snapshot[k].extraction = "manual" => snapshot[k].status = "ok"

StoreInv == RawWitnessed /\ NothingLost /\ ManualOk

IInv == TypeInv /\ LockInv /\ SeenInv /\ StoreInv

\* A transaction that takes the lock and gives it back finds no holder, leaves
\* none, and so has nothing to prove about SeenInv.
LEMMA SeenVacuous ==
    ASSUME TypeInv, NEW a \in Actors, \A b \in Actors \ {a} : ~Holding(b) /\ pc'[b] = pc[b],
           pc'[a] \notin {"sought", "write", "requeue"}
    PROVE  SeenInv'
    BY ActorFacts DEF SeenInv, Holding

LEMMA SeenUntouched ==
    ASSUME TypeInv, SeenInv, UNCHANGED <<snapshot, raw>>,
           \A a \in Actors : \/ pc'[a] \notin {"sought", "write", "requeue"}
                             \/ pc'[a] = pc[a] /\ key'[a] = key[a] /\ seen'[a] = seen[a]
    PROVE  SeenInv'
    BY ActorFacts DEF SeenInv, MayRequeue

LEMMA SeenStep ==
    ASSUME OneProcess, IInv, [Next]_vars
    PROVE  SeenInv'
    <1> USE DEF IInv, TypeInv, TypeOK
    <1>1. ASSUME NEW w \in Workers, WorkerStep(w)
          PROVE  SeenInv'
      <2> w \in Actors
        BY ActorFacts
      <2>1. CASE RecordRead(w)
        <3>1. /\ UNCHANGED <<snapshot, raw, key>>
              /\ pc'[w] = "sought" /\ seen'[w].existing = (snapshot[key[w]] # None)
              /\ \A b \in Actors \ {w} : pc'[b] = pc[b] /\ seen'[b] = seen[b]
          BY <2>1 DEF RecordRead, store
        <3> QED BY <3>1, ActorFacts DEF SeenInv, MayRequeue
      <2>2. CASE RecordWrite(w)
        BY <2>2, OneHolder, SeenVacuous DEF RecordWrite, NextCapture, Holding
      <2>3. CASE RecordConflict(w)
        BY <2>3, OneHolder, SeenVacuous DEF RecordConflict, Idle, Holding
      <2>4. CASE ListPending(w) \/ DecideRetry(w) \/ \E k \in Keys, r \in Fetched : Fetch(w, k, r)
        BY <2>4, SeenUntouched DEF ListPending, DecideRetry, Fetch, store
      <2>5. CASE Defer(w) \/ ExtractFetched(w)
        BY <2>5, FreeOfHolders, SeenVacuous DEF Defer, ExtractFetched, NextCapture
      <2>6. CASE RecordSought(w)
        <3>1. /\ UNCHANGED <<snapshot, raw, key>>
              /\ pc[w] = "sought" /\ pc'[w] = "write" /\ seen'[w].existing = seen[w].existing
              /\ \A b \in Actors \ {w} : pc'[b] = pc[b] /\ seen'[b] = seen[b]
          BY <2>6 DEF RecordSought, store
        <3> QED BY <3>1, ActorFacts DEF SeenInv, MayRequeue
      <2> QED BY <1>1, <2>1, <2>2, <2>3, <2>4, <2>5, <2>6 DEF WorkerStep
    <1>2. ASSUME NEW h \in Humans, HumanBegin(h)
          PROVE  SeenInv'
      <2> h \in Actors
        BY ActorFacts
      <2>1. ASSUME NEW k \in Keys, RetryRead(h, k)
            PROVE  SeenInv'
        <3>1. /\ UNCHANGED <<snapshot, raw>> /\ MayRequeue(k)
              /\ key'[h] = k /\ pc'[h] = "requeue"
              /\ \A b \in Actors \ {h} : pc'[b] = pc[b] /\ seen'[b] = seen[b] /\ key'[b] = key[b]
          BY <2>1 DEF RetryRead, store
        <3> QED BY <3>1, ActorFacts DEF SeenInv, MayRequeue
      <2>2. ASSUME NEW k \in Keys, Acknowledge(h, k)
            PROVE  SeenInv'
        BY <2>2, SeenUntouched DEF Acknowledge, threads
      <2>3. ASSUME NEW k, NEW text, Paste(h, k, text)
            PROVE  SeenInv'
        BY <2>3, FreeOfHolders, SeenVacuous DEF Paste, Begin
      <2>4. ASSUME NEW k, NEW text, NEW html, NEW expectation, NEW status,
                   RecordBrowser(h, k, text, html, expectation, status)
            PROVE  SeenInv'
        BY <2>4, FreeOfHolders, SeenVacuous DEF RecordBrowser, Begin
      <2>5. ASSUME NEW only, Reextract(h, only)
            PROVE  SeenInv'
        BY <2>5, FreeOfHolders, SeenVacuous DEF Reextract, Begin
      <2>6. CASE Extract(h)
        BY <2>6, SeenUntouched DEF Extract, store
      <2> QED BY <1>2, <2>1, <2>2, <2>3, <2>4, <2>5, <2>6 DEF HumanBegin
    <1>3. ASSUME NEW h \in Humans, HumanFinish(h)
          PROVE  SeenInv'
      <2> h \in Actors
        BY ActorFacts
      <2>1. CASE Requeue(h)
        BY <2>1, OneHolder, SeenVacuous DEF Requeue, Idle, Holding
      <2>2. CASE StoreHuman(h)
        BY <2>2, FreeOfHolders, SeenVacuous DEF StoreHuman, Idle
      <2>3. CASE ReadBacklog(h)
        BY <2>3, SeenUntouched DEF ReadBacklog, store
      <2>4. ASSUME NEW k, NEW body, ExtractNext(h, k, body)
            PROVE  SeenInv'
        BY <2>4, FreeOfHolders, SeenVacuous DEF ExtractNext
      <2> QED BY <1>3, <2>1, <2>2, <2>3, <2>4 DEF HumanFinish
    <1>4. ASSUME NEW p \in Processes, Crash(p)
          PROVE  SeenInv'
      BY <1>4, SeenUntouched DEF Crash, store
    <1>5. ASSUME NEW p \in Processes, NEW targets \in SUBSET Keys, Enqueue(p, targets)
          PROVE  SeenInv'
      BY <1>5, SeenUntouched DEF Enqueue, threads
    <1>6. CASE UNCHANGED vars
      BY <1>6, SeenUntouched DEF vars, store, threads
    <1> QED
      BY <1>1, <1>2, <1>3, <1>4, <1>5, <1>6 DEF Next

\* A step that deletes no row, adds bytes only under a row, takes a key out of
\* the queue only against a row or an acknowledgement, and leaves pastes alone.
Gentle ==
    /\ \A k \in Keys :
         /\ snapshot[k] # None => snapshot'[k] # None
         /\ raw'[k] # None => raw[k] # None \/ snapshot'[k] # None
         /\ Queued(k) => Queued(k)' \/ snapshot'[k] # None \/ k \in ack'
         /\ snapshot[k] # None /\ snapshot[k].extraction = "manual" =>
              snapshot'[k] = snapshot[k]
         /\ snapshot'[k] # None /\ snapshot'[k].extraction = "manual" =>
              snapshot'[k] = snapshot[k] \/ snapshot'[k].status = "ok"
    /\ ack \subseteq ack'
    /\ \A k \in known' : k \in known \/ Queued(k)'

LEMMA GentleStep ==
    ASSUME TypeInv, StoreInv, Gentle
    PROVE  StoreInv' /\ Final({"manual"})
    <1>1. RawWitnessed'
      BY DEF StoreInv, RawWitnessed, Gentle
    <1>2. NothingLost'
      BY DEF StoreInv, NothingLost, Gentle, TypeInv, TypeOK
    <1>3. ManualOk'
      BY DEF StoreInv, ManualOk, Gentle
    <1>4. Final({"manual"})
      BY DEF Final, Gentle
    <1> QED BY <1>1, <1>2, <1>3, <1>4 DEF StoreInv

LEMMA GentleSame ==
    ASSUME UNCHANGED store
    PROVE  Gentle
    BY DEF Gentle, store, Queued

\* One key's row goes through Filled with a reading; only a paste makes it manual.
LEMMA GentleFill ==
    ASSUME TypeInv, NEW k \in Keys, NEW reading \in Reading,
           reading.by = "manual" => reading.status = "ok",
           snapshot' = [snapshot EXCEPT ![k] = Filled(@, reading)],
           UNCHANGED <<queue, raw, ack, known>>
    PROVE  Gentle
    <1>1. snapshot[k] \in SnapshotRow \cup {None}
      BY DEF TypeInv, TypeOK
    <1>2. snapshot'[k] = Filled(snapshot[k], reading) /\ \A j \in Keys \ {k} : snapshot'[j] = snapshot[j]
      BY DEF TypeInv, TypeOK
    <1>3. reading.by = "manual" => reading.status # None
      BY NoneApart DEF Statuses
    <1> QED BY <1>1, <1>2, <1>3, FilledRow, NoneApart DEF Gentle, Queued, Human

\* One key's row is created if absent and cleared of a machine reading.
LEMMA GentleClear ==
    ASSUME TypeInv, NEW k \in Keys, NEW row \in SnapshotRow, row.extraction = None,
           snapshot' = [snapshot EXCEPT ![k] = ClearedForHuman(IF @ = None THEN row ELSE @)],
           \A j \in Keys : raw'[j] = raw[j] \/ j = k,
           \A j \in Keys : queue'[j] = queue[j] \/ j = k,
           UNCHANGED <<ack, known>>
    PROVE  Gentle
    <1> DEFINE held == IF snapshot[k] = None THEN row ELSE snapshot[k]
    <1>1. held \in SnapshotRow /\ (snapshot[k] = None => held.extraction # "manual")
      BY NoneApart DEF TypeInv, TypeOK, Human
    <1>2. snapshot'[k] = ClearedForHuman(held) /\ \A j \in Keys \ {k} : snapshot'[j] = snapshot[j]
      BY DEF TypeInv, TypeOK
    <1>3. /\ ClearedForHuman(held) # None
          /\ held.extraction = "manual" => ClearedForHuman(held) = held
          /\ ClearedForHuman(held).extraction = "manual" => ClearedForHuman(held) = held
      BY <1>1, ClearedRow DEF Human
    <1> QED BY <1>1, <1>2, <1>3 DEF Gentle, Queued

LEMMA StoreStep ==
    ASSUME OneProcess, IInv, [Next]_vars
    PROVE  StoreInv' /\ Final({"manual"})
    <1> TypeInv /\ SeenInv /\ StoreInv
      BY DEF IInv
    <1>1. ASSUME NEW w \in Workers, WorkerStep(w)
          PROVE  StoreInv' /\ Final({"manual"})
      <2> w \in Actors
        BY ActorFacts
      <2>1. CASE Defer(w)
        <3>1. \A k \in Keys : Queued(k) => Queued(k)'
          <4>1. key[w] \in Keys
            BY <2>1 DEF Defer, TypeInv, ThreadOK
          <4>2. queue[key[w]] # None => Deferred(queue[key[w]]) \in QueueRow
            BY <4>1 DEF TypeInv, TypeOK, Deferred, QueueRow
          <4> QED BY <2>1, <4>1, <4>2, NoneApart DEF Defer, Queued, TypeInv, TypeOK
        <3> QED BY <2>1, <3>1, GentleStep DEF Defer, Gentle
      <2>2. CASE RecordWrite(w)
        <3> DEFINE k == key[w]
        <3>1. k \in Keys /\ got[w] \in Fetched /\ seen[w].expectation \in Expectations
          BY <2>2 DEF RecordWrite, TypeInv, ThreadOK, TypeOK
        <3>2. \A j \in Keys : queue'[j] = queue[j] \/ j = k
          BY <2>2, <3>1 DEF RecordWrite, TypeInv, TypeOK
        <3>3. CASE seen[w].existing
          <4>1. snapshot[k] # None
            BY <2>2, <3>3 DEF RecordWrite, SeenInv
          <4> QED BY <2>2, <3>1, <3>2, <3>3, <4>1, GentleStep DEF RecordWrite, Gentle, Queued
        <3>4. CASE ~seen[w].existing
          <4> DEFINE row == NewRow(got[w].status, seen[w].expectation)
          <4>1. row # None /\ row.extraction = None
            BY <3>1, NewRowType DEF Fetched, Statuses
          <4>2. snapshot[k] = None /\ snapshot' = [snapshot EXCEPT ![k] = row]
            BY <2>2, <3>4 DEF RecordWrite, Conflicts
          <4>3. snapshot'[k] = row /\ \A j \in Keys \ {k} : snapshot'[j] = snapshot[j]
            BY <3>1, <4>2 DEF TypeInv, TypeOK
          <4>4. \A j \in Keys \ {k} : raw'[j] = raw[j]
            BY <2>2, <3>1, <3>4 DEF RecordWrite, TypeInv, TypeOK
          <4>5. UNCHANGED <<ack, known>>
            BY <2>2 DEF RecordWrite
          <4> QED BY <3>1, <3>2, <4>1, <4>2, <4>3, <4>4, <4>5, NoneApart, GentleStep
                  DEF Gentle, Queued, Human
        <3> QED BY <3>3, <3>4
      <2>3. CASE ExtractFetched(w)
        <3>1. key[w] \in Keys /\ got[w].body \in Bodies
          BY <2>3 DEF ExtractFetched, TypeInv, ThreadOK
        <3>2. ReadingOf(got[w].body) \in Reading /\ ReadingOf(got[w].body).by # "manual"
          BY <3>1, ReadingOfType DEF Machine
        <3> QED BY <2>3, <3>1, <3>2, GentleFill, GentleStep DEF ExtractFetched
      <2>4. CASE UNCHANGED store
        BY <2>4, GentleSame, GentleStep
      <2> QED
        BY <1>1, <2>1, <2>2, <2>3, <2>4
        DEF WorkerStep, ListPending, Fetch, DecideRetry, RecordRead, RecordSought,
            RecordConflict
    <1>2. ASSUME NEW h \in Humans, HumanBegin(h)
          PROVE  StoreInv' /\ Final({"manual"})
      <2>1. ASSUME NEW k \in Keys, Acknowledge(h, k)
            PROVE  Gentle
        BY <2>1 DEF Acknowledge, Gentle, Queued, TypeInv, TypeOK
      <2>2. ASSUME NEW k \in Keys, NEW text \in Texts, Paste(h, k, text)
            PROVE  Gentle
        <3>1. NewRow("ok", None) \in SnapshotRow /\ NewRow("ok", None).extraction = None
          BY NewRowType DEF Statuses, Expectations
        <3> QED BY <2>2, <3>1, GentleClear DEF Paste
      <2>3. ASSUME NEW k \in Keys, NEW text \in Texts, NEW html \in Doms \cup {None},
                   NEW status \in {"ok", "thin"}, NEW expectation \in {Expected[k], None},
                   RecordBrowser(h, k, text, html, expectation, status)
            PROVE  Gentle
        <3>1. /\ NewRow(status, expectation) \in SnapshotRow
              /\ NewRow(status, expectation).extraction = None
          BY NewRowType, ActorFacts DEF Statuses, Expectations
        <3>2. /\ \A j \in Keys : raw'[j] = raw[j] \/ j = k
              /\ \A j \in Keys : queue'[j] = queue[j] \/ j = k
          BY <2>3 DEF RecordBrowser, TypeInv, TypeOK
        <3> QED BY <2>3, <3>1, <3>2, GentleClear DEF RecordBrowser
      <2>4. ASSUME NEW only, Reextract(h, only)
            PROVE  Gentle
        <3>1. \A k \in Keys : snapshot'[k] = ResetRow(snapshot[k], raw[k] # None, only)
          BY <2>4 DEF Reextract
        <3>2. \A k \in Keys : snapshot[k] \in SnapshotRow \cup {None}
          BY DEF TypeInv, TypeOK
        <3>3. UNCHANGED <<queue, raw, ack, known>>
          BY <2>4 DEF Reextract
        <3>4. \A k \in Keys :
                 /\ snapshot[k] # None => snapshot'[k] # None
                 /\ snapshot[k] # None /\ snapshot[k].extraction = "manual" =>
                      snapshot'[k] = snapshot[k]
                 /\ snapshot'[k] # None /\ snapshot'[k].extraction = "manual" =>
                      snapshot'[k] = snapshot[k]
          <4> TAKE k \in Keys
          <4> DEFINE held == raw[k] # None
          <4>1. held \in BOOLEAN
            OBVIOUS
          <4>2. snapshot[k] \in SnapshotRow \cup {None} /\ snapshot'[k] = ResetRow(snapshot[k], held, only)
            BY <3>1, <3>2
          <4> HIDE DEF held
          <4> QED BY <4>1, <4>2, ResetRowType
        <3> QED BY <3>3, <3>4 DEF Gentle, Queued
      <2>5. ASSUME NEW k \in Keys, RetryRead(h, k)
            PROVE  Gentle
        <3>1. UNCHANGED store
          BY <2>5 DEF RetryRead
        <3> QED BY <3>1, GentleSame
      <2>6. ASSUME Extract(h)
            PROVE  Gentle
        <3>1. UNCHANGED store
          BY <2>6 DEF Extract
        <3> QED BY <3>1, GentleSame
      <2>7. Gentle
        BY <1>2, <2>1, <2>2, <2>3, <2>4, <2>5, <2>6 DEF HumanBegin
      <2> QED BY <2>7, GentleStep
    <1>3. ASSUME NEW h \in Humans, HumanFinish(h)
          PROVE  StoreInv' /\ Final({"manual"})
      <2>1. CASE Requeue(h)
        <3> DEFINE k == key[h]
        <3>1. k \in Keys /\ MayRequeue(k)
          BY <2>1 DEF Requeue, SeenInv, TypeInv, ThreadOK
        <3>2. /\ snapshot' = [snapshot EXCEPT ![k] = None]
              /\ queue' = [queue EXCEPT ![k] = Requeued(seen[h].expectation)]
              /\ UNCHANGED <<raw, ack, known>>
          BY <2>1 DEF Requeue
        <3>3. Requeued(seen[h].expectation) # None
          <4>1. seen[h].expectation \in Expectations
            BY ActorFacts DEF TypeInv, TypeOK
          <4>2. Requeued(seen[h].expectation) \in QueueRow
            BY <4>1 DEF Requeued, QueueRow
          <4> QED BY <4>2, NoneApart
        <3>4. /\ snapshot'[k] = None /\ queue'[k] # None /\ raw'[k] = None
              /\ \A j \in Keys \ {k} : snapshot'[j] = snapshot[j] /\ queue'[j] = queue[j]
          BY <3>1, <3>2, <3>3 DEF MayRequeue, TypeInv, TypeOK
        <3>5. RawWitnessed'
          BY <3>2, <3>4 DEF StoreInv, RawWitnessed
        <3>6. NothingLost'
          BY <3>2, <3>4 DEF StoreInv, NothingLost, Queued, TypeInv, TypeOK
        <3>7. ManualOk'
          BY <3>4 DEF StoreInv, ManualOk
        <3>8. Final({"manual"})
          BY <3>1, <3>4 DEF Final, MayRequeue, StoreInv, ManualOk
        <3> QED BY <3>5, <3>6, <3>7, <3>8 DEF StoreInv
      <2>2. CASE StoreHuman(h)
        <3>1. /\ key[h] \in Keys /\ got[h] \in Reading
              /\ got[h].by = "manual" => got[h].status = "ok"
          BY <2>2 DEF StoreHuman, TypeInv, ThreadOK
        <3> QED BY <2>2, <3>1, GentleFill, GentleStep DEF StoreHuman
      <2>3. CASE ReadBacklog(h)
        BY <2>3, GentleSame, GentleStep DEF ReadBacklog
      <2>4. ASSUME NEW k \in Keys, NEW body \in Bodies, ExtractNext(h, k, body)
            PROVE  StoreInv' /\ Final({"manual"})
        <3>1. ReadingOf(body) \in Reading /\ ReadingOf(body).by # "manual"
          BY ReadingOfType DEF Machine
        <3> QED BY <2>4, <3>1, GentleFill, GentleStep DEF ExtractNext
      <2> QED BY <1>3, <2>1, <2>2, <2>3, <2>4 DEF HumanFinish
    <1>4. ASSUME NEW p \in Processes, Crash(p)
          PROVE  StoreInv' /\ Final({"manual"})
      BY <1>4, GentleSame, GentleStep DEF Crash
    <1>5. ASSUME NEW p \in Processes, NEW targets \in SUBSET Keys, Enqueue(p, targets)
          PROVE  StoreInv' /\ Final({"manual"})
      <2>2. \A k \in Keys : /\ Queued(k) => Queued(k)'
                            /\ k \in targets => Queued(k)'
        BY <1>5, EnqueuedRow DEF Enqueue, Queued
      <2>3. known' = known \cup targets /\ UNCHANGED <<snapshot, raw, ack>>
        BY <1>5 DEF Enqueue
      <2>4. Gentle
        BY <2>2, <2>3 DEF Gentle, TypeInv, TypeOK
      <2> QED BY <2>4, GentleStep
    <1>6. CASE UNCHANGED vars
      BY <1>6, GentleSame, GentleStep DEF vars
    <1> QED
      BY <1>1, <1>2, <1>3, <1>4, <1>5, <1>6 DEF Next

LEMMA InitInv == Init => IInv
    <1> SUFFICES ASSUME Init
                 PROVE  IInv
      OBVIOUS
    <1>1. TypeInv
      BY ActorFacts, SnapshotsAssumption
      DEF Init, TypeInv, TypeOK, ThreadOK, WorkerPcs, HumanPcs
    <1> QED
      BY <1>1, ActorFacts
      DEF Init, IInv, LockInv, Holding, SeenInv, StoreInv, RawWitnessed, NothingLost, ManualOk

LEMMA StepInv ==
    ASSUME OneProcess, IInv, [Next]_vars
    PROVE  IInv'
    BY TypeStep, LockStep, SeenStep, StoreStep DEF IInv

LEMMA Inductive == OneProcess => (Spec => []IInv)
    <1> SUFFICES ASSUME OneProcess
                 PROVE  Spec => []IInv
      OBVIOUS
    <1>1. IInv /\ [Next]_vars => IInv'
      BY StepInv
    <1> QED BY <1>1, InitInv, PTL DEF Spec

\* In one process, bytes are never left without the row that witnesses them.
THEOREM BytesWitnessed == OneProcess => (Spec => []RawWitnessed)
    BY Inductive, PTL DEF IInv, StoreInv

\* In one process a target handed over is always queued, captured or acknowledged:
\* however records, retries, repairs and crashes interleave, none is dropped.
THEOREM NoCaptureLost == OneProcess => (Spec => []NothingLost)
    BY Inductive, PTL DEF IInv, StoreInv

\* In one process a row holding pasted text is never changed nor deleted.
THEOREM PastesAreFinal == OneProcess => (Spec => ManualFinal)
    <1> SUFFICES ASSUME OneProcess
                 PROVE  Spec => ManualFinal
      OBVIOUS
    <1>1. IInv /\ [Next]_vars => [Final({"manual"})]_vars
      BY StoreStep
    <1> QED BY <1>1, Inductive, PTL DEF Spec, ManualFinal

--------------------------------------------------------------------------------
(* What the SQL alone guarantees, lock or no lock, in any number of processes. *)

\* Bytes stay as they are, and a reading that is there afterwards too is the same.
Standing ==
    \A k \in Keys :
      /\ raw[k] # None => raw'[k] = raw[k]
      /\ snapshot[k] # None  /\ snapshot[k].extraction # None
         /\ snapshot'[k] # None /\ snapshot'[k].extraction # None
         => snapshot'[k] = snapshot[k]

LEMMA StandingSame ==
    ASSUME UNCHANGED <<snapshot, raw>>
    PROVE  Standing
    BY DEF Standing

LEMMA StandingFill ==
    ASSUME TypeInv, NEW k \in Keys, NEW reading \in Reading,
           snapshot' = [snapshot EXCEPT ![k] = Filled(@, reading)], UNCHANGED raw
    PROVE  Standing
    <1>1. /\ snapshot[k] \in SnapshotRow \cup {None}
          /\ snapshot'[k] = Filled(snapshot[k], reading)
          /\ \A j \in Keys \ {k} : snapshot'[j] = snapshot[j]
      BY DEF TypeInv, TypeOK
    <1> QED BY <1>1, FilledRow DEF Standing

LEMMA StandingClear ==
    ASSUME TypeInv, NEW k \in Keys, NEW row,
           snapshot' = [snapshot EXCEPT ![k] = ClearedForHuman(IF @ = None THEN row ELSE @)],
           \A j \in Keys : raw[j] # None => raw'[j] = raw[j]
    PROVE  Standing
    <1>1. /\ \A j \in Keys \ {k} : snapshot'[j] = snapshot[j]
          /\ snapshot[k] # None =>
               snapshot[k] \in SnapshotRow /\ snapshot'[k] = ClearedForHuman(snapshot[k])
      BY DEF TypeInv, TypeOK
    <1>2. \A held \in SnapshotRow :
            \/ ClearedForHuman(held) = held
            \/ ClearedForHuman(held).extraction = None
      BY DEF ClearedForHuman, SnapshotRow
    <1> QED BY <1>1, <1>2 DEF Standing

LEMMA StandingStep ==
    ASSUME TypeInv, [Next]_vars
    PROVE  Standing
    <1>1. ASSUME NEW w \in Workers, RecordWrite(w)
          PROVE  Standing
      <2>1. key[w] \in Keys
        BY <1>1 DEF RecordWrite, TypeInv, ThreadOK
      <2>2. CASE seen[w].existing
        BY <1>1, <2>2, StandingSame DEF RecordWrite
      <2>3. CASE ~seen[w].existing
        <3>1. snapshot[key[w]] = None /\ (got[w].body # None => raw[key[w]] = None)
          BY <1>1, <2>3 DEF RecordWrite, Conflicts
        <3>2. /\ \A j \in Keys \ {key[w]} : snapshot'[j] = snapshot[j] /\ raw'[j] = raw[j]
              /\ raw'[key[w]] = WithBytes(raw[key[w]], got[w])
          BY <1>1, <2>1, <2>3 DEF RecordWrite, TypeInv, TypeOK
        <3> QED BY <2>1, <3>1, <3>2 DEF Standing, WithBytes
      <2> QED BY <2>2, <2>3
    <1>2. ASSUME NEW w \in Workers, ExtractFetched(w)
          PROVE  Standing
      <2>1. key[w] \in Keys /\ ReadingOf(got[w].body) \in Reading
        BY <1>2, ReadingOfType DEF ExtractFetched, TypeInv, ThreadOK
      <2> QED BY <1>2, <2>1, StandingFill DEF ExtractFetched
    <1>3. ASSUME NEW w \in Workers, WorkerStep(w)
          PROVE  Standing
      BY <1>1, <1>2, <1>3, StandingSame
      DEF WorkerStep, ListPending, Fetch, DecideRetry, Defer, RecordRead, RecordSought,
          RecordConflict, store
    <1>4. ASSUME NEW h \in Humans, NEW k \in Keys, NEW text, Paste(h, k, text)
          PROVE  Standing
      BY <1>4, StandingClear DEF Paste
    <1>5. ASSUME NEW h \in Humans, NEW k \in Keys, NEW text, NEW html, NEW expectation,
                 NEW status, RecordBrowser(h, k, text, html, expectation, status)
          PROVE  Standing
      <2>1. \A j \in Keys : raw[j] # None => raw'[j] = raw[j]
        BY <1>5 DEF RecordBrowser, HeldAfter, TypeInv, TypeOK
      <2> QED BY <1>5, <2>1, StandingClear DEF RecordBrowser
    <1>6. ASSUME NEW h \in Humans, NEW only, Reextract(h, only)
          PROVE  Standing
      <2>1. /\ UNCHANGED raw
            /\ \A k \in Keys : snapshot[k] \in SnapshotRow \cup {None}
            /\ \A k \in Keys : snapshot'[k] = ResetRow(snapshot[k], raw[k] # None, only)
        BY <1>6 DEF Reextract, TypeInv, TypeOK
      <2>2. ASSUME NEW row \in SnapshotRow, NEW held
            PROVE  \/ ResetRow(row, held, only) = row
                   \/ ResetRow(row, held, only).extraction = None
        BY DEF ResetRow, SnapshotRow
      <2> QED BY <2>1, <2>2 DEF Standing
    <1>7. ASSUME NEW h \in Humans, StoreHuman(h)
          PROVE  Standing
      <2>1. key[h] \in Keys /\ got[h] \in Reading
        BY <1>7 DEF StoreHuman, TypeInv, ThreadOK
      <2> QED BY <1>7, <2>1, StandingFill DEF StoreHuman
    <1>8. ASSUME NEW h \in Humans, Requeue(h)
          PROVE  Standing
      <2>1. /\ key[h] \in Keys /\ UNCHANGED raw
            /\ snapshot' = [snapshot EXCEPT ![key[h]] = None]
        BY <1>8 DEF Requeue, TypeInv, ThreadOK
      <2> QED BY <2>1 DEF Standing, TypeInv, TypeOK
    <1>9. ASSUME NEW h \in Humans, NEW k \in Keys, NEW body \in Bodies, ExtractNext(h, k, body)
          PROVE  Standing
      <2>1. ReadingOf(body) \in Reading
        BY ReadingOfType
      <2> QED BY <1>9, <2>1, StandingFill DEF ExtractNext
    <1>10. ASSUME NEW h \in Humans, HumanBegin(h) \/ HumanFinish(h)
           PROVE  Standing
      BY <1>4, <1>5, <1>6, <1>7, <1>8, <1>9, <1>10, StandingSame
      DEF HumanBegin, HumanFinish, RetryRead, Acknowledge, Extract, ReadBacklog, store
    <1>11. CASE \/ \E p \in Processes, targets \in SUBSET Keys : Enqueue(p, targets)
                \/ \E p \in Processes : Crash(p)
                \/ UNCHANGED vars
      BY <1>11, StandingSame DEF Enqueue, Crash, vars, store
    <1> QED BY <1>3, <1>10, <1>11 DEF Next

\* The bytes held for a target never change and are never deleted, with any number
\* of processes on the database: record's plain INSERT conflicts, and a browser's
\* is INSERT OR IGNORE.
THEOREM BytesAreFinal == Spec => BytesImmutable
    <1>1. TypeInv /\ [Next]_vars => [\A k \in Keys : raw[k] # None => raw'[k] = raw[k]]_vars
      BY StandingStep DEF Standing
    <1> QED BY <1>1, TypeInvariant, PTL DEF Spec, BytesImmutable

\* Nor is a reading ever overwritten in place, in any number of processes.
THEOREM ReadingsAreFilledOnce == Spec => FilledOnce
    <1>1. TypeInv /\ [Next]_vars =>
            [\A k \in Keys :
               /\ snapshot[k] # None  /\ snapshot[k].extraction # None
               /\ snapshot'[k] # None /\ snapshot'[k].extraction # None
               => snapshot'[k] = snapshot[k]]_vars
      BY StandingStep DEF Standing
    <1> QED BY <1>1, TypeInvariant, PTL DEF Spec, FilledOnce

--------------------------------------------------------------------------------
(* NoSilentHole: a row without a reading holds bytes, says so by its status,   *)
(* or has a human on the way -- in any number of processes, while none dies.   *)

Awaiting(k) ==
    snapshot[k] # None /\ snapshot[k].extraction = None /\ snapshot[k].status = "ok"

Coming(k) == raw[k] # None \/ \E h \in Humans : pc[h] = "fill" /\ key[h] = k

Covered == crashes = 0 => \A k \in Keys : Awaiting(k) => Coming(k)

\* One thread moves; the rows it writes do not await anything, or what they await
\* is coming.
LEMMA CoverFrame ==
    ASSUME TypeInv, Covered, Standing, crashes' = crashes, NEW a \in Actors,
           \A b \in Actors \ {a} : pc'[b] = pc[b] /\ key'[b] = key[b],
           \A k \in Keys : pc[a] = "fill" /\ key[a] = k => ~Awaiting(k)',
           \A k \in Keys : snapshot'[k] = snapshot[k] \/ ~Awaiting(k)' \/ Coming(k)'
    PROVE  Covered'
    <1> SUFFICES ASSUME crashes = 0, NEW k \in Keys, Awaiting(k)', snapshot'[k] = snapshot[k]
                 PROVE  Coming(k)'
      BY DEF Covered
    <1>1. Awaiting(k)
      BY DEF Awaiting
    <1>2. CASE raw[k] # None
      BY <1>2 DEF Standing, Coming
    <1>3. ASSUME NEW h \in Humans, pc[h] = "fill", key[h] = k
          PROVE  Coming(k)'
      <2>1. h # a
        BY <1>3
      <2> QED BY <1>3, <2>1, ActorFacts DEF Coming
    <1> QED BY <1>1, <1>2, <1>3 DEF Covered, Coming

\* A row that went through Filled has a reading.
LEMMA FilledAwaitsNothing ==
    ASSUME NEW k \in Keys, NEW reading \in Reading,
           snapshot[k] \in SnapshotRow \cup {None},
           snapshot'[k] = Filled(snapshot[k], reading)
    PROVE  ~Awaiting(k)'
    <1>1. reading.by # None
      BY NoneApart DEF Reading
    <1> QED BY <1>1, FilledRow DEF Awaiting

LEMMA CoverStep ==
    ASSUME TypeInv, Covered, [Next]_vars
    PROVE  Covered'
    <1> Standing
      BY StandingStep
    <1> USE DEF TypeInv, TypeOK
    <1>1. ASSUME NEW w \in Workers, WorkerStep(w)
          PROVE  Covered'
      <2> w \in Actors /\ pc[w] # "fill"
        BY ActorFacts DEF ThreadOK, WorkerPcs
      <2>1. CASE RecordWrite(w)
        <3>1. PICK k \in Keys : k = key[w]
          BY <2>1 DEF RecordWrite, ThreadOK
        <3>2. got[w] \in Fetched
          BY <2>1 DEF RecordWrite, ThreadOK
        <3>3. /\ \A b \in Actors \ {w} : pc'[b] = pc[b] /\ key'[b] = key[b]
              /\ crashes' = crashes
          BY <2>1 DEF RecordWrite, NextCapture
        <3>4. \A j \in Keys \ {k} : snapshot'[j] = snapshot[j]
          BY <2>1, <3>1 DEF RecordWrite
        <3>5. snapshot'[k] = snapshot[k] \/ ~Awaiting(k)' \/ Coming(k)'
          <4>1. CASE seen[w].existing
            BY <2>1, <4>1 DEF RecordWrite
          <4>2. CASE ~seen[w].existing
            <5>1. /\ snapshot'[k] = NewRow(got[w].status, seen[w].expectation)
                  /\ raw'[k] = WithBytes(raw[k], got[w])
              BY <2>1, <3>1, <4>2 DEF RecordWrite
            <5>2. snapshot'[k].status = got[w].status
              BY <5>1 DEF NewRow
            <5>3. got[w].status = "ok" => got[w].body \in Bodies
              BY <3>2 DEF Fetched
            <5> QED BY <5>1, <5>2, <5>3, NoneApart DEF Awaiting, Coming, WithBytes
          <4> QED BY <4>1, <4>2
        <3> QED BY <3>3, <3>4, <3>5, CoverFrame
      <2>2. CASE ExtractFetched(w)
        <3>1. PICK k \in Keys : k = key[w]
          BY <2>2 DEF ExtractFetched, ThreadOK
        <3>2. ReadingOf(got[w].body) \in Reading
          BY <2>2, ReadingOfType DEF ExtractFetched, ThreadOK
        <3>3. /\ snapshot'[k] = Filled(snapshot[k], ReadingOf(got[w].body))
              /\ \A j \in Keys \ {k} : snapshot'[j] = snapshot[j]
              /\ \A b \in Actors \ {w} : pc'[b] = pc[b] /\ key'[b] = key[b]
              /\ crashes' = crashes
          BY <2>2, <3>1 DEF ExtractFetched, NextCapture
        <3> QED BY <3>2, <3>3, FilledAwaitsNothing, CoverFrame
      <2>3. CASE ~RecordWrite(w) /\ ~ExtractFetched(w)
        <3>1. /\ UNCHANGED <<snapshot, crashes>>
              /\ \A b \in Actors \ {w} : pc'[b] = pc[b] /\ key'[b] = key[b]
          BY <1>1, <2>3
          DEF WorkerStep, ListPending, Fetch, DecideRetry, Defer, RecordRead, RecordSought,
              RecordConflict, NextCapture, Idle, store
        <3> QED BY <3>1, CoverFrame
      <2> QED BY <2>1, <2>2, <2>3
    <1>2. ASSUME NEW h \in Humans, HumanBegin(h) \/ HumanFinish(h)
          PROVE  Covered'
      <2> h \in Actors
        BY ActorFacts
      <2>1. ASSUME NEW k \in Keys, pc[h] # "fill", pc'[h] = "fill", key'[h] = k,
                   \A b \in Actors \ {h} : pc'[b] = pc[b] /\ key'[b] = key[b],
                   \A j \in Keys \ {k} : snapshot'[j] = snapshot[j],
                   crashes' = crashes
            PROVE  Covered'
        <3>1. Coming(k)'
          BY <2>1 DEF Coming
        <3> QED BY <2>1, <3>1, CoverFrame
      <2>2. ASSUME NEW k \in Keys, NEW text, Paste(h, k, text)
            PROVE  Covered'
        BY <2>1, <2>2 DEF Paste, Begin
      <2>3. ASSUME NEW k \in Keys, NEW text, NEW html, NEW expectation, NEW status,
                   RecordBrowser(h, k, text, html, expectation, status)
            PROVE  Covered'
        BY <2>1, <2>3 DEF RecordBrowser, Begin
      <2>4. ASSUME NEW only, Reextract(h, only)
            PROVE  Covered'
        <3>1. /\ \A b \in Actors \ {h} : pc'[b] = pc[b] /\ key'[b] = key[b]
              /\ pc[h] # "fill" /\ crashes' = crashes /\ raw' = raw
          BY <2>4 DEF Reextract, Begin
        <3>2. \A k \in Keys : snapshot'[k] = snapshot[k] \/ raw'[k] # None
          BY <2>4, <3>1 DEF Reextract, ResetRow
        <3> QED BY <3>1, <3>2, CoverFrame DEF Coming
      <2>5. CASE StoreHuman(h)
        <3>1. PICK k \in Keys : k = key[h]
          BY <2>5 DEF StoreHuman, ThreadOK
        <3>2. got[h] \in Reading
          BY <2>5 DEF StoreHuman, ThreadOK
        <3>3. /\ snapshot'[k] = Filled(snapshot[k], got[h])
              /\ \A j \in Keys \ {k} : snapshot'[j] = snapshot[j]
              /\ \A b \in Actors \ {h} : pc'[b] = pc[b] /\ key'[b] = key[b]
              /\ crashes' = crashes
          BY <2>5, <3>1 DEF StoreHuman, Idle
        <3>4. ~Awaiting(k)'
          BY <3>2, <3>3, FilledAwaitsNothing
        <3> QED BY <3>1, <3>3, <3>4, CoverFrame
      <2>6. CASE Requeue(h)
        <3>1. PICK k \in Keys : k = key[h]
          BY <2>6 DEF Requeue, ThreadOK
        <3>2. /\ snapshot'[k] = None
              /\ \A j \in Keys \ {k} : snapshot'[j] = snapshot[j]
              /\ \A b \in Actors \ {h} : pc'[b] = pc[b] /\ key'[b] = key[b]
              /\ pc[h] # "fill" /\ crashes' = crashes
          BY <2>6, <3>1 DEF Requeue, Idle
        <3> QED BY <3>2, CoverFrame DEF Awaiting
      <2>7. ASSUME NEW k \in Keys, NEW body \in Bodies, ExtractNext(h, k, body)
            PROVE  Covered'
        <3>1. /\ snapshot'[k] = Filled(snapshot[k], ReadingOf(body))
              /\ \A j \in Keys \ {k} : snapshot'[j] = snapshot[j]
              /\ \A b \in Actors \ {h} : pc'[b] = pc[b] /\ key'[b] = key[b]
              /\ pc[h] # "fill" /\ crashes' = crashes
          BY <2>7 DEF ExtractNext
        <3> QED BY <3>1, ReadingOfType, FilledAwaitsNothing, CoverFrame
      <2>8. ASSUME \/ \E k \in Keys : RetryRead(h, k) \/ Acknowledge(h, k)
                   \/ Extract(h) \/ ReadBacklog(h)
            PROVE  Covered'
        <3>1. /\ UNCHANGED <<snapshot, crashes>>
              /\ \A b \in Actors \ {h} : pc'[b] = pc[b] /\ key'[b] = key[b]
              /\ pc[h] # "fill"
          BY <2>8
          DEF RetryRead, Acknowledge, Extract, ReadBacklog, Begin, store, threads
        <3> QED BY <3>1, CoverFrame
      <2>9. CASE HumanBegin(h)
        BY <2>9, <2>2, <2>3, <2>4, <2>8 DEF HumanBegin
      <2>10. CASE HumanFinish(h)
        BY <2>10, <2>5, <2>6, <2>7, <2>8 DEF HumanFinish
      <2> QED BY <1>2, <2>9, <2>10
    <1>3. ASSUME NEW p \in Processes, Crash(p)
          PROVE  Covered'
      BY <1>3 DEF Crash, Covered
    <1>4. CASE \/ \E p \in Processes, targets \in SUBSET Keys : Enqueue(p, targets)
               \/ UNCHANGED vars
      BY <1>4 DEF Enqueue, vars, store, threads, Covered, Awaiting, Coming
    <1> QED BY <1>1, <1>2, <1>3, <1>4 DEF Next

\* A capture that shows nothing is never silent about it, with any number of
\* servers and reviewers on the database, as long as no process dies between the
\* two transactions of a paste.
THEOREM HolesAreShown == Spec => [](crashes = 0 => NoSilentHole)
    <1>1. Init => Covered
      BY DEF Init, Covered, Awaiting
    <1>2. TypeInv /\ Covered /\ [Next]_vars => Covered'
      BY CoverStep
    <1>3. TypeInv /\ Covered => (crashes = 0 => NoSilentHole)
      BY DEF Covered, Awaiting, Coming, NoSilentHole, InBacklog, InTriage
    <1> QED BY <1>1, <1>2, <1>3, TypeInvariant, PTL DEF Spec

--------------------------------------------------------------------------------
(* AttemptsBounded: _retriable reads the count in one step and defer adds to   *)
(* it in another, so each worker between the two may still add one.            *)

Deferring(k) == {w \in Workers : pc[w] = "defer" /\ key[w] = k}

\* What has been tried and what is about to be counted stay within the bound.
AttemptInv ==
    /\ \A w \in Workers : pc[w] = "defer" => MaxAttempts >= 2
    /\ \A k \in Keys : Queued(k) =>
         queue[k].attempts + Cardinality(Deferring(k)) + 2
             <= MaxAttempts + Cardinality(Workers)

SomeWorkers == IsFiniteSet(Workers) /\ Workers # {}

LEMMA DeferringCount ==
    ASSUME SomeWorkers, NEW k
    PROVE  /\ Cardinality(Workers) \in Nat \ {0}
           /\ IsFiniteSet(Deferring(k)) /\ Cardinality(Deferring(k)) \in Nat
           /\ Cardinality(Deferring(k)) <= Cardinality(Workers)
    <1>1. Deferring(k) \in SUBSET Workers
      BY DEF Deferring
    <1> QED BY <1>1, FS_Subset, FS_CardinalityType, FS_EmptySet DEF SomeWorkers

\* The same of the set as the step leaves it.
LEMMA FewerDeferring ==
    ASSUME SomeWorkers, NEW k, Deferring(k)' \subseteq Deferring(k)
    PROVE  /\ Cardinality(Deferring(k)') \in Nat
           /\ Cardinality(Deferring(k)') <= Cardinality(Deferring(k))
    <1>1. IsFiniteSet(Deferring(k))
      BY DeferringCount
    <1> HIDE DEF Deferring
    <1> QED BY <1>1, FS_Subset, FS_CardinalityType

\* No worker turns to deferring, and a count changes only by starting over.
LEMMA AttemptFrame ==
    ASSUME SomeWorkers, TypeInv, AttemptInv,
           \A w \in Workers : pc'[w] = "defer" => pc[w] = "defer" /\ key'[w] = key[w],
           \A k \in Keys : Queued(k)' =>
             queue'[k].attempts = 0 \/ (Queued(k) /\ queue'[k].attempts = queue[k].attempts)
    PROVE  AttemptInv'
    <1>1. ASSUME NEW w \in Workers, pc'[w] = "defer"
          PROVE  MaxAttempts >= 2
      BY <1>1 DEF AttemptInv
    <1>2. ASSUME NEW k \in Keys, Queued(k)'
          PROVE  queue'[k].attempts + Cardinality(Deferring(k)') + 2
                   <= MaxAttempts + Cardinality(Workers)
      <2>1. Deferring(k)' \subseteq Deferring(k)
        BY DEF Deferring
      <2>2. /\ Cardinality(Deferring(k)') \in Nat /\ Cardinality(Deferring(k)) \in Nat
            /\ Cardinality(Deferring(k)') <= Cardinality(Deferring(k))
            /\ Cardinality(Deferring(k)) <= Cardinality(Workers)
            /\ Cardinality(Workers) \in Nat \ {0}
            /\ MaxAttempts \in Nat \ {0}
        BY <2>1, FewerDeferring, DeferringCount, SnapshotsAssumption
      <2>3. CASE queue'[k].attempts = 0
        <3>1. CASE Deferring(k)' = {}
          <4>1. Cardinality(Deferring(k)') = 0
            BY <3>1, FS_EmptySet
          <4> QED BY <2>2, <2>3, <4>1
        <3>2. CASE Deferring(k)' # {}
          <4>1. MaxAttempts >= 2
            BY <3>2, <2>1 DEF Deferring, AttemptInv
          <4> QED BY <2>2, <2>3, <4>1
        <3> QED BY <3>1, <3>2
      <2>4. CASE Queued(k) /\ queue'[k].attempts = queue[k].attempts
        <3>1. queue[k].attempts \in Nat
          BY <2>4 DEF TypeInv, TypeOK, QueueRow, Queued
        <3>2. queue[k].attempts + Cardinality(Deferring(k)) + 2
                <= MaxAttempts + Cardinality(Workers)
          BY <2>4 DEF AttemptInv
        <3> QED BY <2>2, <2>4, <3>1, <3>2
      <2> QED BY <1>2, <2>3, <2>4
    <1> QED BY <1>1, <1>2 DEF AttemptInv

LEMMA AttemptStep ==
    ASSUME SomeWorkers, TypeInv, AttemptInv, [Next]_vars
    PROVE  AttemptInv'
    <1> USE DEF TypeInv, TypeOK
    <1>1. ASSUME NEW w \in Workers, DecideRetry(w)
          PROVE  AttemptInv'
      <2>1. PICK k \in Keys : k = key[w]
        BY <1>1 DEF DecideRetry, ThreadOK
      <2>2. /\ queue' = queue /\ key' = key
            /\ pc' = [pc EXCEPT ![w] = IF Retriable(k) THEN "defer" ELSE "record"]
        BY <1>1, <2>1 DEF DecideRetry, store
      <2>3. CASE ~Retriable(k)
        <3>1. \A v \in Workers : pc'[v] = "defer" => pc[v] = "defer"
          BY <2>2, <2>3, ActorFacts
        <3> QED BY <2>2, <3>1, AttemptFrame DEF Queued
      <2>4. CASE Retriable(k)
        <3>1. Queued(k) /\ queue[k].attempts \in Nat /\ queue[k].attempts + 2 <= MaxAttempts
          BY <2>4, SnapshotsAssumption DEF Retriable, Queued, QueueRow
        <3>2. MaxAttempts >= 2
          BY <3>1, SnapshotsAssumption
        <3>3. ASSUME NEW j \in Keys, Queued(j)
              PROVE  queue[j].attempts + Cardinality(Deferring(j)') + 2
                       <= MaxAttempts + Cardinality(Workers)
          <4>1. CASE j = k
            <5>1. Deferring(k)' \in SUBSET Workers
              BY DEF Deferring
            <5>2. /\ Cardinality(Deferring(k)') \in Nat
                  /\ Cardinality(Deferring(k)') <= Cardinality(Workers)
                  /\ Cardinality(Workers) \in Nat
              BY <5>1, FS_Subset, FS_CardinalityType DEF SomeWorkers
            <5> QED BY <3>1, <4>1, <5>2, SnapshotsAssumption
          <4>2. CASE j # k
            <5>1. Deferring(j)' = Deferring(j)
              BY <2>1, <2>2, <4>2, ActorFacts DEF Deferring
            <5> QED BY <3>3, <5>1 DEF AttemptInv
          <4> QED BY <4>1, <4>2
        <3> QED BY <2>2, <3>2, <3>3 DEF AttemptInv, Queued
      <2> QED BY <2>3, <2>4
    <1>2. ASSUME NEW w \in Workers, Defer(w)
          PROVE  AttemptInv'
      <2>1. PICK k \in Keys : k = key[w]
        BY <1>2 DEF Defer, ThreadOK
      <2>2. /\ pc[w] = "defer" /\ pc'[w] # "defer"
            /\ \A v \in Workers \ {w} : pc'[v] = pc[v] /\ key'[v] = key[v]
            /\ queue' = [queue EXCEPT ![k] = IF @ = None THEN None ELSE Deferred(@)]
        BY <1>2, <2>1, ActorFacts DEF Defer, NextCapture
      <2>3. ASSUME NEW v \in Workers, pc'[v] = "defer"
            PROVE  MaxAttempts >= 2
        BY <2>2, <2>3 DEF AttemptInv
      <2>4. ASSUME NEW j \in Keys, Queued(j)'
            PROVE  queue'[j].attempts + Cardinality(Deferring(j)') + 2
                     <= MaxAttempts + Cardinality(Workers)
        <3>1. Queued(j) /\ queue[j] \in QueueRow
          BY <2>2, <2>4 DEF Queued
        <3>2. queue[j].attempts + Cardinality(Deferring(j)) + 2
                <= MaxAttempts + Cardinality(Workers)
          BY <3>1 DEF AttemptInv
        <3>3. queue[j].attempts \in Nat
          BY <3>1 DEF QueueRow
        <3>4. CASE j = k
          <4>1. queue'[j].attempts = queue[j].attempts + 1
            BY <2>2, <3>1, <3>4 DEF Deferred, Queued, QueueRow
          <4>2. w \in Deferring(j) /\ Deferring(j)' = Deferring(j) \ {w}
            BY <2>1, <2>2, <3>4 DEF Deferring
          <4>3. Cardinality(Deferring(j)') = Cardinality(Deferring(j)) - 1
            <5>1. IsFiniteSet(Deferring(j))
              BY DeferringCount
            <5> HIDE DEF Deferring
            <5> QED BY <4>2, <5>1, FS_RemoveElement
          <4> QED BY <3>2, <3>3, <4>1, <4>3, DeferringCount, SnapshotsAssumption
        <3>5. CASE j # k
          <4>1. queue'[j] = queue[j] /\ Deferring(j)' = Deferring(j)
            BY <2>1, <2>2, <3>5 DEF Deferring
          <4> QED BY <3>2, <4>1
        <3> QED BY <3>4, <3>5
      <2> QED BY <2>3, <2>4 DEF AttemptInv
    <1>3. ASSUME NEW w \in Workers, WorkerStep(w), ~DecideRetry(w), ~Defer(w)
          PROVE  AttemptInv'
      <2> w \in Actors
        BY ActorFacts
      <2>1. \A v \in Workers : pc'[v] = "defer" => pc[v] = "defer" /\ key'[v] = key[v]
        <3>1. CASE ListPending(w) \/ RecordRead(w) \/ RecordSought(w)
          BY <3>1, ActorFacts DEF ListPending, RecordRead, RecordSought
        <3>2. ASSUME NEW k \in Keys, NEW result \in Fetched, Fetch(w, k, result)
              PROVE  pc'[w] # "defer" /\ \A v \in Workers \ {w} : pc'[v] = pc[v] /\ key'[v] = key[v]
          BY <3>2, ActorFacts DEF Fetch
        <3>3. CASE RecordWrite(w)
          BY <3>3, ActorFacts DEF RecordWrite, NextCapture
        <3>4. CASE RecordConflict(w) \/ ExtractFetched(w)
          BY <3>4, ActorFacts DEF RecordConflict, ExtractFetched, NextCapture, Idle
        <3> QED BY <1>3, <3>1, <3>2, <3>3, <3>4 DEF WorkerStep
      <2>2. \A k \in Keys : queue'[k] = queue[k] \/ queue'[k] = None
        BY <1>3
        DEF WorkerStep, ListPending, Fetch, RecordRead, RecordSought, RecordWrite,
            RecordConflict, ExtractFetched, store
      <2> QED BY <2>1, <2>2, AttemptFrame DEF Queued
    <1>4. ASSUME NEW h \in Humans, HumanBegin(h) \/ HumanFinish(h)
          PROVE  AttemptInv'
      <2> h \in Actors /\ h \notin Workers
        BY ActorFacts
      <2>1. \A v \in Workers : pc'[v] = pc[v] /\ key'[v] = key[v]
        BY <1>4, ActorFacts
        DEF HumanBegin, HumanFinish, Paste, RecordBrowser, RetryRead, Acknowledge,
            Reextract, Extract, StoreHuman, Requeue, ReadBacklog, ExtractNext, Idle, threads
      <2>2. CASE Requeue(h)
        <3>1. \A k \in Keys : queue'[k] = queue[k] \/ queue'[k].attempts = 0
          BY <2>2 DEF Requeue, Requeued
        <3> QED BY <2>1, <3>1, AttemptFrame DEF Queued
      <2>3. CASE ~Requeue(h)
        <3>1. \A k \in Keys : queue'[k] = queue[k] \/ queue'[k] = None
          BY <1>4, <2>3
          DEF HumanBegin, HumanFinish, Paste, RecordBrowser, RetryRead, Acknowledge,
              Reextract, Extract, StoreHuman, ReadBacklog, ExtractNext, store
        <3> QED BY <2>1, <3>1, AttemptFrame DEF Queued
      <2> QED BY <2>2, <2>3
    <1>5. ASSUME NEW p \in Processes, NEW targets \in SUBSET Keys, Enqueue(p, targets)
          PROVE  AttemptInv'
      <2>1. /\ pc' = pc /\ key' = key
            /\ \A j \in Keys : queue'[j] = queue[j] \/ queue'[j].attempts = 0
        BY <1>5 DEF Enqueue, threads
      <2> QED BY <2>1, AttemptFrame DEF Queued
    <1>6. ASSUME NEW p \in Processes, Crash(p)
          PROVE  AttemptInv'
      <2>1. /\ \A v \in Workers : pc'[v] = "defer" => pc[v] = "defer" /\ key'[v] = key[v]
            /\ queue' = queue
        BY <1>6, ActorFacts DEF Crash, store
      <2> QED BY <2>1, AttemptFrame DEF Queued
    <1>7. CASE UNCHANGED vars
      BY <1>7, AttemptFrame DEF vars, store, threads, Queued
    <1> QED BY <1>1, <1>2, <1>3, <1>4, <1>5, <1>6, <1>7 DEF Next

\* A capture is tried max_attempts times and once more for each further worker
\* that read the count before another raised it, in any number of processes.
THEOREM TriesAreBounded == SomeWorkers => (Spec => []AttemptsBounded)
    <1> SUFFICES ASSUME SomeWorkers
                 PROVE  Spec => []AttemptsBounded
      OBVIOUS
    <1>1. Init => AttemptInv
      BY ActorFacts DEF Init, AttemptInv, Queued
    <1>2. TypeInv /\ AttemptInv /\ [Next]_vars => AttemptInv'
      BY AttemptStep
    <1>3. TypeInv /\ AttemptInv => AttemptsBounded
      <2> SUFFICES ASSUME TypeInv, AttemptInv, NEW k \in Keys, Queued(k)
                   PROVE  queue[k].attempts <= (MaxAttempts - 1) + (Cardinality(Workers) - 1)
        BY DEF AttemptsBounded
      <2>1. queue[k].attempts \in Nat
        BY DEF TypeInv, TypeOK, Queued, QueueRow
      <2> QED BY <2>1, DeferringCount, SnapshotsAssumption DEF AttemptInv
    <1> QED BY <1>1, <1>2, <1>3, TypeInvariant, PTL DEF Spec
================================================================================
