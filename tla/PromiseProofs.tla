----------------------------- MODULE PromiseProofs -----------------------------
(***************************************************************************)
(* Snapshots implements Witnesses: in one process every step of a worker,  *)
(* a human or a crash is a step of the abstract promise, or none.          *)
(***************************************************************************)
EXTENDS SnapshotsProofs

\* The row of a fetch that failed: no bytes under it, and not a human's either.
BareFailure(k) ==
    /\ snapshot[k] # None /\ snapshot[k].status # "ok"
    /\ snapshot[k].status = "thin" => raw[k] = None

\* What is queued, or has failed, was handed over: a paste or a browser capture
\* may come before that, but makes neither.
CitedRows == \A k \in Keys : Queued(k) \/ BareFailure(k) => k \in known

\* Nor does a worker carry another target, or a retry; and a human's reading, or
\* one of a batch, is "thin" only over bytes.
CitedHands ==
    /\ \A w \in Workers : todo[w] \subseteq known /\ key[w] \in known \cup {None}
    /\ \A h \in Humans : pc[h] = "requeue" => key[h] \in known
    /\ \A h \in Humans : pc[h] = "fill" =>
         \/ got[h].status = "ok"
         \/ got[h].status = "thin" /\ raw[key[h]] # None
    /\ \A h \in Humans : \A capture \in batch[h] : raw[capture[1]] # None

CitedInv == CitedRows /\ CitedHands

\* A row marked as pasted holds a text a human supplied, and so does the human
\* who is about to store one.
TextRows == \A k \in Keys :
    snapshot[k] # None /\ snapshot[k].extraction = "manual" => snapshot[k].text \in Texts
TextHands == \A h \in Humans :
    pc[h] = "fill" /\ got[h].by = "manual" => got[h].text \in Texts

PInv == IInv /\ CitedInv /\ TextRows /\ TextHands

--------------------------------------------------------------------------------
(* What is queued or has failed was cited: lock or no lock, in any number of   *)
(* processes.                                                                  *)

LEMMA CitedFill ==
    ASSUME TypeInv, CitedRows, NEW k \in Keys, NEW reading \in Reading,
           \/ reading.status \in {None, "ok"}
           \/ reading.status = "thin" /\ raw[k] # None
           \/ k \in known,
           snapshot' = [snapshot EXCEPT ![k] = Filled(@, reading)],
           UNCHANGED <<queue, raw, known>>
    PROVE  CitedRows'
    <1>1. /\ snapshot[k] \in SnapshotRow \cup {None}
          /\ snapshot'[k] = Filled(snapshot[k], reading)
          /\ \A j \in Keys \ {k} : snapshot'[j] = snapshot[j]
      BY DEF TypeInv, TypeOK
    <1>2. snapshot'[k] # None =>
            /\ snapshot[k] # None
            /\ \/ snapshot'[k].status = snapshot[k].status
               \/ reading.status # None /\ snapshot'[k].status = reading.status
      BY <1>1 DEF Filled, SnapshotRow
    <1> QED BY <1>1, <1>2 DEF CitedRows, BareFailure, Queued

LEMMA CitedClear ==
    ASSUME TypeInv, CitedRows, NEW k \in Keys, NEW row \in SnapshotRow,
           \/ row.status = "ok"
           \/ row.status = "thin" /\ raw'[k] # None,
           snapshot' = [snapshot EXCEPT ![k] = ClearedForHuman(IF @ = None THEN row ELSE @)],
           \A j \in Keys \ {k} : raw'[j] = raw[j],
           raw[k] # None => raw'[k] = raw[k],
           \A j \in Keys : queue'[j] = queue[j] \/ queue'[j] = None,
           UNCHANGED known
    PROVE  CitedRows'
    <1> DEFINE held == IF snapshot[k] = None THEN row ELSE snapshot[k]
    <1>1. held \in SnapshotRow
      BY DEF TypeInv, TypeOK
    <1>2. /\ snapshot'[k] = ClearedForHuman(held)
          /\ \A j \in Keys \ {k} : snapshot'[j] = snapshot[j]
      BY DEF TypeInv, TypeOK
    <1>3. snapshot'[k].status = held.status
      BY <1>1, <1>2 DEF ClearedForHuman, SnapshotRow
    <1> QED BY <1>2, <1>3 DEF CitedRows, BareFailure, Queued

LEMMA CitedReset ==
    ASSUME TypeInv, CitedRows, NEW h \in Humans, NEW only, Reextract(h, only)
    PROVE  CitedRows'
    <1>1. /\ UNCHANGED <<queue, raw, known>>
          /\ \A k \in Keys : snapshot[k] \in SnapshotRow \cup {None}
          /\ \A k \in Keys : snapshot'[k] = ResetRow(snapshot[k], raw[k] # None, only)
      BY DEF Reextract, TypeInv, TypeOK
    <1>2. ASSUME NEW row \in SnapshotRow, NEW held
          PROVE  ResetRow(row, held, only).status \in {"ok", row.status}
      BY DEF ResetRow, SnapshotRow
    <1>3. ASSUME NEW held
          PROVE  ResetRow(None, held, only) = None
      BY DEF ResetRow
    <1> QED BY <1>1, <1>2, <1>3 DEF CitedRows, BareFailure, Queued

LEMMA CitedWorker ==
    ASSUME TypeInv, CitedInv, Standing, NEW w \in Workers, WorkerStep(w)
    PROVE  CitedInv'
    <1> USE DEF TypeInv, TypeOK, CitedInv, CitedHands
    <1> w \in Actors /\ w \notin Humans
      BY ActorFacts
    <1>1. CASE ListPending(w)
      BY <1>1, ActorFacts DEF ListPending, store, CitedRows, BareFailure, Queued
    <1>2. ASSUME NEW k \in Keys, NEW r \in Fetched, Fetch(w, k, r)
          PROVE  CitedInv'
      BY <1>2, ActorFacts DEF Fetch, store, CitedRows, BareFailure, Queued
    <1>3. CASE DecideRetry(w) \/ RecordRead(w) \/ RecordSought(w)
      BY <1>3, ActorFacts
      DEF DecideRetry, RecordRead, RecordSought, store, CitedRows, BareFailure, Queued
    <1>4. CASE RecordConflict(w)
      BY <1>4, ActorFacts DEF RecordConflict, Idle, store, CitedRows, BareFailure, Queued
    <1>5. CASE Defer(w)
      <2>1. /\ UNCHANGED <<snapshot, raw, known>>
            /\ \A k \in Keys : Queued(k)' => Queued(k)
        BY <1>5 DEF Defer, Queued
      <2>2. CitedRows'
        BY <2>1 DEF CitedRows, BareFailure
      <2> QED BY <1>5, <2>1, <2>2, ActorFacts DEF Defer, NextCapture
    <1>6. CASE RecordWrite(w)
      <2>1. PICK k \in Keys : k = key[w] /\ k \in known
        BY <1>6, NoneApart DEF RecordWrite, ThreadOK
      <2>2. /\ \A j \in Keys \ {k} : snapshot'[j] = snapshot[j] /\ raw'[j] = raw[j]
            /\ \A j \in Keys : queue'[j] # None => queue'[j] = queue[j]
            /\ UNCHANGED known
        BY <1>6, <2>1 DEF RecordWrite
      <2>3. CitedRows'
        BY <2>1, <2>2 DEF CitedRows, BareFailure, Queued
      <2>4. \A j \in Keys : raw[j] # None => raw'[j] # None
        BY DEF Standing
      <2>5. /\ UNCHANGED <<todo, batch>>
            /\ \A a \in Actors \ {w} : pc'[a] = pc[a] /\ key'[a] = key[a] /\ got'[a] = got[a]
            /\ key'[w] \in {key[w], None}
        BY <1>6, ActorFacts DEF RecordWrite, NextCapture
      <2>6. \A h \in Humans : \A capture \in batch'[h] : raw'[capture[1]] # None
        BY <2>4, <2>5
      <2>7. \A h \in Humans : pc[h] = "fill" => key[h] \in Keys
        BY DEF ThreadOK
      <2> QED BY <2>2, <2>3, <2>4, <2>5, <2>6, <2>7, ActorFacts
    <1>7. CASE ExtractFetched(w)
      <2>1. key[w] \in Keys /\ key[w] \in known /\ ReadingOf(got[w].body) \in Reading
        BY <1>7, ReadingOfType, NoneApart DEF ExtractFetched, ThreadOK
      <2>2. CitedRows'
        BY <1>7, <2>1, CitedFill DEF ExtractFetched
      <2> QED BY <1>7, <2>2, ActorFacts DEF ExtractFetched, NextCapture
    <1> QED BY <1>1, <1>2, <1>3, <1>4, <1>5, <1>6, <1>7 DEF WorkerStep

LEMMA CitedBegin ==
    ASSUME TypeInv, CitedInv, Standing, NEW h \in Humans, HumanBegin(h)
    PROVE  CitedInv'
    <1> USE DEF TypeInv, TypeOK, CitedInv, CitedHands
    <1> h \in Actors /\ h \notin Workers
      BY ActorFacts
    <1>1. ASSUME NEW k \in Keys, NEW text \in Texts, Paste(h, k, text)
          PROVE  CitedInv'
      <2>1. NewRow("ok", None) \in SnapshotRow /\ NewRow("ok", None).status = "ok"
        BY NewRowType DEF Statuses, Expectations, NewRow
      <2>2. CitedRows'
        BY <1>1, <2>1, CitedClear DEF Paste
      <2> QED BY <1>1, <2>2, ActorFacts DEF Paste
    <1>2. ASSUME NEW k \in Keys, NEW text \in Texts, NEW html \in Doms \cup {None},
                 NEW status \in {"ok", "thin"}, NEW expectation \in {Expected[k], None},
                 RecordBrowser(h, k, text, html, expectation, status)
          PROVE  CitedInv'
      <2>1. NewRow(status, expectation) \in SnapshotRow
            /\ NewRow(status, expectation).status = status
        BY NewRowType, ActorFacts DEF Statuses, Expectations, NewRow
      <2>2. /\ \A j \in Keys \ {k} : raw'[j] = raw[j]
            /\ raw[k] # None => raw'[k] = raw[k]
            /\ status = "thin" => raw'[k] # None
            /\ \A j \in Keys : queue'[j] = queue[j] \/ queue'[j] = None
            /\ UNCHANGED known
        BY <1>2 DEF RecordBrowser, HeldAfter
      <2>3. snapshot' = [snapshot EXCEPT ![k] =
              ClearedForHuman(IF @ = None THEN NewRow(status, expectation) ELSE @)]
        BY <1>2 DEF RecordBrowser
      <2>4. CitedRows'
        BY <2>1, <2>2, <2>3, CitedClear
      <2>5. /\ UNCHANGED <<todo, batch>>
            /\ \A a \in Actors \ {h} : pc'[a] = pc[a] /\ key'[a] = key[a] /\ got'[a] = got[a]
            /\ pc'[h] = "fill" /\ key'[h] = k /\ got'[h].status = status
        BY <1>2, ActorFacts DEF RecordBrowser
      <2>6. \A j \in Keys : raw[j] # None => raw'[j] # None
        BY DEF Standing
      <2>7. \A g \in Humans : \A capture \in batch'[g] : raw'[capture[1]] # None
        BY <2>5, <2>6
      <2>8. \A g \in Humans : pc[g] = "fill" => key[g] \in Keys
        BY DEF ThreadOK
      <2>9. ASSUME NEW g \in Humans, pc'[g] = "fill"
            PROVE  \/ got'[g].status = "ok"
                   \/ got'[g].status = "thin" /\ raw'[key'[g]] # None
        <3>1. CASE g = h
          BY <2>2, <2>5, <3>1
        <3>2. CASE g # h
          BY <2>5, <2>6, <2>8, <2>9, <3>2, ActorFacts
        <3> QED BY <3>1, <3>2
      <2> QED BY <2>2, <2>4, <2>5, <2>7, <2>9, ActorFacts
    <1>3. ASSUME NEW k \in Keys, RetryRead(h, k)
          PROVE  CitedInv'
      <2>1. k \in known
        BY <1>3 DEF RetryRead, MayRequeue, CitedRows, BareFailure
      <2> QED BY <1>3, <2>1, ActorFacts DEF RetryRead, store, CitedRows, BareFailure, Queued
    <1>4. ASSUME NEW k \in Keys, Acknowledge(h, k)
          PROVE  CitedInv'
      <2>1. CitedRows'
        BY <1>4 DEF Acknowledge, CitedRows, BareFailure, Queued
      <2> QED BY <1>4, <2>1 DEF Acknowledge, threads
    <1>5. ASSUME NEW only, Reextract(h, only)
          PROVE  CitedInv'
      BY <1>5, CitedReset, ActorFacts DEF Reextract
    <1>6. CASE Extract(h)
      BY <1>6, ActorFacts DEF Extract, store, CitedRows, BareFailure, Queued
    <1> HIDE DEF TypeInv, TypeOK, CitedInv, CitedHands
    <1> QED BY <1>1, <1>2, <1>3, <1>4, <1>5, <1>6 DEF HumanBegin

LEMMA CitedFinish ==
    ASSUME TypeInv, CitedInv, NEW h \in Humans, HumanFinish(h)
    PROVE  CitedInv'
    <1> USE DEF TypeInv, TypeOK, CitedInv, CitedHands
    <1> h \in Actors /\ h \notin Workers
      BY ActorFacts
    <1>1. CASE StoreHuman(h)
      <2>1. key[h] \in Keys /\ got[h] \in Reading
        BY <1>1 DEF StoreHuman, ThreadOK
      <2>2. \/ got[h].status = "ok"
            \/ got[h].status = "thin" /\ raw[key[h]] # None
        BY <1>1 DEF StoreHuman
      <2>3. CitedRows'
        BY <1>1, <2>1, <2>2, CitedFill DEF StoreHuman
      <2> QED BY <1>1, <2>3, ActorFacts DEF StoreHuman, Idle
    <1>2. CASE Requeue(h)
      <2>1. PICK k \in Keys : k = key[h] /\ k \in known
        BY <1>2 DEF Requeue, ThreadOK
      <2>2. /\ snapshot'[k] = None
            /\ \A j \in Keys \ {k} : snapshot'[j] = snapshot[j] /\ queue'[j] = queue[j]
            /\ UNCHANGED <<raw, known>>
        BY <1>2, <2>1 DEF Requeue
      <2>3. CitedRows'
        BY <2>1, <2>2 DEF CitedRows, BareFailure, Queued
      <2> QED BY <1>2, <2>3, ActorFacts DEF Requeue, Idle
    <1>3. CASE ReadBacklog(h)
      BY <1>3, ActorFacts DEF ReadBacklog, InBacklog, store, CitedRows, BareFailure, Queued
    <1>4. ASSUME NEW k \in Keys, NEW body \in Bodies, ExtractNext(h, k, body)
          PROVE  CitedInv'
      <2>1. <<k, body>> \in batch[h]
        BY <1>4 DEF ExtractNext
      <2>2. raw[k] # None
        <3>1. raw[<<k, body>>[1]] # None
          BY <2>1
        <3> QED BY <3>1
      <2>3. ReadingOf(body) \in Reading /\ ReadingOf(body).status \in {None, "thin"}
        BY ReadingOfType DEF ReadingOf
      <2>4. CitedRows'
        BY <1>4, <2>2, <2>3, CitedFill DEF ExtractNext
      <2>5. \A g \in Humans : batch'[g] \subseteq batch[g]
        BY <1>4 DEF ExtractNext
      <2> QED BY <1>4, <2>4, <2>5, ActorFacts DEF ExtractNext
    <1> QED BY <1>1, <1>2, <1>3, <1>4 DEF HumanFinish

LEMMA CitedStep ==
    ASSUME TypeInv, CitedInv, [Next]_vars
    PROVE  CitedInv'
    <1> Standing
      BY StandingStep
    <1>1. ASSUME NEW p \in Processes, NEW targets \in SUBSET Keys, Enqueue(p, targets)
          PROVE  CitedInv'
      <2>1. CitedRows'
        BY <1>1 DEF Enqueue, CitedInv, CitedRows, BareFailure, Queued
      <2> QED BY <1>1, <2>1 DEF Enqueue, threads, CitedInv, CitedHands
    <1>2. ASSUME NEW p \in Processes, Crash(p)
          PROVE  CitedInv'
      BY <1>2, ActorFacts
      DEF Crash, store, CitedInv, CitedRows, CitedHands, BareFailure, Queued
    <1>3. CASE UNCHANGED vars
      BY <1>3 DEF vars, store, threads, CitedInv, CitedRows, CitedHands, BareFailure, Queued
    <1> QED BY <1>1, <1>2, <1>3, CitedWorker, CitedBegin, CitedFinish DEF Next

--------------------------------------------------------------------------------
(* Steps as the promise sees them. *)

Aside(k) == \A j \in Keys \ {k} :
    FateOf(j)' = FateOf(j) /\ raw'[j] = raw[j] /\ PastedFor(j)' = PastedFor(j)

Same(k) == FateOf(k)' = FateOf(k) /\ raw'[k] = raw[k] /\ PastedFor(k)' = PastedFor(k)

\* One key changes as one of the abstract actions lets it, and none is cited.
Move(k) ==
    \/ Same(k)
    \/ /\ FateOf(k)' = "witnessed"
       /\ raw[k] # None => raw'[k] = raw[k]
       /\ PastedFor(k) # None => PastedFor(k)' = PastedFor(k)
    \/ /\ k \in known /\ FateOf(k) = "witnessed" /\ FateOf(k)' = "pending"
       /\ raw[k] = None /\ PastedFor(k) = None
       /\ raw'[k] = raw[k] /\ PastedFor(k)' = PastedFor(k)
    \/ /\ FateOf(k) \in {"none", "pending"} /\ FateOf(k)' = "waived"
       /\ raw'[k] = raw[k] /\ PastedFor(k)' = PastedFor(k)

LEMMA MoveIsAbstract ==
    ASSUME TypeOK, TypeOK', TextRows', known' = known, NEW k \in Keys, Aside(k), Move(k)
    PROVE  [Promise!Next]_(Promise!vars)
    <1> DEFINE fate  == [j \in Keys |-> FateOf(j)]
               paste == [j \in Keys |-> PastedFor(j)]
    <1>1. /\ fate'  = [fate  EXCEPT ![k] = FateOf(k)']
          /\ paste' = [paste EXCEPT ![k] = PastedFor(k)']
      BY DEF Aside
    <1>2. raw' = [raw EXCEPT ![k] = raw'[k]] /\ raw'[k] \in Bodies \cup {None}
      BY DEF Aside, TypeOK
    <1>3. PastedFor(k)' \in Texts \cup {None}
      BY DEF TextRows, PastedFor
    <1>4. fate[k] = FateOf(k) /\ paste[k] = PastedFor(k)
      OBVIOUS
    <1>5. /\ FateOf(k)' = FateOf(k) => fate' = fate
          /\ PastedFor(k)' = PastedFor(k) => paste' = paste
          /\ raw'[k] = raw[k] => raw' = raw
      BY <1>2 DEF Aside, TypeOK
    <1> HIDE DEF fate, paste
    <1>6. CASE Same(k)
      BY <1>5, <1>6 DEF Same, Promise!vars, fate, paste
    <1>8. CASE /\ FateOf(k)' = "witnessed"
               /\ raw[k] # None => raw'[k] = raw[k]
               /\ PastedFor(k) # None => PastedFor(k)' = PastedFor(k)
      <2> DEFINE body == raw'[k]
                 text == PastedFor(k)'
      <2>1. /\ fate' = [fate EXCEPT ![k] = "witnessed"]
            /\ body \in Bodies \cup {None} /\ raw' = [raw EXCEPT ![k] = body]
            /\ raw[k] # None => body = raw[k]
            /\ text \in Texts \cup {None} /\ paste' = [paste EXCEPT ![k] = text]
            /\ paste[k] # None => text = paste[k]
        BY <1>1, <1>2, <1>3, <1>4, <1>8
      <2> HIDE DEF body, text
      <2>2. Promise!Witness(k)
        BY <2>1 DEF Promise!Witness, fate, paste
      <2> QED BY <2>2 DEF Promise!Next
    <1>9. CASE /\ k \in known /\ FateOf(k) = "witnessed" /\ FateOf(k)' = "pending"
               /\ raw[k] = None /\ PastedFor(k) = None
               /\ raw'[k] = raw[k] /\ PastedFor(k)' = PastedFor(k)
      <2>1. /\ fate[k] = "witnessed" /\ fate' = [fate EXCEPT ![k] = "pending"]
            /\ k \in known /\ raw[k] = None /\ paste[k] = None
            /\ raw' = raw /\ paste' = paste
        BY <1>1, <1>4, <1>5, <1>9
      <2>2. Promise!Retry(k)
        BY <2>1 DEF Promise!Retry, fate, paste
      <2> QED BY <2>2 DEF Promise!Next
    <1>10. CASE /\ FateOf(k) \in {"none", "pending"} /\ FateOf(k)' = "waived"
                /\ raw'[k] = raw[k] /\ PastedFor(k)' = PastedFor(k)
      <2>1. /\ fate[k] \in {"none", "pending"} /\ fate' = [fate EXCEPT ![k] = "waived"]
            /\ raw' = raw /\ paste' = paste
        BY <1>1, <1>4, <1>5, <1>10
      <2>2. Promise!Waive(k)
        BY <2>1 DEF Promise!Waive, fate, paste
      <2> QED BY <2>2 DEF Promise!Next
    <1> QED BY <1>6, <1>8, <1>9, <1>10 DEF Move

\* A step none of the tables shows is no step of the promise; nor is one that
\* only touches the attempts of queued keys or what machines read.
LEMMA StutterIsAbstract ==
    ASSUME TypeOK, TypeOK', known' = known,
           \A k \in Keys : Same(k)
    PROVE  [Promise!Next]_(Promise!vars)
    <1>1. raw' = raw
      BY DEF Same, TypeOK
    <1> QED BY <1>1 DEF Same, Promise!vars

LEMMA StoreSame ==
    ASSUME UNCHANGED store
    PROVE  \A k \in Keys : Same(k)
    BY DEF store, Same, FateOf, PastedFor, Queued

--------------------------------------------------------------------------------
(* The hands. *)

LEMMA TextHandsStep ==
    ASSUME TypeInv, TextHands, [Next]_vars
    PROVE  TextHands'
    <1> USE DEF TypeInv, TypeOK, TextHands
    <1>1. ASSUME NEW w \in Workers, WorkerStep(w)
          PROVE  TextHands'
      <2> w \in Actors /\ w \notin Humans
        BY ActorFacts
      <2>1. CASE ListPending(w)
        BY <2>1, ActorFacts DEF ListPending, store
      <2>2. ASSUME NEW k \in Keys, NEW r \in Fetched, Fetch(w, k, r)
            PROVE  TextHands'
        BY <2>2, ActorFacts DEF Fetch, store
      <2>3. CASE DecideRetry(w)
        BY <2>3, ActorFacts DEF DecideRetry, store
      <2>4. CASE Defer(w) \/ ExtractFetched(w)
        BY <2>4, ActorFacts DEF Defer, ExtractFetched, NextCapture
      <2>5. CASE RecordRead(w) \/ RecordSought(w)
        BY <2>5, ActorFacts DEF RecordRead, RecordSought, store
      <2>6. CASE RecordWrite(w)
        BY <2>6, ActorFacts DEF RecordWrite, NextCapture
      <2>7. CASE RecordConflict(w)
        BY <2>7, ActorFacts DEF RecordConflict, Idle, store
      <2> QED BY <1>1, <2>1, <2>2, <2>3, <2>4, <2>5, <2>6, <2>7 DEF WorkerStep
    <1>2. ASSUME NEW h \in Humans, HumanBegin(h)
          PROVE  TextHands'
      <2> h \in Actors /\ h \notin Workers
        BY ActorFacts
      <2>1. ASSUME NEW k \in Keys, NEW text \in Texts, Paste(h, k, text)
            PROVE  TextHands'
        BY <2>1, ActorFacts DEF Paste
      <2>2. ASSUME NEW k, NEW text, NEW html, NEW expectation, NEW status,
                   RecordBrowser(h, k, text, html, expectation, status)
            PROVE  TextHands'
        BY <2>2, ActorFacts DEF RecordBrowser
      <2>3. ASSUME NEW k, RetryRead(h, k)
            PROVE  TextHands'
        BY <2>3, ActorFacts DEF RetryRead, store
      <2>4. ASSUME NEW k, Acknowledge(h, k)
            PROVE  TextHands'
        BY <2>4 DEF Acknowledge, threads
      <2>5. ASSUME NEW only, Reextract(h, only)
            PROVE  TextHands'
        BY <2>5, ActorFacts DEF Reextract
      <2>6. CASE Extract(h)
        BY <2>6, ActorFacts DEF Extract, store
      <2> QED BY <1>2, <2>1, <2>2, <2>3, <2>4, <2>5, <2>6 DEF HumanBegin
    <1>3. ASSUME NEW h \in Humans, HumanFinish(h)
          PROVE  TextHands'
      <2> h \in Actors /\ h \notin Workers
        BY ActorFacts
      <2>1. CASE StoreHuman(h) \/ Requeue(h)
        BY <2>1, ActorFacts DEF StoreHuman, Requeue, Idle
      <2>2. CASE ReadBacklog(h)
        BY <2>2, ActorFacts DEF ReadBacklog, store
      <2>3. ASSUME NEW k, NEW body, ExtractNext(h, k, body)
            PROVE  TextHands'
        BY <2>3, ActorFacts DEF ExtractNext
      <2> QED BY <1>3, <2>1, <2>2, <2>3 DEF HumanFinish
    <1>4. ASSUME NEW p \in Processes, Crash(p)
          PROVE  TextHands'
      BY <1>4, ActorFacts DEF Crash, store
    <1>5. ASSUME NEW p \in Processes, NEW targets \in SUBSET Keys, Enqueue(p, targets)
          PROVE  TextHands'
      BY <1>5, ActorFacts DEF Enqueue, threads
    <1>6. CASE UNCHANGED vars
      BY <1>6 DEF vars, store, threads
    <1> QED BY <1>1, <1>2, <1>3, <1>4, <1>5, <1>6 DEF Next

--------------------------------------------------------------------------------
(* The tables: each transaction keeps TextRows and is a step of the promise. *)

Kept == TextRows' /\ [Promise!Next]_(Promise!vars)

LEMMA KeptSame ==
    ASSUME TypeInv, TypeInv', TextRows, UNCHANGED store
    PROVE  Kept
    <1>1. TextRows' /\ known' = known
      BY DEF TextRows, store
    <1> QED BY <1>1, StoreSame, StutterIsAbstract DEF Kept, TypeInv

\* One row goes through Filled: a text pasted before stays.
LEMMA KeptFill ==
    ASSUME TypeInv, TypeInv', TextRows, NEW k \in Keys, NEW reading \in Reading,
           reading.by = "manual" => reading.text \in Texts,
           snapshot' = [snapshot EXCEPT ![k] = Filled(@, reading)],
           UNCHANGED <<queue, raw, ack, known>>
    PROVE  Kept
    <1>1. /\ snapshot[k] \in SnapshotRow \cup {None}
          /\ snapshot'[k] = Filled(snapshot[k], reading)
          /\ \A j \in Keys \ {k} : snapshot'[j] = snapshot[j]
      BY DEF TypeInv, TypeOK
    <1>2. snapshot[k] # None /\ snapshot[k].extraction = None =>
            snapshot'[k].extraction = reading.by /\ snapshot'[k].text = reading.text
      BY <1>1, FilledRow
    <1>3. snapshot'[k] = None <=> snapshot[k] = None
      BY <1>1, FilledRow
    <1>4. snapshot[k] # None /\ snapshot[k].extraction # None => snapshot'[k] = snapshot[k]
      BY <1>1, FilledRow
    <1>5. TextRows'
      BY <1>1, <1>2, <1>3, <1>4 DEF TextRows
    <1>6. Aside(k)
      BY <1>1 DEF Aside, FateOf, PastedFor, Queued
    <1>7. PastedFor(k) # None => PastedFor(k)' = PastedFor(k)
      BY <1>3, <1>4, NoneApart DEF PastedFor, Human
    <1>8. CASE snapshot[k] = None
      BY <1>3, <1>5, <1>6, <1>8, MoveIsAbstract
      DEF Kept, TypeInv, Move, Same, FateOf, PastedFor, Queued
    <1>9. CASE snapshot[k] # None
      <2>1. FateOf(k)' = "witnessed" /\ raw'[k] = raw[k]
        BY <1>3, <1>9 DEF FateOf
      <2> QED BY <1>5, <1>6, <1>7, <2>1, MoveIsAbstract DEF Kept, TypeInv, Move
    <1> QED BY <1>8, <1>9

\* The first transaction of a paste and of a browser capture: a row is there,
\* and a machine's reading is not.
LEMMA KeptClear ==
    ASSUME TypeInv, TypeInv', TextRows, NEW k \in Keys, NEW row \in SnapshotRow,
           row.extraction = None,
           snapshot' = [snapshot EXCEPT ![k] = ClearedForHuman(IF @ = None THEN row ELSE @)],
           raw[k] # None => raw'[k] = raw[k],
           \A j \in Keys \ {k} : raw'[j] = raw[j] /\ queue'[j] = queue[j],
           queue'[k] = queue[k] \/ queue'[k] = None,
           UNCHANGED <<ack, known>>
    PROVE  Kept
    <1> DEFINE held == IF snapshot[k] = None THEN row ELSE snapshot[k]
    <1>1. held \in SnapshotRow /\ held # None
      BY NoneApart DEF TypeInv, TypeOK
    <1>2. /\ snapshot'[k] = ClearedForHuman(held)
          /\ \A j \in Keys \ {k} : snapshot'[j] = snapshot[j]
      BY DEF TypeInv, TypeOK
    <1>3. /\ snapshot'[k] # None
          /\ held.extraction = "manual" => snapshot'[k] = held
          /\ snapshot'[k].extraction = "manual" => snapshot'[k] = held
      BY <1>1, <1>2, ClearedRow DEF Human
    <1>4. TextRows'
      BY <1>2, <1>3, NoneApart DEF TextRows, Human
    <1>5. Aside(k)
      BY <1>2 DEF Aside, FateOf, PastedFor, Queued
    <1>6. FateOf(k)' = "witnessed"
      BY <1>3 DEF FateOf
    <1>7. PastedFor(k) # None => PastedFor(k)' = PastedFor(k)
      BY <1>3, NoneApart DEF PastedFor, Human
    <1> QED BY <1>4, <1>5, <1>6, <1>7, MoveIsAbstract DEF Kept, TypeInv, Move

LEMMA KeptRecord ==
    ASSUME IInv, TypeInv', TextRows, NEW w \in Workers, RecordWrite(w)
    PROVE  Kept
    <1> w \in Actors
      BY ActorFacts
    <1>0. PICK k \in Keys : k = key[w]
      BY DEF RecordWrite, IInv, TypeInv, ThreadOK
    <1>1. /\ TypeInv /\ SeenInv /\ RawWitnessed
          /\ got[w] \in Fetched /\ seen[w].expectation \in Expectations
      BY <1>0 DEF RecordWrite, IInv, StoreInv, TypeInv, ThreadOK, TypeOK
    <1>2. /\ queue'[k] = None
          /\ \A j \in Keys \ {k} : queue'[j] = queue[j]
          /\ UNCHANGED <<ack, known>>
      BY <1>0, <1>1 DEF RecordWrite, TypeInv, TypeOK
    <1>3. CASE seen[w].existing
      <2>1. snapshot[k] # None /\ UNCHANGED <<snapshot, raw>>
        BY <1>0, <1>1, <1>3 DEF RecordWrite, SeenInv
      <2>2. TextRows'
        BY <1>1, <1>2, <2>1 DEF TextRows
      <2>3. Aside(k) /\ Same(k)
        BY <1>1, <1>2, <2>1 DEF Aside, Same, FateOf, PastedFor, Queued
      <2> QED BY <1>1, <1>2, <2>2, <2>3, MoveIsAbstract DEF Kept, TypeInv, Move
    <1>4. CASE ~seen[w].existing
      <2> DEFINE row == NewRow(got[w].status, seen[w].expectation)
      <2>1. row # None /\ row.extraction = None
        BY <1>1, NewRowType DEF Fetched, Statuses
      <2>2. snapshot[k] = None /\ snapshot' = [snapshot EXCEPT ![k] = row]
        BY <1>0, <1>4 DEF RecordWrite, Conflicts
      <2>3. /\ snapshot'[k] = row
            /\ \A j \in Keys \ {k} : snapshot'[j] = snapshot[j] /\ raw'[j] = raw[j]
        BY <1>0, <1>1, <1>4, <2>2 DEF RecordWrite, TypeInv, TypeOK
      <2>4. raw[k] = None
        BY <1>1, <2>2 DEF RawWitnessed
      <2> HIDE DEF row
      <2>5. TextRows'
        BY <1>1, <1>2, <2>1, <2>3, NoneApart DEF TextRows, Human
      <2>6. Aside(k)
        BY <1>2, <2>3 DEF Aside, FateOf, PastedFor, Queued
      <2>7. FateOf(k)' = "witnessed" /\ PastedFor(k) = None
        BY <1>1, <1>2, <2>1, <2>2, <2>3 DEF FateOf, PastedFor
      <2> QED BY <1>1, <1>2, <2>4, <2>5, <2>6, <2>7, MoveIsAbstract DEF Kept, TypeInv, Move
    <1> QED BY <1>3, <1>4

LEMMA KeptRequeue ==
    ASSUME IInv, TypeInv', CitedHands, TextRows, NEW h \in Humans, Requeue(h)
    PROVE  Kept
    <1>0. PICK k \in Keys : k = key[h]
      BY DEF Requeue, IInv, TypeInv, ThreadOK
    <1>1. TypeInv /\ ManualOk /\ MayRequeue(k)
      BY <1>0 DEF Requeue, IInv, StoreInv, SeenInv, TypeInv, ThreadOK
    <1>2. Requeued(seen[h].expectation) # None
      <2>1. seen[h].expectation \in Expectations
        BY <1>1, ActorFacts DEF TypeInv, TypeOK
      <2>2. Requeued(seen[h].expectation) \in QueueRow
        BY <2>1 DEF Requeued, QueueRow
      <2> QED BY <2>2, NoneApart
    <1>3. /\ snapshot'[k] = None /\ queue'[k] # None
          /\ \A j \in Keys \ {k} : snapshot'[j] = snapshot[j] /\ queue'[j] = queue[j]
          /\ UNCHANGED <<raw, ack, known>>
      BY <1>0, <1>1, <1>2 DEF Requeue, TypeInv, TypeOK
    <1>4. k \in known
      BY <1>0 DEF Requeue, CitedHands
    <1>5. TextRows'
      BY <1>3 DEF TextRows
    <1>6. Aside(k)
      BY <1>3 DEF Aside, FateOf, PastedFor, Queued
    <1>7. /\ FateOf(k) = "witnessed" /\ FateOf(k)' = "pending"
          /\ raw[k] = None /\ raw'[k] = raw[k]
      BY <1>1, <1>3 DEF FateOf, Queued, MayRequeue
    <1>8. snapshot[k].extraction # "manual"
      BY <1>1 DEF MayRequeue, ManualOk
    <1>9. PastedFor(k) = None /\ PastedFor(k)' = None
      BY <1>3, <1>8 DEF PastedFor
    <1> QED BY <1>1, <1>3, <1>4, <1>5, <1>6, <1>7, <1>9, MoveIsAbstract DEF Kept, TypeInv, Move

LEMMA KeptAcknowledge ==
    ASSUME IInv, TypeInv', TextRows, NEW h \in Humans, NEW k \in Keys, Acknowledge(h, k)
    PROVE  Kept
    <1>1. TypeInv /\ NothingLost
      BY DEF IInv, StoreInv
    <1>2. /\ queue'[k] = None /\ k \in ack'
          /\ \A j \in Keys \ {k} : queue'[j] = queue[j] /\ (j \in ack' <=> j \in ack)
          /\ UNCHANGED <<snapshot, raw, known>>
      BY <1>1 DEF Acknowledge, TypeInv, TypeOK
    <1>3. TextRows'
      BY <1>1, <1>2 DEF TextRows
    <1>4. Aside(k)
      BY <1>2 DEF Aside, FateOf, PastedFor, Queued
    <1>5. raw'[k] = raw[k] /\ PastedFor(k)' = PastedFor(k)
      BY <1>2 DEF PastedFor
    <1>6. \/ FateOf(k) \in {"none", "pending"} /\ FateOf(k)' = "waived"
          \/ FateOf(k)' = FateOf(k)
      BY <1>1, <1>2 DEF FateOf, Queued, NothingLost
    <1> QED
      BY <1>1, <1>2, <1>3, <1>4, <1>5, <1>6, MoveIsAbstract DEF Kept, TypeInv, Move, Same

\* All targets of a note at once; what a human preserved before stays preserved.
LEMMA KeptEnqueue ==
    ASSUME TypeInv, TypeInv', TextRows,
           NEW p \in Processes, NEW targets \in SUBSET Keys, Enqueue(p, targets)
    PROVE  Kept
    <1> DEFINE fate  == [j \in Keys |-> FateOf(j)]
               paste == [j \in Keys |-> PastedFor(j)]
    <1>1. /\ targets \cap known = {} /\ known' = known \cup targets
          /\ UNCHANGED <<snapshot, raw, ack>>
      BY DEF Enqueue
    <1>2. /\ \A k \in targets : queue'[k] # None
          /\ \A k \in Keys \ targets : queue'[k] = queue[k]
      BY EnqueuedRow DEF Enqueue, TypeInv, TypeOK
    <1>3. TextRows'
      BY <1>1 DEF TextRows
    <1>4. \A k \in Keys :
            FateOf(k)' = IF k \in targets /\ FateOf(k) # "witnessed" THEN "pending" ELSE FateOf(k)
      BY <1>1, <1>2 DEF FateOf, Queued
    <1>5. \A k \in Keys : PastedFor(k)' = PastedFor(k)
      BY <1>1 DEF PastedFor
    <1>6. /\ fate' = [k \in Keys |->
                        IF k \in targets /\ fate[k] # "witnessed" THEN "pending" ELSE fate[k]]
          /\ paste' = paste
      BY <1>4, <1>5
    <1> HIDE DEF fate, paste
    <1>7. Promise!Cite(targets)
      BY <1>1, <1>6 DEF Promise!Cite, fate, paste
    <1> QED BY <1>3, <1>7 DEF Kept, Promise!Next

\* A deferral changes attempts alone; a reset leaves what humans pasted.
LEMMA KeptDefer ==
    ASSUME TypeInv, TypeInv', TextRows, NEW w \in Workers, Defer(w)
    PROVE  Kept
    <1>1. key[w] \in Keys
      BY DEF Defer, TypeInv, ThreadOK
    <1>2. queue[key[w]] # None => Deferred(queue[key[w]]) # None
      <2>1. \A row \in QueueRow : Deferred(row) \in QueueRow
        BY DEF Deferred, QueueRow
      <2>2. queue[key[w]] \in QueueRow \cup {None}
        BY <1>1 DEF TypeInv, TypeOK
      <2> QED BY <2>1, <2>2, NoneApart
    <1>3. \A k \in Keys : Queued(k)' <=> Queued(k)
      BY <1>1, <1>2, NoneApart DEF Defer, Queued, TypeInv, TypeOK
    <1>4. UNCHANGED <<snapshot, raw, ack, known>>
      BY DEF Defer
    <1>5. TextRows'
      BY <1>4 DEF TextRows
    <1>6. \A k \in Keys : Same(k)
      BY <1>3, <1>4 DEF Same, FateOf, PastedFor
    <1> QED BY <1>4, <1>5, <1>6, StutterIsAbstract DEF Kept, TypeInv

LEMMA KeptReset ==
    ASSUME TypeInv, TypeInv', TextRows, NEW h \in Humans, NEW only, Reextract(h, only)
    PROVE  Kept
    <1>1. UNCHANGED <<queue, raw, ack, known>>
      BY DEF Reextract
    <1>2. \A k \in Keys :
            /\ snapshot'[k] = None <=> snapshot[k] = None
            /\ snapshot[k] # None /\ snapshot[k].extraction = "manual" =>
                 snapshot'[k] = snapshot[k]
            /\ snapshot'[k] # None /\ snapshot'[k].extraction = "manual" =>
                 snapshot'[k] = snapshot[k]
      <2> TAKE k \in Keys
      <2> DEFINE held == raw[k] # None
      <2>1. held \in BOOLEAN
        OBVIOUS
      <2>2. snapshot[k] \in SnapshotRow \cup {None} /\ snapshot'[k] = ResetRow(snapshot[k], held, only)
        BY DEF Reextract, TypeInv, TypeOK
      <2> HIDE DEF held
      <2> QED BY <2>1, <2>2, ResetRowType
    <1>3. TextRows'
      BY <1>1, <1>2 DEF TextRows
    <1>4. \A k \in Keys : Same(k)
      BY <1>1, <1>2 DEF Same, FateOf, PastedFor, Queued
    <1> QED BY <1>1, <1>3, <1>4, StutterIsAbstract DEF Kept, TypeInv

LEMMA KeptStep ==
    ASSUME OneProcess, PInv, [Next]_vars
    PROVE  Kept
    <1> TypeInv /\ TypeInv' /\ IInv /\ CitedHands /\ TextRows /\ TextHands
      BY TypeStep DEF PInv, IInv, CitedInv
    <1>1. ASSUME NEW w \in Workers, WorkerStep(w)
          PROVE  Kept
      <2>1. CASE Defer(w)
        BY <2>1, KeptDefer
      <2>2. CASE RecordWrite(w)
        BY <2>2, KeptRecord
      <2>3. CASE ExtractFetched(w)
        <3>1. key[w] \in Keys /\ got[w].body \in Bodies
          BY <2>3 DEF ExtractFetched, TypeInv, ThreadOK
        <3>2. ReadingOf(got[w].body) \in Reading /\ ReadingOf(got[w].body).by # "manual"
          BY <3>1, ReadingOfType DEF Machine
        <3> QED BY <2>3, <3>1, <3>2, KeptFill DEF ExtractFetched
      <2>4. CASE UNCHANGED store
        BY <2>4, KeptSame
      <2> QED
        BY <1>1, <2>1, <2>2, <2>3, <2>4
        DEF WorkerStep, ListPending, Fetch, DecideRetry, RecordRead, RecordSought, RecordConflict
    <1>2. ASSUME NEW h \in Humans, HumanBegin(h)
          PROVE  Kept
      <2>1. ASSUME NEW k \in Keys, Acknowledge(h, k)
            PROVE  Kept
        BY <2>1, KeptAcknowledge
      <2>2. ASSUME NEW k \in Keys, NEW text \in Texts, Paste(h, k, text)
            PROVE  Kept
        <3>1. NewRow("ok", None) \in SnapshotRow /\ NewRow("ok", None).extraction = None
          BY NewRowType DEF Statuses, Expectations
        <3> QED BY <2>2, <3>1, KeptClear DEF Paste
      <2>3. ASSUME NEW k \in Keys, NEW text \in Texts, NEW html \in Doms \cup {None},
                   NEW status \in {"ok", "thin"}, NEW expectation \in {Expected[k], None},
                   RecordBrowser(h, k, text, html, expectation, status)
            PROVE  Kept
        <3>1. /\ NewRow(status, expectation) \in SnapshotRow
              /\ NewRow(status, expectation).extraction = None
          BY NewRowType, ActorFacts DEF Statuses, Expectations
        <3>2. /\ \A j \in Keys \ {k} : raw'[j] = raw[j] /\ queue'[j] = queue[j]
              /\ raw[k] # None => raw'[k] = raw[k]
              /\ queue'[k] = None
          BY <2>3 DEF RecordBrowser, HeldAfter, TypeInv, TypeOK
        <3> QED BY <2>3, <3>1, <3>2, KeptClear DEF RecordBrowser
      <2>4. ASSUME NEW only, Reextract(h, only)
            PROVE  Kept
        BY <2>4, KeptReset
      <2>5. CASE UNCHANGED store
        BY <2>5, KeptSame
      <2> QED BY <1>2, <2>1, <2>2, <2>3, <2>4, <2>5 DEF HumanBegin, RetryRead, Extract
    <1>3. ASSUME NEW h \in Humans, HumanFinish(h)
          PROVE  Kept
      <2>1. CASE Requeue(h)
        BY <2>1, KeptRequeue
      <2>2. CASE StoreHuman(h)
        <3>1. /\ key[h] \in Keys /\ got[h] \in Reading
              /\ got[h].by = "manual" => got[h].text \in Texts
          BY <2>2 DEF StoreHuman, TypeInv, ThreadOK, TextHands
        <3> QED BY <2>2, <3>1, KeptFill DEF StoreHuman
      <2>3. CASE ReadBacklog(h)
        BY <2>3, KeptSame DEF ReadBacklog
      <2>4. ASSUME NEW k \in Keys, NEW body \in Bodies, ExtractNext(h, k, body)
            PROVE  Kept
        <3>1. ReadingOf(body) \in Reading /\ ReadingOf(body).by # "manual"
          BY ReadingOfType DEF Machine
        <3> QED BY <2>4, <3>1, KeptFill DEF ExtractNext
      <2> QED BY <1>3, <2>1, <2>2, <2>3, <2>4 DEF HumanFinish
    <1>4. ASSUME NEW p \in Processes, Crash(p)
          PROVE  Kept
      BY <1>4, KeptSame DEF Crash
    <1>5. ASSUME NEW p \in Processes, NEW targets \in SUBSET Keys, Enqueue(p, targets)
          PROVE  Kept
      BY <1>5, KeptEnqueue
    <1>6. CASE UNCHANGED vars
      BY <1>6, KeptSame DEF vars
    <1> QED BY <1>1, <1>2, <1>3, <1>4, <1>5, <1>6 DEF Next

LEMMA InitCited == Init => CitedInv
    BY ActorFacts DEF Init, CitedInv, CitedRows, CitedHands, BareFailure, Queued

LEMMA InitPInv == Init => PInv
    BY InitInv, InitCited, ActorFacts DEF Init, TextRows, TextHands, PInv

LEMMA StepPInv ==
    ASSUME OneProcess, PInv, [Next]_vars
    PROVE  PInv'
    BY StepInv, CitedStep, KeptStep, TextHandsStep DEF PInv, IInv, Kept

LEMMA PInvariant == OneProcess => (Spec => []PInv)
    <1> SUFFICES ASSUME OneProcess
                 PROVE  Spec => []PInv
      OBVIOUS
    <1>1. PInv /\ [Next]_vars => PInv'
      BY StepPInv
    <1> QED BY <1>1, InitPInv, PTL DEF Spec

\* The refinement: with one process on the database, the capture side implements
\* Witnesses, for any number of targets, workers, humans and crashes, whether a
\* human's repair comes before the hand-over, after it or without one.
THEOREM PromiseIsKept == OneProcess => (Spec => PromiseKept)
    <1> SUFFICES ASSUME OneProcess
                 PROVE  Spec => PromiseKept
      OBVIOUS
    <1>1. Init => Promise!Init
      BY DEF Init, Promise!Init, FateOf, PastedFor, Queued
    <1>2. PInv /\ [Next]_vars => [Promise!Next]_(Promise!vars)
      BY KeptStep DEF Kept
    <1> QED BY <1>1, <1>2, PInvariant, PTL DEF Spec, PromiseKept, Promise!Spec
================================================================================
