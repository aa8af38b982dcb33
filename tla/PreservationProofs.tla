--------------------------- MODULE PreservationProofs ---------------------------
(* What TLAPS proves of Preservation: the composition keeps the invariants of  *)
(* the capture side, and nothing falls between the two databases unseen.       *)
EXTENDS Preservation, PromiseProofs

\* A target reaches the capture side only from a committed note; a check finds
\* there what was handed over, or a row it will find again.
HandoverInv ==
    /\ handing \in [Writers -> SUBSET Keys]
    /\ known \subseteq links
    /\ \A p \in Writers : handing[p] \subseteq links
    /\ \A k \in found \cap Keys : k \in known \/ snapshot[k] # None

--------------------------------------------------------------------------------
(* The steps of the composition as the capture side takes them. *)

\* A process dies with nothing but the targets of a note in hand.
DiesInHand ==
    /\ crashes < MaxCrashes /\ crashes' = crashes + 1
    /\ UNCHANGED <<store, lock, threads>>

CaptureMove == [Next]_vars \/ DiesInHand

LEMMA CaptureMoves ==
    ASSUME HandoverInv, [PNext]_allVars
    PROVE  CaptureMove
    <1>1. ASSUME NEW p \in Writers, HandOver(p)
          PROVE  Next
      <2>1. PICK targets \in SUBSET Keys : targets = handing[p]
        BY DEF HandoverInv
      <2> QED BY <1>1, <2>1, PreservationAssumption DEF HandOver, Next
    <1>2. ASSUME NEW p \in Processes, CrashAll(p)
          PROVE  CaptureMove
      BY <1>2 DEF CrashAll, Next, CaptureMove, DiesInHand
    <1>3. CASE Capture
      BY <1>3 DEF Capture, Next, CaptureMove
    <1>4. CASE \/ \E p \in Writers, targets \in SUBSET Keys : CommitLinks(p, targets)
               \/ \E p \in Writers : HandOverFails(p)
               \/ CheckStep
               \/ UNCHANGED allVars
      <2>1. UNCHANGED vars
        BY <1>4
        DEF CommitLinks, HandOverFails, CheckStep, ReadCaptured, ReadQueued, ReadLinks,
            Discard, allVars
      <2> QED BY <2>1 DEF CaptureMove
    <1> QED BY <1>1, <1>2, <1>3, <1>4 DEF PNext, CaptureMove

LEMMA CitedMove ==
    ASSUME TypeInv, CitedInv, CaptureMove
    PROVE  TypeInv' /\ CitedInv'
    <1>1. CASE [Next]_vars
      BY <1>1, TypeStep, CitedStep
    <1>2. CASE DiesInHand
      <2>1. crashes' \in 0 .. MaxCrashes
        BY <1>2, SnapshotsAssumption DEF DiesInHand, TypeInv, TypeOK
      <2>2. TypeInv'
        BY <1>2, <2>1 DEF DiesInHand, TypeInv, TypeOK, ThreadOK, store, threads
      <2>3. CitedInv'
        BY <1>2
        DEF DiesInHand, CitedInv, CitedRows, CitedHands, BareFailure, Queued, store, threads
      <2> QED BY <2>2, <2>3
    <1> QED BY <1>1, <1>2 DEF CaptureMove

LEMMA PromiseMove ==
    ASSUME OneProcess, PInv, CaptureMove
    PROVE  PInv'
    <1>1. CASE [Next]_vars
      BY <1>1, StepPInv
    <1>2. CASE DiesInHand
      <2>1. TypeInv' /\ CitedInv'
        BY CitedMove DEF PInv, IInv
      <2>2. LockInv' /\ SeenInv'
        BY <1>2 DEF DiesInHand, PInv, IInv, LockInv, Holding, SeenInv, MayRequeue, store, threads
      <2>3. StoreInv' /\ TextRows' /\ TextHands'
        BY <1>2
        DEF DiesInHand, PInv, IInv, StoreInv, RawWitnessed, NothingLost, ManualOk, Queued,
            TextRows, TextHands, store, threads
      <2> QED BY <2>1, <2>2, <2>3 DEF PInv, IInv
    <1> QED BY <1>1, <1>2 DEF CaptureMove

\* The threads of the capture side cite nothing, and take no acknowledgement back.
LEMMA ThreadsCiteNothing ==
    ASSUME \/ \E w \in Workers : WorkerStep(w)
           \/ \E h \in Humans : HumanBegin(h) \/ HumanFinish(h)
    PROVE  known' = known /\ ack \subseteq ack'
    <1>1. ASSUME NEW w \in Workers, WorkerStep(w)
          PROVE  UNCHANGED <<known, ack>>
      BY <1>1
      DEF WorkerStep, ListPending, Fetch, DecideRetry, Defer, RecordRead, RecordSought,
          RecordWrite, RecordConflict, ExtractFetched, store
    <1>2. ASSUME NEW h \in Humans, HumanBegin(h)
          PROVE  known' = known /\ ack \subseteq ack'
      BY <1>2
      DEF HumanBegin, Paste, RecordBrowser, RetryRead, Acknowledge, Reextract, Extract, store
    <1>3. ASSUME NEW h \in Humans, HumanFinish(h)
          PROVE  UNCHANGED <<known, ack>>
      BY <1>3 DEF HumanFinish, StoreHuman, Requeue, ReadBacklog, ExtractNext, store
    <1> QED BY <1>1, <1>2, <1>3

LEMMA CitationsStay ==
    ASSUME CaptureMove
    PROVE  known \subseteq known' /\ ack \subseteq ack'
    <1>1. CASE \/ \E p \in Processes, targets \in SUBSET Keys : Enqueue(p, targets)
               \/ \E p \in Processes : Crash(p)
               \/ UNCHANGED vars
               \/ DiesInHand
      BY <1>1 DEF Enqueue, Crash, DiesInHand, vars, store
    <1> QED BY <1>1, ThreadsCiteNothing DEF CaptureMove, Next

\* Only a retry deletes a row, and only the row of a target that was handed over.
LEMMA UncitedRowsStay ==
    ASSUME TypeInv, CitedInv, CaptureMove, NEW k \in Keys \ known, snapshot[k] # None
    PROVE  snapshot'[k] # None
    <1> USE DEF TypeInv, TypeOK
    <1>1. ASSUME NEW w \in Workers, WorkerStep(w)
          PROVE  snapshot'[k] # None
      <2>1. CASE RecordWrite(w)
        <3>1. key[w] \in known
          BY <2>1, NoneApart DEF RecordWrite, ThreadOK, CitedInv, CitedHands
        <3> QED BY <2>1, <3>1 DEF RecordWrite
      <2>2. CASE ExtractFetched(w)
        <3>1. key[w] \in known
          BY <2>2, NoneApart DEF ExtractFetched, ThreadOK, CitedInv, CitedHands
        <3> QED BY <2>2, <3>1 DEF ExtractFetched
      <2> QED
        BY <1>1, <2>1, <2>2
        DEF WorkerStep, ListPending, Fetch, DecideRetry, Defer, RecordRead, RecordSought,
            RecordConflict, store
    <1>2. ASSUME NEW j \in Keys, NEW reading \in Reading,
                 snapshot' = [snapshot EXCEPT ![j] = Filled(@, reading)]
          PROVE  snapshot'[k] # None
      <2>1. Filled(snapshot[k], reading) # None
        BY FilledRow
      <2> QED BY <1>2, <2>1
    <1>3. ASSUME NEW j \in Keys, NEW row,
                 snapshot' = [snapshot EXCEPT ![j] = ClearedForHuman(IF @ = None THEN row ELSE @)]
          PROVE  snapshot'[k] # None
      <2>1. ClearedForHuman(snapshot[k]) # None
        BY ClearedRow
      <2> QED BY <1>3, <2>1
    <1>4. ASSUME NEW h \in Humans, NEW only, Reextract(h, only)
          PROVE  snapshot'[k] # None
      <2> DEFINE held == raw[k] # None
      <2>1. held \in BOOLEAN
        OBVIOUS
      <2>2. snapshot'[k] = ResetRow(snapshot[k], held, only)
        BY <1>4 DEF Reextract
      <2> HIDE DEF held
      <2> QED BY <2>1, <2>2, ResetRowType
    <1>5. ASSUME NEW h \in Humans, StoreHuman(h)
          PROVE  snapshot'[k] # None
      <2>1. key[h] \in Keys /\ got[h] \in Reading
        BY <1>5 DEF StoreHuman, ThreadOK
      <2> QED BY <1>2, <1>5, <2>1 DEF StoreHuman
    <1>6. ASSUME NEW h \in Humans, Requeue(h)
          PROVE  snapshot'[k] # None
      <2>1. key[h] \in known
        BY <1>6 DEF Requeue, CitedInv, CitedHands
      <2> QED BY <1>6, <2>1 DEF Requeue
    <1>7. ASSUME NEW h \in Humans, NEW j \in Keys, NEW body \in Bodies, ExtractNext(h, j, body)
          PROVE  snapshot'[k] # None
      <2>1. ReadingOf(body) \in Reading
        BY ReadingOfType
      <2> QED BY <1>2, <1>7, <2>1 DEF ExtractNext
    <1>8. ASSUME NEW h \in Humans, HumanBegin(h) \/ HumanFinish(h)
          PROVE  snapshot'[k] # None
      BY <1>3, <1>4, <1>5, <1>6, <1>7, <1>8
      DEF HumanBegin, HumanFinish, Paste, RecordBrowser, RetryRead, Acknowledge, Extract,
          ReadBacklog, store
    <1>9. CASE \/ \E p \in Processes, targets \in SUBSET Keys : Enqueue(p, targets)
               \/ \E p \in Processes : Crash(p)
               \/ UNCHANGED vars
               \/ DiesInHand
      BY <1>9 DEF Enqueue, Crash, DiesInHand, vars, store
    <1> QED BY <1>1, <1>8, <1>9 DEF CaptureMove, Next

--------------------------------------------------------------------------------
(* The two databases together. *)

LEMMA HandoverStep ==
    ASSUME TypeInv, CitedInv, HandoverInv, [PNext]_allVars
    PROVE  HandoverInv' /\ known \subseteq known' /\ ack \subseteq ack'
    <1> DEFINE Goal == HandoverInv' /\ known \subseteq known' /\ ack \subseteq ack'
    <1>0. \A k \in Keys \ known : snapshot[k] # None => snapshot'[k] # None
      BY CaptureMoves, UncitedRowsStay
    <1>1. ASSUME NEW p \in Writers, NEW targets \in SUBSET Keys, CommitLinks(p, targets)
          PROVE  Goal
      BY <1>1 DEF CommitLinks, HandoverInv, vars, store, check
    <1>2. ASSUME NEW p \in Writers, HandOver(p)
          PROVE  Goal
      <2>1. /\ known' = known \cup handing[p]
            /\ handing' = [handing EXCEPT ![p] = {}]
            /\ UNCHANGED <<ack, links, found>>
        BY <1>2 DEF HandOver, Enqueue, check
      <2> QED BY <1>0, <2>1 DEF HandoverInv
    <1>3. ASSUME NEW p \in Writers, HandOverFails(p)
          PROVE  Goal
      BY <1>3 DEF HandOverFails, HandoverInv, vars, store, check
    <1>4. CASE Capture
      <2>1. UNCHANGED <<links, handing, found>>
        BY <1>4 DEF Capture, check
      <2>2. known' = known /\ ack \subseteq ack'
        BY <1>4, ThreadsCiteNothing DEF Capture
      <2> QED BY <1>0, <2>1, <2>2 DEF HandoverInv
    <1>5. CASE CheckStep
      <2>1. UNCHANGED <<known, ack, links, handing, snapshot>>
        BY <1>5 DEF CheckStep, ReadCaptured, ReadQueued, ReadLinks, Discard, vars, store
      <2>2. \A k \in found' \cap Keys : k \in known \/ snapshot[k] # None
        BY <1>5
        DEF CheckStep, ReadCaptured, ReadQueued, ReadLinks, Discard, CitedInv, CitedRows,
            HandoverInv
      <2> QED BY <2>1, <2>2 DEF HandoverInv
    <1>6. ASSUME NEW p \in Processes, CrashAll(p)
          PROVE  Goal
      <2>1. UNCHANGED <<known, ack, links, found, snapshot>>
        BY <1>6 DEF CrashAll, Crash, store, check
      <2>2. handing' = [w \in Writers |-> IF w = p THEN {} ELSE handing[w]]
        BY <1>6 DEF CrashAll
      <2> QED BY <2>1, <2>2 DEF HandoverInv
    <1>7. CASE UNCHANGED allVars
      BY <1>7 DEF allVars, vars, store, check, HandoverInv
    <1> QED BY <1>1, <1>2, <1>3, <1>4, <1>5, <1>6, <1>7 DEF PNext

LEMMA InitHandover == PInit => HandoverInv
    BY DEF PInit, Init, HandoverInv

\* Nothing is ever queued, carried by a worker or recorded as a failed fetch for
\* a note that is not there, whichever of the two databases a crash separates from
\* the other, in any number of processes, lock or no lock, and whatever humans
\* supply for targets no note cites.
THEOREM CapturesAreCited == PSpec => []CapturesCited
    <1> DEFINE LinkedInv == TypeInv /\ CitedInv /\ HandoverInv
    <1>1. PInit => LinkedInv
      <2>1. Init => TypeInv
        BY InitInv DEF IInv
      <2> QED BY <2>1, InitCited, InitHandover DEF PInit
    <1>2. LinkedInv /\ [PNext]_allVars => LinkedInv'
      BY CaptureMoves, CitedMove, HandoverStep
    <1>3. LinkedInv => CapturesCited
      <2> SUFFICES ASSUME LinkedInv
                   PROVE  CapturesCited
        OBVIOUS
      <2>1. \A k \in Keys : FailedFetch(k) => BareFailure(k)
        BY DEF FailedFetch, BareFailure
      <2> QED BY <2>1 DEF CitedInv, CitedRows, CitedHands, HandoverInv, CapturesCited
    <1> QED BY <1>1, <1>2, <1>3, PTL DEF PSpec

CInv == PInv /\ HandoverInv

\* The composition keeps what each side keeps on its own.
LEMMA CompositionStep ==
    ASSUME OneProcess, CInv, [PNext]_allVars
    PROVE  CInv' /\ known \subseteq known' /\ ack \subseteq ack'
    BY CaptureMoves, PromiseMove, HandoverStep DEF CInv, PInv, IInv

LEMMA CompositionInv == OneProcess => (PSpec => []CInv)
    <1> SUFFICES ASSUME OneProcess
                 PROVE  PSpec => []CInv
      OBVIOUS
    <1>1. PInit => CInv
      BY InitPInv, InitHandover DEF PInit, CInv
    <1>2. CInv /\ [PNext]_allVars => CInv'
      BY CompositionStep
    <1> QED BY <1>1, <1>2, PTL DEF PSpec

\* A target that no list holds is one that never reached the capture side.
LEMMA LostIsUnknown ==
    ASSUME CInv, NEW k, Lost(k)
    PROVE  k \notin known
    BY DEF CInv, PInv, IInv, StoreInv, NothingLost, Lost

\* A check reports every target lost when it reads the links, however much is
\* recorded, retried or acknowledged between its three reads.
THEOREM LossIsReported == OneProcess => (PSpec => LossReported)
    <1> SUFFICES ASSUME OneProcess
                 PROVE  PSpec => LossReported
      OBVIOUS
    <1> DEFINE Reported == stage = "queued" /\ stage' = "reported" =>
                             \A k \in Keys : Lost(k) /\ ~Underway(k) => k \in missing'
    <1>1. ASSUME CInv, PNext, stage = "queued", stage' = "reported"
          PROVE  ReadLinks
      BY <1>1
      DEF PNext, CommitLinks, HandOver, HandOverFails, Capture, CrashAll, CheckStep,
          ReadCaptured, ReadQueued, Discard, check
    <1>2. ASSUME CInv, ReadLinks, NEW k \in Keys, Lost(k)
          PROVE  k \in missing'
      <2>1. k \notin found
        BY <1>2, LostIsUnknown DEF CInv, HandoverInv, Lost
      <2> QED BY <1>2, <2>1 DEF ReadLinks, Uncaptured, Lost
    <1>3. CInv /\ [PNext]_allVars => [Reported]_allVars
      BY <1>1, <1>2
    <1> QED BY <1>3, CompositionInv, PTL DEF PSpec, LossReported

\* Once handed over, a target is never lost again.
THEOREM LossIsInHand == OneProcess => (PSpec => LostOnlyInHand)
    <1> SUFFICES ASSUME OneProcess
                 PROVE  PSpec => LostOnlyInHand
      OBVIOUS
    <1> DEFINE InHand == \A k \in Keys : ~Lost(k) /\ Lost(k)' =>
                           k \notin known /\ (k \notin links \/ Underway(k))
    <1>1. ASSUME CInv, [PNext]_allVars, NEW k \in Keys, ~Lost(k), Lost(k)'
          PROVE  k \notin known /\ k \notin links
      <2>1. CInv' /\ known \subseteq known' /\ ack \subseteq ack'
        BY <1>1, CompositionStep
      <2>2. k \notin known'
        BY <1>1, <2>1 DEF CInv, PInv, IInv, StoreInv, NothingLost, Lost
      <2>3. k \notin known /\ ~Queued(k)
        BY <1>1, <2>1, <2>2 DEF CInv, PInv, CitedInv, CitedRows
      <2>5. snapshot[k] = None
        BY <1>1, <2>3, CaptureMoves, UncitedRowsStay DEF CInv, PInv, IInv, Lost
      <2>4. k \notin ack
        BY <1>1, <2>1 DEF Lost
      <2> QED BY <1>1, <2>3, <2>4, <2>5 DEF Lost
    <1>2. CInv /\ [PNext]_allVars => [InHand]_allVars
      BY <1>1
    <1> QED BY <1>2, CompositionInv, PTL DEF PSpec, LostOnlyInHand
--------------------------------------------------------------------------------
(* Where nobody supplies text: ExpectationKept, ReadingReproducible,           *)
(* StatusFollowsReading.                                                       *)

\* Captures come from the fetcher alone: no paste, no browser.
FetcherOnly == HumanOps \cap {"paste", "browser"} = {}
OneWorker   == \A v, w \in Workers : v = w

\* What a row holds, and what record and retry carry to a row, was sought.
ExpectationInv ==
    /\ \A k \in Keys \ ack :
         /\ Queued(k) => queue[k].expectation = Expected[k]
         /\ snapshot[k] # None => snapshot[k].expectation = Expected[k]
    /\ \A w \in Workers : pc[w] = "write" /\ ~seen[w].existing /\ key[w] \notin ack =>
         seen[w].expectation = Expected[key[w]]
    /\ \A h \in Humans : pc[h] = "requeue" /\ key[h] \notin ack =>
         seen[h].expectation = Expected[key[h]]

\* A row over bytes is unread and "ok", or read as the extractor reads them; a
\* row without bytes is unread.
TrueReading(k) ==
    /\ raw[k] = None => snapshot[k].extraction = None
    /\ raw[k] # None =>
         \/ snapshot[k].extraction = None /\ snapshot[k].status = "ok"
         \/ /\ snapshot[k].extraction \in Machine
            /\ snapshot[k].text = ReadingOf(raw[k]).text
            /\ snapshot[k].status = IF Reads[raw[k]] = "full" THEN "ok" ELSE "thin"

InHand == {"retriable", "defer", "record", "sought", "write"}

\* A row is a cited target's; what the one worker has still to record has none; and
\* what a reader carries is what the store holds.
ReadingInv ==
    /\ \A k \in Keys : snapshot[k] # None => k \in known /\ TrueReading(k)
    /\ \A k \in Keys : Queued(k) => snapshot[k] = None
    /\ \A w \in Workers :
         /\ \A k \in todo[w] : snapshot[k] = None
         /\ pc[w] \in InHand => snapshot[key[w]] = None /\ key[w] \notin todo[w]
         /\ pc[w] \in {"sought", "write"} => ~seen[w].existing
         /\ pc[w] = "extract" => raw[key[w]] = got[w].body
    /\ \A h \in Humans : \A capture \in batch[h] : raw[capture[1]] = capture[2]
    /\ \A h \in Humans : pc[h] # "fill"

\* No row, queued or recorded, takes on an expectation but the one it had or the
\* one create_note derived, and nobody comes to hold one.
LEMMA ExpectationFrame ==
    ASSUME TypeInv, ExpectationInv, ack \subseteq ack',
           \A k \in Keys : Queued(k)' =>
             \/ queue'[k].expectation = Expected[k]
             \/ Queued(k) /\ queue'[k].expectation = queue[k].expectation
             \/ k \in ack,
           \A k \in Keys : snapshot'[k] # None =>
             \/ snapshot'[k].expectation = Expected[k]
             \/ snapshot[k] # None /\ snapshot'[k].expectation = snapshot[k].expectation
             \/ k \in ack,
           \A a \in Actors : pc'[a] \in {"write", "requeue"} =>
             pc'[a] = pc[a] /\ key'[a] = key[a] /\ seen'[a] = seen[a]
    PROVE  ExpectationInv'
    BY ActorFacts DEF ExpectationInv

LEMMA ExpectationStep ==
    ASSUME PInv, ExpectationInv, FetcherOnly, CaptureMove
    PROVE  ExpectationInv'
    <1> TypeInv
      BY DEF PInv, IInv
    <1> USE DEF TypeInv, TypeOK
    <1>1. ASSUME NEW w \in Workers, RecordSought(w)
          PROVE  ExpectationInv'
      <2>1. PICK k \in Keys : k = key[w]
        BY <1>1 DEF RecordSought, ThreadOK
      <2>2. k \in known
        BY <2>1, NoneApart DEF PInv, CitedInv, CitedHands
      <2>3. snapshot[k] # None \/ Queued(k) \/ k \in ack
        BY <2>2 DEF PInv, IInv, StoreInv, NothingLost
      <2>4. seen[w].existing <=> snapshot[k] # None
        BY <1>1, <2>1 DEF RecordSought, PInv, IInv, SeenInv
      <2>5. seen' = [seen EXCEPT ![w] =
              [seen[w] EXCEPT !.expectation =
                 IF Queued(k) THEN queue[k].expectation ELSE None]]
        BY <1>1, <2>1 DEF RecordSought
      <2>6. /\ seen'[w].existing = seen[w].existing
            /\ Queued(k) => seen'[w].expectation = queue[k].expectation
            /\ \A a \in Actors \ {w} : seen'[a] = seen[a]
        BY <2>5, ActorFacts
      <2>7. /\ UNCHANGED <<store, key>>
            /\ pc'[w] = "write"
            /\ \A a \in Actors \ {w} : pc'[a] = pc[a]
        BY <1>1, ActorFacts DEF RecordSought
      <2>8. ~seen'[w].existing /\ k \notin ack => seen'[w].expectation = Expected[k]
        BY <2>3, <2>4, <2>6, Zenon DEF ExpectationInv
      <2> QED BY <2>1, <2>6, <2>7, <2>8, ActorFacts DEF ExpectationInv, Queued, store
    <1>2. ASSUME NEW h \in Humans, NEW k \in Keys, RetryRead(h, k)
          PROVE  ExpectationInv'
      <2>1. /\ UNCHANGED store
            /\ key'[h] = k /\ pc'[h] = "requeue"
            /\ seen'[h].expectation = snapshot[k].expectation
            /\ \A a \in Actors \ {h} : pc'[a] = pc[a] /\ key'[a] = key[a] /\ seen'[a] = seen[a]
        BY <1>2, ActorFacts DEF RetryRead
      <2>2. snapshot[k] # None
        BY <1>2 DEF RetryRead, MayRequeue
      <2> QED BY <2>1, <2>2, ActorFacts DEF ExpectationInv, Queued, store
    <1>3. ASSUME NEW w \in Workers, RecordWrite(w)
          PROVE  ExpectationInv'
      <2>1. PICK k \in Keys : k = key[w]
        BY <1>3 DEF RecordWrite, ThreadOK
      <2>2. /\ queue' = [queue EXCEPT ![k] = None]
            /\ \A j \in Keys \ {k} : snapshot'[j] = snapshot[j]
            /\ ack' = ack
        BY <1>3, <2>1 DEF RecordWrite
      <2>3. \A a \in Actors : pc'[a] \in {"write", "requeue"} =>
              pc'[a] = pc[a] /\ key'[a] = key[a] /\ seen'[a] = seen[a]
        BY <1>3, ActorFacts DEF RecordWrite, NextCapture
      <2>4. snapshot'[k] # None =>
              \/ snapshot'[k].expectation = Expected[k]
              \/ snapshot[k] # None /\ snapshot'[k].expectation = snapshot[k].expectation
              \/ k \in ack
        <3>1. CASE seen[w].existing
          BY <1>3, <3>1 DEF RecordWrite
        <3>2. CASE ~seen[w].existing
          <4>1. snapshot'[k] = NewRow(got[w].status, seen[w].expectation)
            BY <1>3, <2>1, <3>2 DEF RecordWrite
          <4>2. snapshot'[k].expectation = seen[w].expectation
            BY <4>1 DEF NewRow
          <4>3. seen[w].expectation = Expected[k] \/ k \in ack
            BY <1>3, <2>1, <3>2 DEF RecordWrite, ExpectationInv
          <4> QED BY <4>2, <4>3
        <3> QED BY <3>1, <3>2
      <2> QED BY <2>2, <2>3, <2>4, ExpectationFrame DEF Queued
    <1>4. ASSUME NEW h \in Humans, Requeue(h)
          PROVE  ExpectationInv'
      <2>1. PICK k \in Keys : k = key[h]
        BY <1>4 DEF Requeue, ThreadOK
      <2>2. /\ queue'[k].expectation = seen[h].expectation
            /\ snapshot'[k] = None /\ ack' = ack
            /\ \A j \in Keys \ {k} : snapshot'[j] = snapshot[j] /\ queue'[j] = queue[j]
        BY <1>4, <2>1 DEF Requeue, Requeued
      <2>3. \A a \in Actors : pc'[a] \in {"write", "requeue"} =>
              pc'[a] = pc[a] /\ key'[a] = key[a] /\ seen'[a] = seen[a]
        BY <1>4, ActorFacts DEF Requeue, Idle
      <2>4. seen[h].expectation = Expected[k] \/ k \in ack
        BY <1>4, <2>1 DEF Requeue, ExpectationInv
      <2> QED BY <2>2, <2>3, <2>4, ExpectationFrame DEF Queued
    <1>5. ASSUME NEW w \in Workers, Defer(w)
          PROVE  ExpectationInv'
      <2>1. \A k \in Keys : Queued(k)' => Queued(k) /\ queue'[k].expectation = queue[k].expectation
        BY <1>5 DEF Defer, Deferred, Queued, QueueRow
      <2>2. \A a \in Actors : pc'[a] \in {"write", "requeue"} =>
              pc'[a] = pc[a] /\ key'[a] = key[a] /\ seen'[a] = seen[a]
        BY <1>5, ActorFacts DEF Defer, NextCapture
      <2> QED BY <1>5, <2>1, <2>2, ExpectationFrame DEF Defer
    <1>6. ASSUME NEW w \in Workers, ExtractFetched(w)
          PROVE  ExpectationInv'
      <2>1. \A k \in Keys : snapshot'[k] # None =>
              snapshot[k] # None /\ snapshot'[k].expectation = snapshot[k].expectation
        BY <1>6 DEF ExtractFetched, Filled, SnapshotRow
      <2>2. \A a \in Actors : pc'[a] \in {"write", "requeue"} =>
              pc'[a] = pc[a] /\ key'[a] = key[a] /\ seen'[a] = seen[a]
        BY <1>6, ActorFacts DEF ExtractFetched, NextCapture
      <2> QED BY <1>6, <2>1, <2>2, ExpectationFrame DEF ExtractFetched, Queued
    <1>7. ASSUME NEW w \in Workers,
                 \/ ListPending(w) \/ DecideRetry(w) \/ RecordRead(w) \/ RecordConflict(w)
                 \/ \E k \in Keys, result \in Fetched : Fetch(w, k, result)
          PROVE  ExpectationInv'
      <2>1. UNCHANGED <<queue, snapshot, ack>>
        BY <1>7 DEF ListPending, DecideRetry, RecordRead, RecordConflict, Fetch, store
      <2>2. \A a \in Actors : pc'[a] \in {"write", "requeue"} =>
              pc'[a] = pc[a] /\ key'[a] = key[a] /\ seen'[a] = seen[a]
        BY <1>7, ActorFacts
        DEF ListPending, DecideRetry, RecordRead, RecordConflict, Fetch, Idle
      <2> QED BY <2>1, <2>2, ExpectationFrame DEF Queued
    <1>8. ASSUME NEW h \in Humans, NEW only, Reextract(h, only)
          PROVE  ExpectationInv'
      <2>1. \A k \in Keys : snapshot'[k] # None =>
              snapshot[k] # None /\ snapshot'[k].expectation = snapshot[k].expectation
        <3>1. ASSUME NEW row \in SnapshotRow, NEW held
              PROVE  ResetRow(row, held, only).expectation = row.expectation
          BY DEF ResetRow, SnapshotRow
        <3>2. ASSUME NEW held
              PROVE  ResetRow(None, held, only) = None
          BY DEF ResetRow
        <3>3. \A k \in Keys : /\ snapshot[k] \in SnapshotRow \cup {None}
                              /\ snapshot'[k] = ResetRow(snapshot[k], raw[k] # None, only)
          BY <1>8 DEF Reextract
        <3> QED BY <3>1, <3>2, <3>3
      <2>2. \A a \in Actors : pc'[a] \in {"write", "requeue"} =>
              pc'[a] = pc[a] /\ key'[a] = key[a] /\ seen'[a] = seen[a]
        BY <1>8, ActorFacts DEF Reextract
      <2> QED BY <1>8, <2>1, <2>2, ExpectationFrame DEF Reextract, Queued
    <1>9. ASSUME NEW h \in Humans, NEW k \in Keys, NEW body \in Bodies, ExtractNext(h, k, body)
          PROVE  ExpectationInv'
      <2>1. \A j \in Keys : snapshot'[j] # None =>
              snapshot[j] # None /\ snapshot'[j].expectation = snapshot[j].expectation
        BY <1>9 DEF ExtractNext, Filled, SnapshotRow
      <2>2. \A a \in Actors : pc'[a] \in {"write", "requeue"} =>
              pc'[a] = pc[a] /\ key'[a] = key[a] /\ seen'[a] = seen[a]
        BY <1>9, ActorFacts DEF ExtractNext
      <2> QED BY <1>9, <2>1, <2>2, ExpectationFrame DEF ExtractNext, Queued
    <1>10. ASSUME NEW h \in Humans, Extract(h) \/ ReadBacklog(h)
           PROVE  ExpectationInv'
      <2>1. UNCHANGED <<queue, snapshot, ack>>
        BY <1>10 DEF Extract, ReadBacklog, store
      <2>2. \A a \in Actors : pc'[a] \in {"write", "requeue"} =>
              pc'[a] = pc[a] /\ key'[a] = key[a] /\ seen'[a] = seen[a]
        BY <1>10, ActorFacts DEF Extract, ReadBacklog
      <2> QED BY <2>1, <2>2, ExpectationFrame DEF Queued
    <1>11. ASSUME NEW h \in Humans, NEW k \in Keys, Acknowledge(h, k)
           PROVE  ExpectationInv'
      BY <1>11, ExpectationFrame DEF Acknowledge, threads, Queued
    <1>12. ASSUME NEW h \in Humans, StoreHuman(h)
           PROVE  ExpectationInv'
      <2>1. PICK k \in Keys : k = key[h]
        BY <1>12 DEF StoreHuman, ThreadOK
      <2>2. \A j \in Keys : snapshot'[j] # None =>
              snapshot[j] # None /\ snapshot'[j].expectation = snapshot[j].expectation
        BY <1>12, <2>1 DEF StoreHuman, Filled, SnapshotRow
      <2>3. \A a \in Actors : pc'[a] \in {"write", "requeue"} =>
              pc'[a] = pc[a] /\ key'[a] = key[a] /\ seen'[a] = seen[a]
        BY <1>12, ActorFacts DEF StoreHuman, Idle
      <2> QED BY <1>12, <2>2, <2>3, ExpectationFrame DEF StoreHuman, Queued
    <1>13. ASSUME NEW p \in Processes, NEW targets \in SUBSET Keys, Enqueue(p, targets)
           PROVE  ExpectationInv'
      <2>1. \A j \in Keys : Queued(j)' =>
              \/ queue'[j].expectation = Expected[j]
              \/ Queued(j) /\ queue'[j].expectation = queue[j].expectation
        BY <1>13 DEF Enqueue, Queued
      <2> QED BY <1>13, <2>1, ExpectationFrame DEF Enqueue, threads
    <1>14. ASSUME NEW p \in Processes, Crash(p)
           PROVE  ExpectationInv'
      BY <1>14, ExpectationFrame DEF Crash, store, Queued
    <1>15. CASE UNCHANGED vars \/ DiesInHand
      BY <1>15, ExpectationFrame DEF DiesInHand, vars, store, threads, Queued
    <1>16. ASSUME NEW h \in Humans, HumanBegin(h)
           PROVE  ExpectationInv'
      BY <1>16, <1>2, <1>8, <1>10, <1>11 DEF HumanBegin, Paste, RecordBrowser, Begin, FetcherOnly
    <1> QED
      BY <1>1, <1>3, <1>4, <1>5, <1>6, <1>7, <1>9, <1>10, <1>12, <1>13, <1>14, <1>15, <1>16
      DEF CaptureMove, Next, WorkerStep, HumanFinish

\* What was sought is never lost on the way from the queue to the row, through
\* deferrals, retries, second failures and crashes, as long as every capture
\* comes from the fetcher: a paste makes a row that never knew.
THEOREM ExpectationsAreKept ==
    OneProcess /\ FetcherOnly => (PSpec => []ExpectationKept)
    <1> SUFFICES ASSUME OneProcess, FetcherOnly
                 PROVE  PSpec => []ExpectationKept
      OBVIOUS
    <1>1. PInit => ExpectationInv
      BY ActorFacts DEF PInit, Init, ExpectationInv, Queued
    <1>2. CInv /\ ExpectationInv /\ [PNext]_allVars => ExpectationInv'
      BY CaptureMoves, ExpectationStep DEF CInv
    <1>3. CInv /\ ExpectationInv => ExpectationKept
      BY DEF ExpectationInv, ExpectationKept, CInv, PInv, IInv, TypeInv, TypeOK
    <1> QED BY <1>1, <1>2, <1>3, CompositionInv, PTL DEF PSpec

\* A row stays as it was, over the same bytes.
LEMMA SameReading ==
    ASSUME ReadingInv, NEW k \in Keys, snapshot'[k] # None,
           snapshot'[k] = snapshot[k], raw'[k] = raw[k]
    PROVE  snapshot[k] # None /\ TrueReading(k)'
    BY DEF ReadingInv, TrueReading

\* Reading the bytes a row stands over makes it true to them, or leaves it so.
LEMMA FilledReading ==
    ASSUME TypeInv, ReadingInv, NEW k \in Keys, NEW body \in Bodies,
           raw[k] = body, raw'[k] = body, snapshot'[k] # None,
           snapshot'[k] = Filled(snapshot[k], ReadingOf(body))
    PROVE  snapshot[k] # None /\ TrueReading(k)'
    <1>1. snapshot[k] # None
      BY DEF Filled
    <1>2. snapshot[k] \in SnapshotRow /\ TrueReading(k) /\ raw[k] # None
      BY <1>1, NoneApart DEF TypeInv, TypeOK, ReadingInv
    <1>3. CASE snapshot[k].extraction # None
      <2>1. snapshot'[k] = snapshot[k]
        BY <1>3 DEF Filled
      <2> QED BY <1>1, <2>1, SameReading
    <1>4. CASE snapshot[k].extraction = None
      <2>1. snapshot[k].status = "ok"
        BY <1>2, <1>4, NoneApart DEF TrueReading
      <2>2. snapshot'[k] = [snapshot[k] EXCEPT
                              !.extraction = ReadingOf(body).by,
                              !.text       = ReadingOf(body).text,
                              !.status     = IF ReadingOf(body).status = None
                                             THEN snapshot[k].status
                                             ELSE ReadingOf(body).status]
        BY <1>1, <1>4 DEF Filled
      <2>3. /\ snapshot'[k].extraction = ReadingOf(body).by
            /\ snapshot'[k].text = ReadingOf(body).text
            /\ snapshot'[k].status = IF ReadingOf(body).status = None
                                     THEN "ok" ELSE ReadingOf(body).status
        BY <1>2, <2>1, <2>2 DEF SnapshotRow
      <2>4. /\ ReadingOf(body).by \in Machine
            /\ ReadingOf(body).status = IF Reads[body] = "full" THEN None ELSE "thin"
        BY ReadingOfType DEF ReadingOf
      <2>5. None # "thin"
        BY NoneApart DEF Statuses
      <2> QED BY <1>1, <2>3, <2>4, <2>5, NoneApart DEF TrueReading
    <1> QED BY <1>3, <1>4

\* What reextract resets, or leaves alone, is true to its bytes.
LEMMA ResetReading ==
    ASSUME TypeInv, ReadingInv, NEW k \in Keys, NEW only, raw'[k] = raw[k],
           snapshot'[k] # None, snapshot'[k] = ResetRow(snapshot[k], raw[k] # None, only)
    PROVE  snapshot[k] # None /\ TrueReading(k)'
    <1>1. CASE snapshot'[k] = snapshot[k]
      BY <1>1, SameReading
    <1>2. CASE snapshot'[k] # snapshot[k]
      <2>1. /\ snapshot[k] # None /\ raw[k] # None
            /\ snapshot'[k] = [snapshot[k] EXCEPT
                                 !.extraction = None, !.text = None,
                                 !.status = IF snapshot[k].status = "thin"
                                            THEN "ok" ELSE snapshot[k].status]
        BY <1>2 DEF ResetRow
      <2>2. snapshot[k] \in SnapshotRow
        BY <2>1 DEF TypeInv, TypeOK
      <2>3. snapshot[k].status \in {"ok", "thin"}
        BY <2>1 DEF ReadingInv, TrueReading
      <2>4. snapshot'[k].extraction = None /\ snapshot'[k].status = "ok"
        BY <2>1, <2>2, <2>3 DEF SnapshotRow
      <2> QED BY <2>1, <2>4 DEF TrueReading
    <1> QED BY <1>1, <1>2

\* No row appears, no work is taken up, and what is read stays what is held.
LEMMA ReadingFrame ==
    ASSUME TypeInv, ReadingInv, Standing, known \subseteq known',
           \A k \in Keys : snapshot'[k] # None => snapshot[k] # None /\ TrueReading(k)',
           \A k \in Keys : Queued(k)' => Queued(k) \/ snapshot'[k] = None,
           \A w \in Workers :
             /\ todo'[w] \subseteq todo[w]
             /\ pc'[w] \in InHand \cup {"extract"} =>
                  /\ key'[w] = key[w] /\ got'[w] = got[w] /\ seen'[w] = seen[w]
                  /\ pc'[w] = pc[w] \/ (pc[w] \in InHand /\ pc'[w] \in InHand \ {"sought", "write"}),
           \A h \in Humans : batch'[h] \subseteq batch[h] /\ pc'[h] # "fill"
    PROVE  ReadingInv'
    <1> USE DEF TypeInv, TypeOK
    <1>1. \A k \in Keys : snapshot[k] = None => snapshot'[k] = None
      OBVIOUS
    <1>2. \A k \in Keys : raw[k] # None => raw'[k] = raw[k]
      BY DEF Standing
    <1>3. \A k \in Keys : snapshot'[k] # None => k \in known' /\ TrueReading(k)'
      BY DEF ReadingInv
    <1>4. \A k \in Keys : Queued(k)' => snapshot'[k] = None
      BY <1>1 DEF ReadingInv
    <1>5. ASSUME NEW w \in Workers
          PROVE  /\ \A k \in todo'[w] : snapshot'[k] = None
                 /\ pc'[w] \in InHand => snapshot'[key'[w]] = None /\ key'[w] \notin todo'[w]
                 /\ pc'[w] \in {"sought", "write"} => ~seen'[w].existing
                 /\ pc'[w] = "extract" => raw'[key'[w]] = got'[w].body
      <2>1. \A k \in todo'[w] : snapshot'[k] = None
        BY <1>1 DEF ReadingInv
      <2>2. ASSUME pc'[w] \in InHand
            PROVE  snapshot'[key'[w]] = None /\ key'[w] \notin todo'[w]
        <3>1. pc[w] \in InHand /\ key'[w] = key[w]
          BY <2>2
        <3>2. PICK k \in Keys : k = key[w]
          BY <3>1 DEF ThreadOK, InHand
        <3> QED BY <1>1, <3>1, <3>2 DEF ReadingInv
      <2>3. ASSUME pc'[w] \in {"sought", "write"}
            PROVE  ~seen'[w].existing
        <3>1. pc[w] \in {"sought", "write"} /\ seen'[w] = seen[w]
          BY <2>3 DEF InHand
        <3> QED BY <3>1 DEF ReadingInv
      <2>4. ASSUME pc'[w] = "extract"
            PROVE  raw'[key'[w]] = got'[w].body
        <3>1. pc[w] = "extract" /\ key'[w] = key[w] /\ got'[w] = got[w]
          BY <2>4 DEF InHand
        <3>2. PICK k \in Keys : k = key[w]
          BY <3>1 DEF ThreadOK
        <3>3. raw[k] = got[w].body /\ got[w].body \in Bodies
          BY <3>1, <3>2 DEF ThreadOK, ReadingInv
        <3> QED BY <1>2, <3>1, <3>2, <3>3, NoneApart
      <2> QED BY <2>1, <2>2, <2>3, <2>4
    <1>6. \A h \in Humans : \A capture \in batch'[h] : raw'[capture[1]] = capture[2]
      <2> SUFFICES ASSUME NEW h \in Humans, NEW capture \in batch[h]
                   PROVE  raw'[capture[1]] = capture[2]
        OBVIOUS
      <2>1. capture[1] \in Keys /\ capture[2] \in Bodies /\ raw[capture[1]] = capture[2]
        BY DEF ReadingInv
      <2> QED BY <1>2, <2>1, NoneApart
    <1>7. ReadingInv' <=>
            /\ \A k \in Keys : snapshot'[k] # None => k \in known' /\ TrueReading(k)'
            /\ \A k \in Keys : Queued(k)' => snapshot'[k] = None
            /\ \A w \in Workers :
                 /\ \A k \in todo'[w] : snapshot'[k] = None
                 /\ pc'[w] \in InHand => snapshot'[key'[w]] = None /\ key'[w] \notin todo'[w]
                 /\ pc'[w] \in {"sought", "write"} => ~seen'[w].existing
                 /\ pc'[w] = "extract" => raw'[key'[w]] = got'[w].body
            /\ \A h \in Humans : \A capture \in batch'[h] : raw'[capture[1]] = capture[2]
            /\ \A h \in Humans : pc'[h] # "fill"
      BY DEF ReadingInv, InHand
    <1> QED BY <1>3, <1>4, <1>5, <1>6, <1>7

\* The one worker records what it fetched: its row is new, and stands over the
\* very bytes the worker is about to read.
LEMMA RecordReading ==
    ASSUME PInv, ReadingInv, OneWorker, NEW w \in Workers, RecordWrite(w)
    PROVE  ReadingInv'
    <1> TypeInv
      BY DEF PInv, IInv
    <1> USE DEF TypeInv, TypeOK
    <1>1. PICK k \in Keys : k = key[w]
      BY DEF RecordWrite, ThreadOK
    <1>2. got[w] \in Fetched /\ pc[w] = "write"
      BY DEF RecordWrite, ThreadOK
    <1>3. /\ snapshot[k] = None /\ k \notin todo[w] /\ ~seen[w].existing
          /\ k \in known /\ known' = known
      BY <1>1, <1>2, NoneApart DEF ReadingInv, InHand, PInv, CitedInv, CitedHands, RecordWrite
    <1>4. raw[k] = None
      BY <1>3 DEF PInv, IInv, StoreInv, RawWitnessed
    <1>5. /\ snapshot' = [snapshot EXCEPT ![k] = NewRow(got[w].status, seen[w].expectation)]
          /\ raw' = [raw EXCEPT ![k] = WithBytes(raw[k], got[w])]
          /\ queue' = [queue EXCEPT ![k] = None]
      BY <1>1, <1>3 DEF RecordWrite
    <1>6. /\ raw'[k] = got[w].body
          /\ snapshot'[k].extraction = None /\ snapshot'[k].status = got[w].status
      BY <1>4, <1>5 DEF WithBytes, NewRow
    <1>7. TrueReading(k)'
      BY <1>2, <1>6, NoneApart DEF Fetched, TrueReading
    <1>8. \A j \in Keys \ {k} : snapshot'[j] = snapshot[j] /\ raw'[j] = raw[j]
      BY <1>5
    <1>9. \A j \in Keys : snapshot'[j] # None => j \in known' /\ TrueReading(j)'
      BY <1>3, <1>7, <1>8, SameReading DEF ReadingInv
    <1>10. \A j \in Keys : Queued(j)' => snapshot'[j] = None
      BY <1>5, <1>8 DEF Queued, ReadingInv
    <1>11. todo' = todo /\ batch' = batch /\ w \in Actors
      BY ActorFacts DEF RecordWrite, NextCapture
    <1>12. \/ pc'[w] = "extract" /\ key'[w] = key[w] /\ got'[w] = got[w]
           \/ pc'[w] \in {"idle", "next"}
      BY <1>11 DEF RecordWrite, NextCapture
    <1>13. \A j \in todo'[w] : snapshot'[j] = None
      BY <1>3, <1>8, <1>11 DEF ReadingInv
    <1>14. pc'[w] = "extract" => raw'[key'[w]] = got'[w].body
      BY <1>1, <1>6, <1>12
    <1>15. \A v \in Workers : v = w
      BY DEF OneWorker
    <1>16. \A h \in Humans : pc'[h] # "fill"
      BY ActorFacts DEF RecordWrite, NextCapture, ReadingInv
    <1>17. \A h \in Humans : \A capture \in batch'[h] : raw'[capture[1]] = capture[2]
      <2> SUFFICES ASSUME NEW h \in Humans, NEW capture \in batch[h]
                   PROVE  raw'[capture[1]] = capture[2]
        BY <1>11
      <2>1. capture[1] \in Keys /\ capture[2] \in Bodies /\ raw[capture[1]] = capture[2]
        BY DEF ReadingInv
      <2> QED BY <1>4, <1>8, <2>1, NoneApart
    <1>18. pc'[w] \notin InHand
      BY <1>12 DEF InHand
    <1> QED
      BY <1>9, <1>10, <1>12, <1>13, <1>14, <1>15, <1>16, <1>17, <1>18 DEF ReadingInv, InHand

LEMMA ReadingStep ==
    ASSUME PInv, ReadingInv, OneWorker, FetcherOnly, CaptureMove
    PROVE  ReadingInv'
    <1> TypeInv
      BY DEF PInv, IInv
    <1> USE DEF TypeInv, TypeOK
    <1> Standing
      <2>1. CASE [Next]_vars
        BY <2>1, StandingStep
      <2>2. CASE DiesInHand
        BY <2>2, StandingSame DEF DiesInHand, store
      <2> QED BY <2>1, <2>2 DEF CaptureMove
    <1> known \subseteq known'
      BY CitationsStay
    <1>1. ASSUME NEW w \in Workers, WorkerStep(w)
          PROVE  ReadingInv'
      <2>1. w \in Actors /\ w \notin Humans /\ \A v \in Workers : v = w
        BY ActorFacts DEF OneWorker
      <2>2. CASE RecordWrite(w)
        BY <2>2, RecordReading
      <2>3. CASE ListPending(w)
        <3>1. /\ UNCHANGED <<queue, snapshot, raw, batch>>
              /\ todo'[w] = {k \in Keys : Queued(k)} /\ pc'[w] = "next"
              /\ \A h \in Humans : pc'[h] = pc[h]
          BY <2>1, <2>3 DEF ListPending, store
        <3> QED BY <2>1, <3>1 DEF ReadingInv, TrueReading, Queued, InHand
      <2>4. ASSUME NEW k \in Keys, NEW result \in Fetched, Fetch(w, k, result)
            PROVE  ReadingInv'
        <3>1. /\ UNCHANGED <<queue, snapshot, raw, batch>>
              /\ k \in todo[w] /\ todo'[w] = todo[w] \ {k}
              /\ key'[w] = k /\ pc'[w] \in {"retriable", "record"}
              /\ \A h \in Humans : pc'[h] = pc[h]
          BY <2>1, <2>4 DEF Fetch, store
        <3> QED BY <2>1, <3>1 DEF ReadingInv, TrueReading, Queued, InHand
      <2>5. CASE RecordRead(w)
        <3>1. PICK k \in Keys : k = key[w]
          BY <2>5 DEF RecordRead, ThreadOK
        <3>2. pc[w] = "record" /\ snapshot[k] = None
          BY <2>5, <3>1 DEF RecordRead, ReadingInv, InHand
        <3>3. /\ UNCHANGED <<queue, snapshot, raw, batch, todo, key>>
              /\ pc'[w] = "sought" /\ seen'[w].existing = (snapshot[k] # None)
              /\ \A h \in Humans : pc'[h] = pc[h]
          BY <2>1, <2>5, <3>1 DEF RecordRead, store
        <3>4. ~seen'[w].existing
          BY <3>2, <3>3, Zenon
        <3> QED BY <2>1, <3>2, <3>3, <3>4 DEF ReadingInv, TrueReading, Queued, InHand
      <2>10. CASE RecordSought(w)
        <3>1. seen' = [seen EXCEPT ![w] =
                [seen[w] EXCEPT !.expectation =
                   IF Queued(key[w]) THEN queue[key[w]].expectation ELSE None]]
          BY <2>10 DEF RecordSought
        <3>2. seen'[w].existing = seen[w].existing
          BY <2>1, <3>1
        <3>3. /\ UNCHANGED <<queue, snapshot, raw, batch, todo, key>>
              /\ pc[w] = "sought" /\ pc'[w] = "write"
              /\ \A h \in Humans : pc'[h] = pc[h]
          BY <2>1, <2>10 DEF RecordSought, store
        <3> QED BY <2>1, <3>2, <3>3 DEF ReadingInv, TrueReading, Queued, InHand
      <2>6. CASE DecideRetry(w)
        <3>1. /\ UNCHANGED <<queue, snapshot, raw, batch, todo, key, got, seen>>
              /\ pc[w] = "retriable" /\ pc'[w] \in {"defer", "record"}
              /\ \A h \in Humans : pc'[h] = pc[h]
          BY <2>1, <2>6 DEF DecideRetry, store
        <3> QED BY <2>1, <3>1 DEF ReadingInv, TrueReading, Queued, InHand
      <2>7. CASE Defer(w)
        <3>1. /\ UNCHANGED <<snapshot, raw, batch, todo>>
              /\ \A k \in Keys : Queued(k)' => Queued(k)
          BY <2>7 DEF Defer, NextCapture, Queued
        <3>2. pc'[w] \in {"idle", "next"} /\ \A h \in Humans : pc'[h] = pc[h]
          BY <2>1, <2>7 DEF Defer, NextCapture
        <3> QED BY <2>1, <3>1, <3>2 DEF ReadingInv, TrueReading, InHand
      <2>8. CASE RecordConflict(w)
        <3>1. UNCHANGED <<queue, snapshot, raw, batch>> /\ todo'[w] = {}
          BY <2>8 DEF RecordConflict, store
        <3>2. pc'[w] = "idle" /\ \A h \in Humans : pc'[h] = pc[h]
          BY <2>1, <2>8 DEF RecordConflict, Idle
        <3> QED BY <2>1, <3>1, <3>2 DEF ReadingInv, TrueReading, Queued, InHand
      <2>9. CASE ExtractFetched(w)
        <3>1. PICK k \in Keys : k = key[w]
          BY <2>9 DEF ExtractFetched, ThreadOK
        <3>2. PICK body \in Bodies : body = got[w].body
          BY <2>9 DEF ExtractFetched, ThreadOK
        <3>3. raw[k] = body
          BY <2>9, <3>1, <3>2 DEF ExtractFetched, ReadingInv
        <3>4. /\ snapshot'[k] = Filled(snapshot[k], ReadingOf(body))
              /\ \A j \in Keys \ {k} : snapshot'[j] = snapshot[j]
              /\ UNCHANGED <<queue, raw, batch, todo>>
          BY <2>9, <3>1, <3>2 DEF ExtractFetched, NextCapture
        <3>5. \A j \in Keys : snapshot'[j] # None => snapshot[j] # None /\ TrueReading(j)'
          BY <3>3, <3>4, FilledReading, SameReading
        <3>6. pc'[w] \in {"idle", "next"} /\ \A h \in Humans : pc'[h] = pc[h]
          BY <2>1, <2>9 DEF ExtractFetched, NextCapture
        <3>7. \A v \in Workers : pc'[v] \notin InHand \cup {"extract"}
          BY <2>1, <3>6 DEF InHand
        <3>8. \A h \in Humans : batch'[h] \subseteq batch[h] /\ pc'[h] # "fill"
          BY <3>4, <3>6 DEF ReadingInv
        <3> QED BY <3>4, <3>5, <3>7, <3>8, ReadingFrame DEF Queued
      <2> QED BY <1>1, <2>2, <2>3, <2>4, <2>5, <2>6, <2>7, <2>8, <2>9, <2>10
          DEF WorkerStep
    <1>2. ASSUME NEW h \in Humans, HumanBegin(h) \/ HumanFinish(h)
          PROVE  ReadingInv'
      <2>1. h \in Actors /\ h \notin Workers /\ pc[h] # "fill"
        BY ActorFacts DEF ReadingInv
      <2>2. ASSUME \A w \in Workers : /\ todo'[w] = todo[w] /\ pc'[w] = pc[w]
                                      /\ key'[w] = key[w] /\ got'[w] = got[w]
                                      /\ seen'[w] = seen[w],
                   \A k \in Keys : snapshot'[k] # None => snapshot[k] # None /\ TrueReading(k)',
                   \A k \in Keys : Queued(k)' => Queued(k) \/ snapshot'[k] = None,
                   \A g \in Humans : batch'[g] \subseteq batch[g] /\ pc'[g] # "fill"
            PROVE  ReadingInv'
        BY <2>2, ReadingFrame
      <2>3. CASE Requeue(h)
        <3>1. PICK k \in Keys : k = key[h]
          BY <2>3 DEF Requeue, ThreadOK
        <3>2. /\ snapshot'[k] = None
              /\ \A j \in Keys \ {k} : snapshot'[j] = snapshot[j] /\ queue'[j] = queue[j]
              /\ UNCHANGED <<raw, batch, todo>>
          BY <2>3, <3>1 DEF Requeue
        <3>3. /\ \A a \in Actors \ {h} : /\ pc'[a] = pc[a] /\ key'[a] = key[a]
                                         /\ got'[a] = got[a] /\ seen'[a] = seen[a]
              /\ pc'[h] = "idle"
          BY <2>1, <2>3 DEF Requeue, Idle
        <3>4. \A w \in Workers : /\ todo'[w] = todo[w] /\ pc'[w] = pc[w]
                                 /\ key'[w] = key[w] /\ got'[w] = got[w] /\ seen'[w] = seen[w]
          BY <2>1, <3>2, <3>3, ActorFacts
        <3>5. \A g \in Humans : batch'[g] \subseteq batch[g] /\ pc'[g] # "fill"
          BY <3>2, <3>3, ActorFacts DEF ReadingInv
        <3> QED BY <2>2, <3>2, <3>4, <3>5, SameReading DEF Queued
      <2>4. ASSUME NEW k \in Keys, NEW body \in Bodies, ExtractNext(h, k, body)
            PROVE  ReadingInv'
        <3>1. <<k, body>> \in batch[h]
          BY <2>4 DEF ExtractNext
        <3>2. raw[k] = body
          <4>1. raw[<<k, body>>[1]] = <<k, body>>[2]
            BY <3>1 DEF ReadingInv
          <4> QED BY <4>1
        <3>3. /\ snapshot'[k] = Filled(snapshot[k], ReadingOf(body))
              /\ \A j \in Keys \ {k} : snapshot'[j] = snapshot[j]
              /\ UNCHANGED <<queue, raw, key, got, seen, todo>>
              /\ \A g \in Humans : batch'[g] \subseteq batch[g]
              /\ \A a \in Actors \ {h} : pc'[a] = pc[a]
              /\ pc'[h] # "fill"
          BY <2>1, <2>4 DEF ExtractNext
        <3>4. \A j \in Keys : snapshot'[j] # None => snapshot[j] # None /\ TrueReading(j)'
          BY <3>2, <3>3, FilledReading, SameReading
        <3>5. \A g \in Humans : pc'[g] # "fill"
          BY <3>3, ActorFacts DEF ReadingInv
        <3>6. \A w \in Workers : pc'[w] = pc[w]
          BY <2>1, <3>3, ActorFacts
        <3> QED BY <2>2, <3>3, <3>4, <3>5, <3>6 DEF Queued
      <2>5. ASSUME NEW only, Reextract(h, only)
            PROVE  ReadingInv'
        <3>1. /\ \A k \in Keys : snapshot'[k] = ResetRow(snapshot[k], raw[k] # None, only)
              /\ UNCHANGED <<queue, raw, key, got, seen, todo, batch>>
              /\ \A a \in Actors \ {h} : pc'[a] = pc[a]
              /\ pc'[h] = "drain"
          BY <2>1, <2>5 DEF Reextract
        <3>2. \A k \in Keys : snapshot'[k] # None => snapshot[k] # None /\ TrueReading(k)'
          BY <3>1, ResetReading
        <3>3. \A g \in Humans : pc'[g] # "fill"
          BY <3>1, ActorFacts DEF ReadingInv
        <3>4. \A w \in Workers : pc'[w] = pc[w]
          BY <2>1, <3>1, ActorFacts
        <3> QED BY <2>2, <3>1, <3>2, <3>3, <3>4 DEF Queued
      <2>6. CASE ReadBacklog(h)
        <3>1. /\ UNCHANGED <<queue, snapshot, raw, key, got, seen, todo>>
              /\ batch'[h] = {<<k, raw[k]>> : k \in {j \in Keys : InBacklog(j)}}
              /\ \A g \in Humans \ {h} : batch'[g] = batch[g]
              /\ \A a \in Actors \ {h} : pc'[a] = pc[a]
              /\ pc'[h] # "fill"
          BY <2>1, <2>6 DEF ReadBacklog, store
        <3>2. \A w \in Workers : pc'[w] = pc[w]
          BY <2>1, <3>1, ActorFacts
        <3>3. \A g \in Humans : pc'[g] # "fill"
          BY <3>1, ActorFacts DEF ReadingInv
        <3>4. \A g \in Humans : \A capture \in batch'[g] : raw[capture[1]] = capture[2]
          BY <3>1 DEF ReadingInv
        <3> QED BY <3>1, <3>2, <3>3, <3>4 DEF ReadingInv, TrueReading, Queued, InHand
      <2>7. ASSUME \/ \E k \in Keys : RetryRead(h, k) \/ Acknowledge(h, k)
                   \/ Extract(h)
            PROVE  ReadingInv'
        <3>1. /\ UNCHANGED <<snapshot, raw, todo, batch, got>>
              /\ \A k \in Keys : Queued(k)' => Queued(k)
          BY <2>7 DEF RetryRead, Acknowledge, Extract, store, threads, Queued
        <3>2. /\ \A a \in Actors \ {h} : pc'[a] = pc[a] /\ key'[a] = key[a] /\ seen'[a] = seen[a]
              /\ pc'[h] # "fill"
          BY <2>1, <2>7 DEF RetryRead, Acknowledge, Extract, threads, Begin
        <3>3. \A w \in Workers : pc'[w] = pc[w] /\ key'[w] = key[w] /\ seen'[w] = seen[w]
          BY <2>1, <3>2, ActorFacts
        <3>4. \A g \in Humans : pc'[g] # "fill"
          BY <3>2, ActorFacts DEF ReadingInv
        <3> QED BY <2>2, <3>1, <3>3, <3>4, SameReading
      <2>8. CASE HumanBegin(h)
        BY <2>8, <2>5, <2>7 DEF HumanBegin, Paste, RecordBrowser, Begin, FetcherOnly
      <2>9. CASE HumanFinish(h)
        BY <2>9, <2>1, <2>3, <2>4, <2>6 DEF HumanFinish, StoreHuman
      <2> QED BY <1>2, <2>8, <2>9
    <1>3. ASSUME NEW p \in Processes, NEW targets \in SUBSET Keys, Enqueue(p, targets)
          PROVE  ReadingInv'
      <2>1. \A k \in targets : snapshot[k] = None
        BY <1>3 DEF Enqueue, ReadingInv
      <2>2. /\ UNCHANGED <<snapshot, raw, threads>>
            /\ \A j \in Keys : Queued(j)' => Queued(j) \/ j \in targets
        BY <1>3 DEF Enqueue, Queued
      <2> QED BY <2>1, <2>2 DEF ReadingInv, TrueReading, threads
    <1>4. ASSUME NEW p \in Processes, Crash(p)
          PROVE  ReadingInv'
      <2>1. /\ UNCHANGED <<queue, snapshot, raw>>
            /\ \A w \in Workers : todo'[w] \subseteq todo[w]
            /\ \A w \in Workers : pc'[w] # "idle" =>
                 pc'[w] = pc[w] /\ key'[w] = key[w] /\ got'[w] = got[w] /\ seen'[w] = seen[w]
            /\ \A h \in Humans : batch'[h] \subseteq batch[h] /\ pc'[h] \in {pc[h], "idle"}
        BY <1>4, ActorFacts DEF Crash, store
      <2> QED BY <2>1, ReadingFrame, SameReading DEF ReadingInv, Queued, InHand
    <1>5. CASE UNCHANGED vars \/ DiesInHand
      <2>1. UNCHANGED <<store, threads>>
        BY <1>5 DEF DiesInHand, vars
      <2> QED BY <2>1 DEF store, threads, ReadingInv, TrueReading, Queued
    <1> QED BY <1>1, <1>2, <1>3, <1>4, <1>5 DEF CaptureMove, Next

LEMMA ReadingInvariant ==
    OneProcess /\ OneWorker /\ FetcherOnly => (PSpec => []ReadingInv)
    <1> SUFFICES ASSUME OneProcess, OneWorker, FetcherOnly
                 PROVE  PSpec => []ReadingInv
      OBVIOUS
    <1>1. PInit => ReadingInv
      BY ActorFacts DEF PInit, Init, ReadingInv, Queued, InHand
    <1>2. CInv /\ ReadingInv /\ [PNext]_allVars => ReadingInv'
      BY CaptureMoves, ReadingStep DEF CInv
    <1> QED BY <1>1, <1>2, CompositionInv, PTL DEF PSpec

\* A machine reading is what the extractor makes of the bytes held, whatever the
\* order of records, resets, drains, retries and crashes, where one worker does
\* the fetching: a second one would read the body it fetched into a row over the
\* first one's.
THEOREM ReadingsAreReproducible ==
    OneProcess /\ OneWorker /\ FetcherOnly => (PSpec => []ReadingReproducible)
    <1>1. CInv /\ ReadingInv => ReadingReproducible
      BY NoneApart DEF ReadingInv, TrueReading, ReadingReproducible, Machine
    <1> QED BY <1>1, CompositionInv, ReadingInvariant, PTL

\* And the status shown in triage follows that reading.
THEOREM StatusesFollowReadings ==
    OneProcess /\ OneWorker /\ FetcherOnly => (PSpec => []StatusFollowsReading)
    <1>1. CInv /\ ReadingInv => StatusFollowsReading
      BY NoneApart DEF ReadingInv, TrueReading, StatusFollowsReading, Machine
    <1> QED BY <1>1, CompositionInv, ReadingInvariant, PTL
================================================================================
