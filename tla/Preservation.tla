------------------------------ MODULE Preservation ------------------------------
(***************************************************************************)
(* Preservation from end to end: create_note commits a note and its links  *)
(* in the notes database (src/seshat/store.py), hands the URLs over to the *)
(* capture side modelled by Snapshots, and the checker                     *)
(* (src/seshat/checker.py) compares what it finds in the two databases.    *)
(*                                                                         *)
(* No transaction spans the two files.  The checker runs in a process of   *)
(* its own on read-only connections: each of its SELECTs is a step.        *)
(***************************************************************************)
EXTENDS Snapshots

CONSTANTS
    Writers        \* processes with a writable Store, hence one _lock each

ASSUME PreservationAssumption ==
    Writers \subseteq Processes

VARIABLES
    links,         \* link: committed rows of kind 'url'
    handing,       \* the targets each writer is between its two databases with
    stage,         \* how far the check has come
    found,         \* the keys its SELECTs on snapshot and fetch_queue returned
    missing        \* the targets it reports as never captured

check   == <<stage, found, missing>>
allVars == <<vars, links, handing, check>>

PInit ==
    /\ Init
    /\ links    = {}
    /\ handing  = [p \in Writers |-> {}]
    /\ stage    = "idle"
    /\ found    = {}
    /\ missing  = {}

--------------------------------------------------------------------------------
(* The write path across the two databases. *)

\* Mutant of CommitLinks: the capture queued first, the note committed after.
QueueThenCommit(p, targets) ==
    /\ targets \cap (links \cup known) = {}
    /\ handing[p] = {}
    /\ Enqueue(p, targets)
    /\ handing' = [handing EXCEPT ![p] = targets]
    /\ UNCHANGED <<links, check>>

\* create_note's block: the note and all its link rows.
CommitLinks(p, targets) ==
    /\ targets # {} /\ targets \cap links = {}
    /\ handing[p] = {}
    /\ links'   = links \cup targets
    /\ handing' = [handing EXCEPT ![p] = targets]
    /\ UNCHANGED <<vars, check>>

\* _queue_captures reaches the snapshot store.
HandOver(p) ==
    /\ Enqueue(p, handing[p])
    /\ handing' = [handing EXCEPT ![p] = {}]
    /\ UNCHANGED <<links, check>>

\* It raises, a busy or broken snapshot store: logged, and the note stands.
HandOverFails(p) ==
    /\ handing[p] # {}
    /\ handing' = [handing EXCEPT ![p] = {}]
    /\ UNCHANGED <<vars, links, check>>

Busy(p) == \E a \in Actors : ProcessOf[a] = p /\ pc[a] # "idle"

\* The process dies with whatever it had in hand.
CrashAll(p) ==
    /\ \/ Crash(p)
       \/ /\ ~Busy(p) /\ p \in Writers /\ handing[p] # {}
          /\ crashes < MaxCrashes
          /\ crashes' = crashes + 1
          /\ UNCHANGED <<store, lock, threads>>
    /\ handing' = [w \in Writers |-> IF w = p THEN {} ELSE handing[w]]
    /\ UNCHANGED <<links, check>>

--------------------------------------------------------------------------------
(* check_snapshots: three SELECTs, two databases, no common snapshot. *)

ReadCaptured ==
    /\ stage = "idle"
    /\ found' = {k \in Keys : snapshot[k] # None}
    /\ stage' = "captured"
    /\ UNCHANGED <<vars, links, handing, missing>>

ReadQueued ==
    /\ stage = "captured"
    /\ found' = found \cup {k \in Keys : Queued(k)}
    /\ stage' = "queued"
    /\ UNCHANGED <<vars, links, handing, missing>>

\* Mutant of Uncaptured: only what reached the snapshot store is looked at.
UncapturedKnown(k) == k \in known \ found

\* Not in `captured`, not in `queued`.
Uncaptured(k) == k \notin found

ReadLinks ==
    /\ stage = "queued"
    /\ missing' = {k \in links : Uncaptured(k)}
    /\ found'   = {}
    /\ stage'   = "reported"
    /\ UNCHANGED <<vars, links, handing>>

\* The report is handed out; a later check starts from nothing.
Discard ==
    /\ stage = "reported"
    /\ stage'   = "idle"
    /\ missing' = {}
    /\ UNCHANGED <<vars, links, handing, found>>

CheckStep == ReadCaptured \/ ReadQueued \/ ReadLinks \/ Discard

Capture ==
    /\ \/ \E w \in Workers : WorkerStep(w)
       \/ \E h \in Humans : HumanBegin(h) \/ HumanFinish(h)
    /\ UNCHANGED <<links, handing, check>>

PNext ==
    \/ \E p \in Writers, targets \in SUBSET Keys : CommitLinks(p, targets)
    \/ \E p \in Writers : HandOver(p) \/ HandOverFails(p)
    \/ Capture
    \/ CheckStep
    \/ \E p \in Processes : CrashAll(p)

PSpec == PInit /\ [][PNext]_allVars

\* A create_note that committed goes on to hand over, the worker keeps running,
\* a request that began is finished.  Nobody owes the store a check.
PFairSpec ==
    /\ PSpec
    /\ \A p \in Writers : WF_allVars(HandOver(p) \/ HandOverFails(p))
    /\ \A w \in Workers : WF_allVars(WorkerStep(w) /\ UNCHANGED <<links, handing, check>>)
    /\ \A h \in Humans  : WF_allVars(HumanFinish(h) /\ UNCHANGED <<links, handing, check>>)

--------------------------------------------------------------------------------
(* Properties. *)

\* The variables this module adds have the shape of the rows they stand for.
PTypeOK ==
    /\ links \subseteq Keys
    /\ handing \in [Writers -> SUBSET Keys]
    /\ stage \in {"idle", "captured", "queued", "reported"}
    /\ found \subseteq Keys /\ missing \subseteq Keys

FailedFetch(k) == snapshot[k] # None /\ snapshot[k].status \in {"gone", "unreachable"}

\* Committed first, queued after (create_note, 540): no target is queued, fetched
\* or recorded as a failed fetch for a note that is not there, whichever of the two
\* databases a crash separates from the other.  What a human supplies is another
\* matter: paste and record_browser store a row under any key, cited or not.
CapturesCited ==
    /\ \A k \in Keys : Queued(k) \/ FailedFetch(k) => k \in links
    /\ \A w \in Workers : todo[w] \cup ({key[w]} \ {None}) \subseteq links

\* A target no list holds: a crash or a refusal between the two databases.
Lost(k) == k \in links \ ack /\ ~Queued(k) /\ snapshot[k] = None
Underway(k) == \E p \in Writers : k \in handing[p]

\* Preservation never fails silently for good: every target that is lost when
\* a check comes to the links is in its report, whatever is written while it reads.
LossReported ==
    [][stage = "queued" /\ stage' = "reported" =>
           \A k \in Keys : Lost(k) /\ ~Underway(k) => k \in missing']_allVars

\* No target is dropped but on the way from one database to the other: once
\* handed over it is queued, captured or acknowledged, for ever.
LostOnlyInHand ==
    [][\A k \in Keys : ~Lost(k) /\ Lost(k)' =>
           k \notin known /\ (k \notin links \/ Underway(k))]_allVars
================================================================================
