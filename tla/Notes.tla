--------------------------------- MODULE Notes ---------------------------------
(***************************************************************************)
(* The write path of src/seshat/store.py: create_note and add_assessment   *)
(* of every Store open on one notes database -- each MCP client starts a   *)
(* `seshat serve` of its own, and the review interface holds a writer.     *)
(* What becomes of a note's links is in Preservation.                      *)
(*                                                                         *)
(* @synchronized holds a process's lock for a whole operation.  SQLite     *)
(* serialises single statements and `with self.db` blocks only, so between *)
(* two processes every SELECT and every block is a step of its own.        *)
(***************************************************************************)
EXTENDS Naturals, FiniteSets, Sequences

CONSTANTS
    Ids,             \* four-word note ids
    Threads,         \* tool bodies running at a time, one operation each
    Processes,       \* each holds one writable Store, hence one _lock
    ProcessOf,       \* the process a thread belongs to
    Scores,          \* values of `retained`, as percentages
    Theta,           \* pool threshold, likewise
    Retries,         \* _STAMP_COLLISION_RETRIES
    MaxEdges,        \* bound on the length of a `supersedes` list
    MaxAssessments,  \* bound on the rows add_assessment starts to write
    MaxClock,        \* bound on the wall clock
    MaxCrashes,      \* bound on the number of process crashes explored
    None             \* SQL NULL, no job, an unheld lock

Edge       == [old : Ids, retained : Scores]
Assessment == [old : Ids, new : Ids, retained : Scores, at : Nat]

\* What a thread carries: create_note's locals, add_assessment's locals.
Creation == [note : Ids, edges : Seq(Edge), at : Nat]
Judgment == [old : Ids, new : Ids, retained : Scores, at : Nat, tries : Nat,
             prior : Assessment \cup {None}]

ASSUME NotesAssumption ==
    /\ ProcessOf \in [Threads -> Processes]
    /\ Scores \subseteq 0..100
    /\ Theta \in 0..100
    /\ Retries \in Nat \ {0}
    /\ MaxEdges \in Nat /\ MaxAssessments \in Nat
    /\ MaxClock \in Nat /\ MaxCrashes \in Nat
    /\ None \notin Threads \cup Assessment

VARIABLES
    notes,         \* note: the ids of its rows
    assessments,   \* assessment
    clock,         \* the wall clock, in microseconds
    lock,          \* Store._lock of each process
    pc,            \* where each thread stands
    job,           \* the operation it is in
    crashes        \* number of crashes so far

store   == <<notes, assessments>>
threads == <<lock, pc, job>>
vars    == <<store, clock, threads, crashes>>

Init ==
    /\ notes       = {}
    /\ assessments = {}
    /\ clock       = 0
    /\ lock        = [p \in Processes |-> None]
    /\ pc          = [t \in Threads |-> "idle"]
    /\ job         = [t \in Threads |-> None]
    /\ crashes     = 0

--------------------------------------------------------------------------------
(* Views and queries over the assessment table. *)

\* The supersession view: the latest assessment of each edge.
Supersession ==
    {a \in assessments : \A b \in assessments :
        (b.old = a.old /\ b.new = a.new) => b.at <= a.at}

Edges == {<<a.old, a.new>> : a \in assessments}

\* _reaches(a, b): b is in every set that holds a and is closed under E.
Reaches(E, a, b) ==
    \A S \in SUBSET Ids :
        (a \in S /\ \A e \in E : e[1] \in S => e[2] \in S) => b \in S

\* Mutant of Heads: notes nothing leads to, in place of notes leading nowhere.
HeadsRoots(n) ==
    {m \in notes : Reaches(Edges, n, m) /\ \A e \in Edges : e[2] # m}

\* heads(): the descendants of n, itself included, that nothing supersedes.
Heads(n) ==
    {m \in notes : Reaches(Edges, n, m) /\ \A e \in Edges : e[1] # m}

\* Mutant of InPool: minimum over the edges in place of maximum.
InPoolMinimum(n) ==
    LET scores == {s.retained : s \in {s \in Supersession : s.old = n}}
    IN  \A r \in scores : r >= Theta

\* pool_retained: the maximum over the direct edges; 1.0 without any.
InPool(n) ==
    LET scores == {s.retained : s \in {s \in Supersession : s.old = n}}
    IN  scores = {} \/ \E r \in scores : r >= Theta

--------------------------------------------------------------------------------
(* @synchronized: the lock of the process, for the whole operation. *)

Free(t) == lock[ProcessOf[t]] = None

Hold(t)    == lock' = [lock EXCEPT ![ProcessOf[t]] = t]
Release(t) == lock' = [lock EXCEPT ![ProcessOf[t]] = None]

\* Mutant of Goto: the lock held per statement, not per operation.
GotoUnlocked(t, stage, work) ==
    /\ pc'  = [pc  EXCEPT ![t] = stage]
    /\ job' = [job EXCEPT ![t] = work]
    /\ UNCHANGED lock

\* t goes on inside its operation, or leaves it.
Goto(t, stage, work) ==
    /\ pc'  = [pc  EXCEPT ![t] = stage]
    /\ job' = [job EXCEPT ![t] = work]
    /\ Hold(t)
Leave(t) ==
    /\ pc'  = [pc  EXCEPT ![t] = "idle"]
    /\ job' = [job EXCEPT ![t] = None]
    /\ Release(t)

--------------------------------------------------------------------------------
(* create_note *)

EdgeLists == UNION {[1..k -> [old : notes, retained : Scores]] : k \in 0..MaxEdges}

\* Every old id resolved, a fresh id minted, the stamp taken.
Mint(t, n, edges) ==
    /\ pc[t] = "idle" /\ Free(t)
    /\ n \notin notes
    /\ Goto(t, "minted", [note |-> n, edges |-> edges, at |-> clock])
    /\ UNCHANGED <<store, clock, crashes>>

\* The rows one INSERT per list entry writes, all with the one stamp.
EdgeRows(c) ==
    {[old |-> c.edges[i].old, new |-> c.note,
      retained |-> c.edges[i].retained, at |-> c.at] : i \in DOMAIN c.edges}

\* A primary key that is there already undoes the block: another process
\* minted the id first, or the list names one old note twice.
Violates(c) ==
    \/ c.note \in notes
    \/ \E i, j \in DOMAIN c.edges : i # j /\ c.edges[i].old = c.edges[j].old

CommitNote(t) ==
    /\ pc[t] = "minted"
    /\ ~Violates(job[t])
    /\ notes'       = notes \cup {job[t].note}
    /\ assessments' = assessments \cup EdgeRows(job[t])
    /\ Goto(t, "committed", job[t])
    /\ UNCHANGED <<clock, crashes>>

RollBackNote(t) ==
    /\ pc[t] = "minted"
    /\ Violates(job[t])
    /\ Leave(t)
    /\ UNCHANGED <<store, clock, crashes>>

\* _queue_captures: a second database, after the commit but under the lock;
\* its errors are swallowed.
QueueCaptures(t) ==
    /\ pc[t] = "committed"
    /\ Leave(t)
    /\ UNCHANGED <<store, clock, crashes>>

--------------------------------------------------------------------------------
(* add_assessment *)

\* Mutant of Accepted: only the direct reverse edge is refused.
AcceptedDirect(old, new) == old # new /\ <<new, old>> \notin Edges

\* The self-check and the reachability check, before any write.
Accepted(old, new) == old # new /\ ~Reaches(Edges, new, old)

Underway == {t \in Threads : pc[t] \in {"accepted", "compared", "stamped"}}

CheckCycle(t, old, new, retained) ==
    /\ pc[t] = "idle" /\ Free(t)
    /\ {old, new} \subseteq notes
    /\ Accepted(old, new)
    /\ Cardinality(assessments) + Cardinality(Underway) < MaxAssessments
    /\ Goto(t, "accepted", [old |-> old, new |-> new, retained |-> retained,
                            at |-> 0, tries |-> 0, prior |-> None])
    /\ UNCHANGED <<store, clock, crashes>>

\* The assessment in force for an edge, if it has one.
Current(old, new) == {s \in Supersession : s.old = old /\ s.new = new}

ReadPrior(t) ==
    /\ pc[t] = "accepted"
    /\ LET current == Current(job[t].old, job[t].new)
       IN  \E prior \in (IF current = {} THEN {None} ELSE current) :
               Goto(t, "compared", [job[t] EXCEPT !.prior = prior])
    /\ UNCHANGED <<store, clock, crashes>>

Stamp(t) ==
    /\ pc[t] = "compared"
    /\ Goto(t, "stamped", [job[t] EXCEPT !.at = clock])
    /\ UNCHANGED <<store, clock, crashes>>

RowOf(j) == [old |-> j.old, new |-> j.new, retained |-> j.retained, at |-> j.at]

\* PRIMARY KEY (old_id, new_id, asserted_at)
SameKey(j) == {a \in assessments : a.old = j.old /\ a.new = j.new /\ a.at = j.at}

\* Mutants of Record: INSERT OR REPLACE; no primary key.
RecordOver(j)  == assessments' = (assessments \ SameKey(j)) \cup {RowOf(j)}
RecordTwice(j) == assessments' = assessments \cup {RowOf(j)}

Record(j) == SameKey(j) = {} /\ assessments' = assessments \cup {RowOf(j)}

Insert(t) ==
    /\ pc[t] = "stamped"
    /\ Record(job[t])
    /\ Leave(t)
    /\ UNCHANGED <<notes, clock, crashes>>

\* Mutant of Nudged: away from the collision, but backward.
NudgedBack(j) == [j EXCEPT !.at = j.at - 1, !.tries = j.tries + 1]

\* _tick, counted.
Nudged(j) == [j EXCEPT !.at = j.at + 1, !.tries = j.tries + 1]

\* Same edge, same microsecond: one step forward, up to Retries attempts.
Collide(t) ==
    /\ pc[t] = "stamped"
    /\ SameKey(job[t]) # {}
    /\ IF Nudged(job[t]).tries < Retries
       THEN Goto(t, "stamped", Nudged(job[t]))
       ELSE Leave(t)
    /\ UNCHANGED <<store, clock, crashes>>

--------------------------------------------------------------------------------
(* The machine around them. *)

Tick ==
    /\ clock < MaxClock
    /\ clock' = clock + 1
    /\ UNCHANGED <<store, threads, crashes>>

\* A process dies: SQLite keeps what was committed.
Crash(p) ==
    /\ crashes < MaxCrashes
    /\ \E t \in Threads : ProcessOf[t] = p /\ pc[t] # "idle"
    /\ pc'   = [t \in Threads |-> IF ProcessOf[t] = p THEN "idle" ELSE pc[t]]
    /\ job'  = [t \in Threads |-> IF ProcessOf[t] = p THEN None ELSE job[t]]
    /\ lock' = [lock EXCEPT ![p] = None]
    /\ crashes' = crashes + 1
    /\ UNCHANGED <<store, clock>>

CreateNote(t) ==
    \/ \E n \in Ids, edges \in EdgeLists : Mint(t, n, edges)
    \/ CommitNote(t)
    \/ RollBackNote(t)
    \/ QueueCaptures(t)

AddAssessment(t) ==
    \/ \E old, new \in notes, retained \in Scores : CheckCycle(t, old, new, retained)
    \/ ReadPrior(t)
    \/ Stamp(t)
    \/ Insert(t)
    \/ Collide(t)

Next ==
    \/ \E t \in Threads : CreateNote(t) \/ AddAssessment(t)
    \/ \E p \in Processes : Crash(p)
    \/ Tick

Spec == Init /\ [][Next]_vars

--------------------------------------------------------------------------------
(* Properties. *)

\* Every variable has its shape.
TypeOK ==
    /\ notes \subseteq Ids
    /\ assessments \subseteq Assessment
    /\ clock \in Nat
    /\ lock \in [Processes -> Threads \cup {None}]
    /\ pc \in [Threads -> {"idle", "minted", "committed",
                           "accepted", "compared", "stamped"}]
    /\ job \in [Threads -> Creation \cup Judgment \cup {None}]
    /\ crashes \in Nat

\* All writers share one lock: a single Store is open on the database.
OneProcess == \A t, u \in Threads : ProcessOf[t] = ProcessOf[u]

\* No note supersedes, however indirectly, a note that supersedes it: the
\* reachability check of add_assessment and the fresh note of create_note keep
\* the graph a DAG.
Acyclic == \A e \in Edges : ~Reaches(Edges, e[2], e[1])

\* The supersession view holds exactly one row of every assessed edge, however
\* the writers interleave, so a JOIN on it neither drops nor doubles an edge.
OneCurrentPerEdge ==
    \A e \in Edges : Cardinality(Current(e[1], e[2])) = 1

\* An assessment, once recorded, stays as it was recorded, whatever later
\* assessments of the edge, collisions and crashes follow.
HistoryKept == [][assessments \subseteq assessments']_vars

\* The rows a step adds to the assessment table.
Added == assessments' \ assessments

\* Latest wins: a re-assessment outranks the one in force when its operation
\* looked, across processes and through stamp collisions.
ReassessmentWins ==
    [][\A t \in Threads :
          (pc[t] = "stamped" /\ job[t].prior # None /\ RowOf(job[t]) \in Added)
              => job[t].at > job[t].prior.at]_vars

\* The answer's previous_retained is the score the new assessment replaced, not
\* one another writer had replaced meanwhile.
PriorReported ==
    [][\A t \in Threads :
          (pc[t] = "stamped" /\ RowOf(job[t]) \in Added)
              => Current(job[t].old, job[t].new)
                     = IF job[t].prior = None THEN {} ELSE {job[t].prior}]_vars

\* A note leaves the pool only by an assessment of an edge of its own, and an
\* added edge drops it only if it is its first: otherwise the drop is a
\* re-assessment, which stays on record.
PoolDropsRecorded ==
    [][\A n \in notes :
          (InPool(n) /\ ~InPool(n)') =>
              \E a \in Added :
                  /\ a.old = n
                  /\ a.retained < Theta
                  /\ (\E e \in Edges : e[1] = n) => <<n, a.new>> \in Edges]_vars
================================================================================
