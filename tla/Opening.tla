-------------------------------- MODULE Opening --------------------------------
(***************************************************************************)
(* How processes come to serve a notes database, and how `seshat reset`    *)
(* moves one aside: Store.__init__ with _check_version, _ensure_schema and *)
(* _write_meta (src/seshat/store.py), and _reset (src/seshat/cli.py).      *)
(*                                                                         *)
(* executescript commits every statement of SCHEMA by itself, and reset    *)
(* renames one file after the other, so each is a step.  Of SQLite the     *)
(* model keeps what decides what a file holds: a commit is in the -wal     *)
(* file until a checkpoint, and a -wal belongs to the file whose name it   *)
(* extends.  note_vec, of the width its first opener's embedder has, is    *)
(* made last and outside SCHEMA (src/seshat/vectors.py).                   *)
(***************************************************************************)
EXTENDS Naturals, Sequences

CONSTANTS
    Processes,     \* writable openers: `serve`, the command line
    Width,         \* of each process's embedder; None without the extension
    Statements,    \* number of CREATE statements in SCHEMA, none IF NOT EXISTS
    Contents,      \* what may be committed once the store is open
    Found,         \* commits of the file the first process finds; << >> for none
    MaxFiles,      \* bound on the files created at the path
    MaxCrashes,    \* bound on the number of process crashes explored
    MaxResets,     \* bound on the number of resets
    None           \* no file, no connection

Files == 1..MaxFiles

\* Commits: statement i of SCHEMA, the PRAGMA that sets user_version, the meta
\* rows, note_vec, and content.  An older store begins with another PRAGMA.
Commits == [kind : {"create"}, of : 1..Statements]
           \cup [kind : {"version", "older", "meta"}, of : {None}]
           \cup [kind : {"vectors"}, of : Nat]
           \cup [kind : {"content"}, of : Contents]

Versioned == [kind |-> "version", of |-> None]
Meta      == [kind |-> "meta", of |-> None]

ASSUME OpeningAssumption ==
    /\ Statements \in Nat \ {0}
    /\ Width \in [Processes -> Nat \cup {None}]
    /\ Found \in Seq(Commits)
    /\ MaxFiles \in Nat \ {0} /\ MaxCrashes \in Nat /\ MaxResets \in Nat
    /\ None \notin Files \cup Nat /\ None \notin Contents

VARIABLES
    log,           \* what was committed to each file, oldest first
    kept,          \* how much of it a checkpoint put into the file itself
    path,          \* the file the database's path names
    wal,           \* the file whose log is at the path's -wal
    archived,      \* the files reset moved aside
    pc,            \* where each process stands
    conn,          \* the file it is connected to
    at,            \* the statement of SCHEMA it comes to next
    vector,        \* whether its vector side is on
    reset,         \* whether a reset stands between its renames
    resets,        \* number of resets so far
    crashes        \* number of crashes so far

disk    == <<log, kept, path, wal, archived>>
opening == <<pc, conn, at, vector>>
vars    == <<disk, opening, reset, resets, crashes>>

Init ==
    /\ log      = [f \in Files |-> IF f = 1 THEN Found ELSE <<>>]
    /\ kept     = [f \in Files |-> Len(log[f])]
    /\ path     = IF Found = <<>> THEN None ELSE 1
    /\ wal      = None
    /\ archived = {}
    /\ pc       = [p \in Processes |-> "closed"]
    /\ conn     = [p \in Processes |-> None]
    /\ at       = [p \in Processes |-> 0]
    /\ vector   = [p \in Processes |-> FALSE]
    /\ reset    = "no"
    /\ resets   = 0
    /\ crashes  = 0

--------------------------------------------------------------------------------
(* What a file holds. *)

Holds(f, commit) == \E i \in DOMAIN log[f] : log[f][i] = commit
Created(f, i)    == Holds(f, [kind |-> "create", of |-> i])
Older(f)         == Holds(f, [kind |-> "older", of |-> None])

\* user_version is 0, SCHEMA_VERSION, or neither.
Unversioned(f) == ~Holds(f, Versioned) /\ ~Older(f)

Connected(f) == {p \in Processes : conn[p] = f}

Committed(p, commit) ==
    /\ log' = [log EXCEPT ![conn[p]] = Append(@, commit)]
    /\ UNCHANGED <<kept, path, wal, archived>>

Step(p, stage) == pc' = [pc EXCEPT ![p] = stage]

--------------------------------------------------------------------------------
(* Store.__init__ *)

\* Files the path has not named yet.
Fresh == {f \in Files : log[f] = <<>> /\ f # path /\ Connected(f) = {}
                        /\ f \notin archived}

\* connect, then _check_version: an empty file is made where there is none, and
\* SQLite drops a -wal found beside a file without a page.
Connect(p) ==
    /\ pc[p] = "closed"
    /\ \E f \in (IF path = None THEN Fresh ELSE {path}) :
         /\ path' = f
         /\ IF Older(f)
            THEN /\ Step(p, "refused")
                 /\ UNCHANGED <<conn, log, kept, wal>>
            ELSE /\ Step(p, "checked")
                 /\ conn' = [conn EXCEPT ![p] = f]
                 /\ log'  = IF wal \notin {None, f}
                            THEN [log EXCEPT ![wal] = SubSeq(@, 1, kept[wal])]
                            ELSE log
                 /\ wal'  = f
                 /\ kept' = kept
    /\ UNCHANGED <<archived, at, vector, reset, resets, crashes>>

\* Who holds a file locked while changing its journal mode: a file with a commit
\* is in WAL mode already, and the PRAGMA leaves it alone.
Switching(f) == {q \in Connected(f) : log[f] = <<>> /\ pc[q] = "switching"}

\* PRAGMA journal_mode = WAL ...
SwitchJournal(p) ==
    /\ pc[p] = "checked"
    /\ Switching(conn[p]) = {}
    /\ Step(p, "switching")
    /\ UNCHANGED <<disk, conn, at, vector, reset, resets, crashes>>

\* ... which may not get its lock within busy_timeout.
JournalLocked(p) ==
    /\ pc[p] = "checked"
    /\ Switching(conn[p]) # {}
    /\ Step(p, "failed")
    /\ conn' = [conn EXCEPT ![p] = None]
    /\ UNCHANGED <<disk, at, vector, reset, resets, crashes>>

\* _ensure_schema reads the version once more.
EnsureSchema(p) ==
    /\ pc[p] = "switching"
    /\ IF Unversioned(conn[p])
       THEN Step(p, "creating") /\ at' = [at EXCEPT ![p] = 1]
       ELSE Step(p, "current") /\ UNCHANGED at
    /\ UNCHANGED <<disk, conn, vector, reset, resets, crashes>>

\* One statement of SCHEMA; "table ... already exists" ends the opening.
Create(p) ==
    /\ pc[p] = "creating"
    /\ at[p] <= Statements
    /\ IF Created(conn[p], at[p])
       THEN /\ Step(p, "failed")
            /\ conn' = [conn EXCEPT ![p] = None]
            /\ at'   = [at EXCEPT ![p] = 0]
            /\ UNCHANGED disk
       ELSE /\ Committed(p, [kind |-> "create", of |-> at[p]])
            /\ at' = [at EXCEPT ![p] = @ + 1]
            /\ UNCHANGED <<pc, conn>>
    /\ UNCHANGED <<vector, reset, resets, crashes>>

\* Mutant of SchemaDone: the version set before the last statement.
SchemaDoneEarly(p) == at[p] >= Statements

\* executescript has returned.
SchemaDone(p) == at[p] > Statements

\* Mutant of SetVersion: the version left to the next opener.
SetVersionForgotten(p) ==
    /\ pc[p] = "creating"
    /\ SchemaDone(p)
    /\ Step(p, "current")
    /\ at' = [at EXCEPT ![p] = 0]
    /\ UNCHANGED <<disk, conn, vector, reset, resets, crashes>>

SetVersion(p) ==
    /\ pc[p] = "creating"
    /\ SchemaDone(p)
    /\ Committed(p, Versioned)
    /\ Step(p, "current")
    /\ at' = [at EXCEPT ![p] = 0]
    /\ UNCHANGED <<conn, vector, reset, resets, crashes>>

\* _write_meta, fresh or not.
WriteMeta(p) ==
    /\ pc[p] = "current"
    /\ IF Holds(conn[p], Meta) THEN UNCHANGED disk ELSE Committed(p, Meta)
    /\ Step(p, "described")
    /\ UNCHANGED <<conn, at, vector, reset, resets, crashes>>

VectorTable(f) == {log[f][i] : i \in {i \in DOMAIN log[f] : log[f][i].kind = "vectors"}}

\* ensure_table, CREATE ... IF NOT EXISTS, then stored_dim: the vector side is on
\* if the table is of the process's own width.  The store is open.
EnsureTable(p) ==
    /\ pc[p] = "described"
    /\ LET own == [kind |-> "vectors", of |-> Width[p]]
       IN  IF Width[p] # None /\ VectorTable(conn[p]) = {}
           THEN Committed(p, own) /\ vector' = [vector EXCEPT ![p] = TRUE]
           ELSE /\ vector' = [vector EXCEPT ![p] = own \in VectorTable(conn[p])]
                /\ UNCHANGED disk
    /\ Step(p, "serving")
    /\ UNCHANGED <<conn, at, reset, resets, crashes>>

\* A process that could not open the store is started again.
Restart(p) ==
    /\ pc[p] = "failed"
    /\ Step(p, "closed")
    /\ UNCHANGED <<disk, conn, at, vector, reset, resets, crashes>>

--------------------------------------------------------------------------------
(* Serving, closing, dying *)

Write(p, content) ==
    /\ pc[p] = "serving"
    /\ ~Holds(conn[p], [kind |-> "content", of |-> content])
    /\ Committed(p, [kind |-> "content", of |-> content])
    /\ UNCHANGED <<opening, reset, resets, crashes>>

\* SQLite does so when it sees fit.
Checkpoint(p) ==
    /\ pc[p] = "serving"
    /\ kept' = [kept EXCEPT ![conn[p]] = Len(log[conn[p]])]
    /\ UNCHANGED <<log, path, wal, archived, opening, reset, resets, crashes>>

\* The last connection to a file that is still at its path checkpoints and
\* removes the -wal.
Close(p) ==
    /\ pc[p] = "serving"
    /\ Step(p, "closed")
    /\ conn' = [conn EXCEPT ![p] = None]
    /\ LET last == Connected(conn[p]) = {p} /\ path = conn[p]
       IN  /\ kept' = IF last THEN [kept EXCEPT ![conn[p]] = Len(log[conn[p]])] ELSE kept
           /\ wal'  = IF last THEN None ELSE wal
    /\ vector' = [vector EXCEPT ![p] = FALSE]
    /\ UNCHANGED <<log, path, archived, at, reset, resets, crashes>>

\* Killed: the -wal stays as it is.
Crash(p) ==
    /\ crashes < MaxCrashes
    /\ pc[p] \in {"checked", "switching", "creating", "current", "described", "serving"}
    /\ crashes' = crashes + 1
    /\ Step(p, "closed")
    /\ conn' = [conn EXCEPT ![p] = None]
    /\ at'   = [at EXCEPT ![p] = 0]
    /\ vector' = [vector EXCEPT ![p] = FALSE]
    /\ UNCHANGED <<disk, reset, resets>>

--------------------------------------------------------------------------------
(* _reset *)

\* path to path.<stamp>.bak ...
MoveFile ==
    /\ reset = "no"
    /\ resets < MaxResets
    /\ path # None
    /\ archived' = archived \cup {path}
    /\ path'     = None
    /\ reset'    = "moving"
    /\ resets'   = resets + 1
    /\ UNCHANGED <<log, kept, wal, opening, crashes>>

\* ... then path-wal to path-wal.<stamp>.bak, where no file's name leads.
MoveWal ==
    /\ reset = "moving"
    /\ wal'   = None
    /\ reset' = "no"
    /\ UNCHANGED <<log, kept, path, archived, opening, resets, crashes>>

OpenStep(p) ==
    \/ Connect(p) \/ SwitchJournal(p) \/ JournalLocked(p) \/ EnsureSchema(p)
    \/ Create(p) \/ SetVersion(p) \/ WriteMeta(p) \/ EnsureTable(p)

Next ==
    \/ \E p \in Processes :
         \/ OpenStep(p) \/ Restart(p) \/ Checkpoint(p) \/ Close(p) \/ Crash(p)
         \/ \E content \in Contents : Write(p, content)
    \/ MoveFile
    \/ MoveWal

Spec == Init /\ [][Next]_vars

--------------------------------------------------------------------------------
(* Properties. *)

\* Whoever serves has every table of SCHEMA before it, and uses note_vec only if
\* it holds vectors of its own width, whatever openers and crashes did meanwhile.
ServedIsWhole ==
    \A p \in Processes : pc[p] = "serving" =>
        /\ \A i \in 1..Statements : Created(conn[p], i)
        /\ Holds(conn[p], Versioned)
        /\ vector[p] => VectorTable(conn[p]) = {[kind |-> "vectors", of |-> Width[p]]}

\* The archive can still be read by hand (_reset's docstring): sqlite3 shows
\* every note that was committed to a file reset has moved aside.
ArchiveReadable ==
    reset = "no" =>
        \A f \in archived : Connected(f) = {} =>
            \A i \in DOMAIN log[f] : log[f][i].kind = "content" => i <= kept[f]
================================================================================
