----------------------------- MODULE OpeningProofs -----------------------------
(***************************************************************************)
(* What TLAPS proves of Opening and of Lookup, for any number of processes *)
(* on the store, any schema and any ids: as long as nobody resets it, who  *)
(* serves has the whole schema before it, and what the near misses say of  *)
(* its notes is so.                                                        *)
(***************************************************************************)
EXTENDS Lookup, FiniteSetTheorems, WellFoundedInduction, NaturalsInduction,
        SequenceTheorems, TLAPS

\* What is found at the path was left by openings like these: the version is set
\* when the schema stands, and there is one note_vec at most.
FoundSound ==
    /\ Versioned \in {Found[i] : i \in DOMAIN Found} =>
         \A n \in 1..Statements :
           [kind |-> "create", of |-> n] \in {Found[i] : i \in DOMAIN Found}
    /\ \A i, j \in DOMAIN Found :
         Found[i].kind = "vectors" /\ Found[j].kind = "vectors" => Found[i] = Found[j]

Opened == {"checked", "switching", "creating", "current", "described", "serving"}

OTypeOK ==
    /\ log     \in [Files -> Seq(Commits)]
    /\ path    \in Files \cup {None}
    /\ pc      \in [Processes -> Opened \cup {"closed", "refused", "failed"}]
    /\ conn    \in [Processes -> Files \cup {None}]
    /\ at      \in [Processes -> Nat]
    /\ vector  \in [Processes -> BOOLEAN]

\* One file, with one -wal, and every connection to it.
OneFile ==
    /\ reset = "no"
    /\ wal \in {None, path}
    /\ \A p \in Processes :
         /\ pc[p] \in Opened => conn[p] = path /\ path \in Files
         /\ pc[p] \notin Opened => conn[p] = None

\* The version is set where the schema stands.
VersionedWhole ==
    \A f \in Files : Holds(f, Versioned) => \A i \in 1..Statements : Created(f, i)

\* note_vec is made once.
OneTable ==
    \A f \in Files : \A c, d \in VectorTable(f) : c = d

\* What an opening has come past stands in the file, whoever put it there.
Passed(p) ==
    /\ pc[p] \in Opened => ~Older(path)
    /\ pc[p] = "creating" =>
         at[p] # 0 /\ \A i \in 1..Statements : i < at[p] => Created(path, i)
    /\ pc[p] \in {"current", "described", "serving"} => Holds(path, Versioned)
    /\ pc[p] = "serving" /\ vector[p] =>
         [kind |-> "vectors", of |-> Width[p]] \in VectorTable(path)

Calm == OTypeOK /\ OneFile /\ VersionedWhole /\ OneTable /\ \A p \in Processes : Passed(p)

OpenInv == resets \in Nat /\ (resets = 0 => Calm)

--------------------------------------------------------------------------------
(* What a commit adds to a file. *)

LEMMA CommitTypes ==
    /\ Versioned \in Commits /\ Meta \in Commits
    /\ \A i \in 1..Statements : [kind |-> "create", of |-> i] \in Commits
    /\ \A n \in Nat : [kind |-> "vectors", of |-> n] \in Commits
    /\ \A content \in Contents : [kind |-> "content", of |-> content] \in Commits
    BY DEF Commits, Versioned, Meta

LEMMA Committing ==
    ASSUME OTypeOK, NEW p \in Processes, conn[p] \in Files, NEW commit \in Commits,
           Committed(p, commit)
    PROVE  /\ log' \in [Files -> Seq(Commits)]
           /\ \A f \in Files : \A c :
                Holds(f, c)' <=> Holds(f, c) \/ (f = conn[p] /\ c = commit)
    <1>0. PICK g \in Files : g = conn[p]
      OBVIOUS
    <1>1. log' = [log EXCEPT ![g] = Append(log[g], commit)]
      BY <1>0 DEF Committed
    <1>2. log' \in [Files -> Seq(Commits)]
      BY <1>1 DEF OTypeOK
    <1>3. ASSUME NEW c
          PROVE  Holds(g, c)' <=> Holds(g, c) \/ c = commit
      <2>1. log[g] \in Seq(Commits) /\ log'[g] = Append(log[g], commit)
        BY <1>1 DEF OTypeOK
      <2>2. /\ DOMAIN log'[g] = 1..(Len(log[g]) + 1)
            /\ \A i \in 1..Len(log[g]) : log'[g][i] = log[g][i]
            /\ log'[g][Len(log[g]) + 1] = commit
        BY <2>1
      <2>3. DOMAIN log[g] = 1..Len(log[g]) /\ Len(log[g]) \in Nat
        BY <2>1
      <2>4. (\E i \in DOMAIN log'[g] : log'[g][i] = c)
              <=> (\E i \in DOMAIN log[g] : log[g][i] = c) \/ c = commit
        <3>1. Len(log[g]) + 1 \in DOMAIN log'[g]
          BY <2>2, <2>3
        <3>2. \A i \in DOMAIN log[g] : i \in DOMAIN log'[g] /\ log'[g][i] = log[g][i]
          BY <2>2, <2>3
        <3>3. \A i \in DOMAIN log'[g] : i \in DOMAIN log[g] \/ i = Len(log[g]) + 1
          BY <2>2, <2>3
        <3> QED BY <2>2, <3>1, <3>2, <3>3
      <2> QED BY <2>4 DEF Holds
    <1>4. ASSUME NEW f \in Files, f # g, NEW c
          PROVE  Holds(f, c)' <=> Holds(f, c)
      BY <1>1, <1>4 DEF Holds, OTypeOK
    <1> QED BY <1>0, <1>2, <1>3, <1>4

LEMMA TableHolds ==
    \A f, c : c \in VectorTable(f) <=> Holds(f, c) /\ c.kind = "vectors"
    BY DEF VectorTable, Holds

\* The path goes on naming the file it names, and no file loses a commit.
Grows ==
    /\ path # None => path' = path
    /\ \A f \in Files : \A c : Holds(f, c) => Holds(f, c)'

\* What the step commits is not an older version.
NoneOlder == \A f \in Files : Older(f)' => Older(f)

LEMMA PassedGrows ==
    ASSUME Calm, Grows, NoneOlder, NEW q \in Processes,
           pc'[q] = pc[q], at'[q] = at[q], vector'[q] = vector[q],
           path' = path, pc[q] \in Opened => path \in Files
    PROVE  Passed(q)'
    <1>1. CASE pc[q] \in Opened
      <2>1. Passed(q) /\ path \in Files
        BY <1>1 DEF Calm
      <2>2. \A c : Holds(path, c) => Holds(path, c)'
        BY <2>1 DEF Grows
      <2>3. \A i \in 1..Statements : Created(path, i) => Created(path, i)'
        BY <2>2 DEF Created
      <2>4. Holds(path, Versioned) => Holds(path, Versioned)'
        BY <2>2
      <2>5. \A c : c \in VectorTable(path) => c \in VectorTable(path)'
        BY <2>2 DEF VectorTable, Holds
      <2>6. Older(path)' => Older(path)
        BY <2>1 DEF NoneOlder
      <2> QED BY <2>1, <2>3, <2>4, <2>5, <2>6 DEF Passed
    <1>2. CASE pc[q] \notin Opened
      BY <1>2 DEF Passed, Opened
    <1> QED BY <1>1, <1>2

\* One process goes on, at the file all are connected to, or off it.
LEMMA CalmFrame ==
    ASSUME Calm, OTypeOK', NEW p \in Processes, Grows, NoneOlder,
           reset' = "no", path' = path, wal' \in {None, path},
           \A q \in Processes \ {p} : /\ pc'[q] = pc[q] /\ conn'[q] = conn[q]
                                      /\ at'[q] = at[q] /\ vector'[q] = vector[q],
           VersionedWhole', OneTable', Passed(p)',
           pc'[p] \in Opened => conn'[p] = path /\ path \in Files,
           pc'[p] \notin Opened => conn'[p] = None
    PROVE  Calm'
    <1>1. OneFile'
      BY DEF Calm, OneFile
    <1>2. ASSUME NEW q \in Processes
          PROVE  Passed(q)'
      <2>1. CASE q # p
        <3>1. pc[q] \in Opened => path \in Files
          BY DEF Calm, OneFile
        <3> QED BY <2>1, <3>1, PassedGrows
      <2> QED BY <2>1
    <1> QED BY <1>1, <1>2 DEF Calm

\* The same, of a step that commits nothing.
LEMMA CalmStill ==
    ASSUME Calm, OTypeOK', NEW p \in Processes,
           log' = log, reset' = "no", path' = path, wal' \in {None, path},
           \A q \in Processes \ {p} : /\ pc'[q] = pc[q] /\ conn'[q] = conn[q]
                                      /\ at'[q] = at[q] /\ vector'[q] = vector[q],
           Passed(p)',
           pc'[p] \in Opened => conn'[p] = path /\ path \in Files,
           pc'[p] \notin Opened => conn'[p] = None
    PROVE  Calm' /\ Grows
    <1>1. Grows /\ NoneOlder
      BY DEF Grows, NoneOlder, Holds, Older
    <1>2. VersionedWhole' /\ OneTable'
      BY DEF Calm, VersionedWhole, OneTable, VectorTable, Holds, Created
    <1> QED BY <1>1, <1>2, CalmFrame

\* And of one that commits what does not contradict what stands.
LEMMA CalmCommit ==
    ASSUME Calm, OTypeOK', NEW p \in Processes, NEW commit \in Commits,
           Committed(p, commit), pc[p] \in Opened, pc'[p] \in Opened,
           conn' = conn, reset' = "no",
           \A q \in Processes \ {p} : pc'[q] = pc[q] /\ at'[q] = at[q] /\ vector'[q] = vector[q],
           commit.kind # "older",
           commit = Versioned => \A i \in 1..Statements : Created(path, i),
           commit.kind = "vectors" => VectorTable(path) = {},
           pc'[p] = "creating" =>
             at'[p] # 0 /\ \A i \in 1..Statements : i < at'[p] =>
                             Created(path, i) \/ commit = [kind |-> "create", of |-> i],
           pc'[p] \in {"current", "described", "serving"} =>
             Holds(path, Versioned) \/ commit = Versioned,
           pc'[p] = "serving" /\ vector'[p] =>
             \/ [kind |-> "vectors", of |-> Width[p]] \in VectorTable(path)
             \/ commit = [kind |-> "vectors", of |-> Width[p]]
    PROVE  Calm' /\ Grows
    <1>1. conn[p] = path /\ path \in Files /\ ~Older(path)
      BY DEF Calm, OneFile, Passed
    <1>2. /\ log' \in [Files -> Seq(Commits)]
          /\ \A f \in Files : \A c :
               Holds(f, c)' <=> Holds(f, c) \/ (f = path /\ c = commit)
      BY <1>1, Committing DEF Calm
    <1>3. UNCHANGED <<path, wal>>
      BY DEF Committed
    <1>4. Grows
      BY <1>2, <1>3 DEF Grows
    <1>5. NoneOlder
      BY <1>2 DEF NoneOlder, Older
    <1>6. VersionedWhole'
      <2>1. ASSUME NEW f \in Files, Holds(f, Versioned)', NEW i \in 1..Statements
            PROVE  Created(f, i)'
        <3>1. Created(f, i)
          BY <1>2, <2>1 DEF Calm, VersionedWhole
        <3> QED BY <1>2, <3>1 DEF Created
      <2> QED BY <2>1 DEF VersionedWhole
    <1>7. OneTable'
      <2>1. ASSUME NEW f \in Files, NEW c \in VectorTable(f)', NEW d \in VectorTable(f)'
            PROVE  c = d
        <3>1. /\ Holds(f, c)' /\ c.kind = "vectors"
              /\ Holds(f, d)' /\ d.kind = "vectors"
          BY <2>1 DEF VectorTable, Holds
        <3>2. /\ c \in VectorTable(f) \/ (f = path /\ c = commit)
              /\ d \in VectorTable(f) \/ (f = path /\ d = commit)
          BY <1>2, <3>1, TableHolds
        <3> QED BY <3>1, <3>2 DEF Calm, OneTable
      <2> QED BY <2>1 DEF OneTable
    <1>8. Passed(p)'
      <2>1. Holds(path, commit)' /\ \A c : Holds(path, c) => Holds(path, c)'
        BY <1>1, <1>2, <1>3
      <2>2. ~Older(path)'
        BY <1>1, <1>3, <1>5 DEF NoneOlder
      <2>3. ASSUME NEW i \in 1..Statements,
                   Created(path, i) \/ commit = [kind |-> "create", of |-> i]
            PROVE  Created(path, i)'
        BY <2>1, <2>3 DEF Created
      <2>4. Holds(path, Versioned) \/ commit = Versioned => Holds(path, Versioned)'
        BY <2>1
      <2>5. \A c : c \in VectorTable(path)' <=> Holds(path, c)' /\ c.kind = "vectors"
        BY DEF VectorTable, Holds
      <2>6. PICK own : own = [kind |-> "vectors", of |-> Width[p]]
        OBVIOUS
      <2>7. own \in VectorTable(path) \/ commit = own => own \in VectorTable(path)'
        BY <2>1, <2>5, <2>6, TableHolds
      <2> QED BY <2>2, <2>3, <2>4, <2>6, <2>7 DEF Passed
    <1>9. OneFile /\ wal \in {None, path}
      BY DEF Calm, OneFile
    <1>10. conn'[p] = path /\ \A q \in Processes : conn'[q] = conn[q]
      BY <1>1
    <1> QED BY <1>1, <1>3, <1>4, <1>5, <1>6, <1>7, <1>8, <1>9, <1>10, CalmFrame

LEMMA CalmUnchanged ==
    ASSUME Calm, UNCHANGED <<log, path, wal, pc, conn, at, vector, reset>>
    PROVE  Calm' /\ Grows
    <1>1. OTypeOK' /\ OneFile'
      BY DEF Calm, OTypeOK, OneFile
    <1>2. Grows /\ VersionedWhole' /\ OneTable'
      BY DEF Calm, Grows, VersionedWhole, OneTable, VectorTable, Holds, Created
    <1>3. \A p \in Processes : Passed(p)'
      BY DEF Calm, Passed, VectorTable, Holds, Created, Older
    <1> QED BY <1>1, <1>2, <1>3 DEF Calm

LEMMA OpenedPath ==
    ASSUME Calm, NEW p \in Processes, pc[p] \in Opened
    PROVE  conn[p] = path /\ path \in Files /\ ~Older(path) /\ path # None
    BY OpeningAssumption DEF Calm, OneFile, Passed

LEMMA ConnectStep ==
    ASSUME Calm, NEW p \in Processes, Connect(p)
    PROVE  Calm' /\ Grows
    <1>1. PICK f \in (IF path = None THEN Fresh ELSE {path}) :
            /\ path' = f
            /\ IF Older(f)
               THEN /\ Step(p, "refused")
                    /\ UNCHANGED <<conn, log, kept, wal>>
               ELSE /\ Step(p, "checked")
                    /\ conn' = [conn EXCEPT ![p] = f]
                    /\ log'  = IF wal \notin {None, f}
                               THEN [log EXCEPT ![wal] = SubSeq(@, 1, kept[wal])]
                               ELSE log
                    /\ wal'  = f
                    /\ kept' = kept
      BY DEF Connect
    <1>2. /\ UNCHANGED <<at, vector, reset>> /\ pc[p] = "closed" /\ reset = "no"
          /\ None \notin Files /\ wal \in {None, path}
      BY OpeningAssumption DEF Connect, Calm, OneFile
    <1>3. f \in Files /\ log' = log
      BY <1>1, <1>2 DEF Fresh, Calm, OTypeOK
    <1>4. OTypeOK'
      BY <1>1, <1>2, <1>3 DEF Calm, OTypeOK, Step, Opened
    <1>5. conn[p] = None
      BY <1>2 DEF Calm, OneFile, Opened
    <1>6. CASE path # None
      <2>1. f = path /\ path' = path /\ path \in Files
        BY <1>1, <1>3, <1>6
      <2>2. /\ \A q \in Processes \ {p} : pc'[q] = pc[q] /\ conn'[q] = conn[q]
            /\ wal' \in {None, path}
            /\ \/ pc'[p] = "refused" /\ conn'[p] = None
               \/ pc'[p] = "checked" /\ conn'[p] = path /\ ~Older(path)
        BY <1>1, <1>2, <1>5, <2>1 DEF Step, Calm, OTypeOK
      <2>3. Older(path)' <=> Older(path)
        BY <1>3, <2>1 DEF Older, Holds
      <2>4. Passed(p)'
        BY <2>1, <2>2, <2>3 DEF Passed, Opened
      <2> QED BY <1>2, <1>3, <1>4, <2>1, <2>2, <2>4, CalmStill DEF Opened
    <1>7. CASE path = None
      <2>1. log[f] = <<>>
        BY <1>1, <1>7 DEF Fresh
      <2>2. \A c : ~Holds(f, c)
        BY <2>1 DEF Holds
      <2>3. \A q \in Processes : pc[q] \notin Opened /\ conn[q] = None
        BY <1>2, <1>7 DEF Calm, OneFile
      <2>4. ~Older(f)
        BY <2>2 DEF Older
      <2>5. /\ path' = f /\ wal' = f
            /\ pc' = [pc EXCEPT ![p] = "checked"] /\ conn' = [conn EXCEPT ![p] = f]
        BY <1>1, <2>4 DEF Step
      <2>6. ~Older(f)'
        BY <1>3, <2>4 DEF Older, Holds
      <2>7. \A q \in Processes \ {p} : pc'[q] \notin Opened /\ conn'[q] = None
        BY <2>3, <2>5 DEF Calm, OTypeOK
      <2>8. pc'[p] = "checked" /\ conn'[p] = f
        BY <2>5 DEF Calm, OTypeOK
      <2>9. OneFile'
        BY <1>2, <1>3, <2>5, <2>7, <2>8 DEF OneFile, Opened
      <2>10. VersionedWhole' /\ OneTable'
        BY <1>3 DEF Calm, VersionedWhole, OneTable, VectorTable, Holds, Created
      <2>11. \A q \in Processes : Passed(q)'
        BY <2>5, <2>6, <2>7, <2>8 DEF Passed, Opened
      <2>12. Grows
        BY <1>3, <1>7 DEF Grows, Holds
      <2> QED BY <1>4, <2>9, <2>10, <2>11, <2>12 DEF Calm
    <1> QED BY <1>6, <1>7

LEMMA CalmStep ==
    ASSUME Calm, Next, resets' = resets, resets \in Nat
    PROVE  Calm' /\ Grows
    <1>0. reset = "no" /\ wal \in {None, path}
      BY DEF Calm, OneFile
    <1>1. ASSUME NEW p \in Processes, EnsureSchema(p)
          PROVE  Calm' /\ Grows
      <2>1. /\ pc[p] = "switching"
            /\ UNCHANGED <<log, path, wal, conn, vector, reset>>
            /\ \/ /\ pc' = [pc EXCEPT ![p] = "creating"] /\ at' = [at EXCEPT ![p] = 1]
               \/ /\ pc' = [pc EXCEPT ![p] = "current"] /\ at' = at
                  /\ ~Unversioned(conn[p])
        BY <1>1 DEF EnsureSchema, Step, disk
      <2>2. conn[p] = path /\ path \in Files /\ ~Older(path)
        BY <2>1, OpenedPath DEF Opened
      <2>3. OTypeOK'
        <3>1. pc' \in [Processes -> Opened \cup {"closed", "refused", "failed"}]
          BY <2>1 DEF Calm, OTypeOK, Opened
        <3> QED BY <2>1, <3>1 DEF Calm, OTypeOK
      <2>4. ~Older(path)' /\ (~Unversioned(path) => Holds(path, Versioned)')
        BY <2>1, <2>2 DEF Unversioned, Older, Holds
      <2>5. \A i \in 1..Statements : ~(i < 1)
        BY OpeningAssumption
      <2>6. /\ \A q \in Processes \ {p} : pc'[q] = pc[q] /\ at'[q] = at[q]
            /\ \/ pc'[p] = "creating" /\ at'[p] = 1
               \/ pc'[p] = "current" /\ ~Unversioned(path)
        BY <2>1, <2>2 DEF Calm, OTypeOK
      <2>7. Passed(p)'
        BY <2>4, <2>5, <2>6 DEF Passed, Opened
      <2> QED BY <1>0, <2>1, <2>2, <2>3, <2>6, <2>7, CalmStill DEF Opened
    <1>2. ASSUME NEW p \in Processes,
                 JournalLocked(p) \/ (Create(p) /\ Created(conn[p], at[p]))
          PROVE  Calm' /\ Grows
      <2>1. /\ UNCHANGED <<log, path, wal, vector, reset>>
            /\ pc' = [pc EXCEPT ![p] = "failed"]
            /\ conn' = [conn EXCEPT ![p] = None]
            /\ at' = at \/ at' = [at EXCEPT ![p] = 0]
        BY <1>2 DEF JournalLocked, Create, Step, disk
      <2>2. OTypeOK'
        BY <2>1 DEF Calm, OTypeOK, Opened
      <2>3. /\ \A q \in Processes \ {p} : pc'[q] = pc[q] /\ conn'[q] = conn[q] /\ at'[q] = at[q]
            /\ pc'[p] = "failed" /\ conn'[p] = None
        BY <2>1 DEF Calm, OTypeOK
      <2>4. Passed(p)'
        BY <2>3 DEF Passed, Opened
      <2> QED BY <1>0, <2>1, <2>2, <2>3, <2>4, CalmStill DEF Opened
    <1>3. ASSUME NEW p \in Processes, Create(p), ~Created(conn[p], at[p])
          PROVE  Calm' /\ Grows
      <2>1. PICK n : n = at[p]
        OBVIOUS
      <2>2. PICK commit : commit = [kind |-> "create", of |-> n]
        OBVIOUS
      <2>3. /\ pc[p] = "creating" /\ n <= Statements
            /\ Committed(p, commit)
            /\ at' = [at EXCEPT ![p] = n + 1]
            /\ UNCHANGED <<pc, conn, vector, reset>>
        BY <1>3, <2>1, <2>2 DEF Create
      <2>4. conn[p] = path /\ path \in Files
        BY <2>3, OpenedPath DEF Opened
      <2>5. n \in 1..Statements /\ \A i \in 1..Statements : i < n => Created(path, i)
        <3>1. Passed(p) /\ at[p] \in Nat
          BY DEF Calm, OTypeOK
        <3>2. n \in Nat \ {0} /\ \A i \in 1..Statements : i < n => Created(path, i)
          BY <2>1, <2>3, <3>1 DEF Passed
        <3> QED BY <2>3, <3>2, OpeningAssumption
      <2>6. commit \in Commits /\ commit.kind = "create"
        BY <2>2, <2>5, CommitTypes
      <2>7. log' \in [Files -> Seq(Commits)] /\ UNCHANGED path
        BY <2>3, <2>4, <2>6, Committing DEF Calm, Committed
      <2>8. OTypeOK'
        BY <2>3, <2>5, <2>7 DEF Calm, OTypeOK
      <2>9. at'[p] = n + 1 /\ \A q \in Processes \ {p} : at'[q] = at[q]
        BY <2>3 DEF Calm, OTypeOK
      <2>10. \A i \in 1..Statements : i < n + 1 =>
               Created(path, i) \/ commit = [kind |-> "create", of |-> i]
        BY <2>2, <2>5
      <2>11. commit # Versioned /\ n + 1 # 0
        BY <2>5, <2>6 DEF Versioned
      <2> QED BY <1>0, <2>3, <2>6, <2>8, <2>9, <2>10, <2>11, CalmCommit DEF Opened
    <1>4. ASSUME NEW p \in Processes, SetVersion(p)
          PROVE  Calm' /\ Grows
      <2>1. /\ pc[p] = "creating" /\ at[p] > Statements
            /\ Committed(p, Versioned)
            /\ pc' = [pc EXCEPT ![p] = "current"] /\ at' = [at EXCEPT ![p] = 0]
            /\ UNCHANGED <<conn, vector, reset>>
        BY <1>4 DEF SetVersion, SchemaDone, Step
      <2>2. conn[p] = path /\ path \in Files
        BY <2>1, OpenedPath DEF Opened
      <2>3. \A i \in 1..Statements : Created(path, i)
        <3>1. Passed(p) /\ at[p] \in Nat
          BY DEF Calm, OTypeOK
        <3>2. \A i \in 1..Statements : i < at[p] => Created(path, i)
          BY <2>1, <3>1 DEF Passed
        <3>3. \A i \in 1..Statements : i < at[p]
          BY <2>1, <3>1, OpeningAssumption
        <3> QED BY <3>2, <3>3
      <2>4. log' \in [Files -> Seq(Commits)] /\ UNCHANGED path
        BY <2>1, <2>2, CommitTypes, Committing DEF Calm, Committed
      <2>5. OTypeOK'
        BY <2>1, <2>4 DEF Calm, OTypeOK, Opened
      <2>6. Versioned \in Commits /\ Versioned.kind = "version"
        BY CommitTypes DEF Versioned
      <2>7. pc'[p] = "current" /\ \A q \in Processes \ {p} : pc'[q] = pc[q] /\ at'[q] = at[q]
        BY <2>1 DEF Calm, OTypeOK
      <2> QED BY <1>0, <2>1, <2>3, <2>5, <2>6, <2>7, CalmCommit DEF Opened
    <1>5. ASSUME NEW p \in Processes, WriteMeta(p)
          PROVE  Calm' /\ Grows
      <2>1. /\ pc[p] = "current"
            /\ UNCHANGED disk \/ Committed(p, Meta)
            /\ pc' = [pc EXCEPT ![p] = "described"]
            /\ UNCHANGED <<conn, at, vector, reset>>
        BY <1>5 DEF WriteMeta, Step
      <2>2. conn[p] = path /\ path \in Files /\ ~Older(path) /\ Holds(path, Versioned)
        BY <2>1, OpenedPath DEF Opened, Calm, Passed
      <2>3. pc'[p] = "described" /\ \A q \in Processes \ {p} : pc'[q] = pc[q]
        BY <2>1 DEF Calm, OTypeOK
      <2>4. CASE UNCHANGED disk
        <3>1. UNCHANGED <<log, path, wal>>
          BY <2>4 DEF disk
        <3>2. OTypeOK'
          BY <2>1, <3>1 DEF Calm, OTypeOK, Opened
        <3>3. ~Older(path)' /\ Holds(path, Versioned)'
          BY <2>2, <3>1 DEF Older, Holds
        <3>4. Passed(p)'
          BY <2>3, <3>3 DEF Passed, Opened
        <3> QED BY <1>0, <2>1, <2>2, <2>3, <3>1, <3>2, <3>4, CalmStill DEF Opened
      <2>5. CASE Committed(p, Meta)
        <3>1. log' \in [Files -> Seq(Commits)] /\ UNCHANGED path
          BY <2>2, <2>5, CommitTypes, Committing DEF Calm, Committed
        <3>2. OTypeOK'
          BY <2>1, <3>1 DEF Calm, OTypeOK, Opened
        <3>3. Meta \in Commits /\ Meta.kind = "meta" /\ Meta # Versioned
          BY CommitTypes DEF Meta, Versioned
        <3> QED BY <1>0, <2>1, <2>2, <2>3, <2>5, <3>2, <3>3, CalmCommit DEF Opened
      <2> QED BY <2>1, <2>4, <2>5
    <1>6. ASSUME NEW p \in Processes, EnsureTable(p)
          PROVE  Calm' /\ Grows
      <2>1. PICK own : own = [kind |-> "vectors", of |-> Width[p]]
        OBVIOUS
      <2>2. /\ pc[p] = "described"
            /\ pc' = [pc EXCEPT ![p] = "serving"]
            /\ UNCHANGED <<conn, at, reset>>
        BY <1>6 DEF EnsureTable, Step
      <2>3. conn[p] = path /\ path \in Files /\ ~Older(path) /\ Holds(path, Versioned)
        BY <2>2, OpenedPath DEF Opened, Calm, Passed
      <2>4. pc'[p] = "serving" /\ \A q \in Processes \ {p} : pc'[q] = pc[q]
        BY <2>2 DEF Calm, OTypeOK
      <2>5. CASE Width[p] # None /\ VectorTable(conn[p]) = {}
        <3>1. Committed(p, own) /\ vector' = [vector EXCEPT ![p] = TRUE]
          BY <1>6, <2>1, <2>5 DEF EnsureTable
        <3>2. own \in Commits /\ own.kind = "vectors" /\ own # Versioned
          BY <2>1, <2>5, CommitTypes, OpeningAssumption DEF Versioned
        <3>3. log' \in [Files -> Seq(Commits)] /\ UNCHANGED path
          BY <2>3, <3>1, <3>2, Committing DEF Calm, Committed
        <3>4. OTypeOK'
          BY <2>2, <3>1, <3>3 DEF Calm, OTypeOK, Opened
        <3>5. \A q \in Processes \ {p} : vector'[q] = vector[q]
          BY <3>1 DEF Calm, OTypeOK
        <3>6. VectorTable(path) = {}
          BY <2>3, <2>5
        <3> QED BY <1>0, <2>1, <2>2, <2>3, <2>4, <3>1, <3>2, <3>4, <3>5, <3>6, CalmCommit DEF Opened
      <2>6. CASE ~(Width[p] # None /\ VectorTable(conn[p]) = {})
        <3>1. /\ vector' = [vector EXCEPT ![p] = own \in VectorTable(conn[p])]
              /\ UNCHANGED <<log, path, wal>>
          BY <1>6, <2>1, <2>6 DEF EnsureTable, disk
        <3>2. OTypeOK'
          BY <2>2, <3>1 DEF Calm, OTypeOK, Opened
        <3>3. vector'[p] => own \in VectorTable(path)
          BY <2>3, <3>1 DEF Calm, OTypeOK
        <3>4. /\ ~Older(path)' /\ Holds(path, Versioned)'
              /\ VectorTable(path)' = VectorTable(path)
          BY <2>3, <3>1 DEF Older, Holds, VectorTable
        <3>5. \A q \in Processes \ {p} : vector'[q] = vector[q]
          BY <3>1 DEF Calm, OTypeOK
        <3>6. Passed(p)'
          BY <2>1, <2>4, <3>3, <3>4 DEF Passed, Opened
        <3> QED BY <1>0, <2>2, <2>3, <2>4, <3>1, <3>2, <3>5, <3>6, CalmStill DEF Opened
      <2> QED BY <2>5, <2>6
    <1>7. ASSUME NEW p \in Processes, Restart(p) \/ Close(p) \/ Crash(p)
          PROVE  Calm' /\ Grows
      <2>1. UNCHANGED <<log, path, reset>> /\ wal' \in {None, path}
        BY <1>0, <1>7 DEF Restart, Close, Crash, disk
      <2>2. /\ \A q \in Processes \ {p} : /\ pc'[q] = pc[q] /\ conn'[q] = conn[q]
                                          /\ at'[q] = at[q] /\ vector'[q] = vector[q]
            /\ pc'[p] = "closed" /\ conn'[p] = None
        BY <1>7 DEF Restart, Close, Crash, Step, Calm, OTypeOK, OneFile, Opened
      <2>3. OTypeOK'
        <3>1. CASE Restart(p)
          BY <2>1, <3>1 DEF Restart, Step, Calm, OTypeOK
        <3>2. CASE Close(p)
          BY <2>1, <3>2 DEF Close, Step, Calm, OTypeOK
        <3>3. CASE Crash(p)
          BY <2>1, <3>3 DEF Crash, Step, Calm, OTypeOK
        <3> QED BY <1>7, <3>1, <3>2, <3>3
      <2>4. Passed(p)'
        BY <2>2 DEF Passed, Opened
      <2> QED BY <1>0, <2>1, <2>2, <2>3, <2>4, CalmStill DEF Opened
    <1>8. ASSUME NEW p \in Processes, NEW content \in Contents, Write(p, content)
          PROVE  Calm' /\ Grows
      <2>1. PICK new : new = [kind |-> "content", of |-> content]
        OBVIOUS
      <2>2. /\ pc[p] = "serving" /\ Committed(p, new)
            /\ UNCHANGED <<pc, conn, at, vector, reset>>
        BY <1>8, <2>1 DEF Write, opening
      <2>3. conn[p] = path /\ path \in Files /\ Passed(p)
        BY <2>2, OpenedPath DEF Opened, Calm
      <2>4. new \in Commits /\ new.kind = "content" /\ new # Versioned
        BY <2>1, CommitTypes DEF Versioned
      <2>5. log' \in [Files -> Seq(Commits)] /\ UNCHANGED path
        BY <2>2, <2>3, <2>4, Committing DEF Calm, Committed
      <2>6. OTypeOK'
        BY <2>2, <2>5 DEF Calm, OTypeOK
      <2> QED BY <1>0, <2>2, <2>3, <2>4, <2>6, CalmCommit DEF Opened, Passed
    <1>9. ASSUME NEW p \in Processes, Checkpoint(p)
          PROVE  Calm' /\ Grows
      <2>1. UNCHANGED <<log, path, wal, pc, conn, at, vector, reset>>
        BY <1>9 DEF Checkpoint, opening
      <2> QED BY <2>1, CalmUnchanged
    <1>10. ~MoveFile /\ ~MoveWal
      BY <1>0 DEF MoveFile, MoveWal
    <1>12. ASSUME NEW p \in Processes, SwitchJournal(p)
           PROVE  Calm' /\ Grows
      <2>1. /\ pc[p] = "checked" /\ pc' = [pc EXCEPT ![p] = "switching"]
            /\ UNCHANGED <<log, path, wal, conn, at, vector, reset>>
        BY <1>12 DEF SwitchJournal, Step, disk
      <2>2. conn[p] = path /\ path \in Files /\ ~Older(path)
        BY <2>1, OpenedPath DEF Opened
      <2>3. OTypeOK'
        BY <2>1 DEF Calm, OTypeOK, Opened
      <2>4. ~Older(path)'
        BY <2>1, <2>2 DEF Older, Holds
      <2>5. pc'[p] = "switching" /\ \A q \in Processes \ {p} : pc'[q] = pc[q]
        BY <2>1 DEF Calm, OTypeOK
      <2>6. Passed(p)'
        BY <2>4, <2>5 DEF Passed, Opened
      <2> QED BY <1>0, <2>1, <2>2, <2>3, <2>5, <2>6, CalmStill DEF Opened
    <1>11. ASSUME NEW p \in Processes, Connect(p)
           PROVE  Calm' /\ Grows
      BY <1>11, ConnectStep
    <1> QED
      BY <1>1, <1>2, <1>3, <1>4, <1>5, <1>6, <1>7, <1>8, <1>9, <1>10, <1>11, <1>12
      DEF Next, OpenStep

\* A reset is counted for ever.
LEMMA ResetsCounted ==
    ASSUME resets \in Nat, [Next]_vars
    PROVE  resets' \in Nat /\ (resets' = 0 => resets' = resets)
    <1>1. ASSUME NEW p \in Processes, NEW content,
                 \/ OpenStep(p) \/ Restart(p) \/ Checkpoint(p) \/ Close(p) \/ Crash(p)
                 \/ Write(p, content) \/ MoveWal \/ UNCHANGED vars
          PROVE  resets' = resets
      BY <1>1
      DEF OpenStep, Connect, SwitchJournal, JournalLocked, EnsureSchema, Create, SetVersion,
          WriteMeta, EnsureTable, Restart, Checkpoint, Close, Crash, Write, MoveWal, vars
    <1>2. CASE MoveFile
      BY <1>2 DEF MoveFile
    <1>3. CASE MoveWal \/ UNCHANGED vars
      BY <1>3 DEF MoveWal, vars
    <1> QED BY <1>1, <1>2, <1>3 DEF Next

LEMMA CalmInit ==
    ASSUME FoundSound, Init
    PROVE  Calm
    <1>1. /\ log = [f \in Files |-> IF f = 1 THEN Found ELSE <<>>]
          /\ path = IF Found = <<>> THEN None ELSE 1
          /\ 1 \in Files
      BY OpeningAssumption DEF Init, Files
    <1>2. OTypeOK
      BY <1>1, OpeningAssumption DEF Init, OTypeOK, Opened
    <1>3. OneFile
      BY DEF Init, OneFile, Opened
    <1>4. ASSUME NEW f \in Files, NEW c
          PROVE  Holds(f, c) <=> f = 1 /\ c \in {Found[i] : i \in DOMAIN Found}
      BY <1>1 DEF Holds
    <1>5. VersionedWhole
      <2>1. ASSUME NEW f \in Files, Holds(f, Versioned), NEW i \in 1..Statements
            PROVE  Created(f, i)
        BY <1>4, <2>1 DEF FoundSound, Created
      <2> QED BY <2>1 DEF VersionedWhole
    <1>6. OneTable
      BY <1>4, TableHolds DEF OneTable, FoundSound
    <1>7. \A p \in Processes : Passed(p)
      BY DEF Init, Passed, Opened
    <1> QED BY <1>2, <1>3, <1>5, <1>6, <1>7 DEF Calm

LEMMA OpenInvStep ==
    ASSUME OpenInv, [Next]_vars
    PROVE  OpenInv' /\ (resets' = 0 => Grows)
    <1>1. resets' \in Nat /\ (resets' = 0 => resets' = resets)
      BY ResetsCounted DEF OpenInv
    <1>2. ASSUME resets' = 0
          PROVE  Calm' /\ Grows
      <2>1. CASE Next
        BY <1>1, <1>2, <2>1, CalmStep DEF OpenInv
      <2>2. CASE UNCHANGED vars
        BY <1>1, <1>2, <2>2, CalmUnchanged DEF OpenInv, vars, disk, opening
      <2> QED BY <2>1, <2>2
    <1> QED BY <1>1, <1>2 DEF OpenInv

LEMMA WholeIsServed ==
    ASSUME Calm
    PROVE  ServedIsWhole
    <1> SUFFICES ASSUME NEW p \in Processes, pc[p] = "serving"
                 PROVE  /\ \A i \in 1..Statements : Created(path, i)
                        /\ Holds(path, Versioned)
                        /\ vector[p] =>
                             VectorTable(path) = {[kind |-> "vectors", of |-> Width[p]]}
      BY DEF ServedIsWhole, Calm, OneFile, Opened
    <1>1. path \in Files /\ Passed(p)
      BY DEF Calm, OneFile, Opened
    <1>2. Holds(path, Versioned) /\ \A i \in 1..Statements : Created(path, i)
      BY <1>1 DEF Calm, VersionedWhole, Passed
    <1>3. vector[p] => VectorTable(path) = {[kind |-> "vectors", of |-> Width[p]]}
      BY <1>1 DEF Calm, OneTable, Passed
    <1> QED BY <1>2, <1>3

\* As long as nobody has reset the store, whoever serves it has the whole schema
\* before it and uses note_vec only at its own width, in any order of any number
\* of openings, failures and crashes.
THEOREM WholeStoresAreServed == FoundSound => (Spec => [](resets = 0 => ServedIsWhole))
    <1> SUFFICES ASSUME FoundSound
                 PROVE  Spec => [](resets = 0 => ServedIsWhole)
      OBVIOUS
    <1>1. Init => OpenInv
      BY CalmInit DEF OpenInv, Init
    <1>2. OpenInv /\ [Next]_vars => OpenInv'
      BY OpenInvStep
    <1>3. OpenInv => (resets = 0 => ServedIsWhole)
      BY WholeIsServed DEF OpenInv
    <1> QED BY <1>1, <1>2, <1>3, PTL DEF Spec

--------------------------------------------------------------------------------
(* WordDistance: its table exists, and what its last cell says. *)

\* Word i of a is word j of b, and what taking the one for the other costs.
Same(a, b, i, j) == a[i] = b[j]
Cost(a, b, i, j) == IF Same(a, b, i, j) THEN 0 ELSE 1

Cell(cell, i, j) == cell[<<i, j>>]

\* A cell of word_distance's table from the ones before it.
Entry(a, b, cell, i, j) ==
    IF i = 0 THEN j
    ELSE IF j = 0 THEN i
    ELSE Least({Cell(cell, i - 1, j) + 1, Cell(cell, i, j - 1) + 1,
                Cell(cell, i - 1, j - 1) + Cost(a, b, i, j)})

\* The cells whose row and column add up to less than s, filled in.
Below(a, b, s) == {ij \in (0..Len(a)) \X (0..Len(b)) : ij[1] + ij[2] < s}

Filled(a, b, cell, s) ==
    cell = [ij \in Below(a, b, s) |-> Entry(a, b, cell, ij[1], ij[2])]

Table(a, b, cell) ==
    cell = [ij \in (0..Len(a)) \X (0..Len(b)) |-> Entry(a, b, cell, ij[1], ij[2])]

LEMMA LeastNumber ==
    ASSUME NEW S \in SUBSET Nat, S # {}
    PROVE  \E m \in S : \A k \in S : m <= k
    <1> DEFINE Less == OpToRel(<, Nat)
    <1>1. IsWellFoundedOn(Less, Nat)
      BY NatLessThanWellFounded
    <1>2. PICK m \in S : \A k \in S : ~(<<k, m>> \in Less)
      <2> HIDE DEF Less
      <2> QED BY <1>1, WFMin
    <1>3. \A k \in S : ~(k < m)
      BY <1>2 DEF OpToRel
    <1>4. \A k \in S : k \in Nat /\ m \in Nat
      OBVIOUS
    <1> QED BY <1>3, <1>4

\* A least pair, by the sum of its members.
LEMMA LeastPair ==
    ASSUME NEW S \in SUBSET (Nat \X Nat), S # {}
    PROVE  \E i, j \in Nat : <<i, j>> \in S /\ \A k, l \in Nat :
             k + l < i + j => <<k, l>> \notin S
    <1> DEFINE Sums == {ij[1] + ij[2] : ij \in S}
    <1>1. Sums \subseteq Nat /\ Sums # {}
      OBVIOUS
    <1>2. PICK m \in Sums : \A k \in Sums : m <= k
      <2> HIDE DEF Sums
      <2> QED BY <1>1, LeastNumber
    <1>3. PICK ij \in S : m = ij[1] + ij[2]
      OBVIOUS
    <1>4. PICK i \in Nat, j \in Nat : ij = <<i, j>>
      BY <1>3
    <1>5. ASSUME NEW k \in Nat, NEW l \in Nat, k + l < i + j, <<k, l>> \in S
          PROVE  FALSE
      <2>1. k + l \in Sums
        BY <1>5
      <2>2. m = i + j
        BY <1>3, <1>4
      <2> QED BY <1>2, <1>5, <2>1, <2>2
    <1> QED BY <1>3, <1>4, <1>5

\* One more diagonal can always be filled in, so some table is complete.
LEMMA FilledFurther ==
    ASSUME NEW a, NEW b, Len(a) \in Nat, Len(b) \in Nat, NEW s \in Nat,
           NEW old, Filled(a, b, old, s)
    PROVE  \E cell : Filled(a, b, cell, s + 1)
    <1>1. PICK cell : cell = [ij \in Below(a, b, s + 1) |-> Entry(a, b, old, ij[1], ij[2])]
      OBVIOUS
    <1>2. ASSUME NEW i \in 0..Len(a), NEW j \in 0..Len(b), i + j < s
          PROVE  Cell(cell, i, j) = Cell(old, i, j)
      <2>1. <<i, j>> \in Below(a, b, s) /\ <<i, j>> \in Below(a, b, s + 1)
        BY <1>2 DEF Below
      <2> QED BY <1>1, <2>1 DEF Filled, Cell
    <1>3. ASSUME NEW ij \in Below(a, b, s + 1)
          PROVE  Entry(a, b, cell, ij[1], ij[2]) = Entry(a, b, old, ij[1], ij[2])
      <2>1. PICK i \in 0..Len(a), j \in 0..Len(b) : ij = <<i, j>> /\ i + j < s + 1
        BY DEF Below
      <2>2. CASE i = 0 \/ j = 0
        BY <2>1, <2>2 DEF Entry
      <2>3. CASE i # 0 /\ j # 0
        <3>1. /\ i - 1 \in 0..Len(a) /\ j - 1 \in 0..Len(b)
              /\ i - 1 + j < s /\ i + (j - 1) < s /\ i - 1 + (j - 1) < s
          BY <2>1, <2>3
        <3>2. /\ Cell(cell, i - 1, j) = Cell(old, i - 1, j)
              /\ Cell(cell, i, j - 1) = Cell(old, i, j - 1)
              /\ Cell(cell, i - 1, j - 1) = Cell(old, i - 1, j - 1)
          BY <1>2, <3>1
        <3> QED BY <2>1, <2>3, <3>2 DEF Entry
      <2> QED BY <2>2, <2>3
    <1>4. Filled(a, b, cell, s + 1)
      BY <1>1, <1>3 DEF Filled
    <1> QED BY <1>4

LEMMA TableExists ==
    ASSUME NEW a, NEW b, Len(a) \in Nat, Len(b) \in Nat
    PROVE  \E cell : Table(a, b, cell)
    <1> DEFINE Open == {s \in Nat : \A cell : ~Filled(a, b, cell, s)}
    <1>1. Open = {}
      <2> SUFFICES ASSUME Open # {}
                   PROVE  FALSE
        OBVIOUS
      <2>1. PICK m \in Open : \A k \in Open : m <= k
        BY LeastNumber
      <2>2. CASE m = 0
        <3>1. PICK cell : cell = [ij \in Below(a, b, 0) |-> Entry(a, b, <<>>, ij[1], ij[2])]
          OBVIOUS
        <3>2. Below(a, b, 0) = {}
          BY DEF Below
        <3>3. Filled(a, b, cell, 0)
          BY <3>1, <3>2 DEF Filled
        <3> QED BY <2>1, <2>2, <3>3
      <2>3. CASE m # 0
        <3>1. m - 1 \in Nat /\ m - 1 \notin Open /\ (m - 1) + 1 = m
          BY <2>1, <2>3
        <3>2. PICK old : Filled(a, b, old, m - 1)
          BY <3>1
        <3> QED BY <2>1, <3>1, <3>2, FilledFurther
      <2> QED BY <2>2, <2>3
    <1>2. PICK s \in Nat : s = Len(a) + Len(b) + 1
      OBVIOUS
    <1>3. PICK cell : Filled(a, b, cell, s)
      BY <1>1
    <1>4. Below(a, b, s) = (0..Len(a)) \X (0..Len(b))
      BY <1>2 DEF Below
    <1> QED BY <1>3, <1>4 DEF Filled, Table

\* WordDistance is the last cell of a table whose every cell is as it should be.
LEMMA DistanceInTable ==
    ASSUME NEW a, NEW b, Len(a) \in Nat, Len(b) \in Nat
    PROVE  \E cell : Table(a, b, cell) /\ WordDistance(a, b) = Cell(cell, Len(a), Len(b))
    <1>1. PICK cell : cell = CHOOSE c : Table(a, b, c)
      OBVIOUS
    <1>2. Table(a, b, cell)
      BY <1>1, TableExists
    <1>3. WordDistance(a, b) = Cell(cell, Len(a), Len(b))
      BY <1>1 DEF WordDistance, Table, Entry, Cost, Same, Cell
    <1> QED BY <1>2, <1>3

LEMMA LeastOfThree ==
    ASSUME NEW x \in Nat, NEW y \in Nat, NEW z \in Nat
    PROVE  /\ Least({x, y, z}) \in {x, y, z}
           /\ Least({x, y, z}) <= x /\ Least({x, y, z}) <= y /\ Least({x, y, z}) <= z
    <1>1. \E i \in {x, y, z} : \A j \in {x, y, z} : i <= j
      <2>1. CASE x <= y /\ x <= z
        BY <2>1
      <2>2. CASE y <= x /\ y <= z
        BY <2>2
      <2>3. CASE z <= x /\ z <= y
        BY <2>3
      <2> QED BY <2>1, <2>2, <2>3
    <1> QED BY <1>1 DEF Least

LEMMA InTable ==
    ASSUME NEW a, NEW b, Len(a) \in Nat, Len(b) \in Nat, NEW cell, Table(a, b, cell),
           NEW i \in 0..Len(a), NEW j \in 0..Len(b)
    PROVE  /\ i = 0 => Cell(cell, i, j) = j
           /\ j = 0 => Cell(cell, i, j) = i
           /\ i # 0 /\ j # 0 =>
                /\ i - 1 \in 0..Len(a) /\ j - 1 \in 0..Len(b)
                /\ Cell(cell, i, j)
                     = Least({Cell(cell, i - 1, j) + 1, Cell(cell, i, j - 1) + 1,
                              Cell(cell, i - 1, j - 1) + Cost(a, b, i, j)})
    <1>1. Cell(cell, i, j) = Entry(a, b, cell, i, j)
      BY DEF Table, Cell
    <1> QED BY <1>1 DEF Entry

\* Against nothing, every word costs one.
LEMMA Border ==
    ASSUME NEW a, NEW b, Len(a) \in Nat, Len(b) \in Nat, NEW cell, Table(a, b, cell)
    PROVE  /\ \A i \in 0..Len(a) : Cell(cell, i, 0) = i
           /\ \A j \in 0..Len(b) : Cell(cell, 0, j) = j
    <1>1. ASSUME NEW i \in 0..Len(a)
          PROVE  Cell(cell, i, 0) = i
      <2>1. <<i, 0>> \in (0..Len(a)) \X (0..Len(b))
        OBVIOUS
      <2>2. cell[<<i, 0>>] = Entry(a, b, cell, i, 0)
        BY <2>1 DEF Table
      <2> QED BY <2>2 DEF Entry, Cell
    <1>2. ASSUME NEW j \in 0..Len(b)
          PROVE  Cell(cell, 0, j) = j
      <2>1. <<0, j>> \in (0..Len(a)) \X (0..Len(b))
        OBVIOUS
      <2>2. cell[<<0, j>>] = Entry(a, b, cell, 0, j)
        BY <2>1 DEF Table
      <2> QED BY <2>2 DEF Entry, Cell
    <1> QED BY <1>1, <1>2

\* Each fact about all cells is refuted at a cell of least i + j, if it fails.
LEMMA TableNumbers ==
    ASSUME NEW a, NEW b, Len(a) \in Nat, Len(b) \in Nat, NEW cell, Table(a, b, cell)
    PROVE  \A i \in 0..Len(a), j \in 0..Len(b) : Cell(cell, i, j) \in Nat
    <1> DEFINE Bad == {ij \in (0..Len(a)) \X (0..Len(b)) :
                      Cell(cell, ij[1], ij[2]) \notin Nat}
    <1>1. ASSUME Bad # {}
          PROVE  FALSE
      <2>1. Bad \subseteq Nat \X Nat
        OBVIOUS
      <2>2. PICK i \in Nat, j \in Nat : <<i, j>> \in Bad /\ \A k, l \in Nat :
              k + l < i + j => <<k, l>> \notin Bad
        <3> HIDE DEF Bad
        <3> QED BY <1>1, <2>1, LeastPair
      <2>3. i \in 0..Len(a) /\ j \in 0..Len(b) /\ Cell(cell, i, j) \notin Nat
        BY <2>2
      <2>4. i # 0 /\ j # 0
        <3>1. (i = 0 => Cell(cell, i, j) = j) /\ (j = 0 => Cell(cell, i, j) = i)
          BY <2>3, Border
        <3> QED BY <2>3, <3>1
      <2>5. /\ i - 1 \in 0..Len(a) /\ j - 1 \in 0..Len(b)
            /\ (i - 1) + j < i + j /\ i + (j - 1) < i + j /\ (i - 1) + (j - 1) < i + j
            /\ i - 1 \in Nat /\ j - 1 \in Nat
        BY <2>3, <2>4
      <2>6. /\ <<i - 1, j>> \notin Bad /\ <<i, j - 1>> \notin Bad
            /\ <<i - 1, j - 1>> \notin Bad
        BY <2>2, <2>5
      <2>7. /\ Cell(cell, i - 1, j) \in Nat /\ Cell(cell, i, j - 1) \in Nat
            /\ Cell(cell, i - 1, j - 1) \in Nat
        BY <2>3, <2>5, <2>6
      <2>8. PICK x, y, z :
              /\ x = Cell(cell, i - 1, j) + 1 /\ y = Cell(cell, i, j - 1) + 1
              /\ z = Cell(cell, i - 1, j - 1) + Cost(a, b, i, j)
        OBVIOUS
      <2>9. x \in Nat /\ y \in Nat /\ z \in Nat
        BY <2>7, <2>8 DEF Cost
      <2>10. Cell(cell, i, j) = Least({x, y, z})
        BY <2>3, <2>4, <2>8, InTable
      <2>11. Cell(cell, i, j) \in {x, y, z}
        BY <2>9, <2>10, LeastOfThree
      <2> QED BY <2>3, <2>9, <2>11
    <1>2. ASSUME NEW i \in 0..Len(a), NEW j \in 0..Len(b)
          PROVE  Cell(cell, i, j) \in Nat
      <2>1. <<i, j>> \notin Bad
        BY <1>1
      <2> QED BY <2>1
    <1> QED BY <1>2

\* The cell as the least of three numbers.
LEMMA CellOfThree ==
    ASSUME NEW a, NEW b, Len(a) \in Nat, Len(b) \in Nat, NEW cell, Table(a, b, cell),
           NEW i \in 1..Len(a), NEW j \in 1..Len(b)
    PROVE  /\ i - 1 \in 0..Len(a) /\ j - 1 \in 0..Len(b)
           /\ i \in 0..Len(a) /\ j \in 0..Len(b) /\ Cell(cell, i, j) \in Nat
           /\ Cell(cell, i - 1, j) \in Nat /\ Cell(cell, i, j - 1) \in Nat
           /\ Cell(cell, i - 1, j - 1) \in Nat
           /\ Cell(cell, i, j) <= Cell(cell, i - 1, j) + 1
           /\ Cell(cell, i, j) <= Cell(cell, i, j - 1) + 1
           /\ Same(a, b, i, j) => Cell(cell, i, j) <= Cell(cell, i - 1, j - 1)
           /\ ~Same(a, b, i, j) => Cell(cell, i, j) <= Cell(cell, i - 1, j - 1) + 1
           /\ \/ Cell(cell, i, j) = Cell(cell, i - 1, j) + 1
              \/ Cell(cell, i, j) = Cell(cell, i, j - 1) + 1
              \/ Same(a, b, i, j) /\ Cell(cell, i, j) = Cell(cell, i - 1, j - 1)
              \/ ~Same(a, b, i, j) /\ Cell(cell, i, j) = Cell(cell, i - 1, j - 1) + 1
    <1>1. /\ i - 1 \in 0..Len(a) /\ j - 1 \in 0..Len(b)
          /\ i \in 0..Len(a) /\ j \in 0..Len(b) /\ i # 0 /\ j # 0
      OBVIOUS
    <1>2. /\ Cell(cell, i - 1, j) \in Nat /\ Cell(cell, i, j - 1) \in Nat
          /\ Cell(cell, i - 1, j - 1) \in Nat
      BY <1>1, TableNumbers
    <1>3. PICK x, y, z :
            /\ x = Cell(cell, i - 1, j) + 1 /\ y = Cell(cell, i, j - 1) + 1
            /\ z = Cell(cell, i - 1, j - 1) + Cost(a, b, i, j)
      OBVIOUS
    <1>4. Cell(cell, i, j) = Least({x, y, z})
      BY <1>1, <1>3, InTable
    <1>5. \/ Same(a, b, i, j) /\ z = Cell(cell, i - 1, j - 1)
          \/ ~Same(a, b, i, j) /\ z = Cell(cell, i - 1, j - 1) + 1
      BY <1>2, <1>3 DEF Cost
    <1>6. x \in Nat /\ y \in Nat /\ z \in Nat
      BY <1>2, <1>3, <1>5
    <1>7. /\ Cell(cell, i, j) \in {x, y, z}
          /\ Cell(cell, i, j) <= x /\ Cell(cell, i, j) <= y /\ Cell(cell, i, j) <= z
      BY <1>4, <1>6, LeastOfThree
    <1> QED BY <1>1, <1>2, <1>3, <1>5, <1>6, <1>7

Equal(a, b, n) == \A k \in 1..n : Same(a, b, k, k)

LEMMA EqualStep ==
    ASSUME NEW a, NEW b, NEW n \in Nat \ {0}
    PROVE  Equal(a, b, n) <=> Equal(a, b, n - 1) /\ Same(a, b, n, n)
    <1>1. \A k \in Nat : k \in 1..n <=> k \in 1..(n - 1) \/ k = n
      OBVIOUS
    <1> QED BY <1>1 DEF Equal

\* Distance 0 is equality, as far as the table has come.
LEMMA TableZero ==
    ASSUME NEW a, NEW b, Len(a) \in Nat, Len(b) \in Nat, NEW cell, Table(a, b, cell),
           NEW i \in 0..Len(a), NEW j \in 0..Len(b)
    PROVE  Cell(cell, i, j) = 0 <=> i = j /\ Equal(a, b, i)
    <1> DEFINE Zero(x, y) == Cell(cell, x, y) = 0 <=> x = y /\ Equal(a, b, x)
               Bad == {ij \in (0..Len(a)) \X (0..Len(b)) : ~Zero(ij[1], ij[2])}
    <1>1. ASSUME Bad # {}
          PROVE  FALSE
      <2>1. Bad \subseteq Nat \X Nat
        OBVIOUS
      <2>2. PICK x \in Nat, y \in Nat : <<x, y>> \in Bad /\ \A k, l \in Nat :
              k + l < x + y => <<k, l>> \notin Bad
        <3> HIDE DEF Bad
        <3> QED BY <1>1, <2>1, LeastPair
      <2> HIDE DEF Zero
      <2>3. x \in 0..Len(a) /\ y \in 0..Len(b) /\ ~Zero(x, y)
        BY <2>2
      <2>4. CASE x = 0 \/ y = 0
        <3>1. Equal(a, b, 0)
          BY DEF Equal
        <3>2. (x = 0 => Cell(cell, x, y) = y) /\ (y = 0 => Cell(cell, x, y) = x)
          BY <2>3, Border
        <3> QED BY <2>3, <2>4, <3>1, <3>2 DEF Zero
      <2>5. CASE x # 0 /\ y # 0
        <3>1. x \in 1..Len(a) /\ y \in 1..Len(b)
          BY <2>3, <2>5
        <3>2. /\ x - 1 \in 0..Len(a) /\ y - 1 \in 0..Len(b)
              /\ x - 1 \in Nat /\ y - 1 \in Nat /\ (x - 1) + (y - 1) < x + y
          BY <3>1
        <3>3. <<x - 1, y - 1>> \notin Bad
          BY <2>2, <3>2
        <3>4. Zero(x - 1, y - 1)
          BY <3>2, <3>3
        <3>5. Equal(a, b, x) <=> Equal(a, b, x - 1) /\ Same(a, b, x, x)
          BY <3>1, EqualStep
        <3>6. /\ Cell(cell, x, y) \in Nat /\ Cell(cell, x - 1, y) \in Nat
              /\ Cell(cell, x, y - 1) \in Nat /\ Cell(cell, x - 1, y - 1) \in Nat
              /\ Same(a, b, x, y) => Cell(cell, x, y) <= Cell(cell, x - 1, y - 1)
              /\ \/ Cell(cell, x, y) = Cell(cell, x - 1, y) + 1
                 \/ Cell(cell, x, y) = Cell(cell, x, y - 1) + 1
                 \/ Same(a, b, x, y) /\ Cell(cell, x, y) = Cell(cell, x - 1, y - 1)
                 \/ Cell(cell, x, y) = Cell(cell, x - 1, y - 1) + 1
          BY <3>1, CellOfThree
        <3>7. Cell(cell, x, y) = 0 => x = y /\ Equal(a, b, x)
          BY <3>1, <3>4, <3>5, <3>6 DEF Zero
        <3>8. x = y /\ Equal(a, b, x) => Cell(cell, x, y) = 0
          BY <3>1, <3>4, <3>5, <3>6 DEF Zero
        <3> QED BY <2>3, <3>7, <3>8 DEF Zero
      <2> QED BY <2>4, <2>5
    <1>2. <<i, j>> \notin Bad
      BY <1>1
    <1> QED BY <1>2

\* As many words, one of them replaced at most; or one dropped from the second, or
\* from the first.
OneApart(a, b, i, j) ==
    \/ i = j /\ \E k \in 0..i : \A l \in 1..i : l # k => Same(a, b, l, l)
    \/ i = j + 1 /\ \E k \in 1..i :
         Equal(a, b, k - 1) /\ \A l \in (k + 1)..i : Same(a, b, l, l - 1)
    \/ j = i + 1 /\ \E k \in 1..j :
         Equal(a, b, k - 1) /\ \A l \in (k + 1)..j : Same(a, b, l - 1, l)

LEMMA OneApartStep ==
    ASSUME NEW a, NEW b, NEW i \in Nat \ {0}, NEW j \in Nat \ {0}
    PROVE  OneApart(a, b, i, j) <=>
             \/ i - 1 = j /\ Equal(a, b, j)
             \/ i = j - 1 /\ Equal(a, b, i)
             \/ i = j /\ Equal(a, b, i - 1)
             \/ Same(a, b, i, j) /\ OneApart(a, b, i - 1, j - 1)
    <1>1. CASE i = j
      <2>1. OneApart(a, b, i, j) <=>
              \E k \in 0..i : \A l \in 1..i : l # k => Same(a, b, l, l)
        BY <1>1 DEF OneApart
      <2>2. OneApart(a, b, i - 1, j - 1) <=>
              \E k \in 0..(i - 1) : \A l \in 1..(i - 1) : l # k => Same(a, b, l, l)
        BY <1>1 DEF OneApart
      <2>3. ASSUME NEW k \in 0..i, \A l \in 1..i : l # k => Same(a, b, l, l)
            PROVE  \/ Equal(a, b, i - 1)
                   \/ Same(a, b, i, i) /\ OneApart(a, b, i - 1, j - 1)
        <3>1. CASE k = i
          BY <2>3, <3>1 DEF Equal
        <3>2. CASE k # i
          BY <2>2, <2>3, <3>2
        <3> QED BY <3>1, <3>2
      <2>4. ASSUME Equal(a, b, i - 1)
            PROVE  OneApart(a, b, i, j)
        <3>1. i \in 0..i /\ \A l \in 1..i : l # i => Same(a, b, l, l)
          BY <2>4 DEF Equal
        <3> QED BY <2>1, <3>1
      <2>5. ASSUME Same(a, b, i, i), OneApart(a, b, i - 1, j - 1)
            PROVE  OneApart(a, b, i, j)
        <3>1. PICK k \in 0..(i - 1) : \A l \in 1..(i - 1) : l # k => Same(a, b, l, l)
          BY <2>2, <2>5
        <3>2. k \in 0..i /\ \A l \in 1..i : l # k => Same(a, b, l, l)
          BY <2>5, <3>1
        <3> QED BY <2>1, <3>2
      <2> QED BY <1>1, <2>1, <2>3, <2>4, <2>5
    <1>2. CASE i = j + 1
      <2>1. OneApart(a, b, i, j) <=> \E k \in 1..i :
              Equal(a, b, k - 1) /\ \A l \in (k + 1)..i : Same(a, b, l, l - 1)
        BY <1>2 DEF OneApart
      <2>2. OneApart(a, b, i - 1, j - 1) <=> \E k \in 1..(i - 1) :
              Equal(a, b, k - 1) /\ \A l \in (k + 1)..(i - 1) : Same(a, b, l, l - 1)
        BY <1>2 DEF OneApart
      <2>3. ASSUME NEW k \in 1..i, Equal(a, b, k - 1),
                   \A l \in (k + 1)..i : Same(a, b, l, l - 1)
            PROVE  \/ Equal(a, b, j)
                   \/ Same(a, b, i, j) /\ OneApart(a, b, i - 1, j - 1)
        <3>1. CASE k = i
          BY <1>2, <2>3, <3>1
        <3>2. CASE k # i
          <4>1. k \in 1..(i - 1) /\ i \in (k + 1)..i /\ i - 1 = j
            BY <1>2, <3>2
          <4>2. \A l \in (k + 1)..(i - 1) : Same(a, b, l, l - 1)
            BY <2>3
          <4> QED BY <2>2, <2>3, <4>1, <4>2
        <3> QED BY <3>1, <3>2
      <2>4. ASSUME Equal(a, b, j)
            PROVE  OneApart(a, b, i, j)
        <3>1. i \in 1..i /\ i - 1 = j /\ (i + 1)..i = {}
          BY <1>2
        <3> QED BY <2>1, <2>4, <3>1
      <2>5. ASSUME Same(a, b, i, j), OneApart(a, b, i - 1, j - 1)
            PROVE  OneApart(a, b, i, j)
        <3>1. PICK k \in 1..(i - 1) :
                Equal(a, b, k - 1) /\ \A l \in (k + 1)..(i - 1) : Same(a, b, l, l - 1)
          BY <2>2, <2>5
        <3>2. i - 1 = j /\ k \in 1..i
          BY <1>2
        <3>3. \A l \in (k + 1)..i : l \in (k + 1)..(i - 1) \/ l = i
          OBVIOUS
        <3>4. \A l \in (k + 1)..i : Same(a, b, l, l - 1)
          BY <2>5, <3>1, <3>2, <3>3
        <3> QED BY <2>1, <3>1, <3>2, <3>4
      <2> QED BY <1>2, <2>1, <2>3, <2>4, <2>5
    <1>3. CASE j = i + 1
      <2>1. OneApart(a, b, i, j) <=> \E k \in 1..j :
              Equal(a, b, k - 1) /\ \A l \in (k + 1)..j : Same(a, b, l - 1, l)
        BY <1>3 DEF OneApart
      <2>2. OneApart(a, b, i - 1, j - 1) <=> \E k \in 1..(j - 1) :
              Equal(a, b, k - 1) /\ \A l \in (k + 1)..(j - 1) : Same(a, b, l - 1, l)
        BY <1>3 DEF OneApart
      <2>3. ASSUME NEW k \in 1..j, Equal(a, b, k - 1),
                   \A l \in (k + 1)..j : Same(a, b, l - 1, l)
            PROVE  \/ Equal(a, b, i)
                   \/ Same(a, b, i, j) /\ OneApart(a, b, i - 1, j - 1)
        <3>1. CASE k = j
          BY <1>3, <2>3, <3>1
        <3>2. CASE k # j
          <4>1. k \in 1..(j - 1) /\ j \in (k + 1)..j /\ j - 1 = i
            BY <1>3, <3>2
          <4>2. \A l \in (k + 1)..(j - 1) : Same(a, b, l - 1, l)
            BY <2>3
          <4> QED BY <2>2, <2>3, <4>1, <4>2
        <3> QED BY <3>1, <3>2
      <2>4. ASSUME Equal(a, b, i)
            PROVE  OneApart(a, b, i, j)
        <3>1. j \in 1..j /\ j - 1 = i /\ (j + 1)..j = {}
          BY <1>3
        <3> QED BY <2>1, <2>4, <3>1
      <2>5. ASSUME Same(a, b, i, j), OneApart(a, b, i - 1, j - 1)
            PROVE  OneApart(a, b, i, j)
        <3>1. PICK k \in 1..(j - 1) :
                Equal(a, b, k - 1) /\ \A l \in (k + 1)..(j - 1) : Same(a, b, l - 1, l)
          BY <2>2, <2>5
        <3>2. j - 1 = i /\ k \in 1..j
          BY <1>3
        <3>3. \A l \in (k + 1)..j : l \in (k + 1)..(j - 1) \/ l = j
          OBVIOUS
        <3>4. \A l \in (k + 1)..j : Same(a, b, l - 1, l)
          BY <2>5, <3>1, <3>2, <3>3
        <3> QED BY <2>1, <3>1, <3>2, <3>4
      <2> QED BY <1>3, <2>1, <2>3, <2>4, <2>5
    <1>4. CASE i # j /\ i # j + 1 /\ j # i + 1
      BY <1>4 DEF OneApart
    <1> QED BY <1>1, <1>2, <1>3, <1>4

\* Distance 1 is one edit, as far as the table has come.
LEMMA TableOne ==
    ASSUME NEW a, NEW b, Len(a) \in Nat, Len(b) \in Nat, NEW cell, Table(a, b, cell),
           NEW i \in 0..Len(a), NEW j \in 0..Len(b)
    PROVE  Cell(cell, i, j) <= 1 <=> OneApart(a, b, i, j)
    <1> DEFINE One(x, y) == Cell(cell, x, y) <= 1 <=> OneApart(a, b, x, y)
               Bad == {ij \in (0..Len(a)) \X (0..Len(b)) : ~One(ij[1], ij[2])}
    <1>1. ASSUME Bad # {}
          PROVE  FALSE
      <2>1. Bad \subseteq Nat \X Nat
        OBVIOUS
      <2>2. PICK x \in Nat, y \in Nat : <<x, y>> \in Bad /\ \A k, l \in Nat :
              k + l < x + y => <<k, l>> \notin Bad
        <3> HIDE DEF Bad
        <3> QED BY <1>1, <2>1, LeastPair
      <2> HIDE DEF One
      <2>3. x \in 0..Len(a) /\ y \in 0..Len(b) /\ ~One(x, y)
        BY <2>2
      <2>4. CASE x = 0
        <3>1. Cell(cell, x, y) = y
          BY <2>3, <2>4, Border
        <3>2. Equal(a, b, 0)
          BY DEF Equal
        <3>3. OneApart(a, b, x, y) <=> y \in {0, 1}
          BY <2>4, <3>2 DEF OneApart
        <3> QED BY <2>3, <3>1, <3>3 DEF One
      <2>5. CASE y = 0
        <3>1. Cell(cell, x, y) = x
          BY <2>3, <2>5, Border
        <3>2. Equal(a, b, 0)
          BY DEF Equal
        <3>3. OneApart(a, b, x, y) <=> x \in {0, 1}
          <4>1. CASE x = 0
            <5>1. 0 \in 0..x /\ \A l \in 1..x : l # 0 => Same(a, b, l, l)
              BY <4>1
            <5> QED BY <2>5, <4>1, <5>1 DEF OneApart
          <4>2. CASE x = 1
            <5>1. 1 \in 1..x /\ Equal(a, b, 1 - 1) /\ (1 + 1)..x = {}
              BY <3>2, <4>2
            <5>2. x = y + 1
              BY <2>5, <4>2
            <5> QED BY <4>2, <5>1, <5>2 DEF OneApart
          <4>3. CASE x \notin {0, 1}
            BY <2>2, <2>5, <4>3 DEF OneApart
          <4> QED BY <4>1, <4>2, <4>3
        <3> QED BY <2>3, <3>1, <3>3 DEF One
      <2>6. CASE x # 0 /\ y # 0
        <3>1. x \in 1..Len(a) /\ y \in 1..Len(b)
          BY <2>3, <2>6
        <3>2. /\ x - 1 \in 0..Len(a) /\ y - 1 \in 0..Len(b)
              /\ x - 1 \in Nat /\ y - 1 \in Nat /\ (x - 1) + (y - 1) < x + y
              /\ x \in 0..Len(a) /\ y \in 0..Len(b)
          BY <3>1
        <3>3. <<x - 1, y - 1>> \notin Bad
          BY <2>2, <3>2
        <3>4. One(x - 1, y - 1)
          BY <3>2, <3>3
        <3>5. /\ Cell(cell, x - 1, y) = 0 <=> x - 1 = y /\ Equal(a, b, x - 1)
              /\ Cell(cell, x, y - 1) = 0 <=> x = y - 1 /\ Equal(a, b, x)
              /\ Cell(cell, x - 1, y - 1) = 0 <=> x - 1 = y - 1 /\ Equal(a, b, x - 1)
          BY <3>2, TableZero
        <3>6. /\ Cell(cell, x, y) \in Nat /\ Cell(cell, x - 1, y) \in Nat
              /\ Cell(cell, x, y - 1) \in Nat /\ Cell(cell, x - 1, y - 1) \in Nat
              /\ Cell(cell, x, y) <= Cell(cell, x - 1, y) + 1
              /\ Cell(cell, x, y) <= Cell(cell, x, y - 1) + 1
              /\ Same(a, b, x, y) => Cell(cell, x, y) <= Cell(cell, x - 1, y - 1)
              /\ ~Same(a, b, x, y) => Cell(cell, x, y) <= Cell(cell, x - 1, y - 1) + 1
              /\ \/ Cell(cell, x, y) = Cell(cell, x - 1, y) + 1
                 \/ Cell(cell, x, y) = Cell(cell, x, y - 1) + 1
                 \/ Same(a, b, x, y) /\ Cell(cell, x, y) = Cell(cell, x - 1, y - 1)
                 \/ ~Same(a, b, x, y) /\ Cell(cell, x, y) = Cell(cell, x - 1, y - 1) + 1
          BY <3>1, CellOfThree
        <3>7. OneApart(a, b, x, y) <=>
                \/ x - 1 = y /\ Equal(a, b, y)
                \/ x = y - 1 /\ Equal(a, b, x)
                \/ x = y /\ Equal(a, b, x - 1)
                \/ Same(a, b, x, y) /\ OneApart(a, b, x - 1, y - 1)
          <4>1. x \in Nat \ {0} /\ y \in Nat \ {0}
            BY <3>1
          <4> QED BY <4>1, OneApartStep
        <3>8. Cell(cell, x, y) <= 1 <=>
                \/ Cell(cell, x - 1, y) = 0 \/ Cell(cell, x, y - 1) = 0
                \/ Cell(cell, x - 1, y - 1) = 0
                \/ Same(a, b, x, y) /\ Cell(cell, x - 1, y - 1) <= 1
          BY <3>6
        <3>9. x - 1 = y - 1 <=> x = y
          BY <3>1
        <3> QED BY <2>3, <3>4, <3>5, <3>7, <3>8, <3>9 DEF One
      <2> QED BY <2>4, <2>5, <2>6
    <1>2. <<i, j>> \notin Bad
      BY <1>1
    <1> QED BY <1>2

\* No distance is less than the lengths are apart.
LEMMA TableLengths ==
    ASSUME NEW a, NEW b, Len(a) \in Nat, Len(b) \in Nat, NEW cell, Table(a, b, cell),
           NEW i \in 0..Len(a), NEW j \in 0..Len(b)
    PROVE  i <= j + Cell(cell, i, j) /\ j <= i + Cell(cell, i, j)
    <1> DEFINE Far(x, y) == x <= y + Cell(cell, x, y) /\ y <= x + Cell(cell, x, y)
               Bad == {ij \in (0..Len(a)) \X (0..Len(b)) : ~Far(ij[1], ij[2])}
    <1>1. ASSUME Bad # {}
          PROVE  FALSE
      <2>1. Bad \subseteq Nat \X Nat
        OBVIOUS
      <2>2. PICK x \in Nat, y \in Nat : <<x, y>> \in Bad /\ \A k, l \in Nat :
              k + l < x + y => <<k, l>> \notin Bad
        <3> HIDE DEF Bad
        <3> QED BY <1>1, <2>1, LeastPair
      <2> HIDE DEF Far
      <2>3. x \in 0..Len(a) /\ y \in 0..Len(b) /\ ~Far(x, y)
        BY <2>2
      <2>4. CASE x = 0 \/ y = 0
        <3>1. (x = 0 => Cell(cell, x, y) = y) /\ (y = 0 => Cell(cell, x, y) = x)
          BY <2>3, Border
        <3> QED BY <2>3, <2>4, <3>1 DEF Far
      <2>5. CASE x # 0 /\ y # 0
        <3>1. x \in 1..Len(a) /\ y \in 1..Len(b)
          BY <2>3, <2>5
        <3>2. /\ x - 1 \in 0..Len(a) /\ y - 1 \in 0..Len(b)
              /\ x - 1 \in Nat /\ y - 1 \in Nat /\ (x - 1) + (y - 1) < x + y
              /\ (x - 1) + y < x + y /\ x + (y - 1) < x + y
          BY <3>1
        <3>3. /\ <<x - 1, y - 1>> \notin Bad /\ <<x - 1, y>> \notin Bad
              /\ <<x, y - 1>> \notin Bad
          BY <2>2, <3>2
        <3>4. Far(x - 1, y - 1) /\ Far(x - 1, y) /\ Far(x, y - 1)
          BY <2>3, <3>2, <3>3
        <3>5. /\ Cell(cell, x, y) \in Nat /\ Cell(cell, x - 1, y) \in Nat
              /\ Cell(cell, x, y - 1) \in Nat /\ Cell(cell, x - 1, y - 1) \in Nat
              /\ \/ Cell(cell, x, y) = Cell(cell, x - 1, y) + 1
                 \/ Cell(cell, x, y) = Cell(cell, x, y - 1) + 1
                 \/ Cell(cell, x, y) = Cell(cell, x - 1, y - 1)
                 \/ Cell(cell, x, y) = Cell(cell, x - 1, y - 1) + 1
          BY <3>1, CellOfThree
        <3>6. /\ x - 1 <= y + Cell(cell, x - 1, y) /\ y <= (x - 1) + Cell(cell, x - 1, y)
              /\ x <= (y - 1) + Cell(cell, x, y - 1) /\ y - 1 <= x + Cell(cell, x, y - 1)
              /\ x - 1 <= (y - 1) + Cell(cell, x - 1, y - 1)
              /\ y - 1 <= (x - 1) + Cell(cell, x - 1, y - 1)
          BY <3>4 DEF Far
        <3>7. PICK c, u, l, d \in Nat :
                /\ c = Cell(cell, x, y) /\ u = Cell(cell, x - 1, y)
                /\ l = Cell(cell, x, y - 1) /\ d = Cell(cell, x - 1, y - 1)
          BY <3>5
        <3>8. c \in {u + 1, l + 1, d, d + 1}
          BY <3>5, <3>7
        <3>9. /\ x - 1 <= y + u /\ y <= (x - 1) + u /\ x <= (y - 1) + l
              /\ y - 1 <= x + l /\ x - 1 <= (y - 1) + d /\ y - 1 <= (x - 1) + d
          BY <3>6, <3>7
        <3>10. x <= y + c /\ y <= x + c
          BY <3>1, <3>8, <3>9
        <3> QED BY <2>3, <3>7, <3>10 DEF Far
      <2> QED BY <2>4, <2>5
    <1>2. <<i, j>> \notin Bad
      BY <1>1
    <1> QED BY <1>2

\* What word_distance comes to: 0 for the same words, 1 for one edit, and never
\* less than the difference of the lengths, by which nearest passes an id over.
LEMMA DistanceMeans ==
    ASSUME NEW S, NEW a \in Seq(S), NEW b \in Seq(S)
    PROVE  /\ WordDistance(a, b) \in Nat
           /\ WordDistance(a, b) = 0 <=> a = b
           /\ WordDistance(a, b) <= 1 <=> OneApart(a, b, Len(a), Len(b))
           /\ Len(a) <= Len(b) + WordDistance(a, b)
           /\ Len(b) <= Len(a) + WordDistance(a, b)
    <1>1. Len(a) \in Nat /\ Len(b) \in Nat
      OBVIOUS
    <1>2. PICK m, n : m = Len(a) /\ n = Len(b)
      OBVIOUS
    <1>3. PICK cell : Table(a, b, cell) /\ WordDistance(a, b) = Cell(cell, Len(a), Len(b))
      BY <1>1, DistanceInTable
    <1>4. WordDistance(a, b) = Cell(cell, m, n)
      BY <1>2, <1>3
    <1>5. m \in 0..Len(a) /\ n \in 0..Len(b)
      BY <1>1, <1>2
    <1>6. /\ Cell(cell, m, n) \in Nat
          /\ Cell(cell, m, n) = 0 <=> m = n /\ Equal(a, b, m)
          /\ Cell(cell, m, n) <= 1 <=> OneApart(a, b, m, n)
          /\ m <= n + Cell(cell, m, n) /\ n <= m + Cell(cell, m, n)
      BY <1>1, <1>3, <1>5, TableNumbers, TableZero, TableOne, TableLengths
    <1>7. m = n /\ Equal(a, b, m) <=> a = b
      <2>1. ASSUME m = n, Equal(a, b, m)
            PROVE  a = b
        <3>1. \A k \in 1..Len(a) : a[k] = b[k]
          BY <1>2, <2>1 DEF Equal, Same
        <3> QED BY <1>2, <2>1, <3>1, SeqEqual
      <2>2. ASSUME a = b
            PROVE  m = n /\ Equal(a, b, m)
        BY <1>2, <2>2 DEF Equal, Same
      <2> QED BY <2>1, <2>2
    <1> QED BY <1>2, <1>4, <1>6, <1>7

\* The three edits, word by word.
LEMMA Replaced ==
    ASSUME NEW W, NEW b \in Seq(W), NEW i \in 1..Len(b), NEW w \in W
    PROVE  /\ [b EXCEPT ![i] = w] \in Seq(W) /\ Len([b EXCEPT ![i] = w]) = Len(b)
           /\ [b EXCEPT ![i] = w][i] = w
           /\ \A l \in 1..Len(b) : l # i => [b EXCEPT ![i] = w][l] = b[l]
    BY ExceptSeq

LEMMA Joined ==
    ASSUME NEW W, NEW x \in Seq(W), NEW y \in Seq(W), NEW s, s = x \o y
    PROVE  /\ s \in Seq(W) /\ Len(s) = Len(x) + Len(y)
           /\ \A l \in 1..Len(x) : s[l] = x[l]
           /\ \A l \in 1..Len(y) : s[Len(x) + l] = y[l]
    <1>1. PICK m, n \in Nat : m = Len(x) /\ n = Len(y)
      OBVIOUS
    <1>2. /\ s \in Seq(W) /\ Len(s) = m + n
          /\ \A l \in 1..(m + n) : s[l] = IF l <= m THEN x[l] ELSE y[l - m]
      BY <1>1, ConcatProperties
    <1>3. \A l \in 1..m : s[l] = x[l]
      BY <1>2
    <1>4. ASSUME NEW l \in 1..n
          PROVE  s[m + l] = y[l]
      <2>1. m + l \in 1..(m + n) /\ ~(m + l <= m) /\ (m + l) - m = l
        OBVIOUS
      <2> QED BY <1>2, <2>1
    <1> QED BY <1>1, <1>2, <1>3, <1>4

Drop(b, i)   == SubSeq(b, 1, i - 1) \o SubSeq(b, i + 1, Len(b))
Put(b, i, w) == SubSeq(b, 1, i) \o <<w>> \o SubSeq(b, i + 1, Len(b))

LEMMA Dropped ==
    ASSUME NEW W, NEW b \in Seq(W), NEW i \in 1..Len(b)
    PROVE  \E s \in Seq(W) :
             /\ s = Drop(b, i)
             /\ Len(s) = Len(b) - 1
             /\ \A l \in 1..(i - 1) : s[l] = b[l]
             /\ \A l \in i..(Len(b) - 1) : s[l] = b[l + 1]
    <1>1. PICK x : x = SubSeq(b, 1, i - 1)
      OBVIOUS
    <1>2. PICK y : y = SubSeq(b, i + 1, Len(b))
      OBVIOUS
    <1>3. \A l \in 1..Len(b) : b[l] \in W
      OBVIOUS
    <1>4. /\ x \in Seq(W) /\ Len(x) = i - 1
          /\ \A l \in 1..(i - 1) : x[l] = b[l]
      <2>1. i - 1 \in Int /\ 1 \in Int /\ \A l \in 1..(i - 1) : b[l] \in W
        BY <1>3
      <2> QED BY <1>1, <2>1, SubSeqProperties
    <1>5. /\ y \in Seq(W) /\ Len(y) = Len(b) - i
          /\ \A l \in 1..(Len(b) - i) : y[l] = b[i + l]
      <2>1. i + 1 \in Int /\ Len(b) \in Int /\ \A l \in (i + 1)..Len(b) : b[l] \in W
        BY <1>3
      <2>2. /\ y \in Seq(W) /\ Len(y) = (IF i + 1 <= Len(b) THEN Len(b) - (i + 1) + 1 ELSE 0)
            /\ \A l \in 1..(Len(b) - (i + 1) + 1) : y[l] = b[(i + 1) + l - 1]
        BY <1>2, <2>1, SubSeqProperties
      <2> QED BY <2>2
    <1>6. PICK s : s = x \o y
      OBVIOUS
    <1>7. PICK m, n \in Nat : m = i - 1 /\ n = Len(b) - i
      OBVIOUS
    <1>8. /\ s \in Seq(W) /\ Len(s) = m + n
          /\ \A l \in 1..m : s[l] = x[l]
          /\ \A l \in 1..n : s[m + l] = y[l]
      <2>1. /\ s \in Seq(W) /\ Len(s) = Len(x) + Len(y)
            /\ \A l \in 1..Len(x) : s[l] = x[l]
            /\ \A l \in 1..Len(y) : s[Len(x) + l] = y[l]
        <3>1. x \in Seq(W) /\ y \in Seq(W)
          BY <1>4, <1>5
        <3> QED BY <1>6, <3>1, Joined
      <2>2. Len(x) = m /\ Len(y) = n
        BY <1>4, <1>5, <1>7
      <2> QED BY <2>1, <2>2
    <1>9. ASSUME NEW l \in 1..(i - 1)
          PROVE  s[l] = b[l]
      BY <1>4, <1>7, <1>8
    <1>10. ASSUME NEW l \in i..(Len(b) - 1)
           PROVE  s[l] = b[l + 1]
      <2>1. PICK e \in 1..n : l = m + e /\ i + e = l + 1
        <3>1. l - m \in 1..n /\ l = m + (l - m) /\ i + (l - m) = l + 1
          BY <1>7
        <3> QED BY <3>1
      <2> QED BY <1>5, <1>7, <1>8, <2>1
    <1>11. s = Drop(b, i)
      BY <1>1, <1>2, <1>6 DEF Drop
    <1>12. s \in Seq(W) /\ Len(s) = Len(b) - 1
      BY <1>7, <1>8
    <1> QED BY <1>9, <1>10, <1>11, <1>12

Longer(s, b, i, w) ==
    /\ Len(s) = Len(b) + 1
    /\ \A l \in 1..i : s[l] = b[l]
    /\ s[i + 1] = w
    /\ \A l \in (i + 2)..(Len(b) + 1) : s[l] = b[l - 1]

LEMMA Added ==
    ASSUME NEW W, NEW b \in Seq(W), NEW i \in 0..Len(b), NEW w \in W
    PROVE  Put(b, i, w) \in Seq(W) /\ Longer(Put(b, i, w), b, i, w)
    <1>1. PICK x : x = SubSeq(b, 1, i)
      OBVIOUS
    <1>2. PICK y : y = SubSeq(b, i + 1, Len(b))
      OBVIOUS
    <1>3. \A l \in 1..Len(b) : b[l] \in W
      OBVIOUS
    <1>4. /\ x \in Seq(W) /\ Len(x) = i
          /\ \A l \in 1..i : x[l] = b[l]
      <2>1. i \in Int /\ 1 \in Int /\ \A l \in 1..i : b[l] \in W
        BY <1>3
      <2> QED BY <1>1, <2>1, SubSeqProperties
    <1>5. /\ y \in Seq(W) /\ Len(y) = Len(b) - i
          /\ \A l \in 1..(Len(b) - i) : y[l] = b[i + l]
      <2>1. i + 1 \in Int /\ Len(b) \in Int /\ \A l \in (i + 1)..Len(b) : b[l] \in W
        BY <1>3
      <2>2. /\ y \in Seq(W) /\ Len(y) = (IF i + 1 <= Len(b) THEN Len(b) - (i + 1) + 1 ELSE 0)
            /\ \A l \in 1..(Len(b) - (i + 1) + 1) : y[l] = b[(i + 1) + l - 1]
        BY <1>2, <2>1, SubSeqProperties
      <2> QED BY <2>2
    <1>6. PICK u : u = <<w>> /\ u \in Seq(W) /\ Len(u) = 1 /\ u[1] = w
      <2>1. <<w>> \in Seq(W) /\ Len(<<w>>) = 1 /\ <<w>>[1] = w
        OBVIOUS
      <2>2. PICK u : u = <<w>>
        OBVIOUS
      <2>3. u \in Seq(W) /\ Len(u) = 1 /\ u[1] = w
        BY <2>1, <2>2
      <2> QED BY <2>2, <2>3
    <1>7. PICK z : z = x \o u
      OBVIOUS
    <1>8. /\ z \in Seq(W) /\ Len(z) = i + 1
          /\ \A l \in 1..i : z[l] = x[l]
          /\ \A l \in 1..1 : z[i + l] = u[l]
      <2>1. i \in Nat /\ 1 \in Nat /\ Len(x) = i /\ Len(u) = 1
        BY <1>4, <1>6
      <2> QED BY <1>4, <1>6, <1>7, <2>1, Joined
    <1>9. z[i + 1] = w /\ \A l \in 1..i : z[l] = b[l]
      BY <1>4, <1>6, <1>8
    <1>10. PICK s : s = z \o y
      OBVIOUS
    <1>11. PICK m, n \in Nat : m = i + 1 /\ n = Len(b) - i
      <2>1. i + 1 \in Nat /\ Len(b) - i \in Nat
        OBVIOUS
      <2> QED BY <2>1
    <1>12. /\ s \in Seq(W) /\ Len(s) = m + n
           /\ \A l \in 1..m : s[l] = z[l]
           /\ \A l \in 1..n : s[m + l] = y[l]
      <2>1. /\ s \in Seq(W) /\ Len(s) = Len(z) + Len(y)
            /\ \A l \in 1..Len(z) : s[l] = z[l]
            /\ \A l \in 1..Len(y) : s[Len(z) + l] = y[l]
        <3>1. z \in Seq(W) /\ y \in Seq(W)
          BY <1>5, <1>8
        <3> QED BY <1>10, <3>1, Joined
      <2>2. Len(z) = m /\ Len(y) = n
        BY <1>5, <1>8, <1>11
      <2> QED BY <2>1, <2>2
    <1>13. s[i + 1] = w /\ \A l \in 1..i : s[l] = b[l]
      <2>1. i + 1 \in 1..m /\ \A l \in 1..i : l \in 1..m
        BY <1>11
      <2> QED BY <1>9, <1>12, <2>1
    <1>14. ASSUME NEW l \in (i + 2)..(Len(b) + 1)
           PROVE  s[l] = b[l - 1]
      <2>1. PICK e \in 1..n : l = m + e /\ i + e = l - 1
        <3>1. l - m \in 1..n /\ l = m + (l - m) /\ i + (l - m) = l - 1
          BY <1>11
        <3> QED BY <3>1
      <2> QED BY <1>5, <1>11, <1>12, <2>1
    <1>15. s = Put(b, i, w)
      BY <1>1, <1>2, <1>6, <1>7, <1>10 DEF Put
    <1>16. s \in Seq(W) /\ Len(s) = Len(b) + 1
      BY <1>11, <1>12
    <1>17. Longer(s, b, i, w)
      BY <1>13, <1>14, <1>16 DEF Longer
    <1> QED BY <1>15, <1>16, <1>17

Letters == Words \cup {"?"}

\* Edited, with the edits by name.
LEMMA EditedBy ==
    ASSUME NEW a, NEW b \in Seq(Letters)
    PROVE  a \in Edited(b) <=>
             \/ \E i \in 1..Len(b), w \in Letters : a = [b EXCEPT ![i] = w]
             \/ \E i \in 1..Len(b) : a = Drop(b, i)
             \/ \E i \in 0..Len(b), w \in Letters :
                  a = Put(b, i, w)
    <1>1. DOMAIN b = 1..Len(b)
      OBVIOUS
    <1> DEFINE A == {[b EXCEPT ![i] = w] : i \in DOMAIN b, w \in Letters}
               B == {Drop(b, i) : i \in DOMAIN b}
               C == {Put(b, i, w) : i \in 0..Len(b), w \in Letters}
    <1>3. Edited(b) = A \cup B \cup C
      BY DEF Edited, Letters, Drop, Put
    <1>4. a \in A <=> \E i \in 1..Len(b), w \in Letters : a = [b EXCEPT ![i] = w]
      BY <1>1
    <1>5. a \in B <=> \E i \in 1..Len(b) : a = Drop(b, i)
      BY <1>1
    <1>6. a \in C <=> \E i \in 0..Len(b), w \in Letters : a = Put(b, i, w)
      OBVIOUS
    <1> HIDE DEF A, B, C
    <1> QED BY <1>3, <1>4, <1>5, <1>6

\* An edit of b is a sequence one apart from it, and the other way round.
LEMMA EditedIsOneApart ==
    ASSUME NEW a \in Seq(Letters), NEW b \in Seq(Letters), Len(b) # 0
    PROVE  a \in Edited(b) <=> OneApart(a, b, Len(a), Len(b))
    <1>1. PICK m, n \in Nat : m = Len(a) /\ n = Len(b)
      OBVIOUS
    <1>2. (\A l \in 1..m : a[l] \in Letters) /\ \A l \in 1..n : b[l] \in Letters
      BY <1>1
    <1>3. ASSUME NEW i \in 1..n, NEW w \in Letters, a = [b EXCEPT ![i] = w]
          PROVE  OneApart(a, b, m, n)
      <2>1. m = n /\ \A l \in 1..n : l # i => a[l] = b[l]
        BY <1>1, <1>3, Replaced
      <2>2. i \in 0..m /\ \A l \in 1..m : l # i => Same(a, b, l, l)
        BY <2>1 DEF Same
      <2> QED BY <2>1, <2>2 DEF OneApart
    <1>4. ASSUME NEW i \in 1..n, a = Drop(b, i)
          PROVE  OneApart(a, b, m, n)
      <2>1. /\ Len(a) = Len(b) - 1
            /\ \A l \in 1..(i - 1) : a[l] = b[l]
            /\ \A l \in i..(Len(b) - 1) : a[l] = b[l + 1]
        <3>1. i \in 1..Len(b)
          BY <1>1
        <3>2. PICK s \in Seq(Letters) :
                /\ s = Drop(b, i)
                /\ Len(s) = Len(b) - 1
                /\ \A l \in 1..(i - 1) : s[l] = b[l]
                /\ \A l \in i..(Len(b) - 1) : s[l] = b[l + 1]
          BY <3>1, Dropped
        <3>3. a = s
          BY <1>4, <3>2
        <3> QED BY <3>2, <3>3
      <2>2. n = m + 1 /\ Equal(a, b, i - 1)
        BY <1>1, <2>1 DEF Equal, Same
      <2>3. ASSUME NEW l \in (i + 1)..n
            PROVE  Same(a, b, l - 1, l)
        <3>1. l - 1 \in i..(Len(b) - 1) /\ (l - 1) + 1 = l
          BY <1>1
        <3> QED BY <2>1, <3>1 DEF Same
      <2> QED BY <2>2, <2>3 DEF OneApart
    <1>5. ASSUME NEW i \in 0..n, NEW w \in Letters,
                 a = Put(b, i, w)
          PROVE  OneApart(a, b, m, n)
      <2>1. /\ Len(a) = Len(b) + 1
            /\ \A l \in 1..i : a[l] = b[l]
            /\ \A l \in (i + 2)..(Len(b) + 1) : a[l] = b[l - 1]
        <3>1. i \in 0..Len(b)
          BY <1>1
        <3>2. Longer(a, b, i, w)
          BY <1>5, <3>1, Added
        <3> QED BY <3>2 DEF Longer
      <2>2. PICK k \in Nat : k = i + 1
        OBVIOUS
      <2>3. m = n + 1 /\ k \in 1..m /\ Equal(a, b, k - 1)
        BY <1>1, <2>1, <2>2 DEF Equal, Same
      <2>4. \A l \in (k + 1)..m : Same(a, b, l, l - 1)
        BY <1>1, <2>1, <2>2 DEF Same
      <2> QED BY <2>3, <2>4 DEF OneApart
    <1>6. ASSUME m = n, NEW k \in 0..m, \A l \in 1..m : l # k => Same(a, b, l, l)
          PROVE  \E i \in 1..n, w \in Letters : a = [b EXCEPT ![i] = w]
      <2>1. ASSUME NEW i \in 1..n, i = k \/ k = 0
            PROVE  a = [b EXCEPT ![i] = a[i]]
        <3>1. a[i] \in Letters /\ i \in 1..Len(b)
          BY <1>1, <1>2, <1>6
        <3>2. PICK s : s = [b EXCEPT ![i] = a[i]]
          OBVIOUS
        <3>3. /\ s \in Seq(Letters) /\ Len(s) = Len(b) /\ s[i] = a[i]
              /\ \A l \in 1..Len(b) : l # i => s[l] = b[l]
          BY <3>1, <3>2, Replaced
        <3>4. ASSUME NEW l \in 1..Len(a)
              PROVE  a[l] = s[l]
          <4>1. l \in 1..m /\ l \in 1..Len(b)
            BY <1>1, <1>6
          <4>2. l # i => a[l] = b[l]
            BY <1>6, <2>1, <4>1 DEF Same
          <4> QED BY <3>3, <4>1, <4>2
        <3>5. Len(a) = Len(s)
          BY <1>1, <1>6, <3>3
        <3> QED BY <3>2, <3>3, <3>4, <3>5, SeqEqual
      <2>2. CASE k = 0
        <3>1. 1 \in 1..n
          BY <1>1
        <3>2. a[1] \in Letters
          BY <1>2, <1>6, <3>1
        <3> QED BY <2>1, <2>2, <3>1, <3>2
      <2>3. CASE k # 0
        <3>1. k \in 1..n
          BY <1>6, <2>3
        <3>2. a[k] \in Letters
          BY <1>2, <1>6, <3>1
        <3> QED BY <2>1, <3>1, <3>2
      <2> QED BY <2>2, <2>3
    <1>7. ASSUME n = m + 1, NEW k \in 1..n, Equal(a, b, k - 1),
                 \A l \in (k + 1)..n : Same(a, b, l - 1, l)
          PROVE  a = Drop(b, k)
      <2>1. k \in 1..Len(b)
        BY <1>1
      <2>2. PICK s \in Seq(Letters) :
              /\ s = Drop(b, k)
              /\ Len(s) = Len(b) - 1
              /\ \A l \in 1..(k - 1) : s[l] = b[l]
              /\ \A l \in k..(Len(b) - 1) : s[l] = b[l + 1]
        BY <2>1, Dropped
      <2>3. ASSUME NEW l \in 1..Len(a)
            PROVE  a[l] = s[l]
        <3>1. CASE l < k
          <4>1. l \in 1..(k - 1)
            BY <3>1
          <4> QED BY <1>7, <2>2, <4>1 DEF Equal, Same
        <3>2. CASE ~(l < k)
          <4>1. l + 1 \in (k + 1)..n /\ l \in k..(Len(b) - 1) /\ (l + 1) - 1 = l
            BY <1>1, <1>7, <3>2
          <4> QED BY <1>7, <2>2, <4>1 DEF Same
        <3> QED BY <3>1, <3>2
      <2>4. Len(a) = Len(s)
        <3>1. Len(b) - 1 = m
          BY <1>1, <1>7
        <3> QED BY <1>1, <2>2, <3>1
      <2>5. a = s
        BY <2>3, <2>4, SeqEqual
      <2> QED BY <2>2, <2>5
    <1>8. ASSUME m = n + 1, NEW k \in 1..m, Equal(a, b, k - 1),
                 \A l \in (k + 1)..m : Same(a, b, l, l - 1)
          PROVE  \E i \in 0..n, w \in Letters :
                   a = Put(b, i, w)
      <2>1. PICK i \in 0..Len(b) : i = k - 1
        BY <1>1, <1>8
      <2>2. PICK w \in Letters : w = a[k]
        BY <1>2
      <2>3. PICK s : s \in Seq(Letters) /\ s = Put(b, i, w) /\ Longer(s, b, i, w)
        BY Added
      <2>4. ASSUME NEW l \in 1..Len(a)
            PROVE  a[l] = s[l]
        <3>1. CASE l < k
          <4>1. l \in 1..i /\ l \in 1..(k - 1)
            BY <2>1, <3>1
          <4> QED BY <1>8, <2>3, <4>1 DEF Equal, Same, Longer
        <3>2. CASE l = k
          <4>1. i + 1 = k
            BY <1>8, <2>1
          <4> QED BY <2>2, <2>3, <3>2, <4>1 DEF Longer
        <3>3. CASE l > k
          <4>1. l \in (k + 1)..m /\ l \in (i + 2)..(Len(b) + 1)
            BY <1>1, <1>8, <2>1, <3>3
          <4> QED BY <1>8, <2>3, <4>1 DEF Same, Longer
        <3> QED BY <3>1, <3>2, <3>3
      <2>5. Len(a) = Len(s)
        BY <1>1, <1>8, <2>3 DEF Longer
      <2>6. a = s
        BY <2>3, <2>4, <2>5, SeqEqual
      <2>7. i \in 0..n
        BY <1>1
      <2> QED BY <2>3, <2>6, <2>7
    <1>9. OneApart(a, b, m, n) =>
            \/ \E i \in 1..n, w \in Letters : a = [b EXCEPT ![i] = w]
            \/ \E i \in 1..n : a = Drop(b, i)
            \/ \E i \in 0..n, w \in Letters :
                 a = Put(b, i, w)
      BY <1>6, <1>7, <1>8, Zenon DEF OneApart
    <1>10. a \in Edited(b) <=>
             \/ \E i \in 1..n, w \in Letters : a = [b EXCEPT ![i] = w]
             \/ \E i \in 1..n : a = Drop(b, i)
             \/ \E i \in 0..n, w \in Letters :
                  a = Put(b, i, w)
      BY <1>1, EditedBy, Zenon
    <1>11. a \in Edited(b) => OneApart(a, b, m, n)
      BY <1>3, <1>4, <1>5, <1>10, Zenon
    <1> QED BY <1>1, <1>9, <1>10, <1>11

--------------------------------------------------------------------------------
(* Lookup: what resolve finds, caches and answers. *)

\* Requests and ids are sequences over one alphabet.
LEMMA TokensAre ==
    /\ \A r \in Requests : Meant[r] \in Seq(Letters)
    /\ \A n \in Contents : n \in Seq(Letters) /\ Len(n) = WordCount
    /\ WordCount \in Nat \ {0}
    <1>1. ASSUME NEW n \in Contents
          PROVE  n \in Seq(Letters) /\ Len(n) = WordCount
      <2>1. n \in [1..WordCount -> Words] /\ WordCount \in Nat
        BY LookupAssumption
      <2>2. n \in [1..WordCount -> Letters]
        BY <2>1 DEF Letters
      <2> QED BY <2>1, <2>2, SeqDef
    <1> QED BY <1>1, LookupAssumption DEF Letters

\* The distance of a request from an id, as the lookup uses it.
LEMMA DistanceOf ==
    ASSUME NEW r \in Requests, NEW n \in Contents
    PROVE  /\ WordDistance(Meant[r], n) \in Nat
           /\ WordDistance(Meant[r], n) = 0 <=> Meant[r] = n
           /\ WordDistance(Meant[r], n) <= 1 <=> Meant[r] \in Edited(n)
    <1>1. PICK a \in Seq(Letters) : a = Meant[r]
      BY TokensAre
    <1>2. n \in Seq(Letters) /\ Len(n) # 0
      BY TokensAre
    <1> QED BY <1>1, <1>2, DistanceMeans, EditedIsOneApart

\* With the radius the code has, the candidates are the ids one edit away.
LEMMA NearestIsOneEdit ==
    ASSUME Radius = 1, NEW r \in Requests, NEW known \in SUBSET Contents,
           Meant[r] \notin known
    PROVE  Nearest(r, known) = {n \in known : Meant[r] \in Edited(n)}
    <1>1. ASSUME NEW n \in known
          PROVE  /\ Within(WordDistance(Meant[r], n)) <=> Meant[r] \in Edited(n)
                 /\ Within(WordDistance(Meant[r], n)) => WordDistance(Meant[r], n) = 1
      <2>1. /\ WordDistance(Meant[r], n) \in Nat
            /\ WordDistance(Meant[r], n) = 0 <=> Meant[r] = n
            /\ WordDistance(Meant[r], n) <= 1 <=> Meant[r] \in Edited(n)
        BY DistanceOf
      <2> QED BY <2>1 DEF Within
    <1>2. \A n, m \in known : Within(WordDistance(Meant[r], n)) /\ Within(WordDistance(Meant[r], m))
            => WordDistance(Meant[r], n) <= WordDistance(Meant[r], m)
      BY <1>1
    <1> QED BY <1>1, <1>2 DEF Nearest

--------------------------------------------------------------------------------

\* The notes of the store.
Stored == {n \in Contents : path # None /\ Holds(path, [kind |-> "content", of |-> n])}

At(r, d, notes) == {n \in notes : WordDistance(Meant[r], n) = d}

RowTrue(r, row, notes) ==
    IF row.candidate # None THEN row.candidate \in At(r, row.distance, notes)
    ELSE row.distance # None => Cardinality(At(r, row.distance, notes)) > 1

Calls == [request : Requests, step : {"missed", "uncached"}]
         \cup [request : Requests, step : {"found"}, row : Rows]

LTypeOK ==
    /\ misses \in [Requests -> Rows \cup {None}]
    /\ call   \in [Processes -> Calls \cup {None}]
    /\ given  \in [Requests -> SUBSET Contents]

\* Who is in a call serves, and what a row says is so, in the table or in the hands
\* of a process on its way there.
CallsTrue ==
    \A p \in Processes : call[p] # None =>
        /\ pc[p] = "serving"
        /\ call[p].step = "found" => RowTrue(call[p].request, call[p].row, Stored)

RowsTrue == \A r \in Requests : misses[r] # None => RowTrue(r, misses[r], Stored)

LookInv == OpenInv /\ resets = 0 /\ LTypeOK /\ CallsTrue /\ RowsTrue

\* A file holds finitely many notes.
LEMMA StoredFinite ==
    ASSUME NEW l \in [Files -> Seq(Commits)], NEW f \in Files
    PROVE  IsFiniteSet({n \in Contents :
             \E i \in DOMAIN l[f] : l[f][i] = [kind |-> "content", of |-> n]})
    <1>1. l[f] \in Seq(Commits)
      OBVIOUS
    <1>2. PICK m \in Nat : DOMAIN l[f] = 1..m
      BY <1>1
    <1> DEFINE I == {i \in 1..m : l[f][i].kind = "content" /\ l[f][i].of \in Contents}
               g == [i \in I |-> l[f][i].of]
               T == {l[f][i].of : i \in I}
               U == {n \in Contents :
                       \E i \in DOMAIN l[f] : l[f][i] = [kind |-> "content", of |-> n]}
    <1>3. IsFiniteSet(I)
      <2>1. IsFiniteSet(1..m)
        BY FS_Interval
      <2>2. I \in SUBSET (1..m)
        OBVIOUS
      <2> QED BY <2>1, <2>2, FS_Subset
    <1>4. g \in Surjection(I, T)
      BY DEF Surjection
    <1>5. IsFiniteSet(T)
      <2> HIDE DEF I, T, g
      <2> QED BY <1>3, <1>4, FS_Surjection
    <1>6. U \subseteq T
      <2> SUFFICES ASSUME NEW n \in U
                   PROVE  n \in T
        OBVIOUS
      <2>1. PICK i \in 1..m : l[f][i] = [kind |-> "content", of |-> n]
        BY <1>2
      <2>2. l[f][i].kind = "content" /\ l[f][i].of = n /\ n \in Contents
        BY <2>1
      <2> QED BY <2>2
    <1>7. IsFiniteSet(U)
      <2> HIDE DEF T, U
      <2> QED BY <1>5, <1>6, FS_Subset
    <1> QED BY <1>7

\* A true row stays true while notes are added.
LEMMA RowStaysTrue ==
    ASSUME NEW r, NEW row, NEW old, NEW new, old \subseteq new, IsFiniteSet(new),
           RowTrue(r, row, old)
    PROVE  RowTrue(r, row, new)
    <1>1. At(r, row.distance, old) \subseteq At(r, row.distance, new)
      BY DEF At
    <1>2. CASE row.candidate # None
      BY <1>1, <1>2 DEF RowTrue
    <1>3. CASE row.candidate = None /\ row.distance # None
      <2>1. IsFiniteSet(At(r, row.distance, new))
        BY FS_Subset DEF At
      <2>2. /\ IsFiniteSet(At(r, row.distance, old))
            /\ Cardinality(At(r, row.distance, old)) <= Cardinality(At(r, row.distance, new))
        BY <1>1, <2>1, FS_Subset
      <2>3. /\ Cardinality(At(r, row.distance, old)) \in Nat
            /\ Cardinality(At(r, row.distance, new)) \in Nat
        BY <2>1, <2>2, FS_CardinalityType
      <2>4. Cardinality(At(r, row.distance, old)) > 1
        BY <1>3 DEF RowTrue
      <2>5. Cardinality(At(r, row.distance, new)) > 1
        BY <2>2, <2>3, <2>4
      <2> QED BY <1>3, <2>5 DEF RowTrue
    <1>4. CASE row.candidate = None /\ row.distance = None
      BY <1>4 DEF RowTrue
    <1> QED BY <1>2, <1>3, <1>4

\* What a scan finds is so.
LEMMA OutcomeTrue ==
    ASSUME NEW r \in Requests, NEW known \in SUBSET Contents, IsFiniteSet(known)
    PROVE  /\ Outcome(r, Nearest(r, known)) \in Rows
           /\ RowTrue(r, Outcome(r, Nearest(r, known)), known)
    <1>1. PICK near : near = Nearest(r, known)
      OBVIOUS
    <1>2. PICK row : row = Outcome(r, near)
      OBVIOUS
    <1>3. /\ near \subseteq known /\ near \subseteq Contents
          /\ \A n \in near : Within(WordDistance(Meant[r], n))
          /\ \A n, m \in near : WordDistance(Meant[r], n) <= WordDistance(Meant[r], m)
      BY <1>1 DEF Nearest
    <1>4. \A n \in near : WordDistance(Meant[r], n) \in 0..Radius
      <2>1. \A n \in near : WordDistance(Meant[r], n) \in Nat
        BY <1>3, DistanceOf
      <2> QED BY <1>3, <2>1, LookupAssumption DEF Within
    <1>5. CASE near = {}
      <2>1. row = [candidate |-> None, distance |-> None]
        BY <1>2, <1>5 DEF Outcome
      <2> QED BY <1>1, <1>2, <2>1 DEF Rows, RowTrue
    <1>6. CASE near # {}
      <2>1. PICK n \in near : row = [candidate |-> IF Cardinality(near) = 1 THEN n ELSE None,
                                     distance  |-> WordDistance(Meant[r], n)]
        BY <1>2, <1>6 DEF Outcome
      <2>2. row \in Rows
        BY <1>3, <1>4, <2>1 DEF Rows
      <2>3. near \subseteq At(r, row.distance, known)
        <3>1. \A m \in near : WordDistance(Meant[r], m) = WordDistance(Meant[r], n)
          <4>1. ASSUME NEW m \in near
                PROVE  WordDistance(Meant[r], m) = WordDistance(Meant[r], n)
            <5>1. /\ WordDistance(Meant[r], m) \in 0..Radius
                  /\ WordDistance(Meant[r], n) \in 0..Radius
                  /\ WordDistance(Meant[r], m) <= WordDistance(Meant[r], n)
                  /\ WordDistance(Meant[r], n) <= WordDistance(Meant[r], m)
              BY <1>3, <1>4
            <5> QED BY <5>1, LookupAssumption
          <4> QED BY <4>1
        <3>2. row.distance = WordDistance(Meant[r], n)
          BY <2>1
        <3> QED BY <1>3, <3>1, <3>2 DEF At
      <2>4. CASE Cardinality(near) = 1
        <3>1. row.candidate = n /\ n # None
          BY <1>3, <2>1, <2>4, OpeningAssumption
        <3> QED BY <1>1, <1>2, <2>2, <2>3, <3>1 DEF RowTrue
      <2>5. CASE Cardinality(near) # 1
        <3>1. row.candidate = None
          BY <2>1, <2>5
        <3>2. IsFiniteSet(At(r, row.distance, known))
          BY FS_Subset DEF At
        <3>3. IsFiniteSet(near) /\ Cardinality(near) <= Cardinality(At(r, row.distance, known))
          BY <2>3, <3>2, FS_Subset
        <3>4. Cardinality(near) \in Nat /\ Cardinality(At(r, row.distance, known)) \in Nat
          BY <3>2, <3>3, FS_CardinalityType
        <3>5. Cardinality(near) # 0
          BY <1>6, <3>3, FS_EmptySet
        <3>6. Cardinality(At(r, row.distance, known)) > 1
          BY <2>5, <3>3, <3>4, <3>5
        <3> QED BY <1>1, <1>2, <2>2, <3>1, <3>6 DEF RowTrue
      <2> QED BY <2>4, <2>5
    <1> QED BY <1>5, <1>6

\* The notes of the store only grow, and stay finite.
LEMMA StoredGrows ==
    ASSUME OpenInv, resets = 0, OpenInv', resets' = 0, Grows
    PROVE  Stored \subseteq Stored' /\ IsFiniteSet(Stored')
    <1>1. Calm /\ Calm'
      BY DEF OpenInv
    <1>2. IsFiniteSet(Stored')
      <2>1. CASE path' = None
        BY <2>1, FS_EmptySet DEF Stored
      <2>2. CASE path' # None
        <3>1. log' \in [Files -> Seq(Commits)] /\ path' \in Files
          BY <1>1, <2>2 DEF Calm, OTypeOK
        <3>2. IsFiniteSet({n \in Contents : \E i \in DOMAIN log'[path'] :
                             log'[path'][i] = [kind |-> "content", of |-> n]})
          BY <3>1, StoredFinite
        <3>3. Stored' = {n \in Contents : \E i \in DOMAIN log'[path'] :
                             log'[path'][i] = [kind |-> "content", of |-> n]}
          BY <2>2 DEF Stored, Holds
        <3> QED BY <3>2, <3>3
      <2> QED BY <2>1, <2>2
    <1>3. ASSUME NEW n \in Stored
          PROVE  n \in Stored'
      <2>1. path # None /\ path \in Files /\ path' = path /\ n \in Contents
        BY <1>1 DEF Stored, Calm, OTypeOK, Grows
      <2>2. Holds(path, [kind |-> "content", of |-> n])'
        BY <2>1 DEF Stored, Grows
      <2> QED BY <2>1, <2>2 DEF Stored
    <1> QED BY <1>2, <1>3

\* A process in a call stands before the notes of the store.
LEMMA KnownIsStored ==
    ASSUME LookInv, NEW p \in Processes, call[p] # None
    PROVE  /\ Known(p) = Stored /\ Stored \subseteq Contents
           /\ pc[p] = "serving" /\ call[p] \in Calls
           /\ call[p].request \in Requests
    <1>1. pc[p] = "serving" /\ call[p] \in Calls /\ Calm
      BY DEF LookInv, OpenInv, CallsTrue, LTypeOK
    <1>2. conn[p] = path /\ path # None
      BY <1>1, OpenedPath DEF Opened
    <1> QED BY <1>1, <1>2 DEF Known, Stored, Calls

\* The lookup's steps leave the store's state alone, and the store's the lookup's.
LEMMA StoreStep ==
    ASSUME LookInv, [LNext]_lvars
    PROVE  /\ OpenInv' /\ resets' = 0 /\ Grows
           /\ \/ /\ UNCHANGED <<misses, given>>
                 /\ \E p \in Processes :
                      /\ \/ call' = call /\ call[p] = None
                         \/ call' = [call EXCEPT ![p] = None]
                      /\ \A q \in Processes \ {p} : pc'[q] = pc[q]
              \/ \E p \in Processes : Looking(p)
              \/ UNCHANGED lvars
    <1>1. [Next]_vars /\ resets' = resets
      <2>1. ASSUME NEW p \in Processes, OpenStep(p) \/ Restart(p) \/ Crash(p)
            PROVE  Next /\ resets' = resets
        <3>1. Next
          BY <2>1 DEF Next
        <3> QED BY <2>1, <3>1
            DEF OpenStep, Connect, SwitchJournal, JournalLocked, EnsureSchema, Create,
                SetVersion, WriteMeta, EnsureTable, Restart, Crash
      <2>2. ASSUME NEW p \in Processes, NEW n \in Contents, Write(p, n)
            PROVE  Next /\ resets' = resets
        BY <2>2 DEF Next, Write
      <2>3. ASSUME NEW p \in Processes, Looking(p)
            PROVE  UNCHANGED vars
        BY <2>3 DEF Looking, Resolve, ReadCache, Scan, Bump, Onward
      <2>4. UNCHANGED vars => resets' = resets
        BY DEF vars
      <2>5. UNCHANGED lvars => UNCHANGED vars
        BY DEF lvars
      <2> QED BY <2>1, <2>2, <2>3, <2>4, <2>5 DEF LNext, Store, Die
    <1>2. OpenInv' /\ resets' = 0 /\ Grows
      <2>1. OpenInv' /\ (resets' = 0 => Grows)
        BY <1>1, OpenInvStep DEF LookInv
      <2> QED BY <1>1, <2>1 DEF LookInv
    <1>3. ASSUME NEW p \in Processes, OpenStep(p) \/ Restart(p) \/ Crash(p)
          PROVE  \A q \in Processes \ {p} : pc'[q] = pc[q]
      <2>1. pc \in [Processes -> Opened \cup {"closed", "refused", "failed"}]
        BY DEF LookInv, OpenInv, Calm, OTypeOK
      <2> QED BY <1>3, <2>1
          DEF OpenStep, Connect, SwitchJournal, JournalLocked, EnsureSchema, Create,
              SetVersion, WriteMeta, EnsureTable, Restart, Crash, Step
    <1>4. ASSUME NEW p \in Processes, NEW n \in Contents, Write(p, n)
          PROVE  pc' = pc
      BY <1>4 DEF Write, opening
    <1>5. ASSUME NEW p \in Processes, Store(p)
          PROVE  /\ UNCHANGED <<misses, given>> /\ call' = call /\ call[p] = None
                 /\ \A q \in Processes \ {p} : pc'[q] = pc[q]
      BY <1>3, <1>4, <1>5 DEF Store, lookup
    <1>6. ASSUME NEW p \in Processes, Die(p)
          PROVE  /\ UNCHANGED <<misses, given>> /\ call' = [call EXCEPT ![p] = None]
                 /\ \A q \in Processes \ {p} : pc'[q] = pc[q]
      BY <1>3, <1>6 DEF Die
    <1>7. (\E p \in Processes : Store(p) \/ Die(p) \/ Looking(p)) \/ UNCHANGED lvars
      BY DEF LNext
    <1> QED BY <1>2, <1>5, <1>6, <1>7

\* LookInv is inductive.
LEMMA LookStep ==
    ASSUME LookInv, [LNext]_lvars
    PROVE  LookInv'
    <1>1. OpenInv' /\ resets' = 0 /\ Grows
      BY StoreStep
    <1>2. Stored \subseteq Stored' /\ IsFiniteSet(Stored')
      BY <1>1, StoredGrows DEF LookInv
    <1>3. \A r, row : RowTrue(r, row, Stored) => RowTrue(r, row, Stored')
      BY <1>2, RowStaysTrue
    <1>4. LTypeOK /\ CallsTrue /\ RowsTrue
      BY DEF LookInv
    <1>5. (\A r \in Requests : misses[r] # None => RowTrue(r, misses[r], Stored'))
      BY <1>3, <1>4 DEF RowsTrue
    <1>6. \A p \in Processes : call[p] # None /\ call[p].step = "found" =>
             RowTrue(call[p].request, call[p].row, Stored')
      BY <1>3, <1>4 DEF CallsTrue
    <1>7. CASE UNCHANGED <<misses, given>> /\ UNCHANGED <<call, pc>>
      <2>1. LTypeOK'
        BY <1>4, <1>7 DEF LTypeOK
      <2>2. CallsTrue' /\ RowsTrue'
        BY <1>4, <1>5, <1>6, <1>7 DEF CallsTrue, RowsTrue
      <2> QED BY <1>1, <2>1, <2>2 DEF LookInv
    <1>8. ASSUME NEW p \in Processes, UNCHANGED <<misses, given>>,
                 \A q \in Processes \ {p} : pc'[q] = pc[q],
                 \/ call' = call /\ call[p] = None
                 \/ call' = [call EXCEPT ![p] = None]
          PROVE  LookInv'
      <2>1. LTypeOK'
        BY <1>4, <1>8 DEF LTypeOK
      <2>2. call'[p] = None /\ \A q \in Processes \ {p} : call'[q] = call[q]
        BY <1>4, <1>8 DEF LTypeOK
      <2>3. CallsTrue'
        BY <1>4, <1>6, <1>8, <2>2 DEF CallsTrue
      <2>4. RowsTrue'
        BY <1>5, <1>8 DEF RowsTrue
      <2> QED BY <1>1, <2>1, <2>3, <2>4 DEF LookInv
    <1>9. ASSUME NEW p \in Processes, Looking(p)
          PROVE  LookInv'
      <2>1. CASE \E r \in Requests : Resolve(p, r)
        <3>1. PICK r \in Requests : Resolve(p, r)
          BY <2>1
        <3>2. PICK next : next = [request |-> r, step |-> "missed"]
          OBVIOUS
        <3>3. next \in Calls /\ next.step = "missed"
          BY <3>2 DEF Calls
        <3>4. /\ pc[p] = "serving" /\ call' = [call EXCEPT ![p] = next]
              /\ UNCHANGED <<misses, given, pc>>
          BY <3>1, <3>2 DEF Resolve, Onward, vars, opening
        <3>5. LTypeOK'
          BY <1>4, <3>3, <3>4 DEF LTypeOK
        <3>6. call'[p] = next /\ \A q \in Processes \ {p} : call'[q] = call[q]
          BY <1>4, <3>4 DEF LTypeOK
        <3>7. CallsTrue'
          BY <1>4, <1>6, <3>3, <3>4, <3>6 DEF CallsTrue
        <3>8. RowsTrue'
          BY <1>5, <3>4 DEF RowsTrue
        <3> QED BY <1>1, <3>5, <3>7, <3>8 DEF LookInv
      <2>2. CASE ReadCache(p)
        <3>1. call[p] # None
          BY <2>2 DEF ReadCache
        <3>2. PICK r \in Requests : r = call[p].request
          BY <3>1, KnownIsStored
        <3>3. pc[p] = "serving"
          BY <3>1, KnownIsStored
        <3>4. CASE misses[r] # None /\ misses[r].candidate # None
          <4>1. PICK row \in Rows : row = misses[r]
            BY <1>4, <3>4 DEF LTypeOK
          <4>2. PICK next : next = [request |-> r, step |-> "found", row |-> row]
            OBVIOUS
          <4>3. next \in Calls /\ next.step = "found" /\ next.row = row /\ next.request = r
            BY <4>2 DEF Calls
          <4>4. call' = [call EXCEPT ![p] = next] /\ UNCHANGED <<misses, given, pc>>
            BY <2>2, <3>2, <3>4, <4>1, <4>2 DEF ReadCache, Onward, vars, opening
          <4>5. LTypeOK'
            BY <1>4, <4>3, <4>4 DEF LTypeOK
          <4>6. call'[p] = next /\ \A q \in Processes \ {p} : call'[q] = call[q]
            BY <1>4, <4>4 DEF LTypeOK
          <4>7. RowTrue(r, row, Stored')
            BY <1>5, <3>4, <4>1
          <4>8. CallsTrue'
            BY <1>4, <1>6, <3>3, <4>3, <4>4, <4>6, <4>7 DEF CallsTrue
          <4>9. RowsTrue'
            BY <1>5, <4>4 DEF RowsTrue
          <4> QED BY <1>1, <4>5, <4>8, <4>9 DEF LookInv
        <3>5. CASE ~(misses[r] # None /\ misses[r].candidate # None)
          <4>1. PICK next : next = [request |-> r, step |-> "uncached"]
            OBVIOUS
          <4>2. next \in Calls /\ next.step = "uncached"
            BY <4>1 DEF Calls
          <4>3. call' = [call EXCEPT ![p] = next] /\ UNCHANGED <<misses, given, pc>>
            BY <2>2, <3>2, <3>5, <4>1 DEF ReadCache, Onward, vars, opening
          <4>4. LTypeOK'
            BY <1>4, <4>2, <4>3 DEF LTypeOK
          <4>5. call'[p] = next /\ \A q \in Processes \ {p} : call'[q] = call[q]
            BY <1>4, <4>3 DEF LTypeOK
          <4>6. CallsTrue'
            BY <1>4, <1>6, <3>3, <4>2, <4>3, <4>5 DEF CallsTrue
          <4>7. RowsTrue'
            BY <1>5, <4>3 DEF RowsTrue
          <4> QED BY <1>1, <4>4, <4>6, <4>7 DEF LookInv
        <3> QED BY <3>4, <3>5
      <2>3. CASE Scan(p)
        <3>1. call[p] # None
          BY <2>3 DEF Scan
        <3>2. PICK r \in Requests : r = call[p].request
          BY <3>1, KnownIsStored
        <3>3. pc[p] = "serving" /\ Known(p) = Stored /\ Stored \subseteq Contents
          BY <3>1, KnownIsStored
        <3>4. PICK row : row = Outcome(r, Nearest(r, Stored))
          OBVIOUS
        <3>5. row \in Rows /\ RowTrue(r, row, Stored)
          <4>1. IsFiniteSet(Stored)
            BY <1>2, FS_Subset
          <4> QED BY <3>3, <3>4, <4>1, OutcomeTrue
        <3>6. PICK next : next = [request |-> r, step |-> "found", row |-> row]
          OBVIOUS
        <3>7. next \in Calls /\ next.step = "found" /\ next.row = row /\ next.request = r
          BY <3>5, <3>6 DEF Calls
        <3>8. call' = [call EXCEPT ![p] = next] /\ UNCHANGED <<misses, given, pc>>
          BY <2>3, <3>2, <3>3, <3>4, <3>6 DEF Scan, Onward, vars, opening
        <3>9. LTypeOK'
          BY <1>4, <3>7, <3>8 DEF LTypeOK
        <3>10. call'[p] = next /\ \A q \in Processes \ {p} : call'[q] = call[q]
          BY <1>4, <3>8 DEF LTypeOK
        <3>11. CallsTrue'
          BY <1>3, <1>4, <1>6, <3>3, <3>5, <3>7, <3>8, <3>10 DEF CallsTrue
        <3>12. RowsTrue'
          BY <1>5, <3>8 DEF RowsTrue
        <3> QED BY <1>1, <3>9, <3>11, <3>12 DEF LookInv
      <2>4. CASE Bump(p)
        <3>1. call[p] # None /\ call[p].step = "found"
          BY <2>4 DEF Bump
        <3>2. PICK r \in Requests : r = call[p].request
          BY <3>1, KnownIsStored
        <3>3. PICK row \in Rows : row = call[p].row
          BY <3>1, KnownIsStored DEF Calls
        <3>4. /\ misses' = [misses EXCEPT ![r] = row]
              /\ given' = [given EXCEPT ![r] = given[r] \cup ({row.candidate} \ {None})]
              /\ call' = [call EXCEPT ![p] = None] /\ UNCHANGED pc
          BY <2>4, <3>2, <3>3 DEF Bump, Upsert, vars, opening
        <3>5. {row.candidate} \ {None} \subseteq Contents
          BY DEF Rows
        <3>6. LTypeOK'
          BY <1>4, <3>4, <3>5 DEF LTypeOK
        <3>7. call'[p] = None /\ \A q \in Processes \ {p} : call'[q] = call[q]
          BY <1>4, <3>4 DEF LTypeOK
        <3>8. CallsTrue'
          BY <1>4, <1>6, <3>4, <3>7 DEF CallsTrue
        <3>9. misses'[r] = row /\ \A q \in Requests \ {r} : misses'[q] = misses[q]
          BY <1>4, <3>4 DEF LTypeOK
        <3>10. RowTrue(r, row, Stored')
          BY <1>6, <3>1, <3>2, <3>3
        <3>11. RowsTrue'
          BY <1>5, <3>9, <3>10 DEF RowsTrue
        <3> QED BY <1>1, <3>6, <3>8, <3>11 DEF LookInv
      <2> QED BY <1>9, <2>1, <2>2, <2>3, <2>4 DEF Looking
    <1>10. CASE UNCHANGED lvars
      <2>1. UNCHANGED <<misses, given>> /\ UNCHANGED <<call, pc>>
        BY <1>10 DEF lvars, vars, opening, lookup
      <2> QED BY <1>7, <2>1
    <1> QED BY <1>8, <1>9, <1>10, StoreStep

LEMMA LookStart ==
    ASSUME FoundSound, LInit
    PROVE  LookInv
    <1>1. Init /\ resets = 0
      BY DEF LInit, Init
    <1>2. OpenInv
      BY <1>1, CalmInit DEF OpenInv
    <1>3. LTypeOK /\ CallsTrue /\ RowsTrue
      BY DEF LInit, LTypeOK, CallsTrue, RowsTrue
    <1> QED BY <1>1, <1>2, <1>3 DEF LookInv

\* Whoever resolves serves a whole store: the lookup's own steps leave it whole.
THEOREM LookupsServeWhole == FoundSound => (LSpec => []ServedIsWhole)
    <1> SUFFICES ASSUME FoundSound
                 PROVE  LSpec => []ServedIsWhole
      OBVIOUS
    <1>1. LInit => LookInv
      BY LookStart
    <1>2. LookInv /\ [LNext]_lvars => LookInv'
      BY LookStep
    <1>3. LookInv => ServedIsWhole
      BY WholeIsServed DEF LookInv, OpenInv
    <1> QED BY <1>1, <1>2, <1>3, PTL DEF LSpec

\* Whatever processes write, look up and die in the middle of, every near_miss row
\* holds: its candidate is a note at the distance it gives, and a distance without
\* a candidate stands for several notes at it.
THEOREM MissesAreTrue == FoundSound => (LSpec => []RowsTellTheTruth)
    <1> SUFFICES ASSUME FoundSound
                 PROVE  LSpec => []RowsTellTheTruth
      OBVIOUS
    <1>1. LInit => LookInv
      BY LookStart
    <1>2. LookInv /\ [LNext]_lvars => LookInv'
      BY LookStep
    <1>3. LookInv => RowsTellTheTruth
      BY DEF LookInv, RowsTrue, RowTrue, RowsTellTheTruth, Stored, At
    <1> QED BY <1>1, <1>2, <1>3, PTL DEF LSpec

\* In the radius the code has, the candidates of a request that is no note's id are
\* exactly the notes one word replaced, dropped or added turns into it.
THEOREM OneEditIsRecovered == FoundSound /\ Radius = 1 => (LSpec => []OneEditRecovered)
    <1> SUFFICES ASSUME FoundSound, Radius = 1
                 PROVE  LSpec => []OneEditRecovered
      OBVIOUS
    <1>1. LInit => LookInv
      BY LookStart
    <1>2. LookInv /\ [LNext]_lvars => LookInv'
      BY LookStep
    <1>3. ASSUME LookInv
          PROVE  OneEditRecovered
      <2> SUFFICES ASSUME NEW p \in Processes, call[p] # None,
                          Meant[call[p].request] \notin Known(p)
                   PROVE  Nearest(call[p].request, Known(p))
                            = {n \in Known(p) : Meant[call[p].request] \in Edited(n)}
        BY DEF OneEditRecovered
      <2>1. call[p].request \in Requests /\ Known(p) \subseteq Contents
        BY <1>3, KnownIsStored DEF Known
      <2> QED BY <2>1, NearestIsOneEdit
    <1>5. LookInv => OneEditRecovered
      BY <1>3
    <1> QED BY <1>1, <1>2, <1>5, PTL DEF LSpec

\* c, which is not the id asked for, is or may yet be what request r is answered with.
Offered(r, c) ==
    /\ c # None /\ c # Canonical(r)
    /\ \/ c \in given[r]
       \/ misses[r] # None /\ misses[r].candidate = c
       \/ \E p \in Processes :
             /\ call[p] # None /\ call[p].step = "found"
             /\ call[p].request = r /\ call[p].row.candidate = c

\* What is offered for a request is one note, in the store and within the radius.
Corrected ==
    \A r \in Requests, c \in Contents : Offered(r, c) =>
        /\ c \in Stored /\ Within(WordDistance(Meant[r], c))
        /\ \A d \in Contents : Offered(r, d) => c = d

\* A scan whose one candidate is not the id asked for found it the only note in reach.
LEMMA NearestIsAlone ==
    ASSUME Radius <= 1, NEW r \in Requests, NEW known \in SUBSET Contents,
           IsFiniteSet(known), NEW c, c = Outcome(r, Nearest(r, known)).candidate,
           c # None, c # Canonical(r)
    PROVE  /\ c \in known /\ Within(WordDistance(Meant[r], c))
           /\ \A d \in known : Within(WordDistance(Meant[r], d)) => d = c
    <1>1. PICK near : near = Nearest(r, known)
      OBVIOUS
    <1>2. near # {}
      <2>1. Outcome(r, {}).candidate = None
        BY DEF Outcome
      <2> QED BY <1>1, <2>1
    <1>3. PICK n \in near :
             c = IF Cardinality(near) = 1 THEN n ELSE None
      BY <1>1, <1>2 DEF Outcome
    <1>4. c = n /\ Cardinality(near) = 1
      BY <1>3
    <1>5. near = {c}
      <2>1. PICK x : near = {x}
        <3>1. IsFiniteSet(near)
          BY <1>1, FS_Subset DEF Nearest
        <3> QED BY <1>4, <3>1, FS_Singleton
      <2> QED BY <1>3, <1>4, <2>1
    <1>6. /\ c \in known /\ Within(WordDistance(Meant[r], c))
          /\ \A d \in known : Within(WordDistance(Meant[r], d)) =>
                WordDistance(Meant[r], c) <= WordDistance(Meant[r], d)
      BY <1>1, <1>5 DEF Nearest
    <1>7. /\ WordDistance(Meant[r], c) \in Nat
          /\ WordDistance(Meant[r], c) # 0
      <2>1. Meant[r] # c
        <3>1. c \in [1..WordCount -> Words]
          BY <1>6, LookupAssumption
        <3> QED BY <3>1 DEF Canonical
      <2> QED BY <1>6, <2>1, DistanceOf
    <1>8. ASSUME NEW d \in known, Within(WordDistance(Meant[r], d))
          PROVE  d = c
      <2>1. WordDistance(Meant[r], d) \in Nat
        BY DistanceOf
      <2>2. /\ WordDistance(Meant[r], c) = 1 /\ WordDistance(Meant[r], d) = 1
        BY <1>6, <1>7, <1>8, <2>1, LookupAssumption DEF Within
      <2>3. \A m \in known : Within(WordDistance(Meant[r], m)) =>
                WordDistance(Meant[r], d) <= WordDistance(Meant[r], m)
        BY <1>6, <2>2
      <2>4. d \in near
        BY <1>1, <1>8, <2>3 DEF Nearest
      <2> QED BY <1>5, <2>4
    <1> QED BY <1>6, <1>8

\* A step that offers nothing new.
LEMMA NothingNew ==
    ASSUME Corrected, Stored \subseteq Stored',
           \A r \in Requests, c \in Contents : Offered(r, c)' => Offered(r, c)
    PROVE  Corrected'
    <1> QED BY DEF Corrected

\* Only a scan offers anything new, and what it offers was the only choice before.
LEMMA CorrectedStep ==
    ASSUME LookInv, LookInv', Corrected, Radius <= 1, [LNext]_lvars
    PROVE  Corrected'
    <1>1. Stored \subseteq Stored'
      BY StoreStep, StoredGrows DEF LookInv
    <1>2. LTypeOK
      BY DEF LookInv
    <1>3. CASE UNCHANGED <<misses, given, call>>
      <2>1. \A r \in Requests, c \in Contents : Offered(r, c)' => Offered(r, c)
        BY <1>3 DEF Offered
      <2> QED BY <1>1, <2>1, NothingNew
    <1>4. ASSUME NEW p \in Processes, UNCHANGED <<misses, given>>,
                 call' = [call EXCEPT ![p] = None]
          PROVE  Corrected'
      <2>1. call'[p] = None /\ \A q \in Processes \ {p} : call'[q] = call[q]
        BY <1>2, <1>4 DEF LTypeOK
      <2>2. \A r \in Requests, c \in Contents : Offered(r, c)' => Offered(r, c)
        BY <1>4, <2>1 DEF Offered
      <2> QED BY <1>1, <2>2, NothingNew
    <1>5. ASSUME NEW p \in Processes, Looking(p)
          PROVE  Corrected'
      <2>1. CASE \E r \in Requests : Resolve(p, r)
        <3>1. PICK r \in Requests : Resolve(p, r)
          BY <2>1
        <3>2. PICK next : next = [request |-> r, step |-> "missed"]
          OBVIOUS
        <3>3. /\ next.step # "found"
              /\ call' = [call EXCEPT ![p] = next] /\ UNCHANGED <<misses, given>>
          BY <3>1, <3>2 DEF Resolve, Onward
        <3>4. call'[p] = next /\ \A q \in Processes \ {p} : call'[q] = call[q]
          BY <1>2, <3>3 DEF LTypeOK
        <3>5. \A q \in Requests, c \in Contents : Offered(q, c)' => Offered(q, c)
          BY <3>3, <3>4 DEF Offered
        <3> QED BY <1>1, <3>5, NothingNew
      <2>2. CASE ReadCache(p)
        <3>1. PICK r \in Requests : r = call[p].request
          BY <2>2, KnownIsStored DEF ReadCache
        <3>2. CASE misses[r] # None /\ misses[r].candidate # None
          <4>1. PICK next : next = [request |-> r, step |-> "found", row |-> misses[r]]
            OBVIOUS
          <4>2. call' = [call EXCEPT ![p] = next] /\ UNCHANGED <<misses, given>>
            BY <2>2, <3>1, <3>2, <4>1 DEF ReadCache, Onward
          <4>3. call'[p] = next /\ \A q \in Processes \ {p} : call'[q] = call[q]
            BY <1>2, <4>2 DEF LTypeOK
          <4>4. next.request = r /\ next.row = misses[r]
            BY <4>1
          <4>5. \A q \in Requests, c \in Contents : Offered(q, c)' => Offered(q, c)
            BY <3>2, <4>2, <4>3, <4>4 DEF Offered
          <4> QED BY <1>1, <4>5, NothingNew
        <3>3. CASE ~(misses[r] # None /\ misses[r].candidate # None)
          <4>1. PICK next : next = [request |-> r, step |-> "uncached"]
            OBVIOUS
          <4>2. /\ call' = [call EXCEPT ![p] = next] /\ UNCHANGED <<misses, given>>
                /\ next.step # "found"
            BY <2>2, <3>1, <3>3, <4>1 DEF ReadCache, Onward
          <4>3. call'[p] = next /\ \A q \in Processes \ {p} : call'[q] = call[q]
            BY <1>2, <4>2 DEF LTypeOK
          <4>4. \A q \in Requests, c \in Contents : Offered(q, c)' => Offered(q, c)
            BY <4>2, <4>3 DEF Offered
          <4> QED BY <1>1, <4>4, NothingNew
        <3> QED BY <3>2, <3>3
      <2>3. CASE Scan(p)
        <3>1. call[p] # None
          BY <2>3 DEF Scan
        <3>2. PICK r \in Requests : r = call[p].request
          BY <3>1, KnownIsStored
        <3>3. Known(p) = Stored /\ Stored \subseteq Contents
          BY <3>1, KnownIsStored
        <3>4. PICK row : row = Outcome(r, Nearest(r, Stored))
          OBVIOUS
        <3>5. PICK next : next = [request |-> r, step |-> "found", row |-> row]
          OBVIOUS
        <3>6. call' = [call EXCEPT ![p] = next] /\ UNCHANGED <<misses, given>>
          BY <2>3, <3>2, <3>3, <3>4, <3>5 DEF Scan, Onward
        <3>7. call'[p] = next /\ \A q \in Processes \ {p} : call'[q] = call[q]
          BY <1>2, <3>6 DEF LTypeOK
        <3>8. next.request = r /\ next.row = row
          BY <3>5
        <3>9. \A q \in Requests, c \in Contents : Offered(q, c)' =>
                 Offered(q, c) \/ (q = r /\ c = row.candidate /\ c # None /\ c # Canonical(r))
          BY <3>6, <3>7, <3>8 DEF Offered
        <3>10. ASSUME NEW c \in Contents, c = row.candidate, c # None, c # Canonical(r)
               PROVE  /\ c \in Stored /\ Within(WordDistance(Meant[r], c))
                      /\ \A d \in Contents : Offered(r, d) => d = c
          <4>1. /\ c \in Stored /\ Within(WordDistance(Meant[r], c))
                /\ \A d \in Stored : Within(WordDistance(Meant[r], d)) => d = c
            <5>1. IsFiniteSet(Stored)
              BY <1>1, StoreStep, StoredGrows, FS_Subset DEF LookInv
            <5> QED BY <3>3, <3>4, <3>10, <5>1, NearestIsAlone
          <4> QED BY <4>1 DEF Corrected
        <3>11. ASSUME NEW q \in Requests, NEW c \in Contents, Offered(q, c)'
               PROVE  /\ c \in Stored' /\ Within(WordDistance(Meant[q], c))
                      /\ \A d \in Contents : Offered(q, d)' => c = d
          BY <1>1, <3>9, <3>10, <3>11 DEF Corrected
        <3>12. \A q \in Requests, c \in Contents : Offered(q, c)' =>
                 /\ c \in Stored' /\ Within(WordDistance(Meant[q], c))
                 /\ \A d \in Contents : Offered(q, d)' => c = d
          BY <3>11
        <3> QED BY <3>12 DEF Corrected
      <2>4. CASE Bump(p)
        <3>1. call[p] # None /\ call[p].step = "found"
          BY <2>4 DEF Bump
        <3>2. PICK r \in Requests : r = call[p].request
          BY <3>1, KnownIsStored
        <3>3. PICK row : row = call[p].row
          OBVIOUS
        <3>4. /\ misses' = [misses EXCEPT ![r] = row]
              /\ given' = [given EXCEPT ![r] = given[r] \cup ({row.candidate} \ {None})]
              /\ call' = [call EXCEPT ![p] = None]
          BY <2>4, <3>2, <3>3 DEF Bump, Upsert
        <3>5. /\ call'[p] = None /\ \A q \in Processes \ {p} : call'[q] = call[q]
              /\ misses'[r] = row /\ \A q \in Requests \ {r} : misses'[q] = misses[q]
              /\ given'[r] = given[r] \cup ({row.candidate} \ {None})
              /\ \A q \in Requests \ {r} : given'[q] = given[q]
          BY <1>2, <3>4 DEF LTypeOK
        <3>6. \A q \in Requests, c \in Contents : Offered(q, c)' => Offered(q, c)
          BY <3>1, <3>2, <3>3, <3>5 DEF Offered
        <3> QED BY <1>1, <3>6, NothingNew
      <2> QED BY <1>5, <2>1, <2>2, <2>3, <2>4 DEF Looking
    <1>6. CASE UNCHANGED lvars
      BY <1>3, <1>6 DEF lvars, lookup
    <1> QED BY <1>3, <1>4, <1>5, <1>6, StoreStep

\* While no file is moved aside and the radius is one word, a request that is no
\* note's id is corrected to one note, whichever process answers and whenever.
THEOREM CorrectionsAgree == FoundSound /\ Radius <= 1 => (LSpec => []SameCorrection)
    <1> SUFFICES ASSUME FoundSound, Radius <= 1
                 PROVE  LSpec => []SameCorrection
      OBVIOUS
    <1>1. LInit => LookInv /\ Corrected
      BY LookStart DEF LInit, Corrected, Offered
    <1>2. LookInv /\ Corrected /\ [LNext]_lvars => (LookInv /\ Corrected)'
      BY LookStep, CorrectedStep
    <1>3. ASSUME LookInv, Corrected
          PROVE  SameCorrection
      <2> SUFFICES ASSUME NEW r \in Requests
                   PROVE  Cardinality(given[r] \ {Canonical(r)}) <= 1
        BY DEF SameCorrection
      <2>1. given[r] \subseteq Contents /\ None \notin Contents
        BY <1>3, OpeningAssumption DEF LookInv, LTypeOK
      <2>2. \A c, d \in given[r] \ {Canonical(r)} : c = d
        BY <1>3, <2>1 DEF Corrected, Offered
      <2>3. CASE given[r] \ {Canonical(r)} = {}
        BY <2>3, FS_EmptySet
      <2>4. ASSUME NEW c \in given[r] \ {Canonical(r)}
            PROVE  Cardinality(given[r] \ {Canonical(r)}) <= 1
        <3>1. given[r] \ {Canonical(r)} = {c}
          BY <2>2, <2>4
        <3>2. Cardinality({c}) = 1
          BY FS_Singleton
        <3> QED BY <3>1, <3>2
      <2> QED BY <2>3, <2>4
    <1>4. LookInv /\ Corrected => SameCorrection
      BY <1>3
    <1> QED BY <1>1, <1>2, <1>4, PTL DEF LSpec
================================================================================
