-------------------------------- MODULE Readers --------------------------------
(***************************************************************************)
(* Reading the supersession graph while others write it.  Store.read and   *)
(* Store.chain (src/seshat/store.py) and the cycle check of                *)
(* src/seshat/checker.py put one answer together from several SELECTs.     *)
(* The reader's own writers wait for its lock, those of other processes do *)
(* not, and no transaction spans the SELECTs: each is a step of one        *)
(* reader, and Notes goes on between them.                                 *)
(***************************************************************************)
EXTENDS Notes

CONSTANTS
    Limit          \* edge_limit of a read

ASSUME ReadersAssumption == Limit \in Nat \ {0}

VARIABLES
    reading        \* the answer put together so far, or None

Graph == INSTANCE Descent WITH Nodes <- Ids

RInit == Init /\ reading = None

At(step) == reading # None /\ reading.step = step

\* What an edge leads from and what it leads to.
Onward(n)   == {e[2] : e \in {e \in Edges : e[1] = n}}
Backward(n) == {e[1] : e \in {e \in Edges : e[2] = n}}

--------------------------------------------------------------------------------
(* read *)

Cut(edges) == IF Cardinality(edges) > Limit THEN Limit ELSE Cardinality(edges)

\* _edges: the COUNT of one side, then its rows, at most Limit of them.
Counted(side) == [reading EXCEPT !.total = Append(@, Cardinality(side))]
Listed(side)  == [reading EXCEPT !.rows  = Append(@, Cut(side))]

\* resolve, the note's own row, which nobody changes, and the first COUNT.
OpenRecord(n) ==
    /\ reading = None
    /\ n \in notes
    /\ reading' = [step |-> "out", note |-> n, total |-> <<Cardinality(Onward(n))>>,
                   rows |-> <<>>, heads |-> {}]

\* superseded_by, then supersedes.
ReadEdges ==
    \/ /\ At("out")
       /\ reading' = [Listed(Onward(reading.note)) EXCEPT !.step = "listed"]
    \/ /\ At("listed")
       /\ reading' = [Counted(Backward(reading.note)) EXCEPT !.step = "in"]
    \/ /\ At("in")
       /\ reading' = [Listed(Backward(reading.note)) EXCEPT !.step = "heads"]

\* heads, last.
CloseRecord ==
    /\ At("heads")
    /\ reading' = [reading EXCEPT !.step = "record", !.heads = Heads(reading.note)]

--------------------------------------------------------------------------------
(* chain *)

\* Mutant of Closure: up from what is below, too.
ClosureEitherWay(n) ==
    {m \in notes : \E top \in notes :
        Reaches(Edges, top, m) /\ (Reaches(Edges, top, n) \/ Reaches(Edges, n, top))}

\* down and up, each from the note itself.
Closure(n) == {m \in notes : Reaches(Edges, n, m) \/ Reaches(Edges, m, n)}

ChainNodes(n) ==
    /\ reading = None
    /\ n \in notes
    /\ reading' = [step |-> "nodes", note |-> n, nodes |-> Closure(n)]

ChainEdges ==
    /\ At("nodes")
    /\ reading' = [step |-> "chain", note |-> reading.note, nodes |-> reading.nodes,
                   edges |-> {e \in Edges : {e[1], e[2]} \subseteq reading.nodes}]

--------------------------------------------------------------------------------
(* check_cycles *)

CheckEdges ==
    /\ reading = None
    /\ reading' = [step |-> "edges", edges |-> Edges]

CheckNodes ==
    /\ At("edges")
    /\ reading' = [step |-> "verdict", edges |-> reading.edges,
                   cyclic |-> Graph!CycleFound(reading.edges, notes),
                   stuck |-> Graph!Stuck(reading.edges, notes)]

--------------------------------------------------------------------------------

(* check_suggested_links *)

\* The vectors, taken here to be there for every note; the edges of that moment
\* are kept for SuggestedUnlinked only.
CheckVectors ==
    /\ reading = None
    /\ reading' = [step |-> "vectors", notes |-> notes, edges |-> Edges]

\* _reachable reads the edges; the pairs without a path are compared.
CheckPairs ==
    /\ At("vectors")
    /\ reading' = [step |-> "suggested", notes |-> reading.notes, edges |-> reading.edges,
                   pairs |-> Graph!Unlinked(Edges, reading.notes)]

--------------------------------------------------------------------------------

\* The answer is handed out.
Answer ==
    /\ reading # None /\ reading.step \in {"record", "chain", "verdict", "suggested"}
    /\ reading' = None

Read ==
    /\ \/ \E n \in notes : OpenRecord(n) \/ ChainNodes(n)
       \/ ReadEdges \/ CloseRecord
       \/ ChainEdges
       \/ CheckEdges \/ CheckNodes
       \/ CheckVectors \/ CheckPairs
       \/ Answer
    /\ UNCHANGED vars

RNext == Read \/ (Next /\ UNCHANGED reading)

RSpec == RInit /\ [][RNext]_<<vars, reading>>

--------------------------------------------------------------------------------
(* Properties. *)

\* read shows a note as its own head only if it shows nothing that supersedes
\* it: the record never sends its reader both to the note and past it.
OwnHead ==
    At("record") /\ reading.heads = {reading.note}
        => reading.total[1] = 0 /\ reading.rows[1] = 0

\* chain is the ancestors and descendants of the note and nothing else, each of
\* them joined to it by the very edges that come with it.
ChainConnected ==
    At("chain") =>
        \A m \in reading.nodes :
            \/ Reaches(reading.edges, reading.note, m)
            \/ Reaches(reading.edges, m, reading.note)

\* check_cycles fires exactly when the edges it read hold a cycle, and names
\* every note on it, whatever was written before it read the notes.
CycleVerdict ==
    At("verdict") =>
        /\ reading.cyclic <=> Graph!OnCycle(reading.edges) # {}
        /\ Graph!OnCycle(reading.edges) \subseteq reading.stuck

\* No pair is suggested that was linked when the check began, and no pair is
\* left out but for a path between its notes, on cyclic graphs as on others.
SuggestedUnlinked ==
    At("suggested") =>
        \A n, m \in reading.notes : n # m =>
            /\ {n, m} \in reading.pairs => ~Graph!PathFrom(reading.edges, n, m)
            /\ {n, m} \notin reading.pairs =>
                  Graph!PathFrom(Edges, n, m) \/ Graph!PathFrom(Edges, m, n)
================================================================================
