-------------------------------- MODULE Descent --------------------------------
(***************************************************************************)
(* The graph algorithms of src/seshat/checker.py over supersession edges,  *)
(* each beside a declarative definition of what it is to find.  The        *)
(* checker has to be right on cyclic graphs above all: they are what it is *)
(* there to survive.                                                       *)
(***************************************************************************)
EXTENDS Naturals, FiniteSets

CONSTANT Nodes    \* the ids of notes, a finite set

Predecessors(E, n) == {e[1] : e \in {e \in E : e[2] = n}}
Successors(E, n)   == {e[2] : e \in {e \in E : e[1] = n}}

\* b is in every set that holds what a leads to and is closed under E.
PathFrom(E, a, b) ==
    \A S \in SUBSET Nodes :
        (Successors(E, a) \subseteq S /\ \A n \in S : Successors(E, n) \subseteq S)
            => b \in S

OnCycle(E) == {n \in Nodes : PathFrom(E, n, n)}

\* Mutant of Popped: a node is popped as soon as one edge into it is used up.
PoppedEarly(E, N) ==
    LET after[round \in 0..Cardinality(Nodes)] ==
          IF round = 0 THEN {n \in N : Predecessors(E, n) = {}}
          ELSE LET done == after[round - 1]
               IN  done \cup {n \in Nodes : Predecessors(E, n) \cap done # {}}
    IN  after[Cardinality(Nodes)]

\* check_cycles pops the notes of N nothing leads to, then whatever the edges
\* of the popped no longer hold back.  The order of popping does not matter.
Popped(E, N) ==
    LET after[round \in 0..Cardinality(Nodes)] ==
          IF round = 0 THEN {n \in N : Predecessors(E, n) = {}}
          ELSE LET done == after[round - 1]
               IN  done \cup {n \in Nodes : /\ Predecessors(E, n) # {}
                                            /\ Predecessors(E, n) \subseteq done}
    IN  after[Cardinality(Nodes)]

\* `seen == len(nodes)` is the test; `stuck` is what the finding names.
CycleFound(E, N) == Cardinality(Popped(E, N)) # Cardinality(N)
Stuck(E, N) == N \ Popped(E, N)

\* Mutant of Descendants: shared sets, the one of a node still being walked empty.
DescendantsShared(E, root) ==
    LET closure[depth \in 0..Cardinality(Nodes)] ==
          IF depth = 0 THEN Successors(E, root)
          ELSE LET seen == closure[depth - 1]
               IN  seen \cup UNION {Successors(E, n) : n \in {n \in seen : <<n, root>> \notin E}}
    IN  closure[Cardinality(Nodes)]

\* _reachable, for one root: its successors, theirs, and so on until none is new.
Descendants(E, root) ==
    LET closure[depth \in 0..Cardinality(Nodes)] ==
          IF depth = 0 THEN Successors(E, root)
          ELSE LET seen == closure[depth - 1]
               IN  seen \cup UNION {Successors(E, n) : n \in seen}
    IN  closure[Cardinality(Nodes)]

\* The pairs of N that check_suggested_links goes on to compare.
Unlinked(E, N) ==
    {pair \in {{a, b} : a \in N, b \in N} :
        /\ Cardinality(pair) = 2
        /\ \A a, b \in pair : a # b => b \notin Descendants(E, a)}
================================================================================
