-------------------------------- MODULE MCNotes --------------------------------
(* Instances of Notes for TLC: one writable Store, or two of them. *)
EXTENDS Findings, TLC

CONSTANTS p1, p2, a, b, c, t1, t2

\* Both threads of one server, sharing its lock.
OneProcessOf == [t \in Threads |-> p1]
\* Two servers, each started by an MCP client of its own.
EachOwnProcess == [t \in Threads |-> IF t = t1 THEN p1 ELSE p2]

Symmetry == Permutations(Ids)
SymmetryAll == Permutations(Ids) \cup Permutations(Threads)
================================================================================
