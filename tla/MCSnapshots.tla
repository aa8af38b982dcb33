------------------------------ MODULE MCSnapshots ------------------------------
(* Instances of Snapshots for TLC: one process or two, one key or two. *)
EXTENDS Snapshots, TLC

CONSTANTS p1, p2, page, wall, broken

\* A body that reads well, a paywall interstitial, one extract() chokes on.
MCReads == [b \in Bodies |-> CASE b = page -> "full" [] b = wall -> "thin"
                                [] OTHER -> "failed"]
MCExpected == [k \in Keys |-> "desc"]

\* Every thread in one process, sharing its lock.
OneProcessOf == [a \in Actors |-> p1]
\* `seshat serve` runs the worker, `seshat review` serves every human.
ServeAndReview == [a \in Actors |-> IF a \in Workers THEN p1 ELSE p2]

Symmetry == Permutations(Workers) \cup Permutations(Humans)
================================================================================
