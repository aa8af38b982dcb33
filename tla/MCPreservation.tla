----------------------------- MODULE MCPreservation -----------------------------
(* Instances of Preservation for TLC. *)
EXTENDS Preservation

CONSTANTS p1, page, wall, broken

MCReads == [b \in Bodies |-> CASE b = page -> "full" [] b = wall -> "thin"
                                [] OTHER -> "failed"]
MCExpected == [k \in Keys |-> "desc"]

\* `seshat serve`: its worker and, by the command line's leave, one human.
OneProcessOf == [a \in Actors |-> p1]
================================================================================
