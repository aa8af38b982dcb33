-------------------------------- MODULE MCReaders --------------------------------
(* Instances of Readers for TLC: two servers write, a third process reads. *)
EXTENDS Readers, TLC

CONSTANTS p1, p2, a, b, c, t1, t2

EachOwnProcess == [t \in Threads |-> IF t = t1 THEN p1 ELSE p2]

Symmetry == Permutations(Ids)
================================================================================
