------------------------------ MODULE MCEmbedding ------------------------------
(* Instances of Embedding for TLC: servers on one model, a migration to another. *)
EXTENDS Embedding, TLC

CONSTANTS s1, s2, d1, old, new

\* `seshat reembed --model new` while servers on the old model keep running.
MCModelOf == [p \in Embedders |-> IF p \in Servers THEN old ELSE new]
================================================================================
