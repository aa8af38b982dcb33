------------------------------- MODULE MCOpening -------------------------------
(* An instance of Opening for TLC: a store of this build, and its reset. *)
EXTENDS Opening

MCFound == <<>>
\* Every process embeds on models of one width.
OneWidth == [p \in Processes |-> 1]
================================================================================
