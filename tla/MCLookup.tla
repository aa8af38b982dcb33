-------------------------------- MODULE MCLookup --------------------------------
(* An instance of Lookup for TLC: two processes open a new store and serve it. *)
EXTENDS Lookup

CONSTANTS x, y, z, p1, p2

MCFound == <<>>

\* Two ids a word apart, and one that is two words from each.
MCIds == {<<x, y>>, <<x, z>>, <<z, x>>}

\* A word dropped, a word garbled, a word replaced by another one of the list.
MCMeant == [r \in Requests |->
               CASE r = "dropped" -> <<x>> [] r = "garbled" -> <<"?", y>>
                 [] OTHER -> <<z, y>>]
\* The two processes embed on models of different widths.
TwoWidths == [p \in Processes |-> IF p = p1 THEN 1 ELSE 2]
================================================================================
