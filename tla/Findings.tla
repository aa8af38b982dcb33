-------------------------------- MODULE Findings --------------------------------
(***************************************************************************)
(* The findings the checker (src/seshat/checker.py) draws from the scores  *)
(* of direct edges, against the pool retrieval draws from the same view:   *)
(* by the maximum over its edges a note may stay in the pool although one  *)
(* of them retracts it, or on the word of a note that is retracted itself. *)
(***************************************************************************)
EXTENDS Notes

\* _out, and its two sides of theta.
Out(n)   == {s \in Supersession : s.old = n}

\* Mutant of Above: a score of exactly theta counted on the other side.
AboveStrictly(n) == {s \in Out(n) : s.retained > Theta}

Above(n) == {s \in Out(n) : s.retained >= Theta}
Below(n) == {s \in Out(n) : s.retained < Theta}

Retracted == {s.old : s \in {s \in Supersession : s.retained = 0}}

SelfSupersession == {s.old : s \in {s \in assessments : s.old = s.new}}

ConflictingFork == {n \in notes : Above(n) # {} /\ Below(n) # {}}

\* <<n, m>>: n is retracted, m asserted it and nothing has superseded m.
OrphanedRetraction ==
    {<<s.old, s.new>> : s \in {s \in Supersession :
        s.old \in Retracted /\ s \in Above(s.old) /\ Out(s.new) = {}}}

DeadJustification ==
    {n \in notes : Above(n) # {} /\ \A s \in Above(n) : s.new \in Retracted}

\* <<a, b, c>>: c retracts b, which retracts a.
DoubleRetraction ==
    {<<d[1].old, d[1].new, d[2].new>> : d \in {d \in Supersession \X Supersession :
        d[1].retained = 0 /\ d[2].retained = 0 /\ d[2].old = d[1].new}}

\* The notes a review of the findings leads to.
Reported ==
    SelfSupersession \cup ConflictingFork \cup DeadJustification
        \cup {o[1] : o \in OrphanedRetraction} \cup {o[2] : o \in OrphanedRetraction}
        \cup {d[1] : d \in DoubleRetraction}

--------------------------------------------------------------------------------
(* Properties. *)

\* Nothing questionable is served in silence.  A note retrieval serves, or
\* withholds, on a disputed ground is among the findings: one that is pooled
\* though an edge retracts it, one whose every support is retracted, one that
\* stands unsuperseded on a retracted note's content, and one withheld on the
\* word of a note that is itself retracted.
PoolAccounted ==
    \A n \in notes \ Reported :
        /\ InPool(n) /\ Out(n) # {} =>
              n \notin Retracted /\ \E s \in Above(n) : s.new \notin Retracted
        /\ Heads(n) = {n} =>
              \A s \in Supersession : s.new = n /\ s.old \in Retracted => s.retained < Theta
        /\ ~InPool(n) => \A s \in Out(n) : s.retained = 0 => s.new \notin Retracted
================================================================================
