------------------------------- MODULE Witnesses -------------------------------
(***************************************************************************)
(* What capture-at-creation promises of a cited target (spec 6.6, 10.3,    *)
(* 10.4), without a queue, a lock, a thread or a transaction: once cited   *)
(* it is waiting for its witness, has it, or was waived by a human, and    *)
(* what was witnessed stays.  A human may bring a witness, or waive one,   *)
(* for a target nobody cited; only a cited one ever waits.  Snapshots      *)
(* implements this.                                                        *)
(***************************************************************************)
CONSTANTS
    Keys,      \* targets
    Bodies,    \* byte strings
    Texts,     \* texts a human may paste
    None

VARIABLES
    cited,     \* targets a note handed over
    fate,      \* where a target stands
    bytes,     \* the bytes held for it
    pasted     \* the text a human pasted for it

vars == <<cited, fate, bytes, pasted>>

Fates == {"none", "pending", "witnessed", "waived"}

Init ==
    /\ cited  = {}
    /\ fate   = [k \in Keys |-> "none"]
    /\ bytes  = [k \in Keys |-> None]
    /\ pasted = [k \in Keys |-> None]

\* A note cites its targets, all at once; what is witnessed need not wait.
Cite(targets) ==
    /\ targets \cap cited = {}
    /\ cited' = cited \cup targets
    /\ fate'  = [k \in Keys |->
                   IF k \in targets /\ fate[k] # "witnessed" THEN "pending" ELSE fate[k]]
    /\ UNCHANGED <<bytes, pasted>>

\* A witness arrives, or one that is there is completed: each half only once.
Witness(k) ==
    /\ fate' = [fate EXCEPT ![k] = "witnessed"]
    /\ \E body \in Bodies \cup {None} :
         /\ bytes[k] # None => body = bytes[k]
         /\ bytes' = [bytes EXCEPT ![k] = body]
    /\ \E text \in Texts \cup {None} :
         /\ pasted[k] # None => text = pasted[k]
         /\ pasted' = [pasted EXCEPT ![k] = text]
    /\ UNCHANGED cited

\* Only a witness of failure, which holds nothing, is given up for another try.
Retry(k) ==
    /\ k \in cited /\ fate[k] = "witnessed"
    /\ bytes[k] = None /\ pasted[k] = None
    /\ fate' = [fate EXCEPT ![k] = "pending"]
    /\ UNCHANGED <<cited, bytes, pasted>>

Waive(k) ==
    /\ fate[k] \in {"none", "pending"}
    /\ fate' = [fate EXCEPT ![k] = "waived"]
    /\ UNCHANGED <<cited, bytes, pasted>>

Next ==
    \/ \E targets \in SUBSET Keys : Cite(targets)
    \/ \E k \in Keys : Witness(k) \/ Retry(k) \/ Waive(k)

Spec == Init /\ [][Next]_vars
================================================================================
