--------------------------------- MODULE Lookup ---------------------------------
(***************************************************************************)
(* Resolving the ids callers supply, by every process that serves a store: *)
(* Store.resolve and _bump_near_miss (src/seshat/store.py), canonicalize,  *)
(* loose_words, word_distance and nearest (src/seshat/ids.py).             *)
(*                                                                         *)
(* resolve holds its process's lock; its SELECTs and the commit of the     *)
(* near_miss row are steps between which other processes write.  No reset  *)
(* happens meanwhile, so the rows are those of the one file.               *)
(***************************************************************************)
EXTENDS Opening, FiniteSets

CONSTANTS
    Words,         \* the BIP-39 list
    WordCount,     \* words of an id
    Radius,        \* RECOVERY_RADIUS
    Requests,      \* near_miss keys: the tokens of what a caller wrote
    Meant          \* the tokens expanded as loose_words does

\* The contents committed to a store are its notes, by id.
ASSUME LookupAssumption ==
    /\ WordCount \in Nat \ {0} /\ Radius \in Nat
    /\ Contents \subseteq [1..WordCount -> Words]
    /\ DOMAIN Meant = Requests
    /\ \A r \in Requests : Meant[r] \in Seq(Words \cup {"?"})
    /\ "?" \notin Words

Rows == [candidate : Contents \cup {None}, distance : 0..Radius \cup {None}]

VARIABLES
    misses,        \* near_miss: one row per request, or None
    call,          \* the resolve each process is in, or None
    given          \* the notes each request was answered with by proximity

lookup == <<misses, call, given>>

LInit ==
    /\ Init
    /\ misses = [r \in Requests |-> None]
    /\ call   = [p \in Processes |-> None]
    /\ given  = [r \in Requests |-> {}]

--------------------------------------------------------------------------------
(* ids.py *)

Least(S) == CHOOSE i \in S : \A j \in S : i <= j

\* Mutant of WordDistance: words compared place by place.
PlaceDistance(a, b) ==
    Cardinality({i \in DOMAIN a \cap DOMAIN b : a[i] # b[i]})
        + IF Len(a) = Len(b) THEN 0 ELSE WordCount

\* Levenshtein over words: the cell of row i, column j from the three before it.
WordDistance(a, b) ==
    LET cell[ij \in (0..Len(a)) \X (0..Len(b))] ==
          LET i == ij[1]  j == ij[2]
          IN  IF i = 0 THEN j
              ELSE IF j = 0 THEN i
              ELSE Least({cell[<<i - 1, j>>] + 1, cell[<<i, j - 1>>] + 1,
                          cell[<<i - 1, j - 1>>] + IF a[i] = b[j] THEN 0 ELSE 1})
    IN  cell[<<Len(a), Len(b)>>]

\* The request read as an id, if all its words are words and their number is right.
Canonical(r) == IF Meant[r] \in [1..WordCount -> Words] THEN Meant[r] ELSE None

\* Mutant of Within: the radius a code of this length cannot correct.
WithinTwo(d) == d <= Radius + 1

Within(d) == d <= Radius

\* nearest: the known ids at the least distance, if that is within the radius.
Nearest(r, known) ==
    LET near == {n \in known : Within(WordDistance(Meant[r], n))}
    IN  {n \in near : \A m \in near :
            WordDistance(Meant[r], n) <= WordDistance(Meant[r], m)}

--------------------------------------------------------------------------------
(* resolve *)

Known(p) == {n \in Contents : Holds(conn[p], [kind |-> "content", of |-> n])}

\* A call by p goes on; nothing else of the lookup changes.
Onward(p, next) ==
    /\ call' = [call EXCEPT ![p] = next]
    /\ UNCHANGED <<vars, misses, given>>

\* The exact SELECT: a hit is the answer, a miss goes on to the cache.
Resolve(p, r) ==
    /\ pc[p] = "serving" /\ call[p] = None
    /\ Canonical(r) \notin Known(p)
    /\ Onward(p, [request |-> r, step |-> "missed"])

\* A cached candidate exists for good: it is the answer.
ReadCache(p) ==
    /\ call[p] # None /\ call[p].step = "missed"
    /\ LET r == call[p].request
       IN  IF misses[r] # None /\ misses[r].candidate # None
           THEN Onward(p, [request |-> r, step |-> "found", row |-> misses[r]])
           ELSE Onward(p, [request |-> r, step |-> "uncached"])

\* One candidate, several at the one distance, or none within the radius.
Outcome(r, near) ==
    IF near = {} THEN [candidate |-> None, distance |-> None]
    ELSE LET n == CHOOSE n \in near : TRUE
         IN  [candidate |-> IF Cardinality(near) = 1 THEN n ELSE None,
              distance  |-> WordDistance(Meant[r], n)]

Scan(p) ==
    /\ call[p] # None /\ call[p].step = "uncached"
    /\ LET r == call[p].request
       IN  Onward(p, [request |-> r, step |-> "found",
                      row |-> Outcome(r, Nearest(r, Known(p)))])

\* Mutant of Upsert: the distance of the row that is there is kept.
UpsertCandidate(r, row) ==
    misses' = [misses EXCEPT ![r] = IF @ = None THEN row
                                    ELSE [@ EXCEPT !.candidate = row.candidate]]

\* INSERT ... ON CONFLICT DO UPDATE; hits are not counted here.
Upsert(r, row) == misses' = [misses EXCEPT ![r] = row]

\* _bump_near_miss, then the answer: the candidate, flagged, or an error.  (It
\* returns first in a read_only Store, which no process of this module has: such a
\* one answers from a scan as these do, and leaves no row.)
Bump(p) ==
    /\ call[p] # None /\ call[p].step = "found"
    /\ LET r == call[p].request  row == call[p].row
       IN  /\ Upsert(r, row)
           /\ given' = [given EXCEPT ![r] = @ \cup ({row.candidate} \ {None})]
    /\ call' = [call EXCEPT ![p] = None]
    /\ UNCHANGED vars

--------------------------------------------------------------------------------

\* The store's other steps: the lock keeps them out of a call of their process.
\* That a process ends is Die, with or without a call in hand.
Store(p) ==
    /\ call[p] = None
    /\ \/ OpenStep(p) \/ Restart(p)
       \/ \E n \in Contents : Write(p, n)
    /\ UNCHANGED lookup

Die(p) ==
    /\ Crash(p)
    /\ call' = [call EXCEPT ![p] = None]
    /\ UNCHANGED <<misses, given>>

Looking(p) == (\E r \in Requests : Resolve(p, r)) \/ ReadCache(p) \/ Scan(p) \/ Bump(p)

LNext == \E p \in Processes : Store(p) \/ Die(p) \/ Looking(p)

lvars == <<vars, lookup>>

\* An opening that began goes on, and a client starts its server again.
LSpec ==
    /\ LInit /\ [][LNext]_lvars
    /\ \A p \in Processes :
         WF_lvars((OpenStep(p) \/ Restart(p)) /\ UNCHANGED lookup)

--------------------------------------------------------------------------------
(* Properties. *)

\* Two processes that open a new store at a time get in each other's way but
\* not for ever: unless one is killed over it, both come to serve.
AllServe ==
    [](crashes = 0) =>
        \A p \in Processes : pc[p] \in {"checked", "failed"} ~> pc[p] = "serving"

\* What a near_miss row says is so: its candidate is a note at that distance,
\* and a row with a distance only stands for several notes at it.
RowsTellTheTruth ==
    \A r \in Requests : misses[r] # None =>
        LET notes == {n \in Contents : path # None
                          /\ Holds(path, [kind |-> "content", of |-> n])}
            apart(d) == {n \in notes : WordDistance(Meant[r], n) = d}
            row   == misses[r]
        IN  IF row.candidate # None THEN row.candidate \in apart(row.distance)
            ELSE row.distance # None => Cardinality(apart(row.distance)) > 1

\* A corrupted id is never corrected to two different notes, in any process and
\* at any time; only a note that gets the requested id itself may differ.
SameCorrection ==
    \A r \in Requests : Cardinality(given[r] \ {Canonical(r)}) <= 1

\* a with the word at i replaced, dropped, or one put in before it.
Edited(a) ==
    LET word == Words \cup {"?"}
    IN  {[a EXCEPT ![i] = w] : i \in DOMAIN a, w \in word}
        \cup {SubSeq(a, 1, i - 1) \o SubSeq(a, i + 1, Len(a)) : i \in DOMAIN a}
        \cup {SubSeq(a, 1, i) \o <<w>> \o SubSeq(a, i + 1, Len(a)) :
                 i \in 0..Len(a), w \in word}

\* The candidates of a request that is no note's id are exactly the notes that
\* one word replaced, dropped or added turns into it: what nobody typed almost
\* right is never recovered, and what somebody did always is.
OneEditRecovered ==
    \A p \in Processes :
        (call[p] # None /\ call[p].step = "uncached") =>
            LET meant == Meant[call[p].request]
            IN  meant \notin Known(p) =>
                  Nearest(call[p].request, Known(p))
                      = {n \in Known(p) : meant \in Edited(n)}
================================================================================
