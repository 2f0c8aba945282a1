---------------------------- MODULE SummaryCache ----------------------------
(***************************************************************************)
(* app/services/cache.py: summaries by user and content, and the guard     *)
(* that marks a content of a user as in flight.  These are parts of steps: *)
(* the module that extends this one says who takes them and when.          *)
(***************************************************************************)
CONSTANTS
    Keys,        \* pairs of a user and a content
    Ids,         \* document ids
    NoId         \* None

ASSUME NoIdAssumption == NoId \notin Ids

VARIABLES
    cache,       \* cache:summary:<user>:<hash>
    guard        \* inflight:<user>:<hash>

\* A summary names the document it belongs to, and the document that was
\* processed when that is another one.
Summary == [document : Ids \cup {NoId}, origin : Ids \cup {NoId}]

NoSummary == [document |-> NoId, origin |-> NoId]

Generated(id) == [document |-> id, origin |-> NoId]

\* Mutant: the duplicate names itself.
AsDuplicate_Self(summary, id) == [document |-> id, origin |-> id]

\* A copy of a copy still points at the document that was processed.
AsDuplicate(summary, id) ==
    [document |-> id,
     origin |-> IF summary.origin # NoId THEN summary.origin
                ELSE summary.document]

CacheSet(k, summary) == cache' = [cache EXCEPT ![k] = summary]

\* SET NX succeeds.
TakeGuard(k, id) ==
    /\ guard[k] = NoId
    /\ guard' = [guard EXCEPT ![k] = id]

\* DELETE, whoever took it.
DropGuard(k) == guard' = [guard EXCEPT ![k] = NoId]
=============================================================================
