---------------------------- MODULE RateLimiter ----------------------------
(***************************************************************************)
(* The counters of app/services/ratelimit.py, one for each user, as the    *)
(* two Lua scripts and the reconcilers move them.  These are parts of      *)
(* steps: the module that extends this one says who takes them and when.   *)
(* A counter without a key in Redis is 0.                                  *)
(***************************************************************************)
EXTENDS Integers

CONSTANTS
    Users,
    ReadAs,    \* the user id that the scan of reconcile reads from a user's key
    Sweepers,  \* one in each worker process
    Limit      \* MAX_ACTIVE_DOCS_PER_USER

ASSUME LimitAssumption == Limit \in Nat \ {0}

\* What follows the last ":" of an id (rsplit), which is the id itself if it has
\* none: user "b" is read as "b", user "x:b" as "b", whether or not a user has
\* that id.
ASSUME ReadAsAssumption ==
    /\ DOMAIN ReadAs = Users
    /\ \A u \in Users : ReadAs[u] \in Users => ReadAs[ReadAs[u]] = ReadAs[u]

VARIABLES
    counter,   \* ratelimit:active:<user>
    rec        \* the pass of reconcile each sweeper is in

\* truth is the answer of the aggregation; look are the users of it whose
\* counter is still to be compared, repair the one whose counter differed, and
\* keys the users whose key has not been scanned.
Pass == [truth : [Users -> Nat], look : SUBSET Users, repair : SUBSET Users,
         keys : SUBSET Users]

NoPass == [truth |-> [u \in Users |-> 0], look |-> {}, repair |-> {},
           keys |-> {}]

-----------------------------------------------------------------------------
(* The scripts, each one step of Redis                                     *)

\* Mutant: the request is counted before the comparison.
Admits_Counted(u) == counter[u] + 1 < Limit

Admits(u) == counter[u] < Limit

Increment(u) == counter' = [counter EXCEPT ![u] = @ + 1]

\* Mutant: DECR without a look at the value.
Decrement_BelowZero(u) == counter' = [counter EXCEPT ![u] = @ - 1]

\* Never below zero.
Decrement(u) == counter' = [counter EXCEPT ![u] = IF @ = 0 THEN 0 ELSE @ - 1]

-----------------------------------------------------------------------------
(* Reconcile                                                               *)

\* The answer has the users with active documents only.
Listed(truth) == {u \in Users : truth[u] # 0}

\* active is the number of active documents of each user.
Aggregate(s, active) ==
    /\ rec[s] = NoPass
    /\ rec' = [rec EXCEPT ![s] = [truth |-> active, look |-> Listed(active),
                                  repair |-> {}, keys |-> Users]]

\* What GET tells of a user of the answer.
Differs(s, u) == counter[u] # rec[s].truth[u]

Compare(s, u) ==
    /\ rec[s].repair = {}
    /\ u \in rec[s].look
    /\ rec' = [rec EXCEPT ![s].look = @ \ {u},
                          ![s].repair = IF Differs(s, u) THEN {u} ELSE {}]

\* SET, which does not look at what the counter is by now.
Repair(s, u) ==
    /\ u \in rec[s].repair
    /\ counter' = [counter EXCEPT ![u] = rec[s].truth[u]]
    /\ rec' = [rec EXCEPT ![s].repair = {}]

\* Mutant: nothing is deleted while anybody has active documents.
Unlisted_Nobody(s, u) == Listed(rec[s].truth) = {}

\* The user that the key is read as is not in the answer.
Unlisted(s, u) == ReadAs[u] \notin Listed(rec[s].truth)

\* The pass with a key less to scan; one that is through is forgotten.
Scanned(pass, u) ==
    IF pass.keys = {u} THEN NoPass ELSE [pass EXCEPT !.keys = @ \ {u}]

\* One key of the scan: it is deleted, whatever it holds by now.  SCAN returns a
\* key that is there all the time and perhaps one that comes later, so nothing
\* but the DELETE is a step of its own; it leaves an absent key alone.
Scan(s, u) ==
    /\ rec[s].look = {} /\ rec[s].repair = {}
    /\ u \in rec[s].keys
    /\ counter' = IF Unlisted(s, u) THEN [counter EXCEPT ![u] = 0] ELSE counter
    /\ rec' = [rec EXCEPT ![s] = Scanned(@, u)]
=============================================================================
