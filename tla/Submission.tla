----------------------------- MODULE Submission -----------------------------
(***************************************************************************)
(* POST /documents as app/services/ingestion.py carries it out for many    *)
(* requests at once: the cache, the in-flight guard, the slot of the rate  *)
(* limiter, the insert and the publish, with every early exit and what it  *)
(* gives back.  Each await is a step.                                      *)
(*                                                                         *)
(* The workers appear as the end they bring to a document and the three    *)
(* side effects after it, in their order and at most once each: that is    *)
(* Ending, which Processing implements too.  A document may be processed   *)
(* although its publish failed: the sweeper finds it.                      *)
(***************************************************************************)
EXTENDS RateLimiter, SummaryCache, FiniteSets

CONSTANTS
    Contents,
    Disruptions,  \* the kinds of failure that happen
    MaxFaults,    \* bound on the number of failures
    MaxRepairs    \* how many writes of the reconcilers are counted

ASSUME SubmissionAssumption ==
    /\ IsFiniteSet(Ids)
    /\ Keys = [user : Users, content : Contents]
    /\ MaxFaults \in Nat /\ MaxRepairs \in Nat
    /\ Disruptions \subseteq {"redis",   \* a call to Redis fails
                          "mongo",   \* a call to MongoDB fails
                          "crash",   \* the API or a worker dies
                          "loss",    \* Redis loses a key, or it expires
                          "reconcile"}  \* no failure: the 20th passes

VARIABLES
    docs,      \* the documents collection; a request mints one id
    reqs,      \* where each request is
    ends,      \* where the worker of a document that has ended is
    faults,    \* failures so far
    repairs    \* counters that the reconcilers have written so far

limiterVars == <<counter, rec, repairs>>

cacheVars == <<cache, guard>>

vars == <<limiterVars, cacheVars, docs, reqs, ends, faults>>

-----------------------------------------------------------------------------
(* State                                                                   *)

\* "active" is queued or processing.
Document == [status    : {"absent", "active", "completed", "failed"},
             fromCache : BOOLEAN,
             summary   : Summary]

Absent == [status |-> "absent", fromCache |-> FALSE, summary |-> NoSummary]

\* What a request is about to await.
Awaits == {"lookup", "fallback", "restoring", "storing", "reserving",
           "reading", "joining", "acquiring", "counting", "refusing",
           "inserting", "publishing", "undoSlot", "undoGuard"}

\* What it is answered: 201; 200 with a document of its own or of the winner;
\* 409; 429; 500 or 503; and nothing, when the API died.
Answers == {"created", "hit", "joined", "settling", "limited", "failed", "lost"}

\* found is the stored summary of a hit, winner the document id of a duplicate.
Request == [pc : {"new"} \cup Awaits \cup Answers, key : Keys, found : Summary,
            winner : Ids \cup {NoId}]

TypeOK ==
    /\ docs \in [Ids -> Document]
    /\ reqs \in [Ids -> Request]
    /\ ends \in [Ids -> {"none", "caching", "releasing", "unguarding"}]
    /\ counter \in [Users -> Nat]
    /\ rec \in [Sweepers -> Pass]
    /\ cache \in [Keys -> Summary]
    /\ guard \in [Keys -> Ids \cup {NoId}]
    /\ faults \in 0..MaxFaults
    /\ repairs \in 0..MaxRepairs + 1

\* What a request is about is chosen before it arrives.
Init ==
    /\ docs = [r \in Ids |-> Absent]
    /\ reqs \in [Ids -> [pc : {"new"}, key : Keys, found : {NoSummary},
                        winner : {NoId}]]
    /\ ends = [r \in Ids |-> "none"]
    /\ counter = [u \in Users |-> 0]
    /\ rec = [s \in Sweepers |-> NoPass]
    /\ cache = [k \in Keys |-> NoSummary]
    /\ guard = [k \in Keys |-> NoId]
    /\ faults = 0
    /\ repairs = 0

Key(r) == reqs[r].key

User(r) == reqs[r].key.user

\* count_active and active_counts_by_user
ActiveDocs(u) == {r \in Ids : User(r) = u /\ docs[r].status = "active"}

ActiveCount == [u \in Users |-> Cardinality(ActiveDocs(u))]

Fault(kind) ==
    kind \in Disruptions /\ faults < MaxFaults /\ faults' = faults + 1

\* Request r goes from one await to the next.
Goes(r, from, to) ==
    reqs[r].pc = from /\ reqs' = [reqs EXCEPT ![r].pc = to]

-----------------------------------------------------------------------------
(* Is it new work?                                                         *)

Arrive(r) ==
    /\ Goes(r, "new", "lookup")
    /\ UNCHANGED <<limiterVars, cacheVars, docs, ends, faults>>

\* GET of the cached summary; an error is a miss.
Lookup(r) ==
    /\ \/ /\ cache[Key(r)] # NoSummary
          /\ reqs[r].pc = "lookup"
          /\ reqs' = [reqs EXCEPT ![r].pc = "storing",
                                  ![r].found = cache[Key(r)]]
          /\ UNCHANGED faults
       \/ cache[Key(r)] = NoSummary /\ Goes(r, "lookup", "fallback")
             /\ UNCHANGED faults
       \/ Fault("redis") /\ Goes(r, "lookup", "fallback")
    /\ UNCHANGED <<limiterVars, cacheVars, docs, ends>>

\* The query of find_completed_by_hash.
Processed(k) ==
    {d \in Ids : Key(d) = k /\ docs[d].status = "completed" /\ ~docs[d].fromCache}

\* The oldest of them in the code, any of them here.
Fallback(r) ==
    /\ \/ /\ reqs[r].pc = "fallback"
          /\ \E d \in Processed(Key(r)) :
                reqs' = [reqs EXCEPT ![r].pc = "restoring",
                                     ![r].found = Generated(d)]
       \/ Processed(Key(r)) = {} /\ Goes(r, "fallback", "reserving")
    /\ UNCHANGED <<limiterVars, cacheVars, docs, ends, faults>>

Restore(r) ==
    /\ Goes(r, "restoring", "storing")
    /\ \/ CacheSet(Key(r), reqs[r].found) /\ UNCHANGED faults
       \/ Fault("redis") /\ UNCHANGED cache
    /\ UNCHANGED <<limiterVars, guard, docs, ends>>

\* A cache hit is a document of its own, completed from the start.
StoreHit(r) ==
    /\ Goes(r, "storing", "hit")
    /\ docs' = [docs EXCEPT ![r] =
                   [status |-> "completed", fromCache |-> TRUE,
                    summary |-> AsDuplicate(reqs[r].found, r)]]
    /\ UNCHANGED <<limiterVars, cacheVars, ends, faults>>

\* SET NX; after an error, which may hide a success, the request goes on.
Reserve(r) ==
    /\ \/ /\ TakeGuard(Key(r), r)
          /\ Goes(r, "reserving", "acquiring")
          /\ UNCHANGED faults \/ Fault("redis")
       \/ /\ guard[Key(r)] # NoId
          /\ Goes(r, "reserving", "reading")
          /\ UNCHANGED <<guard, faults>>
       \/ /\ Fault("redis")
          /\ Goes(r, "reserving", "acquiring")
          /\ UNCHANGED guard
    /\ UNCHANGED <<limiterVars, cache, docs, ends>>

\* GET of the guard that was there; nothing by now counts as no duplicate.
ReadGuard(r) ==
    /\ \/ /\ guard[Key(r)] # NoId
          /\ reqs[r].pc = "reading"
          /\ reqs' = [reqs EXCEPT ![r].pc = "joining",
                                  ![r].winner = guard[Key(r)]]
          /\ UNCHANGED faults
       \/ guard[Key(r)] = NoId /\ Goes(r, "reading", "acquiring")
             /\ UNCHANGED faults
       \/ Fault("redis") /\ Goes(r, "reading", "acquiring")
    /\ UNCHANGED <<limiterVars, cacheVars, docs, ends>>

\* Mutant: instead of 409 the guard is asked again.
Join_Unbounded(r) ==
    /\ LET there == docs[reqs[r].winner].status # "absent"
       IN Goes(r, "joining", IF there THEN "joined" ELSE "reading")
    /\ UNCHANGED <<limiterVars, cacheVars, docs, ends, faults>>

\* Mutant: the id is handed back without a look at the document.
Join_Unchecked(r) ==
    /\ Goes(r, "joining", "joined")
    /\ UNCHANGED <<limiterVars, cacheVars, docs, ends, faults>>

\* 200 with the document the guard named, or 409 when it is not there after
\* SETTLE_ATTEMPTS looks.
Join(r) ==
    /\ LET there == docs[reqs[r].winner].status # "absent"
       IN Goes(r, "joining", IF there THEN "joined" ELSE "settling")
    /\ UNCHANGED <<limiterVars, cacheVars, docs, ends, faults>>

-----------------------------------------------------------------------------
(* New work                                                                *)

Acquire(r) ==
    /\ IF Admits(User(r))
       THEN Increment(User(r)) /\ Goes(r, "acquiring", "inserting")
       ELSE UNCHANGED counter /\ Goes(r, "acquiring", "refusing")
    /\ UNCHANGED <<rec, repairs, cacheVars, docs, ends, faults>>

\* The script raises, perhaps after it ran.
AcquireFails(r) ==
    /\ Fault("redis")
    /\ Goes(r, "acquiring", "counting")
    /\ UNCHANGED counter \/ (Admits(User(r)) /\ Increment(User(r)))
    /\ UNCHANGED <<rec, repairs, cacheVars, docs, ends>>

\* The degraded decision of _acquire_from_mongo.
CountActive(r) ==
    /\ Goes(r, "counting", IF ActiveCount[User(r)] < Limit THEN "inserting"
                           ELSE "refusing")
    /\ UNCHANGED <<limiterVars, cacheVars, docs, ends, faults>>

\* Mutant: the guard is left to its TTL.
Refuse_KeepsGuard(r) ==
    /\ Goes(r, "refusing", "limited")
    /\ UNCHANGED <<limiterVars, cacheVars, docs, ends, faults>>

\* Mutant: a slot is given back that was never taken.
Refuse_FreesSlot(r) ==
    /\ Goes(r, "refusing", "limited")
    /\ DropGuard(Key(r)) /\ Decrement(User(r))
    /\ UNCHANGED <<rec, repairs, cache, docs, ends, faults>>

\* The guard is given back, then 429.
Refuse(r) ==
    /\ Goes(r, "refusing", "limited")
    /\ \/ DropGuard(Key(r)) /\ UNCHANGED faults
       \/ Fault("redis") /\ UNCHANGED guard
    /\ UNCHANGED <<limiterVars, cache, docs, ends>>

Insert(r) ==
    /\ Goes(r, "inserting", "publishing")
    /\ docs' = [docs EXCEPT ![r].status = "active"]
    /\ UNCHANGED <<limiterVars, cacheVars, ends, faults>>

\* insert raises; the document may be there all the same.
InsertFails(r) ==
    /\ Fault("mongo")
    /\ Goes(r, "inserting", "undoSlot")
    /\ UNCHANGED docs \/ docs' = [docs EXCEPT ![r].status = "active"]
    /\ UNCHANGED <<limiterVars, cacheVars, ends>>

\* 201, or an error that undoes the rest but not the insert.
Publish(r) ==
    /\ \/ Goes(r, "publishing", "created") /\ UNCHANGED faults
       \/ Goes(r, "publishing", "undoSlot") /\ Fault("redis")
    /\ UNCHANGED <<limiterVars, cacheVars, docs, ends>>

UndoSlot(r) ==
    /\ Goes(r, "undoSlot", "undoGuard")
    /\ \/ Decrement(User(r)) /\ UNCHANGED faults
       \/ Fault("redis") /\ UNCHANGED counter
    /\ UNCHANGED <<rec, repairs, cacheVars, docs, ends>>

UndoGuard(r) ==
    /\ Goes(r, "undoGuard", "failed")
    /\ \/ DropGuard(Key(r)) /\ UNCHANGED faults
       \/ Fault("redis") /\ UNCHANGED guard
    /\ UNCHANGED <<limiterVars, cache, docs, ends>>

\* The API dies, or MongoDB raises where nothing is undone.
RequestEnds(r) ==
    /\ \/ /\ reqs[r].pc \in Awaits
          /\ reqs' = [reqs EXCEPT ![r].pc = "lost"]
          /\ Fault("crash")
       \/ /\ reqs[r].pc \in {"fallback", "storing", "joining", "counting"}
          /\ reqs' = [reqs EXCEPT ![r].pc = "failed"]
          /\ Fault("mongo")
    /\ UNCHANGED <<limiterVars, cacheVars, docs, ends>>

-----------------------------------------------------------------------------
(* The end of a document                                                   *)

Complete(d) ==
    /\ docs[d].status = "active"
    /\ docs' = [docs EXCEPT ![d].status = "completed",
                            ![d].summary = Generated(d)]
    /\ ends' = [ends EXCEPT ![d] = "caching"]
    /\ UNCHANGED <<limiterVars, cacheVars, reqs, faults>>

\* Mutant: a failed document goes the way of a completed one.
MarkFailed_Caches(d) ==
    /\ docs[d].status = "active"
    /\ docs' = [docs EXCEPT ![d].status = "failed"]
    /\ ends' = [ends EXCEPT ![d] = "caching"]
    /\ UNCHANGED <<limiterVars, cacheVars, reqs, faults>>

MarkFailed(d) ==
    /\ docs[d].status = "active"
    /\ docs' = [docs EXCEPT ![d].status = "failed"]
    /\ ends' = [ends EXCEPT ![d] = "releasing"]
    /\ UNCHANGED <<limiterVars, cacheVars, reqs, faults>>

EndGoes(d, from, to) == ends[d] = from /\ ends' = [ends EXCEPT ![d] = to]

CacheSummary(d) ==
    /\ EndGoes(d, "caching", "releasing")
    /\ \/ CacheSet(Key(d), docs[d].summary) /\ UNCHANGED faults
       \/ Fault("redis") /\ UNCHANGED cache
    /\ UNCHANGED <<limiterVars, guard, docs, reqs>>

\* Mutant: the slot of a failed document is kept.
ReleaseSlot_CompletedOnly(d) ==
    /\ EndGoes(d, "releasing", "unguarding")
    /\ IF docs[d].status = "completed" THEN Decrement(User(d))
       ELSE UNCHANGED counter
    /\ UNCHANGED <<rec, repairs, cacheVars, docs, reqs, faults>>

ReleaseSlot(d) ==
    /\ EndGoes(d, "releasing", "unguarding")
    /\ \/ Decrement(User(d)) /\ UNCHANGED faults
       \/ Fault("redis") /\ UNCHANGED counter
    /\ UNCHANGED <<rec, repairs, cacheVars, docs, reqs>>

ReleaseGuard(d) ==
    /\ EndGoes(d, "unguarding", "none")
    /\ \/ DropGuard(Key(d)) /\ UNCHANGED faults
       \/ Fault("redis") /\ UNCHANGED guard
    /\ UNCHANGED <<limiterVars, cache, docs, reqs>>

WorkerDies(d) ==
    /\ ends[d] # "none"
    /\ Fault("crash")
    /\ ends' = [ends EXCEPT ![d] = "none"]
    /\ UNCHANGED <<limiterVars, cacheVars, docs, reqs>>

-----------------------------------------------------------------------------
(* The reconcilers, and what Redis forgets                                 *)

\* A counter is written or deleted, whether or not it was right.
CountRepair ==
    repairs' = IF repairs > MaxRepairs THEN repairs ELSE repairs + 1

ReconcileStep(s) ==
    /\ "reconcile" \in Disruptions
    /\ \/ Aggregate(s, ActiveCount) /\ UNCHANGED <<counter, repairs>>
       \/ \E u \in Users :
              \/ Compare(s, u) /\ UNCHANGED <<counter, repairs>>
              \/ Repair(s, u) /\ CountRepair
              \/ Scan(s, u) /\ IF counter' = counter THEN UNCHANGED repairs
                                                     ELSE CountRepair
    /\ UNCHANGED <<cacheVars, docs, reqs, ends, faults>>

\* A call raises, which ends the pass.
ReconcileAborts(s) ==
    /\ rec[s] # NoPass
    /\ Fault("redis")
    /\ rec' = [rec EXCEPT ![s] = NoPass]
    /\ UNCHANGED <<counter, repairs, cacheVars, docs, reqs, ends>>

LoseGuard(k) ==
    /\ guard[k] # NoId
    /\ Fault("loss")
    /\ DropGuard(k)
    /\ UNCHANGED <<limiterVars, cache, docs, reqs, ends>>

LoseSummary(k) ==
    /\ cache[k] # NoSummary
    /\ Fault("loss")
    /\ CacheSet(k, NoSummary)
    /\ UNCHANGED <<limiterVars, guard, docs, reqs, ends>>

LoseCounter(u) ==
    /\ counter[u] # 0
    /\ Fault("loss")
    /\ counter' = [counter EXCEPT ![u] = 0]
    /\ UNCHANGED <<rec, repairs, cacheVars, docs, reqs, ends>>

-----------------------------------------------------------------------------
RequestStep(r) ==
    \/ Lookup(r) \/ Fallback(r) \/ Restore(r) \/ StoreHit(r)
    \/ Reserve(r) \/ ReadGuard(r) \/ Join(r)
    \/ Acquire(r) \/ CountActive(r) \/ Refuse(r)
    \/ Insert(r) \/ Publish(r) \/ UndoSlot(r) \/ UndoGuard(r)

WorkerStep(d) ==
    \/ Complete(d) \/ MarkFailed(d)
    \/ CacheSummary(d) \/ ReleaseSlot(d) \/ ReleaseGuard(d)

Failure ==
    \/ \E r \in Ids : \/ AcquireFails(r) \/ InsertFails(r) \/ RequestEnds(r)
                      \/ WorkerDies(r)
    \/ \E s \in Sweepers : ReconcileAborts(s)
    \/ \E k \in Keys : LoseGuard(k) \/ LoseSummary(k)
    \/ \E u \in Users : LoseCounter(u)

\* Every request is answered and every document has ended.
Idle ==
    /\ \A r \in Ids : /\ reqs[r].pc \in Answers
                      /\ docs[r].status # "active" /\ ends[r] = "none"
    /\ UNCHANGED vars

Next ==
    \/ \E r \in Ids : Arrive(r) \/ RequestStep(r) \/ WorkerStep(r)
    \/ \E s \in Sweepers : ReconcileStep(s)
    \/ Failure
    \/ Idle

Spec == Init /\ [][Next]_vars

\* An accepted request is carried on, and the sweepers come round.  Of the
\* workers nothing is assumed: a document may be active for ever.
Fairness ==
    /\ \A r \in Ids : WF_vars(RequestStep(r))
    /\ \A s \in Sweepers : WF_vars(ReconcileStep(s))

FairSpec == Spec /\ Fairness

-----------------------------------------------------------------------------
(* What must hold                                                          *)

\* What occupies a slot of u: an admitted request that has not inserted yet, an
\* active document, and one that has ended and not released its slot yet.
Occupies(r) ==
    \/ reqs[r].pc = "inserting"
    \/ docs[r].status = "active"
    \/ ends[r] \in {"caching", "releasing"}

Holders(u) == {r \in Ids : User(r) = u /\ Occupies(r)}

\* Every early exit gives back what it took and nothing else: until something
\* fails or a reconciler interferes, the counter is exactly what is occupied,
\* never above the limit, and neither a hit nor a duplicate is charged.
SlotsCounted ==
    faults = 0 /\ repairs = 0 =>
        \A u \in Users : /\ counter[u] = Cardinality(Holders(u))
                         /\ counter[u] <= Limit

\* What can happen to the limit: each failure, and each counter that a reconciler
\* writes or deletes, from an old answer or for another user, costs a user at
\* most one more limit's worth of documents, whether the counter is lost, the
\* count in MongoDB decides instead of it ("slower, still correct",
\* docs/failure-handling.md:46), or a slot is given back for a document that
\* stays (ingestion.py:253).
LimitPaid ==
    repairs <= MaxRepairs =>
        \A u \in Users :
            Cardinality(ActiveDocs(u)) <= Limit * (faults + repairs + 1)

\* Without a failure no guard outlives the submission that took it: it names a
\* request on its way to the insert or a document whose end is not over yet, so
\* the next submission of the content is not answered with an orphan.
GuardNamesLive ==
    faults = 0 =>
        \A k \in Keys : LET d == guard[k]
                        IN d # NoId =>
                              /\ Key(d) = k
                              /\ \/ reqs[d].pc \in {"acquiring", "refusing",
                                                     "inserting"}
                                 \/ docs[d].status = "active"
                                 \/ ends[d] # "none"

\* Whatever fails, a document served from the cache names as its origin one that
\* was processed, for the same user and content, and never another copy; the
\* summaries that Redis holds are of such documents.
OriginProcessed ==
    /\ \A r \in Ids : docs[r].fromCache =>
                         docs[r].summary.origin \in Processed(Key(r))
    /\ \A k \in Keys : cache[k] # NoSummary => cache[k].document \in Processed(k)

\* Whatever fails, an answer that carries a document carries one that is there,
\* for the same user and content, its own (201, a hit) or the winner's, and a
\* submission that is turned down or joined has left no document behind.
AnswersHonest ==
    \A r \in Ids :
        LET own == docs[r].status # "absent"
            winner == reqs[r].winner
        IN /\ reqs[r].pc \in {"created", "hit"} => own
           /\ reqs[r].pc \in {"joined", "settling", "limited"} => ~own
           /\ reqs[r].pc \in {"joined", "settling"} =>
                 winner \in Ids \ {r} /\ Key(winner) = Key(r)
           /\ reqs[r].pc = "joined" => docs[winner].status # "absent"

-----------------------------------------------------------------------------
(* The promise it implements                                               *)

\* How far a submission has come, as Admission sees it.
Stage(r) ==
    LET at(pcs) == reqs[r].pc \in pcs
    IN IF Occupies(r) THEN "admitted"
       ELSE IF ends[r] = "unguarding" THEN "closing"
       ELSE CASE at({"joining", "joined", "settling"}) -> "collapsed"
              [] at({"acquiring", "counting"})         -> "carried"
              [] at({"refusing"})                      -> "turnedDown"
              [] at({"limited"})                       -> "refused"
              [] at({"hit"})                           -> "served"
              [] at({"new", "lookup", "fallback", "restoring", "storing",
                     "reserving", "reading"})          -> "asked"
              [] OTHER                                 -> "over"

A == INSTANCE Admission WITH
        key <- [r \in Ids |-> Key(r)],
        stage <- [r \in Ids |-> Stage(r)],
        processed <- {d \in Ids : /\ docs[d].status = "completed"
                                  /\ ~docs[d].fromCache},
        sound <- faults = 0 /\ repairs = 0

\* Whatever the interleaving of the cache, the guard, the slot and the insert,
\* submissions are admitted, collapsed, turned down and served as Admission
\* says: a 429 only at the limit, a duplicate only of something on its way.
ImplementsAdmission == A!Spec

E == INSTANCE Ending WITH
        Docs <- Ids,
        status <- [r \in Ids |-> docs[r].status],
        end <- ends

\* Of the workers no more is assumed than Ending says, which is what Processing
\* implements; and no request touches a document that another one has added.
ImplementsEnding == E!Spec

\* No submission waits for ever, not even for a winner that died before its
\* insert (ingestion.py: SETTLE_ATTEMPTS).  Each id is used once.
Answered == <>[](\A r \in Ids : reqs[r].pc \notin Awaits)

AtRest(u) ==
    \A r \in Ids : User(r) = u =>
        reqs[r].pc \notin Awaits /\ docs[r].status # "active"

\* A crash, a lost reply or a lost key does not consume the capacity of a user
\* for ever, nor does a reconciler that acts on an old answer: the counter of a
\* user that has come to rest goes to zero, whatever documents of others stay
\* active (docs/concurrency.md, the drift).  The one whose documents do matter
\* is the user that the key is read as.
Heals ==
    \A u \in Users :
        <>[](AtRest(u) /\ ActiveDocs(ReadAs[u]) = {}) => <>[](counter[u] = 0)

-----------------------------------------------------------------------------
(* What the documentation says and the code does not                       *)

\* docs/flow.md: a user has at most the limit of documents queued or processing.
\* A repair that ends a pass begun earlier takes slots away that are in use.
WithinLimit == \A u \in Users : Cardinality(ActiveDocs(u)) <= Limit
=============================================================================
