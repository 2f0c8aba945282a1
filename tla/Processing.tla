---------------------------- MODULE Processing ----------------------------
(***************************************************************************)
(* The processing half of the service: the stream and its consumer group,  *)
(* the delay queue, and the worker processes of app/workers, each of them  *)
(* a consume loop, the tasks it starts and a sweeper.  The API appears as  *)
(* the insert and the publish that end POST /documents.                    *)
(*                                                                         *)
(* Steps are the awaits of the code: between two of them any other process *)
(* may run, a process may die, and a call to Redis or MongoDB may fail.    *)
(* What happens is of the kinds in Disruptions, and a failure is charged   *)
(* to the budget MaxFaults.  The order of the stream is abstracted to a    *)
(* set, and the limits of 100 rows or members per sweep are not reached.   *)
(* What comes before the insert, what the API undoes after a failure, and  *)
(* the reconcile of every 20th pass touch only the counters, the cache and *)
(* the guards: see Submission.                                             *)
(***************************************************************************)
EXTENDS Documents, FiniteSets, Functions

CONSTANTS
    Docs, NoDoc,
    Entries,       \* stream entry ids; an id is reused once nothing names it
    NoEntry,
    Slots,         \* places for the jobs of one worker, 2 * Concurrency of them
    Concurrency,   \* WORKER_CONCURRENCY
    MaxAttempts,   \* MAX_ATTEMPTS
    Disruptions,   \* the kinds of failure and of shutdown that happen
    MaxFaults      \* bound on the number of failures

ASSUME ProcessingAssumption ==
    /\ NoDoc \notin Docs
    /\ NoEntry \notin Entries
    /\ Concurrency \in Nat \ {0}
    /\ MaxAttempts \in Nat \ {0}
    /\ MaxFaults \in Nat
    /\ Disruptions \subseteq {"api",     \* a request dies or cannot publish
                          "redis",   \* a call of a worker to Redis fails
                          "mongo",   \* a call of a task to MongoDB fails
                          "loss",    \* Redis loses data or a reply
                          "slow",    \* a job outlives its lease
                          "crash",   \* a worker process is killed
                          "stop"}    \* a worker gets SIGTERM, which is no failure

VARIABLES
    docs,      \* the documents collection
    api,       \* where the request that submits a document is
    entries,   \* the stream and the pending list of its one consumer group
    delayed,   \* the retry sorted set: the attempt that failed, 0 if not in it
    proc,      \* life of each worker process
    jobs,      \* what each worker holds in memory
    sweep,     \* the sweeper inside each worker
    effects,   \* the Redis side effects of ending a document
    faults     \* failures so far

vars == <<docs, api, entries, delayed, proc, jobs, sweep, effects, faults>>

-----------------------------------------------------------------------------
(* State                                                                   *)

\* A job is an entry the worker has read (buffered), is claiming (loading), has
\* claimed and cannot start yet (claimed), or runs in a task (InTask).
InTask == {"running", "delaying", "caching", "releasing", "unguarding",
           "acking"}

\* Jobs the consume loop itself is busy with.
InLoop == {"loading", "claimed", "dropping"}

Job == [pc      : {"free", "buffered"} \cup InLoop \cup InTask,
        entry   : Entries \cup {NoEntry},
        doc     : Docs \cup {NoDoc},
        attempt : Nat]

NoJob == [pc |-> "free", entry |-> NoEntry, doc |-> NoDoc, attempt |-> 0]

NoJobs == [s \in Slots |-> NoJob]

Entry == [doc : Docs \cup {NoDoc}, state : {"free", "queued", "pending"}]

FreeEntry == [doc |-> NoDoc, state |-> "free"]

\* rows are the expired leases found and not reset yet, 0 for none; todo are
\* the documents still to be published in this stage of the pass.
Sweep == [rows : [Docs -> Nat], todo : SUBSET Docs]

NoRows == [d \in Docs |-> 0]

Resting == [rows |-> NoRows, todo |-> {}]

Effects == [cached : BOOLEAN,          \* the summary was put in the cache
            slot   : Nat,              \* times a worker released the slot
            guard  : Nat]              \* times a worker released the guard

NoEffects == [cached |-> FALSE, slot |-> 0, guard |-> 0]

TypeOK ==
    /\ docs \in [Docs -> Document]
    /\ api \in [Docs -> {"new", "inserted", "done"}]
    /\ entries \in [Entries -> Entry]
    /\ delayed \in [Docs -> Nat]
    /\ proc \in [Workers -> {"new", "up", "stopping", "draining", "dead",
                             "torn"}]
    /\ jobs \in [Workers -> [Slots -> Job]]
    /\ sweep \in [Workers -> Sweep]
    /\ effects \in [Docs -> Effects]
    /\ faults \in 0..MaxFaults

Init ==
    /\ docs = [d \in Docs |-> Absent]
    /\ api = [d \in Docs |-> "new"]
    /\ entries = [e \in Entries |-> FreeEntry]
    /\ delayed = [d \in Docs |-> 0]
    /\ proc = [w \in Workers |-> "new"]
    /\ jobs = [w \in Workers |-> NoJobs]
    /\ sweep = [w \in Workers |-> Resting]
    /\ effects = [d \in Docs |-> NoEffects]
    /\ faults = 0

Alive(w) == proc[w] \in {"up", "stopping", "draining"}

At(w, s, pcs) == jobs[w][s].pc \in pcs

\* The consume loop is between two batches.
LoopIdle(w) == \A s \in Slots : ~At(w, s, InLoop \cup {"buffered"})

\* The loop works through its batch one entry at a time.
LoopFree(w) == \A s \in Slots : ~At(w, s, InLoop)

Referenced(e) == \E w \in Workers, s \in Slots : jobs[w][s].entry = e

Unused(e) == entries[e].state = "free" /\ ~Referenced(e)

Fault(kind) ==
    kind \in Disruptions /\ faults < MaxFaults /\ faults' = faults + 1

\* Somebody is left to do the work: an operator or Docker keeps one running.
SpareWorker(w) == \E v \in Workers \ {w} : proc[v] \in {"new", "up"}

Goto(w, s, pc) == jobs' = [jobs EXCEPT ![w][s].pc = pc]

\* XADD
AddEntry(d, e) ==
    /\ Unused(e)
    /\ entries' = [entries EXCEPT ![e] = [doc |-> d, state |-> "queued"]]

\* XACK: an id that is not pending is ignored.
Acked(es, ids) ==
    [e \in Entries |-> IF e \in ids /\ es[e].state = "pending" THEN FreeEntry
                       ELSE es[e]]

-----------------------------------------------------------------------------
(* The request that submits a document                                     *)

Insert(d) ==
    /\ api[d] = "new"
    /\ api' = [api EXCEPT ![d] = "inserted"]
    /\ docs' = [docs EXCEPT ![d] = Inserted]
    /\ UNCHANGED <<entries, delayed, proc, jobs, sweep, effects, faults>>

\* insert raises; the document may be there all the same.
InsertFails(d) ==
    /\ api[d] = "new"
    /\ Fault("api")
    /\ api' = [api EXCEPT ![d] = "done"]
    /\ UNCHANGED docs \/ docs' = [docs EXCEPT ![d] = Inserted]
    /\ UNCHANGED <<entries, delayed, proc, jobs, sweep, effects>>

Publish(d, e) ==
    /\ api[d] = "inserted"
    /\ AddEntry(d, e)
    /\ api' = [api EXCEPT ![d] = "done"]
    /\ UNCHANGED <<docs, delayed, proc, jobs, sweep, effects, faults>>

\* XADD raises; the entry may have been added all the same, and the document
\* stays where it is.
PublishFails(d) ==
    /\ api[d] = "inserted"
    /\ Fault("api")
    /\ api' = [api EXCEPT ![d] = "done"]
    /\ UNCHANGED entries \/ \E e \in Entries : AddEntry(d, e)
    /\ UNCHANGED <<docs, delayed, proc, jobs, sweep, effects>>

\* The API process dies inside the request.
RequestDies(d) ==
    /\ api[d] = "inserted"
    /\ Fault("api")
    /\ api' = [api EXCEPT ![d] = "done"]
    /\ UNCHANGED <<docs, entries, delayed, proc, jobs, sweep, effects>>

-----------------------------------------------------------------------------
(* The consume loop                                                        *)

Start(w) ==
    /\ proc[w] = "new"
    /\ proc' = [proc EXCEPT ![w] = "up"]
    /\ UNCHANGED <<docs, api, entries, delayed, jobs, sweep, effects, faults>>

\* The entries of batch, one per slot of its domain, become pending and are
\* buffered in w.
Deliver(w, batch) ==
    /\ entries' = [e \in Entries |->
                      IF e \in Range(batch)
                      THEN [entries[e] EXCEPT !.state = "pending"]
                      ELSE entries[e]]
    /\ jobs' = [jobs EXCEPT ![w] = [s \in Slots |->
                   IF s \in DOMAIN batch
                   THEN [NoJob EXCEPT !.pc = "buffered", !.entry = batch[s],
                                      !.doc = entries[batch[s]].doc]
                   ELSE jobs[w][s]]]

FreeSlots(w) == {s \in Slots : At(w, s, {"free"})}

\* Nonempty batches of at most Concurrency of the given entries.
Batches(w, ids) ==
    UNION {Injection(T, ids) : T \in {T \in SUBSET FreeSlots(w) :
                                      Cardinality(T) \in 1..Concurrency}}

\* Mutant: the loop does not look at the stop flag.
CallReturns_NoStop(w) ==
    /\ proc[w] \in {"up", "stopping"}
    /\ LoopIdle(w)
    /\ UNCHANGED proc

\* A stopping loop reads no more after the call it is in.
CallReturns(w) ==
    /\ proc[w] \in {"up", "stopping"}
    /\ LoopIdle(w)
    /\ proc' = [proc EXCEPT ![w] = IF @ = "up" THEN "up" ELSE "draining"]

QueuedEntries == {e \in Entries : entries[e].state = "queued"}

PendingEntries == {e \in Entries : entries[e].state = "pending"}

\* XREADGROUP returns as many new entries as there are, up to Concurrency.
Read(w) ==
    /\ CallReturns(w)
    /\ \E batch \in Batches(w, QueuedEntries) :
          /\ \/ Cardinality(DOMAIN batch) = Concurrency
             \/ Range(batch) = QueuedEntries
          /\ Deliver(w, batch)
    /\ UNCHANGED <<docs, api, delayed, sweep, effects, faults>>

\* XAUTOCLAIM, every tenth cycle: entries pending longer than a lease.
AutoClaim(w) ==
    /\ CallReturns(w)
    /\ \E batch \in Batches(w, {e \in PendingEntries : ~Referenced(e)}) :
          Deliver(w, batch)
    /\ UNCHANGED <<docs, api, delayed, sweep, effects, faults>>

\* The same when a job on the entry, perhaps one of w, took longer than that.
AutoClaimOutrun(w) ==
    /\ CallReturns(w)
    /\ Fault("slow")
    /\ \E batch \in Batches(w, PendingEntries) :
          /\ \E e \in Range(batch) : Referenced(e)
          /\ Deliver(w, batch)
    /\ UNCHANGED <<docs, api, delayed, sweep, effects>>

\* The read blocks to its end, or raises, which the loop survives; a stopping
\* loop ends.
ReadReturnsNothing(w) ==
    /\ proc[w] = "stopping"
    /\ CallReturns(w)
    /\ UNCHANGED <<docs, api, entries, delayed, jobs, sweep, effects, faults>>

\* The entries were delivered but the reply was lost.
ReadReplyLost(w, e) ==
    /\ CallReturns(w)
    /\ Fault("loss")
    /\ e \in QueuedEntries
    /\ entries' = [entries EXCEPT ![e].state = "pending"]
    /\ UNCHANGED <<docs, api, delayed, jobs, sweep, effects>>

\* The first await of claim: the compare-and-set.
Claim(w, s) ==
    /\ At(w, s, {"buffered"})
    /\ LoopFree(w)
    /\ Claimable(docs[jobs[w][s].doc])
    /\ docs' = [docs EXCEPT ![jobs[w][s].doc] = Claimed(@, w)]
    /\ Goto(w, s, "loading")
    /\ UNCHANGED <<api, entries, delayed, proc, sweep, effects, faults>>

\* Mutant: the entry of a lost claim is not acked.
ClaimLost_NoAck(w, s) ==
    /\ At(w, s, {"buffered"})
    /\ LoopFree(w)
    /\ ~Claimable(docs[jobs[w][s].doc])
    /\ jobs' = [jobs EXCEPT ![w][s] = NoJob]
    /\ UNCHANGED <<docs, api, entries, delayed, proc, sweep, effects, faults>>

ClaimLost(w, s) ==
    /\ At(w, s, {"buffered"})
    /\ LoopFree(w)
    /\ ~Claimable(docs[jobs[w][s].doc])
    /\ Goto(w, s, "dropping")
    /\ UNCHANGED <<docs, api, entries, delayed, proc, sweep, effects, faults>>

\* The second await of claim: the document is read again, as it is by now.
Load(w, s) ==
    /\ At(w, s, {"loading"})
    /\ jobs' = [jobs EXCEPT ![w][s].pc = "claimed",
                            ![w][s].attempt = docs[jobs[w][s].doc].attempts]
    /\ UNCHANGED <<docs, api, entries, delayed, proc, sweep, effects, faults>>

\* The semaphore is acquired and the task created.
StartTask(w, s) ==
    /\ At(w, s, {"claimed"})
    /\ Cardinality({t \in Slots : At(w, t, InTask)}) < Concurrency
    /\ Goto(w, s, "running")
    /\ UNCHANGED <<docs, api, entries, delayed, proc, sweep, effects, faults>>

-----------------------------------------------------------------------------
(* One task: the pipeline and its settlement                               *)

\* The compare-and-set that ends a job, the whole of _transition: the document
\* becomes doc if the worker still holds it.
Settle(w, s, doc, next) ==
    /\ At(w, s, {"running"})
    /\ HeldBy(docs[jobs[w][s].doc], w)
    /\ docs' = [docs EXCEPT ![jobs[w][s].doc] = doc]
    /\ Goto(w, s, next)
    /\ UNCHANGED <<api, entries, delayed, proc, sweep, effects, faults>>

Complete(w, s) ==
    LET job == jobs[w][s]
    IN Settle(w, s, Completed(docs[job.doc], job.attempt), "caching")

\* Mutant: a last attempt too many.
ScheduleRetry_OneMore(w, s) ==
    LET job == jobs[w][s]
    IN /\ job.attempt <= MaxAttempts
       /\ Settle(w, s, RetryScheduled(docs[job.doc], job.attempt), "delaying")

\* Every error of the summarizer is transient, so only the attempts decide.
ScheduleRetry(w, s) ==
    LET job == jobs[w][s]
    IN /\ job.attempt < MaxAttempts
       /\ Settle(w, s, RetryScheduled(docs[job.doc], job.attempt), "delaying")

\* Mutant: the last attempt is not made.
MarkFailed_OneEarly(w, s) ==
    LET job == jobs[w][s]
    IN /\ job.attempt + 1 >= MaxAttempts
       /\ Settle(w, s, MarkedFailed(docs[job.doc], job.attempt), "releasing")

MarkFailed(w, s) ==
    LET job == jobs[w][s]
    IN /\ job.attempt >= MaxAttempts
       /\ Settle(w, s, MarkedFailed(docs[job.doc], job.attempt), "releasing")

\* Mutant: the slot is released whether or not the compare-and-set matched.
LoseLease_Releases(w, s) ==
    /\ At(w, s, {"running"})
    /\ ~HeldBy(docs[jobs[w][s].doc], w)
    /\ Goto(w, s, "releasing")
    /\ UNCHANGED <<docs, api, entries, delayed, proc, sweep, effects, faults>>

\* The compare-and-set matched nothing; the result is dropped.
LoseLease(w, s) ==
    /\ At(w, s, {"running"})
    /\ ~HeldBy(docs[jobs[w][s].doc], w)
    /\ Goto(w, s, "acking")
    /\ UNCHANGED <<docs, api, entries, delayed, proc, sweep, effects, faults>>

\* An error escapes the pipeline: MongoDB failed before the write, or after it
\* and only the reply was lost.
JobError(w, s) ==
    /\ \/ At(w, s, {"running", "delaying", "caching"})
       \/ At(w, s, {"releasing"}) /\ docs[jobs[w][s].doc].status = "failed"
    /\ Fault("mongo")
    /\ Goto(w, s, "acking")
    /\ UNCHANGED <<docs, api, entries, delayed, proc, sweep, effects>>

\* ZADD, which replaces the due time of a member; a Redis error is logged.
Delay(w, s) ==
    /\ At(w, s, {"delaying"})
    /\ \/ delayed' = [delayed EXCEPT ![jobs[w][s].doc] = jobs[w][s].attempt]
          /\ UNCHANGED faults
       \/ Fault("redis") /\ UNCHANGED delayed
    /\ Goto(w, s, "acking")
    /\ UNCHANGED <<docs, api, entries, proc, sweep, effects>>

\* The three Redis side effects, each of which swallows a Redis error.
SideEffect(w, s, from, effect, to) ==
    /\ At(w, s, {from})
    /\ \/ effects' = [effects EXCEPT ![jobs[w][s].doc] = effect]
          /\ UNCHANGED faults
       \/ Fault("redis") /\ UNCHANGED effects
    /\ Goto(w, s, to)
    /\ UNCHANGED <<docs, api, entries, delayed, proc, sweep>>

\* Mutant: the slot is released for failed documents only.
CacheSummary_SkipsSlot(w, s) ==
    LET now == effects[jobs[w][s].doc]
    IN SideEffect(w, s, "caching", [now EXCEPT !.cached = TRUE], "unguarding")

CacheSummary(w, s) ==
    LET now == effects[jobs[w][s].doc]
    IN SideEffect(w, s, "caching", [now EXCEPT !.cached = TRUE], "releasing")

ReleaseSlot(w, s) ==
    LET now == effects[jobs[w][s].doc]
    IN SideEffect(w, s, "releasing", [now EXCEPT !.slot = @ + 1], "unguarding")

ReleaseGuard(w, s) ==
    LET now == effects[jobs[w][s].doc]
    IN SideEffect(w, s, "unguarding", [now EXCEPT !.guard = @ + 1], "acking")

\* The ack of a finished task, and of an entry whose claim was lost.
Ack(w, s) ==
    /\ At(w, s, {"acking", "dropping"})
    /\ entries' = Acked(entries, {jobs[w][s].entry})
    /\ jobs' = [jobs EXCEPT ![w][s] = NoJob]
    /\ UNCHANGED <<docs, api, delayed, proc, sweep, effects, faults>>

-----------------------------------------------------------------------------
(* The sweeper                                                             *)

\* A stage that finds nothing changes nothing, so a pass shows only the stages
\* that find something.  The pass under way when SIGTERM arrives goes on.
StageBegins(w, rows, todo) ==
    /\ Alive(w)
    /\ sweep[w] = Resting
    /\ [rows |-> rows, todo |-> todo] # Resting
    /\ sweep' = [sweep EXCEPT ![w] = [rows |-> rows, todo |-> todo]]

SweepFind(w) ==
    LET rows == [d \in Docs |-> IF LeaseExpired(docs[d])
                                THEN docs[d].attempts ELSE 0]
    IN /\ StageBegins(w, rows, {})
       /\ UNCHANGED <<docs, api, entries, delayed, proc, jobs, effects, faults>>

\* The compare-and-set of one row.
SweepReset(w, d) ==
    LET token == sweep[w].rows[d]
        found == SameLease(docs[d], token)
    IN /\ token # 0
       /\ docs' = [docs EXCEPT ![d] = IF found THEN Reclaimed(@) ELSE @]
       /\ sweep' = [sweep EXCEPT ![w].rows[d] = 0,
                                 ![w].todo = IF found THEN @ \cup {d} ELSE @]
       /\ UNCHANGED <<api, entries, delayed, proc, jobs, effects, faults>>

SweepPublish(w, d, e) ==
    /\ sweep[w].rows = NoRows
    /\ d \in sweep[w].todo
    /\ AddEntry(d, e)
    /\ sweep' = [sweep EXCEPT ![w].todo = @ \ {d}]
    /\ UNCHANGED <<docs, api, delayed, proc, jobs, effects, faults>>

\* The score of a member is taken just after next_attempt_at is and with the
\* same delay, so it is not reached while the document still waits for it.
MayBeDue(d) ==
    /\ delayed[d] # 0
    /\ ~(docs[d].nextAttempt = "waiting" /\ docs[d].error = delayed[d])

\* The script that pops the due members, and the find of the documents left
\* untouched for long.
SweepPromote(w) ==
    \E due \in SUBSET {d \in Docs : MayBeDue(d)} :
        /\ StageBegins(w, NoRows, due)
        /\ delayed' = [d \in Docs |-> IF d \in due THEN 0 ELSE delayed[d]]
        /\ UNCHANGED <<docs, api, entries, proc, jobs, effects, faults>>

SweepStale(w) ==
    \E stale \in SUBSET {d \in Docs : MayBeStale(docs[d])} :
        /\ StageBegins(w, NoRows, stale)
        /\ UNCHANGED <<docs, api, entries, delayed, proc, jobs, effects, faults>>

\* publish raises, which ends the pass: the rest of todo is dropped.
SweepAborts(w) ==
    /\ sweep[w].rows = NoRows
    /\ sweep[w].todo # {}
    /\ Fault("redis")
    /\ sweep' = [sweep EXCEPT ![w] = Resting]
    /\ UNCHANGED <<docs, api, entries, delayed, proc, jobs, effects>>

-----------------------------------------------------------------------------
(* The clock                                                               *)

\* A job of the lease's owner is on the document.
LiveJob(d) ==
    \E s \in Slots : /\ docs[d].worker \in Workers
                     /\ jobs[docs[d].worker][s].doc = d
                     /\ At(docs[d].worker, s, {"loading", "claimed", "running"})

ClockTicks(d, doc) ==
    /\ docs' = [docs EXCEPT ![d] = doc]
    /\ UNCHANGED <<api, entries, delayed, proc, jobs, sweep, effects>>

\* The owner is gone.
LeaseExpires(d) ==
    /\ docs[d].lease = "live"
    /\ ~LiveJob(d)
    /\ ClockTicks(d, [docs[d] EXCEPT !.lease = "expired"])
    /\ UNCHANGED faults

\* The owner is slow, or waits for its semaphore too long.
LeaseOutrun(d) ==
    /\ docs[d].lease = "live"
    /\ LiveJob(d)
    /\ Fault("slow")
    /\ ClockTicks(d, [docs[d] EXCEPT !.lease = "expired"])

BackoffElapses(d) ==
    /\ docs[d].nextAttempt = "waiting"
    /\ ClockTicks(d, [docs[d] EXCEPT !.nextAttempt = "due"])
    /\ UNCHANGED faults

-----------------------------------------------------------------------------
(* Redis loses data; processes end                                         *)

LoseEntry(e) ==
    /\ entries[e].state # "free"
    /\ Fault("loss")
    /\ entries' = [entries EXCEPT ![e] = FreeEntry]
    /\ UNCHANGED <<docs, api, delayed, proc, jobs, sweep, effects>>

LoseDelay(d) ==
    /\ delayed[d] # 0
    /\ Fault("loss")
    /\ delayed' = [delayed EXCEPT ![d] = 0]
    /\ UNCHANGED <<docs, api, entries, proc, jobs, sweep, effects>>

\* The process is gone and its memory with it.  When an exception ends it the
\* tasks are cancelled first, and the finally of each may still ack.
Ends(w, kind, as) ==
    /\ Alive(w)
    /\ SpareWorker(w)
    /\ Fault(kind)
    /\ proc' = [proc EXCEPT ![w] = as]
    /\ \E S \in SUBSET {s \in Slots : At(w, s, InTask)} :
          entries' = Acked(entries, {jobs[w][s].entry : s \in S})
    /\ jobs' = [jobs EXCEPT ![w] = NoJobs]
    /\ sweep' = [sweep EXCEPT ![w] = Resting]
    /\ UNCHANGED <<docs, api, delayed, effects>>

\* Killed, or ended by an error of MongoDB in the loop or in the sweeper.
Crash(w) == Ends(w, "crash", "dead")

\* The ack raises a Redis error, which nothing catches: the task group ends.
AckRaises(w) ==
    (\E s \in Slots : At(w, s, {"acking", "dropping"})) /\ Ends(w, "redis", "torn")

\* SIGTERM
Stop(w) ==
    /\ "stop" \in Disruptions
    /\ proc[w] = "up"
    /\ SpareWorker(w)
    /\ proc' = [proc EXCEPT ![w] = IF LoopIdle(w) THEN "stopping"
                                   ELSE "draining"]
    /\ UNCHANGED <<docs, api, entries, delayed, jobs, sweep, effects, faults>>

\* The loop and the tasks are done, and so is the sweeper.
Exit(w) ==
    /\ proc[w] = "draining"
    /\ \A s \in Slots : At(w, s, {"free"})
    /\ sweep[w] = Resting
    /\ proc' = [proc EXCEPT ![w] = "dead"]
    /\ UNCHANGED <<docs, api, entries, delayed, jobs, sweep, effects, faults>>

-----------------------------------------------------------------------------
LoopStep(w) ==
    \/ Read(w) \/ AutoClaim(w) \/ ReadReturnsNothing(w)
    \/ \E s \in Slots : Claim(w, s) \/ ClaimLost(w, s) \/ Load(w, s)
                            \/ StartTask(w, s)

TaskStep(w, s) ==
    \/ Complete(w, s) \/ ScheduleRetry(w, s) \/ MarkFailed(w, s)
    \/ LoseLease(w, s) \/ Delay(w, s) \/ CacheSummary(w, s)
    \/ ReleaseSlot(w, s) \/ ReleaseGuard(w, s) \/ Ack(w, s)

SweepStep(w) ==
    \/ SweepFind(w) \/ SweepPromote(w) \/ SweepStale(w)
    \/ \E d \in Docs : SweepReset(w, d)
    \/ \E d \in Docs, e \in Entries : SweepPublish(w, d, e)

Request(d) ==
    \/ Insert(d) \/ InsertFails(d)
    \/ (\E e \in Entries : Publish(d, e)) \/ PublishFails(d)
    \/ RequestDies(d)

Clock(d) == LeaseExpires(d) \/ BackoffElapses(d)

Failure ==
    \/ \E d \in Docs : LeaseOutrun(d) \/ LoseDelay(d)
    \/ \E e \in Entries : LoseEntry(e)
    \/ \E w \in Workers :
          \/ AutoClaimOutrun(w) \/ SweepAborts(w) \/ Crash(w) \/ AckRaises(w)
          \/ \E e \in Entries : ReadReplyLost(w, e)
          \/ \E s \in Slots : JobError(w, s)

\* Nothing is left to do; the workers poll an empty stream.
Idle ==
    /\ \A d \in Docs : docs[d].status \notin Active
    /\ \A e \in Entries : entries[e].state = "free"
    /\ \A w \in Workers : proc[w] # "draining"
    /\ UNCHANGED vars

Next ==
    \/ \E d \in Docs : Request(d) \/ Clock(d)
    \/ \E w \in Workers :
          \/ Start(w) \/ LoopStep(w) \/ SweepStep(w) \/ Stop(w) \/ Exit(w)
          \/ \E s \in Slots : TaskStep(w, s)
    \/ Failure
    \/ Idle

Spec == Init /\ [][Next]_vars

\* Time passes, and each thread of control takes its next step when that stays
\* possible: the consume loop, every task, the sweeper.  XAUTOCLAIM comes round
\* every tenth cycle of the loop, however busy the loop is in between.
Fairness ==
    /\ \A d \in Docs : WF_vars(Clock(d))
    /\ \A w \in Workers :
          /\ WF_vars(Start(w) \/ Exit(w))
          /\ WF_vars(LoopStep(w)) /\ SF_vars(AutoClaim(w))
          /\ WF_vars(SweepStep(w))
          /\ \A s \in Slots : WF_vars(TaskStep(w, s))

FairSpec == Spec /\ Fairness

-----------------------------------------------------------------------------
(* What must hold                                                          *)

\* A lease has an owner and a document being processed has a lease: no step
\* leaves a document that neither a worker nor the sweeper would touch again.
LeaseInv ==
    \A d \in Docs : LET doc == docs[d]
                    IN /\ doc.status = "processing" <=> doc.worker # NoWorker
                       /\ doc.status = "processing" <=> doc.lease # "none"

\* A row the sweeper found and has not reset yet is of an earlier claim, or of
\* the present one and then expired: a slow sweeper cannot hit a newer claim.
RowInv ==
    \A w \in Workers, d \in Docs :
        LET token == sweep[w].rows[d]
        IN /\ token <= docs[d].attempts
           /\ token # 0 /\ SameLease(docs[d], token) => docs[d].lease = "expired"

\* An attempt a job believes in has been counted: a document fails only when
\* its attempts are used up, and an outcome comes from an attempt made.
AttemptInv ==
    /\ \A w \in Workers, s \in Slots :
          LET job == jobs[w][s]
          IN job.doc \in Docs => job.attempt <= docs[job.doc].attempts
    /\ \A d \in Docs :
          /\ docs[d].status = "failed" => docs[d].attempts >= MaxAttempts
          /\ docs[d].status = "completed" => docs[d].summary \in 1..docs[d].attempts

\* What is left of docs/failure-handling.md:22 (see AttemptsBounded): every
\* attempt beyond MAX_ATTEMPTS has a failure of its own to answer for it, as a
\* worker that died or a lease that was outrun; late results, redeliveries and
\* errors of the summarizer alone never add one.
AttemptsPaid == \A d \in Docs : docs[d].attempts <= MaxAttempts + faults

Settling == {"caching", "releasing", "unguarding"}

\* The Redis side effects of ending a document happen at most once, in their
\* order, and only after the compare-and-set that ended it (pipeline.py says
\* "they must do them at most once"), whatever is delivered twice.
SettledOnce ==
    /\ \A d \in Docs :
          /\ effects[d].slot \in {0, 1} /\ effects[d].guard \in {0, 1}
          /\ effects[d].slot + effects[d].guard > 0 =>
                docs[d].status \in Terminal
          /\ effects[d].cached => docs[d].status = "completed"
    /\ \A w \in Workers, s \in Slots :
          LET job == jobs[w][s]
          IN /\ job.pc \in Settling => /\ docs[job.doc].status \in Terminal
                                       /\ effects[job.doc].guard = 0
             /\ job.pc \in {"caching", "releasing"} => effects[job.doc].slot = 0
             /\ job.pc = "caching" => docs[job.doc].status = "completed"

\* Two different jobs on the same document, both in one of the steps pcs.
Both(pcs, v, t, w, s) ==
    /\ jobs[v][t].pc \in pcs /\ jobs[w][s].pc \in pcs
    /\ jobs[v][t].doc = jobs[w][s].doc
    /\ <<v, t>> # <<w, s>>

\* No two jobs carry out the end of the same document.
OneSettles ==
    \A v, w \in Workers, t, s \in Slots : ~Both(Settling, v, t, w, s)

\* As long as no job outlives its lease, two jobs never work on one document,
\* however often it is delivered (docs/concurrency.md, the first race).
OneJobPerDocument ==
    \A v, w \in Workers, t, s \in Slots :
        ~Both({"loading", "claimed", "running"}, v, t, w, s)

\* The record of a document that has ended never changes again: no late
\* result, no reclaim and no redelivered entry reopens it.
TerminalIsFinal ==
    [][\A d \in Docs : docs[d].status \in Terminal => docs'[d] = docs[d]]_vars

\* Only a job of its owner ends a live lease by giving the document back: a
\* sweeper that found an old lease expired leaves the new one alone.
LiveLeaseKept ==
    [][\A d \in Docs :
          docs[d].lease = "live" /\ docs'[d].status = "queued" =>
              \E s \in Slots : /\ At(docs[d].worker, s, {"running"})
                               /\ jobs[docs[d].worker][s].doc = d
                               /\ jobs'[docs[d].worker][s].pc = "delaying"]_vars

\* The service is the state machine of docs/flow.md.
L == INSTANCE Lifecycle WITH
        status   <- [d \in Docs |-> docs[d].status],
        attempts <- [d \in Docs |-> docs[d].attempts],
        released <- [d \in Docs |-> effects[d].slot]

ImplementsLifecycle == L!Spec

\* The side effect that jobs J are at in the end of d; by OneSettles there is
\* one at most.
Stages(J, d) ==
    {pc \in Settling : \E w \in Workers, s \in Slots :
                          J[w][s].pc = pc /\ J[w][s].doc = d}

EndOf(J, d) ==
    IF Stages(J, d) = {} THEN "none" ELSE CHOOSE pc \in Stages(J, d) : TRUE

Shown(doc) == IF doc.status \in Active THEN "active" ELSE doc.status

E == INSTANCE Ending WITH
        status <- [d \in Docs |-> Shown(docs[d])],
        end    <- [d \in Docs |-> EndOf(jobs, d)]

\* To the submit flow the workers are no more than Ending says: however often
\* a document is attempted, it ends once, by one worker, which takes the side
\* effects in their order, leaves none out and starts none again.
ImplementsEnding == E!Spec

\* Every accepted document ends, whatever was lost on the way: "nothing is
\* lost", and the sweeper repairs what is stranded.
Settles ==
    \A d \in Docs : docs[d].status = "queued" ~> docs[d].status \in Terminal

\* No entry stays on the pending list of the group for ever.
EntriesDrain ==
    \A e \in Entries :
        entries[e].state = "pending" ~> entries[e].state # "pending"

\* "stop pulling new work, let in-flight documents finish, then exit"
StopsGracefully ==
    \A w \in Workers :
        proc[w] \in {"stopping", "draining"} ~> proc[w] \in {"dead", "torn"}

-----------------------------------------------------------------------------
(* What the documentation says and the code does not                       *)

\* docs/concurrency.md: the result of a worker that finishes after being
\* reclaimed is dropped.  The filter names the worker, not the claim.
StaleResultDropped ==
    [][\A d \in Docs :
          docs[d].status = "processing" /\ docs'[d].status = "completed" =>
              docs'[d].summary = docs[d].attempts]_vars

\* docs/failure-handling.md: after MAX_ATTEMPTS a document has failed.  A
\* reclaimed lease costs an attempt but is never compared with the limit.
AttemptsBounded == \A d \in Docs : docs[d].attempts <= MaxAttempts

\* workers/consumer.py: a Redis blip must not end the worker.
SurvivesRedis == \A w \in Workers : proc[w] # "torn"
=============================================================================
