# Document processing service: specification

TLA+ modules, TLC configurations and TLAPS proofs for the service in `src/`: an
API that accepts documents, MongoDB as the record of truth, Redis for the work
stream, the delay queue, the rate-limit counters and the summary cache, worker
processes that summarise documents, and a dashboard.

## 1. The system

### Components

| Component | State it keeps | Operations | What makes it correct |
|---|---|---|---|
| Document repository (`repositories/document.py`, `models/document.py`) | one record per document: status, owner, lease, attempts, next attempt, outcome | insert; the compare-and-sets claim, complete, schedule_retry, mark_failed, reclaim; finds and counts | an owner and a lease exactly while processing; no way back from an end; an expired lease is the only one taken away |
| Work stream (`queue/stream.py`) | stream, consumer group with its pending list | publish, read, autoclaim, ack | delivery at least once; nothing pending for ever |
| Delay queue (`queue/delay.py`) | sorted set of document ids by due time | schedule, pop and publish the due ones | a retry waits, and is not lost |
| Consume loop (`workers/consumer.py`) | stop flag, batch, semaphore, tasks | read or autoclaim, claim, start a task, ack | backpressure; duplicates dropped; ends on SIGTERM and on nothing else |
| Pipeline (`workers/pipeline.py`) | the claimed job | settle by one compare-and-set, then delay, or cache, slot, guard | side effects at most once, after the end |
| Sweeper (`workers/sweeper.py`) | rows found, ids to publish, pass counter | reclaim expired leases, promote due retries, republish stale documents, reconcile every 20th pass | repairs what is stranded, harms nothing live |
| Worker process (`workers/main.py`) | its identity, loop and sweeper | start, SIGTERM, drain, crash | stops gracefully |
| Submit flow (`services/ingestion.py`, `api/v1/documents.py`) | one request's progress | cache, guard, slot, insert, publish, undo; joining a duplicate; the answer | a document accepted is processed; a slot is held exactly by an active document; an answer says what is there |
| Rate limiter (`services/ratelimit.py`) | a counter per user | acquire, release, reconcile, count in MongoDB without Redis | never above the limit for long; counters heal |
| Summary cache and guard (`services/cache.py`) | summary by content; guard by user and content | get, set, reserve, release | one document for one content in flight |
| Summarizer (`services/summarizer.py`) | none | summarise, render a duplicate | a copy says what its own text would give, and whose it is |
| Listing (`api/v1/users.py`) | none | count, then a page | the page asked for, of the user asked for |
| Dashboard (`components/DocumentsDashboard.tsx`) | user, page, filter; rows, total; two loading flags, an error; fetches in flight | fetch, live refresh, switch, open, upload | shows what is selected; is not loading for ever; follows the documents to their end |
| Document poll (`lib/use-document-poll.ts`), detail and upload dialogs | document asked for and shown, timer, requests in flight | start, tick, refresh, cancel, settle | one loop, of the document asked for, up to its end |
| User roster (`lib/user-context.tsx`, `lib/users.ts`) | users and the active one, also in the browser's storage | select, add | |

### How they interact

The API inserts a document as `queued` and publishes its id. A worker reads the
entry, claims the document (`queued` to `processing` with a lease), runs the
pipeline in a task, settles it with one compare-and-set filtered on status and
owner, performs the Redis side effects, and acks the entry. A failed attempt
goes back to `queued` and into the delay queue; each worker's sweeper publishes
due retries, resets expired leases and republishes documents left alone for
long. There are no locks across processes: everything rests on the
compare-and-sets in MongoDB and on at-least-once delivery.

The dashboard reads pages of one user's documents from the API, again whenever
the user, the page or the filter changes, every few seconds while a row is
moving, and when a dialog reports a change. The dialog of a document polls it
until it has ended. Requests are not cancelled: what a late answer may still do
is decided when it arrives.

### Hard behaviours

`PROJECT.json` lists each hazard at its line. In short: every `await` is a
point where another process runs, this one dies, or the call fails; the sweeper
acts on rows it read earlier; `claim` reads the document again after its
compare-and-set; entries are delivered several times (lost acks, autoclaim,
promotions and stale republishes); jobs outlive their leases; effects in Redis
follow a write in MongoDB without a transaction; a request fails between insert
and publish; SIGTERM arrives anywhere; counters are reconciled from a snapshot;
a duplicate waits for a winner that may never insert; answers reach a dashboard
that has moved on, out of order, or not at all; texts that differ share a hash
and one summary.

## 2. Modules

| Module | What it is |
|---|---|
| `Documents` | the record and every filter and update the repository applies to it |
| `Processing` | API insert and publish, stream, delay queue, worker processes, their loops, tasks and sweepers; the properties |
| `Lifecycle` | the promise: the state machine of `docs/flow.md`, the attempt count and one release of the slot |
| `Ending` | the promise between the two halves: a document is added by a request, ended once by a worker, and its three side effects follow in their order, at most once and without a gap |
| `RateLimiter` | the counters: both scripts and the reconcile, as parts of steps |
| `SummaryCache` | the summaries and guards in Redis, and whom a summary is attributed to, as parts of steps |
| `Admission` | the promise of `submit`: what becomes work, what collapses into work on its way, what is turned down and served |
| `Submission` | `submit` for many requests at once, composed of the two above, the documents, the end a worker brings to them, and the reconcilers; the properties |
| `Texts` | what makes two texts the same, and the words, sentences, lead and keywords of a text |
| `Summaries` | the uploads of one content: summaries, their copies and what their text states; the properties |
| `Listing` | the query, total, order and page of a user's documents |
| `DocumentPoll` | the hook that polls one document, as parts of steps |
| `Dashboard` | the table with its fetches, the user, the detail dialog with `DocumentPoll`, over `Listing`; the properties |
| `MCProcessing`, `MCSubmission`, `MCDashboard`, `MCSummaries` | keys, symmetry and texts for TLC |
| `ProcessingProofs`, `SubmissionProofs`, `DashboardProofs`, `SummariesProofs` | the inductive invariants and the safety theorems |
| `TextProofs` | for texts of any length: stripping keeps the hash, the hash tells the measures |
| `LeaseProofs` | what holds as long as no job outlives its lease, and how many attempts failures can cost |
| `RefinementProofs` | `Processing` implements `Lifecycle` and `Ending` |
| `AdmissionProofs` | `Submission` implements `Admission` and `Ending`; its answers; what failures and repairs can cost the limit |

`Processing` takes one submission that was admitted, and follows the document
through every delivery and failure. `Submission` takes the other side: there the
workers are reduced to what `Processing` shows of them. For safety that is
`Ending`, which both sides are proved to implement: `Processing` shows nothing
else of a document and its side effects (`EndingKept`), and the workers that
`Submission` assumes do nothing else (`EndingRespected`). For liveness it is
`Settles`: every document ends. Nothing in `Submission` depends on it, since
`Heals` is about users whose documents have ended. `RateLimiter` and `SummaryCache` have variables and actions
without a specification of their own: who calls them is `Submission`. `SummaryCache`
knows a summary by whom it names; what is in it is `Summaries`, for one content
and the spellings that hash to it, over the texts of `Texts`. `Dashboard` sees the documents as `Lifecycle`
lets them move, with completed and failed as one end.

### How `Processing` corresponds to the code

| Variable | In the code |
|---|---|
| `docs` | the `documents` collection |
| `api` | where `_enqueue_new` is: before its insert, inserted, done |
| `entries` | Redis stream with its one group: not yet delivered (`queued`) or `pending` |
| `delayed` | the sorted set, with the attempt that put the member there |
| `proc` | the life of each process: `up`, `stopping` (in a read), `draining`, `dead`, `torn` (ended by a Redis error) |
| `jobs` | what a worker has in memory: the rest of its batch and its `ClaimedJob`s, each with its program counter |
| `sweep` | rows the sweeper found and has not reset, ids it has not published |
| `effects` | ghost record of the cache write and the slot and guard releases per document |
| `faults` | ghost count of failures, for the bound |

One step is one `await`. The `pc` of a job names the await it is at: `buffered`
(in the batch), `loading` (the find after the compare-and-set of claim),
`claimed` (yielded, waiting for the semaphore), `running` (in the pipeline, up
to its compare-and-set), `delaying`, `caching`, `releasing`, `unguarding`,
`acking`; `dropping` acks an entry whose claim was lost. `LoopFree` and
`LoopIdle` say that the loop, being one coroutine, is not inside another of
these. A settlement (`Settle`) is `_transition` with its filter `HeldBy`;
`LoseLease` is that filter matching nothing.

The sweeper's stages are `SweepFind` and one `SweepReset` per row,
`SweepPromote` and `SweepStale`, each followed by one `SweepPublish` per id. A
stage that finds nothing changes nothing, so stages need no order.

Failures are separate disjuncts, each enabled by a kind in `Disruptions` and
charged to `MaxFaults`: `InsertFails`, `PublishFails` and `RequestDies`
("api"); a swallowed Redis error of a side effect, `SweepAborts`,
`AckRaises` ("redis"); `JobError` ("mongo"); `LoseEntry`, `LoseDelay`,
`ReadReplyLost` ("loss"); `LeaseOutrun`, `AutoClaimOutrun` ("slow"); `Crash`
("crash"). `Stop` ("stop") is free.

### How `Submission` corresponds to the code

| Variable | In the code |
|---|---|
| `reqs` | each call of `submit`: the await it is at or the answer it got, its user and content, the summary it found, the winner it joined; a call and the document id it mints have one name |
| `docs` | the documents: absent, active (queued or processing), completed, failed; whether served from the cache; whose summary it is |
| `ends` | which side effect the worker of an ended document is at |
| `counter`, `rec` | `ratelimit:active:<user>`; the pass of `reconcile` each sweeper is in: the answer of the aggregation, the users of it not compared yet, the one to be written, the keys not scanned yet |
| `cache`, `guard` | `cache:summary:<user>:<hash>`, `inflight:<user>:<hash>` |
| `faults`, `repairs` | ghosts: failures so far; counters changed by a reconciler's SET or DELETE so far, counted up to `MaxRepairs + 1` (no repair is held back by it) |

The program counter of a request names the await: `lookup`, `fallback`,
`restoring`, `storing` (the cache); `reserving` (SET NX), `reading` (GET),
`joining` (the guard); `acquiring`, `counting` (the degraded count), `refusing`
(giving the guard back before a 429); `inserting`, `publishing`; `undoSlot`,
`undoGuard`. Each has one action of the same sense, whose disjuncts are the
outcomes of that await. The answers are `created` (201), `hit` and `joined`
(200), `settling` (409), `limited` (429), `failed` (500 or 503) and `lost`.

`Stage` maps a submission to `Admission`: *asked* until it is known to be new
work, *carried* with its guard, *admitted* while it occupies a slot (from the
script that took it, over the document's end, to the release), *closing* until
the guard is released; *collapsed*, *turned down* and *refused*, *served*, or
*over*. `sound` is `faults = 0 /\ repairs = 0`.

Kinds of failure: a Redis call that raises, with or without its effect
("redis"), a MongoDB call that raises ("mongo"), the end of the API or of a
worker ("crash"), a lost or expired key ("loss"). "reconcile" enables the
reconcilers and is not charged.

The last loop of `reconcile` finds counters by their keys and takes the user
from a key by its last colon, while user ids may contain colons
(`schemas/document.py:20`). The constant `ReadAs` gives the user that the key of
each user is read as: itself without a colon, "b" for "x:b". `Scan` deletes the
counter of `u` unless `ReadAs[u]` is in the answer of the aggregation.

### How `Dashboard` corresponds to the code

| Variable | In the code |
|---|---|
| `view` | `userId`, `pagination.pageIndex`, `statusFilter` |
| `table` | `data`, `rowCount`, the two flags, whether `fetchError` is set; `of` is a ghost: the view that was answered |
| `fetches` | the calls of `fetchPage` in flight, in the order they were sent |
| `poll`, `calls` | the state of `useDocumentPoll` and its requests; `live` is `~cancelled` of the effect that sent the request |
| `detail` | the detail dialog is open |
| `status` | the documents on the server |
| `overtaken`, `faults`, `clicks` | ghosts: an answer has arrived out of order; the bounds |

An event (a click, an answer, a timer) is one step with the renders and effects
that follow it, in their order: a switch of user at page 2 first fetches page 2
of the new user, since the effect that resets the page runs in the same commit
as the one that fetches, and then page 0 (`Rerenders`). An answer is read by the
server in one step (`Answered`) and lands in another (`Arrive`). The Refresh of the detail dialog is disabled
by `loading` alone, so it restarts the poll also of a document that has ended
(`RefreshDetail`); `poll.settled` is `settledRef` of the present start. `SettledTable`
and `ListFollows` are about answers that keep the order of their requests;
"overtake" adds the others.

### How `Summaries` corresponds to the code

In `Texts` a text is a sequence of words, sentence marks and blanks. `Normalize`
is the normalisation of `hash_content`, `Strip` that of the request model,
applied before; `Measures` the numbers, the lead and the keywords of
`build_summary`. They are defined by the places of a text that are kept, and by
counting those before a place, not by recursion along it, so that they can be
reasoned about for texts of any length. In `Summaries` `content` is one hash, `spellings` the texts that have it. The uploads of it are
queued and completed, or served from the cache or from a processed document, in
any order (`Queued` leaves open why nothing was found).

### Abstractions

* Time: a lease is live or expired, a retry waiting or due. `LeaseExpires` fires
  when no job of the owner is on the document; a lease that runs out under a
  running job is `LeaseOutrun`, a failure. `find_stale_queued` may return any
  queued document not waiting for a retry: how long it was left alone is not
  modelled, so the stale sweep may fire at any time. That only adds behaviours.
* A lease is named by the number of the claim that wrote it
  (`SameLease(doc, token)`): two claims write different `lease_expires_at`.
* Contents: `summary` and `error` hold the number of the attempt they came from.
* A request waits on a winner that has not inserted for `SETTLE_ATTEMPTS` looks
  and then answers 409: both answers of `Join` end the request and change
  nothing, so they are one step.
* A TTL is a key that goes at any time. `find_completed_by_hash` returns the
  oldest processed document; the model returns any. A reconcile starts at any
  time instead of every 20th pass, and compares the users and scans the keys in
  any order. A key of the scan and its DELETE are one step: SCAN may return a key
  that comes while it runs, so nothing is seen before the DELETE that it depends
  on.
* The order of the stream, and the limits of 100 rows or members per sweep.
* `Listing`: the total and the page are read at one time; documents of one user
  are created at different times, so their order is total.
* `Dashboard`: the strip of counts, the page size, and the upload dialog but for
  its calls `onChanged` and `onViewResult`, which come at any time it may make
  them. Requests take any time and may fail.
* `Summaries`: words are their lower case; the length limits of the lead are
  left out, and so are its blanks (the code collapses them) and whatever it has
  besides words and marks.
* An acked entry is free to be used again once nobody names it: ids are never
  reused by Redis, but a document cannot tell a new id from a free one.
* A failed `mark_failed` of MongoDB, after the write or before it, is `JobError`
  at either side of the compare-and-set.

## 3. What is checked

The runs of `Processing` are on one document unless said otherwise, and with two entries, so
that a document can be delivered twice at once; the pending list, the batch and
the republishing that create a third delivery reuse the freed one.

| Run | Question | Bounds |
|---|---|---|
| `failures` | type invariant; the record, the sweeper's rows, the attempts and the side effects stay consistent; what a failure costs in attempts; ends are final; live leases are kept; implements `Lifecycle` and `Ending` | 2 workers, 2 attempts, one failure of any kind, SIGTERM |
| `recovery` | as long as no job outlives its lease, one job per document and the summary of the latest attempt; liveness: after a crash, with whatever reply it loses, or a stop every document ends, no entry stays pending, a stopping worker exits | 2 workers, 1 attempt, one crash, SIGTERM |
| `degraded` | liveness with one worker: lost entries and retries, Redis and MongoDB errors, a slow job, a failed request | 2 attempts, one failure |
| `submission` | type invariant; what every way out of `submit` gives back and answers; whose guard is left; what a copy names as its origin; what a failure costs the limit; implements `Admission` and `Ending` | 3 requests, 2 users, 2 contents, limit 1, one failure of any kind |
| `counters` | liveness: the counter of a user at rest comes back to zero, with a reconciler at work and other users active; every submission is answered | 2 requests, 2 users of which one id ends in a colon and the other, 1 content, limit 1, one failure |
| `dashboard` | type invariant; loading ends; a table at rest answers what is selected; one poll, of the right document; the list follows the dialog; liveness: rows and dialog come to the end | 2 users, 2 documents of one, pages of 1, 2 filters, 2 fetches and 2 requests in flight, 2 clicks, one failure, answers out of order |
| `texts` | type invariant; stripping does not change a hash; a copy has the measures of its own text; it names whom it is for and where it comes from | all texts of up to 4 of a keyword, another word, a mark and 3 blanks; 3 uploads |

Properties, in the module's terms:

* `LeaseInv`: owner and lease exactly while `processing`. A document without them
  in `processing` would be found by no query: stuck for ever.
* `RowInv`: a row the sweeper still holds is of an old claim, or the lease has
  really expired. `LiveLeaseKept` is its consequence as an action property.
* `AttemptInv`: no failure before `MAX_ATTEMPTS`; a summary comes from an attempt
  that was counted, although the job reads its attempt number after its claim.
* `AttemptsPaid`: a reclaim is not compared with `MAX_ATTEMPTS` (see 5), so the
  bound on the attempts is `MAX_ATTEMPTS` and one more for each failure.
* `SettledOnce`, `OneSettles`: side effects at most once, in order, after the
  end, by one job, whatever is delivered twice and whoever is late.
* `TerminalIsFinal`: an ended record never changes.
* `ImplementsLifecycle`: all of it is the state machine of `docs/flow.md`.
* `ImplementsEnding`: what one half of the service may rely on of the other,
  checked and proved on both sides.
* `OneJobPerDocument`, `StaleResultDropped`: hold in `recovery` and need the
  absence of `"slow"`; see the findings.
* `Settles`, `EntriesDrain`, `StopsGracefully`: liveness.
* `SlotsCounted`: the counter of a user is exactly the requests admitted and not
  inserted, the active documents, and those whose release is still to come.
  It holds until a failure or a repair; a repair is excluded because it breaks
  it even without a failure (`reconcile_race`).
* `LimitPaid`: a failure or a repair lets a user beyond the limit, by one more
  limit for each and no further. `submission` checks it for failures; for repairs
  it is proved, and `reconcile_race` shows that one is enough to get beyond.
* `GuardNamesLive`: without a failure a guard names a submission under way.
  Otherwise a duplicate would be answered with a document that does not come.
* `OriginProcessed`: whatever fails, a copy names a processed document of the
  same user and content; so does what Redis holds.
* `AnswersHonest`: whatever fails, an answer that carries a document carries
  one that is there, for the same content; who was turned down or joined has
  left none behind. A joined document may have failed by then.
* `ImplementsAdmission`: while nothing has gone wrong nobody is admitted above
  the limit, turned down below it, or collapsed into nothing.
* `Heals`: the documents' "drift": capacity lost to a crash, or to a reconciler
  that acts on an old answer, comes back to a user who is at rest, though the
  documents of others may never end. The one whose documents matter is
  `ReadAs[u]`: see 5.
* `Answered`: a duplicate whose winner died before its insert is answered too.
* `FlagsEnd`: the Refresh button is disabled by the two flags, so a flag that
  stays would shut the list for good.
* `SettledTable`, `ListFollows`: with fetches of two views, of a refresh and of
  the timer in flight at once, the last one sent is the one that counts.
* `ShowsAsked`, `OnePoll`: restarts, also of a poll that has seen the end, leave
  neither two loops nor one too few, and no answer for another document. A start
  that has seen the end sends nothing more; the next one does.
* `RowsSettle`, `EndSeen`: liveness of the live refresh and of the poll, over a
  failed request and a document that is queued again.
* `HashStable`, `SameMeasures`, `TextTells`: what sharing one summary between
  spellings and uploads keeps. The number of characters is not kept; see 5.

Why the bounds are enough. The interesting cases need two workers (owner and
late owner, two sweepers), two claims of one document, and two entries of it;
all of these happen in the runs, and each property has a mutant of the code that
breaks it under the very bounds of its run. One failure is any single one of
the kinds above; two are used where the state space allows. In `submission`
three requests are a winner, a duplicate and one that comes after either, and a
limit of 1 makes the second of two refused. In `counters` one user can leak a
slot or have a correct counter deleted while the other is active, in both roles;
`FirstOfSuffixUser` leaves out the case that differs by the names of the two
requests. In `dashboard` two fetches are the
two of a switch, or one of it and a late one; one user has no documents, so a
row under the wrong one shows; two documents on pages of one make a second page
appear while the first is shown. In `texts` four symbols hold a CR LF, two
sentences with a blank between them, and margins on both sides. With one keyword
their order is no question there; it is part of `HashTellsMeasures`. The
safety properties of the passing runs do not depend on the bounds at all: they
are proved.

### Fairness

`FairSpec` is `Spec` with weak fairness of each thread of control: every consume
loop, every task, every sweeper, the start and the exit of a process, and time.
The event loop schedules every ready coroutine and every await in them ends (the
reads block 5 s at most; the drivers have timeouts). `AutoClaim` has strong
fairness: the loop comes to it on every tenth cycle whatever it reads in between
(`consumer.py:112`), so being disabled during a batch does not postpone it for
ever. Requests, failures and SIGTERM have none. A process dies or stops only if
another one is left (`SpareWorker`), which is what `restart: unless-stopped` in
`docker-compose.yml` amounts to.

In `Submission` an accepted request is carried on, and every sweeper comes
round. Arrivals, failures and workers have no fairness: where `Settles` of
`Processing` holds, every user comes to rest, and by `Heals` every counter goes
to zero.

In `Dashboard` requests are answered (`fetch` and the API end every request),
the interval and the timer of the poll fire, and the workers bring documents to
their end. Of the user nothing is assumed but that clicks are finitely many
(`MaxClicks`), and that is what `RowsSettle` needs: who switches for ever may
see moving rows for ever. An answer that fails is bounded by `MaxFaults`.

## 4. What is proved

The theorems hold for every number of documents, requests, users, workers,
entries, attempts, failures, repairs, fetches, clicks, rows and texts, for texts
of every length, and for every set of disruptions unless the table says
otherwise. Assumptions: the `ASSUME`s of the
modules (the null values are not members, the numbers are natural, limits and
page size positive, the ids and documents finitely many).

### Processing

`IInv` is inductive: `Typed` (the type invariant, and a job or an entry in use
names a document), `ApiInv` (a request that has not inserted has no document,
entry or effect), `EndedInv` (what the null fields of an ended record are),
`LeaseInv`, `RowInv`, `ClaimInv` (a job in its task has a counted attempt),
`AttemptInv`, `SettledOnce` and `OneSettles`. None of the last ones is inductive
alone: that a second job cannot start the side effects needs that the first one
ended the document, which is `SettledOnce`, and that a `running` job whose
filter matches finds it `processing`.

The step lemmas first say what a step does to one document (`Move`), to one job
(`JobMove`), to one row of a sweeper (`RowMove`) and to one document's effects
(`EffectMove`), one case per action; the invariants and the action properties
then follow from these four alone. The refinement proof maps each such step to
an action of `Lifecycle` or to a stutter.

| Theorem | States |
|---|---|
| `TypeCorrect` | `Spec => []TypeOK` |
| `Leased`, `RowsAreOld`, `AttemptsCounted`, `SettlesOnce`, `SettlesAlone` | the invariants `LeaseInv`, `RowInv`, `AttemptInv`, `SettledOnce`, `OneSettles` |
| `EndIsFinal`, `LeaseIsKept` | `TerminalIsFinal`, `LiveLeaseKept` |
| `Refines`, `EndingKept` | `Spec => ImplementsLifecycle`, `Spec => ImplementsEnding` |
| `LeaseExcludes`, `LateResultsDropped` | `OneJobPerDocument`, `StaleResultDropped`, both assuming `"slow" \notin Disruptions` |
| `FreshUnlessTwice` | `Spec /\ []~OwnTwice => StaleResultDropped`: however slow the jobs are |
| `AttemptsArePaid` | `AttemptsPaid` |
| `AttemptsAreBounded` | `AttemptsBounded`, assuming `Disruptions \subseteq {"api", "loss", "stop"}` |

That no job outlives its lease needs more than `IInv`: `WorkInv` says that a job
on its way to its settlement holds its document with a live lease and, once
loaded, has the number of its latest claim. A step of anybody else then cannot
match the filters (`StepTouches`), and no claim finds the document queued.

`FreshUnlessTwice` says how little the filter of `_transition` needs: it compares
the worker and not the claim, so a result is stale only if one worker has two
jobs on one document (`OwnTwice`). `FreshInv`: as long as that has not happened,
a job whose filter matches has the number of the latest claim.

`AttemptsPaid` rests on `PaidInv`: until a document has ended, its attempts from
the last allowed one on, and the late jobs that could still give it back to the
queue (`Retriers`), are no more than the failures that can end a job without its
settlement (`Charge`), and one for the attempt that its owner is at (`Due`). The
late jobs have to be counted, since each of them may make the next claim
possible. With the disruptions of `AttemptsAreBounded` no failure does that, so
`Charge` is zero.

`EndingKept` maps the side effects of all jobs to the one a document is at
(`EndOf`), which is well defined by `OneSettles`; that none is skipped or started
again is `SettledOnce`, and a crash, which takes the jobs of a worker at once, is
`Abandon`.

### Submission

`IInv` of `SubmissionProofs` adds to the three invariants what they need:
`BeforeInv` (until a request has inserted or stored, it has no document),
`EndsInv` (only a processed document has an end, and the summary to be cached is
its own), `FaultInv` (the degraded and the undo paths are taken after a failure)
and `FoundInv` (a request that found a summary, and Redis, hold that of a
processed document). `SlotsCounted` then follows from `SlotMove`: every step
leaves counter and holders alone, or adds one to both, or takes one from both,
which the library's facts on cardinality turn into the equation.
`GuardNamesLive` follows from what a step does to a guard (`GuardMoves`) and to
what a guard may name (`LiveMoves`), `OriginProcessed` from
`Processed(k)` only growing.

| Theorem | States |
|---|---|
| `SubmissionTyped` | `Spec => []TypeOK`; no counter is ever negative |
| `SlotsExact`, `GuardsLive`, `OriginsProcessed` | `SlotsCounted`, `GuardNamesLive`, `OriginProcessed` |
| `AnswersAreHonest` | `AnswersHonest` |
| `AdmissionImplemented`, `EndingRespected` | `Spec => ImplementsAdmission`, `Spec => ImplementsEnding` |
| `LimitIsPaid` | `LimitPaid` |

`AnswersInv` adds which documents an answer and a winner may have. The
refinement has one lemma for each kind of step of `Submission`: it is a step of
`Admission` or a stutter. The counts match because, while `sound`, `SlotsCounted`
makes the counter the number of those charged; that a collapsed submission has a
rival is `GuardNamesLive`.

`LimitPaid` is about the states after a failure or a repair, where the counter
says nothing exact any more. `Debts(u)` are the slots that are occupied and those
that a failed request will count or give back once more; `DebtInv` says that they
exceed the counter, cut off at the limit, by at most a limit for each failure and
each repair. Nobody is admitted at or above the limit, so what a repair writes
does not matter: wherever it puts the counter, a limit's worth is all that can be
taken anew. `MaxRepairs` is arbitrary, so the bound holds however many there are.

### Dashboard

`StepMoves` says what any step does to the list (`ListMove`), to the poll
(`PollMove`) and to the documents (`StatusMove`). The inductive invariant
`DashboardInv` adds to the types: `KnownInv` (no row or request is about a
document that is not there), `PollInv` (the dialog is open exactly while the
poll has a document; one request or one timer until the present start has seen
the end, then neither and the end is shown), `LastInv` (without
overtaking, the last fetch in flight asks for what is selected) and `EndInv`
(from the moment the dialog shows an end, the last fetch was, or will be,
answered after it). `SettledTable` and `ListFollows` are the two with no fetch
left.

| Theorem | States |
|---|---|
| `TypeCorrect` | `Spec => []TypeOK` |
| `FlagsAreCleared`, `TableSettles`, `ListAgrees` | `FlagsEnd`, `SettledTable`, `ListFollows` |
| `AskedIsShown`, `OneLoop` | `ShowsAsked`, `OnePoll` |

### Summaries

`SummariesInv`: a completed document has a summary that was made for it, or one
copied from a processed document, and what is cached was made for a processed
one. A copy of a copy therefore never arises, although `as_duplicate` provides
for it. `ContentInv` adds that every text of an upload, and every text that a
summary was made of, is one of the spellings.

| Theorem | States |
|---|---|
| `SummariesTyped`, `TextsTell` | the type invariant, `TextTells`; neither depends on what the measures of a text are |
| `HashesStay`, `MeasuresAgree` | `HashStable`, `SameMeasures` |
| `StripKeepsHash`, `HashTellsMeasures` | the two facts about texts that these rest on |

A hash keeps the words and the marks of a text, and of its blanks which are
there at all inside of a line. Two texts with one hash therefore have the same
kept places, in the same order, and each measure is a function of those: the
rank of a place (how many kept places are before it) takes the part of an
induction along the text.

### Only model-checked

Liveness (`Settles`, `EntriesDrain`, `StopsGracefully`, `Heals`, `Answered`,
`RowsSettle`, `EndSeen`) rests on fairness and so on `ENABLED`, which the prover
does not reason about.

## 5. Where the code and its documentation differ

Each is a run that TLC ends with a counterexample.

| Run | What it shows |
|---|---|
| `stale_result` | `_transition` filters on the worker, not on the claim: a worker that claims its own reclaimed document again has the late result of its first job accepted, against `docs/concurrency.md:13` (`FreshUnlessTwice`: in no other way) |
| `late_answer` | `fetchPage` compares the user of its closure with itself: an answer for the previous user is shown after the switch, against the comments at `DocumentsDashboard.tsx:174` and `user-context.tsx:6` |
| `reconcile_race` | a repair writes an old count over a newer counter: a user is admitted beyond the limit, against `docs/flow.md:24` and `sweeper.py:15` (`LimitPaid` says how far) |
| `attempts` | a reclaim is not compared with `MAX_ATTEMPTS`: a document that kills its worker is attempted for ever (`AttemptsPaid` says how often that is) |
| `redis_blip` | a Redis error in an ack ends the process, against `consumer.py:88` |

Others were met while modelling and have no run: some because the model states
them almost literally, some because they are outside of it.

Workers and submissions:

* The claim comes before the semaphore (`consumer.py:78`), so a saturated worker
  owns `WORKER_CONCURRENCY + 1` documents.
* The stop flag is looked at between batches, so the rest of a batch is still
  claimed after SIGTERM.
* `claim` does not look at `next_attempt_at`, so a second entry of a document
  starts its retry at once.
* A publish that fails after the insert gives back the slot of a document that
  is processed all the same and releases it again (`ingestion.py:253`), which
  `Heals` shows to be repaired.
* `reconcile` takes the user from a key by its last colon (`ratelimit.py:141`)
  and user ids may contain colons (`schemas/document.py:20`). The correct counter
  of an active "x:b" is deleted on every pass unless "b" is active too, so "x:b"
  is admitted beyond the limit again and again (a repair, for `LimitPaid`); a
  leaked counter of "x:b" is kept while "b" is active. `docs/concurrency.md:16`
  and `docs/configuration.md:23` say drift is reconciled: `Heals` is what remains
  true, and without its condition on `ReadAs[u]` it is violated.
* A guard that is gone between SET NX and GET counts as no duplicate
  (`cache.py:85`): of three identical submissions two are then processed, against
  `docs/concurrency.md:15`, "One enqueues; the rest receive that document id."
  `Admission` therefore promises a rival to who is collapsed, and not that all
  are.
* `documents.py:48` says a client can tell from the status code alone whether to
  poll: 200 is also the answer to a joined duplicate, which has to be polled.
  `docs/api.md:41` and `docs/assumptions.md:21` say a 409 carries the id to poll;
  its details have `retry_after_seconds` only.
* A MongoDB error in `submit` is a 500 (`guarded` wraps it), a failed publish a
  503.

Summaries:

* `summarizer.py:8` says a hit returns exactly what reprocessing would: the
  number of characters of a copy counts the CRs of the upload that was
  processed, whose text has another spelling. `SameMeasures` leaves it out.
* "this content was summarized for the first time" is per user, and is also said
  by the second of two uploads that were processed at once.
* An old cached entry without `document`, which `ingestion.py:129` repairs when
  it comes from MongoDB, is not repaired when it comes from Redis.

Dashboard:

* A late answer for a page or a filter that is gone is also shown; without
  overtaking, a later one replaces it (`SettledTable`). If all its rows have
  ended, no live refresh follows.
* `use-document-poll.ts:21` says `onSettled` is called once: Refresh of an ended
  document clears `settledRef`, so it is called again and the list fetched again.
* "View result" closes the upload dialog without `reset`: it still holds the
  document when it is opened again.
* `stored[0].id` (`user-context.tsx:51`) throws when the stored roster is an
  array without a valid entry.

## 6. Plan

Done: sections 2 to 5. What could still be added, in this order:

1. The upload dialog as a module of its own, with `DocumentPoll` a second time:
   its retry, its close while submitting, and what it holds after "View result".
2. The strip of counts of the dashboard: four queries that do not agree.
3. The total and the page of `Listing` in two steps, and what the union of the
   pages then covers.
4. How soon a reconcile that is not disturbed puts a counter right, as a safety
   property of the pass it ends.

## 7. Not modelled, and why

Routing, the error envelope, the health check, configuration, logging and
connections keep no state and make no choices the properties depend on. Of the
decorators, the wrapping of errors is part of `JobError`; `retryable` is called
by nothing, and `backoff_delay` sets how long a retry waits, which `Processing`
leaves open. Adding and storing users concerns one actor and one key of the
browser's storage. The layout of summaries and pages has no behaviour. The
deployment scripts start and stop processes, which is the process life of
`Processing`. The length of the stream is not modelled: the code acks entries
and never trims them.

## 8. Running

    tlc -config MCProcessing_failures.cfg MCProcessing.tla
    tlc -config MCSubmission_submission.cfg MCSubmission.tla
    tlc -config MCDashboard_dashboard.cfg MCDashboard.tla
    tlc -config MCSummaries_texts.cfg MCSummaries.tla
    tlapm ProcessingProofs.tla

and the other `.cfg` files and `*Proofs.tla` in the same way.
