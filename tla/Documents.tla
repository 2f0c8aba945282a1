----------------------------- MODULE Documents -----------------------------
(***************************************************************************)
(* The document record MongoDB keeps and what each compare-and-set of      *)
(* app/repositories/document.py writes into it.  Time is abstracted to     *)
(* what a query can tell apart: a lease is live or expired, and the next   *)
(* attempt is waiting or due.  updated_at only says how long a document    *)
(* was left alone, which can be any time, and is left out.                 *)
(* The value of lease_expires_at is identified with the number of the      *)
(* claim that wrote it, which is what `attempts' counts.                   *)
(***************************************************************************)
EXTENDS Integers

CONSTANTS
    Workers,     \* worker identities; a restarted process has a new one
    NoWorker     \* worker_id = None

ASSUME NoWorkerAssumption == NoWorker \notin Workers

\* "absent" is an id the API has not inserted yet.
Status == {"absent", "queued", "processing", "completed", "failed"}

Terminal == {"completed", "failed"}

\* Statuses that occupy a rate-limit slot.
Active == {"queued", "processing"}

\* summary and error name the attempt they came from, 0 for None.
Document == [status      : Status,
             worker      : Workers \cup {NoWorker},
             lease       : {"none", "live", "expired"},
             attempts    : Nat,
             nextAttempt : {"none", "waiting", "due"},
             summary     : Nat,
             error       : Nat]

Absent == [status |-> "absent", worker |-> NoWorker, lease |-> "none",
           attempts |-> 0, nextAttempt |-> "none",
           summary |-> 0, error |-> 0]

\* Mutant: a status the workers do not know.
Inserted_Pending == [Absent EXCEPT !.status = "pending"]

\* What POST /documents inserts.
Inserted == [Absent EXCEPT !.status = "queued"]

\* Mutant: the transition filters on _id alone.
HeldBy_Unchecked(doc, w) == doc.worker \in {w} \cup Workers \cup {NoWorker}

\* The filter of complete, schedule_retry and mark_failed.
HeldBy(doc, w) == doc.status = "processing" /\ doc.worker = w

\* Mutant: claim takes over what another worker holds.
Claimable_Active(doc) == doc.status \in Active

\* The filter of claim and its update.
Claimable(doc) == doc.status = "queued"

Claimed(doc, w) ==
    [doc EXCEPT !.status = "processing", !.worker = w, !.lease = "live",
                !.attempts = @ + 1]

Completed(doc, attempt) ==
    [doc EXCEPT !.status = "completed", !.summary = attempt, !.error = 0,
                !.worker = NoWorker, !.lease = "none", !.nextAttempt = "none"]

\* Mutant: the retry does not give up the lease.
RetryScheduled_KeepsLease(doc, attempt) ==
    [doc EXCEPT !.status = "queued", !.error = attempt,
                !.nextAttempt = "waiting"]

RetryScheduled(doc, attempt) ==
    [doc EXCEPT !.status = "queued", !.error = attempt, !.worker = NoWorker,
                !.lease = "none", !.nextAttempt = "waiting"]

MarkedFailed(doc, attempt) ==
    [doc EXCEPT !.status = "failed", !.error = attempt, !.worker = NoWorker,
                !.lease = "none", !.nextAttempt = "none"]

\* Mutants: the query forgets the expiry; it asks for the wrong status.
LeaseExpired_Any(doc) == doc.status = "processing"

LeaseExpired_Queued(doc) == doc.status = "queued" /\ doc.lease = "expired"

\* The find of reclaim_expired_leases, and the compare-and-set that follows
\* it row by row: token is the lease value the find returned.
LeaseExpired(doc) == doc.status = "processing" /\ doc.lease = "expired"

\* Mutants: the reset does not compare the lease; it filters on _id alone.
SameLease_StatusOnly(doc, token) == doc.status = "processing" /\ token # 0

SameLease_IdOnly(doc, token) == doc.attempts >= token

SameLease(doc, token) == doc.status = "processing" /\ doc.attempts = token

Reclaimed(doc) ==
    [doc EXCEPT !.status = "queued", !.worker = NoWorker, !.lease = "none"]

\* Mutant: a document that ever had a retry is left out.
MayBeStale_NeverRetried(doc) ==
    doc.status = "queued" /\ doc.nextAttempt = "none"

\* find_stale_queued: not waiting on a scheduled retry, and untouched.
MayBeStale(doc) == doc.status = "queued" /\ doc.nextAttempt # "waiting"
=============================================================================
