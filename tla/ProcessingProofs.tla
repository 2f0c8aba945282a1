-------------------------- MODULE ProcessingProofs --------------------------
(***************************************************************************)
(* What TLAPS proves of Processing, for any numbers of documents, workers, *)
(* stream entries, job slots, attempts and failures.                       *)
(***************************************************************************)
EXTENDS Processing, TLAPS

-----------------------------------------------------------------------------
(* The record of a document                                                *)

\* Every write of the repository leaves a well-formed document.
LEMMA DocumentWrites ==
    ASSUME NEW doc \in Document, NEW w \in Workers, NEW attempt \in Nat
    PROVE  /\ Inserted \in Document
           /\ Claimed(doc, w) \in Document
           /\ Completed(doc, attempt) \in Document
           /\ RetryScheduled(doc, attempt) \in Document
           /\ MarkedFailed(doc, attempt) \in Document
           /\ Reclaimed(doc) \in Document
           /\ [doc EXCEPT !.lease = "expired"] \in Document
           /\ [doc EXCEPT !.nextAttempt = "due"] \in Document
<1> USE DEF Document, Status
<1>1. Inserted \in Document
  BY DEF Inserted, Absent
<1>2. Claimed(doc, w) \in Document
  <2>1. doc.attempts + 1 \in Nat
    OBVIOUS
  <2> QED
    BY <2>1 DEF Claimed
<1>3. Completed(doc, attempt) \in Document
  BY DEF Completed
<1>4. RetryScheduled(doc, attempt) \in Document
  BY DEF RetryScheduled
<1>5. MarkedFailed(doc, attempt) \in Document
  BY DEF MarkedFailed
<1>6. Reclaimed(doc) \in Document
  BY DEF Reclaimed
<1>7. [doc EXCEPT !.lease = "expired"] \in Document
  OBVIOUS
<1>8. [doc EXCEPT !.nextAttempt = "due"] \in Document
  OBVIOUS
<1> QED
  BY <1>1, <1>2, <1>3, <1>4, <1>5, <1>6, <1>7, <1>8

\* What a step of the collection does to one document.
LEMMA UpdateDocs ==
    ASSUME docs \in [Docs -> Document],
           NEW d \in Docs, NEW doc \in Document
    PROVE  /\ [docs EXCEPT ![d] = doc] \in [Docs -> Document]
           /\ [docs EXCEPT ![d] = doc][d] = doc
           /\ \A x \in Docs \ {d} : [docs EXCEPT ![d] = doc][x] = docs[x]
  OBVIOUS

-----------------------------------------------------------------------------
(* Types                                                                   *)

\* A job that is not free names a document and an entry, and so does an entry
\* that is not free.
JobsTyped ==
    /\ jobs \in [Workers -> [Slots -> Job]]
    /\ \A w \in Workers, s \in Slots :
          jobs[w][s].pc # "free" => /\ jobs[w][s].doc \in Docs
                                    /\ jobs[w][s].entry \in Entries

EntriesTyped ==
    /\ entries \in [Entries -> Entry]
    /\ \A e \in Entries : entries[e].state # "free" => entries[e].doc \in Docs

Typed == TypeOK /\ JobsTyped /\ EntriesTyped

LEMMA InitTyped == Init => Typed
  BY ProcessingAssumption
     DEF Init, Typed, TypeOK, JobsTyped, EntriesTyped, Document, Status, Absent, Entry,
         FreeEntry, Job, NoJob, NoJobs, InLoop, InTask, Sweep, Resting, NoRows,
         Effects, NoEffects

\* The three writes of the stream.
LEMMA AddEntryTyped ==
    ASSUME EntriesTyped, NEW d \in Docs, NEW e \in Entries, AddEntry(d, e)
    PROVE  EntriesTyped'
  BY DEF EntriesTyped, AddEntry, Entry

LEMMA AckedTyped ==
    ASSUME EntriesTyped, NEW ids, entries' = Acked(entries, ids)
    PROVE  EntriesTyped'
  BY DEF EntriesTyped, Acked, Entry, FreeEntry

LEMMA DeliverTyped ==
    ASSUME EntriesTyped, JobsTyped, NEW w \in Workers,
           NEW T \in SUBSET Slots, NEW batch \in [T -> Entries],
           \A e \in Range(batch) : entries[e].state # "free",
           Deliver(w, batch)
    PROVE  EntriesTyped' /\ JobsTyped'
<1>1. EntriesTyped'
  BY DEF EntriesTyped, Deliver, Entry
<1>2. \A s \in T : batch[s] \in Entries /\ entries[batch[s]].doc \in Docs
  BY DEF EntriesTyped, Range
<1>3. DOMAIN batch = T
  OBVIOUS
<1> DEFINE new(s) == IF s \in T
                     THEN [NoJob EXCEPT !.pc = "buffered", !.entry = batch[s],
                                        !.doc = entries[batch[s]].doc]
                     ELSE jobs[w][s]
<1>4. ASSUME NEW s \in Slots
      PROVE  /\ new(s) \in Job
             /\ new(s).pc # "free" => new(s).doc \in Docs /\ new(s).entry \in Entries
  BY <1>2 DEF NoJob, Job, JobsTyped
<1>5. jobs' = [jobs EXCEPT ![w] = [s \in Slots |-> new(s)]]
  BY <1>3 DEF Deliver
<1> HIDE DEF new
<1> QED
  BY <1>1, <1>4, <1>5 DEF JobsTyped

\* The three ways a job changes.
LEMMA GotoTyped ==
    ASSUME JobsTyped, NEW w \in Workers, NEW s \in Slots,
           NEW pc \in InLoop \cup InTask, ~At(w, s, {"free"}), Goto(w, s, pc)
    PROVE  JobsTyped'
  BY DEF JobsTyped, Goto, At, Job

LEMMA NoJobTyped ==
    ASSUME JobsTyped, NEW w \in Workers, NEW s \in Slots,
           jobs' = [jobs EXCEPT ![w][s] = NoJob]
    PROVE  JobsTyped'
  BY DEF JobsTyped, NoJob, Job

LEMMA NoJobsTyped ==
    ASSUME JobsTyped, NEW w \in Workers, jobs' = [jobs EXCEPT ![w] = NoJobs]
    PROVE  JobsTyped'
  BY DEF JobsTyped, NoJobs, NoJob, Job

\* The document of a request, before and after the insert.
LEMMA InsertedIsDocument == Inserted \in Document
  BY DEF Document, Status, Inserted, Absent

LEMMA RequestTyped ==
    ASSUME Typed, NEW d \in Docs, Request(d)
    PROVE  Typed'
<1> USE DEF Typed, TypeOK
<1>1. CASE Insert(d)
  BY <1>1, InsertedIsDocument DEF Insert, JobsTyped, EntriesTyped
<1>2. CASE InsertFails(d)
  <2>1. docs' \in [Docs -> Document]
    BY <1>2, InsertedIsDocument DEF InsertFails
  <2>2. faults' \in 0..MaxFaults
    BY <1>2, ProcessingAssumption DEF InsertFails, Fault
  <2> QED
    BY <1>2, <2>1, <2>2 DEF InsertFails, JobsTyped, EntriesTyped
<1>3. ASSUME NEW e \in Entries, Publish(d, e) PROVE Typed'
  BY <1>3, AddEntryTyped DEF Publish, JobsTyped, EntriesTyped
<1>4. CASE PublishFails(d)
  <2>1. faults' \in 0..MaxFaults
    BY <1>4, ProcessingAssumption DEF PublishFails, Fault
  <2>2. EntriesTyped'
    BY <1>4, AddEntryTyped DEF PublishFails, EntriesTyped
  <2> QED
    BY <1>4, <2>1, <2>2 DEF PublishFails, JobsTyped, EntriesTyped
<1>5. CASE RequestDies(d)
  <2>1. faults' \in 0..MaxFaults
    BY <1>5, ProcessingAssumption DEF RequestDies, Fault
  <2> QED
    BY <1>5, <2>1 DEF RequestDies, JobsTyped, EntriesTyped
<1> QED
  BY <1>1, <1>2, <1>3, <1>4, <1>5 DEF Request

LEMMA FaultTyped ==
    ASSUME faults \in 0..MaxFaults, NEW kind, Fault(kind)
    PROVE  faults' \in 0..MaxFaults
  BY ProcessingAssumption DEF Fault

\* A batch maps slots to entries of the set it was taken from.
LEMMA BatchTyped ==
    ASSUME NEW w \in Workers, NEW ids \in SUBSET Entries,
           NEW batch \in Batches(w, ids)
    PROVE  \E T \in SUBSET Slots : batch \in [T -> ids] /\ T \subseteq FreeSlots(w)
  BY DEF Batches, Injection, FreeSlots

\* One call of the consume loop that delivers entries.
LEMMA DeliveryTyped ==
    ASSUME Typed, NEW w \in Workers, NEW ids \in SUBSET Entries,
           \A e \in ids : entries[e].state # "free",
           NEW batch \in Batches(w, ids), Deliver(w, batch)
    PROVE  EntriesTyped' /\ JobsTyped'
<1>1. PICK T \in SUBSET Slots : batch \in [T -> ids]
  BY BatchTyped
<1>2. \A e \in Range(batch) : entries[e].state # "free"
  BY <1>1 DEF Range
<1> QED
  BY <1>1, <1>2, DeliverTyped DEF Typed

LEMMA LoopTyped ==
    ASSUME Typed, NEW w \in Workers, LoopStep(w)
    PROVE  Typed'
<1> USE DEF Typed, TypeOK
<1>1. CASE Read(w)
  <2>1. EntriesTyped' /\ JobsTyped'
    BY <1>1, DeliveryTyped DEF Read, QueuedEntries
  <2> QED
    BY <1>1, <2>1 DEF Read, CallReturns, EntriesTyped, JobsTyped
<1>2. CASE AutoClaim(w)
  <2>1. EntriesTyped' /\ JobsTyped'
    BY <1>2, DeliveryTyped DEF AutoClaim, PendingEntries
  <2> QED
    BY <1>2, <2>1 DEF AutoClaim, CallReturns, EntriesTyped, JobsTyped
<1>3. CASE ReadReturnsNothing(w)
  BY <1>3 DEF ReadReturnsNothing, CallReturns, EntriesTyped, JobsTyped
<1>4. ASSUME NEW s \in Slots, Claim(w, s) PROVE Typed'
  <2>1. jobs[w][s].doc \in Docs /\ docs[jobs[w][s].doc] \in Document
    BY <1>4 DEF Claim, At, JobsTyped
  <2>2. docs' \in [Docs -> Document]
    BY <1>4, <2>1, DocumentWrites DEF Claim
  <2>3. JobsTyped'
    BY <1>4, GotoTyped DEF Claim, At, InLoop
  <2> QED
    BY <1>4, <2>2, <2>3 DEF Claim, EntriesTyped, JobsTyped
<1>5. ASSUME NEW s \in Slots, ClaimLost(w, s) PROVE Typed'
  <2>1. JobsTyped'
    BY <1>5, GotoTyped DEF ClaimLost, At, InLoop
  <2> QED
    BY <1>5, <2>1 DEF ClaimLost, EntriesTyped, JobsTyped
<1>6. ASSUME NEW s \in Slots, Load(w, s) PROVE Typed'
  <2>1. docs[jobs[w][s].doc].attempts \in Nat
    BY <1>6 DEF Load, At, JobsTyped, Document
  <2> DEFINE new == [jobs[w][s] EXCEPT !.pc = "claimed",
                        !.attempt = docs[jobs[w][s].doc].attempts]
  <2>a. /\ jobs[w][s] \in Job
        /\ jobs[w][s].doc \in Docs /\ jobs[w][s].entry \in Entries
    BY <1>6 DEF Load, At, JobsTyped
  <2>2. new \in Job /\ new.doc \in Docs /\ new.entry \in Entries
    BY <2>1, <2>a DEF Job, InLoop
  <2>3. jobs' = [jobs EXCEPT ![w][s] = new]
    BY <1>6 DEF Load, JobsTyped
  <2> HIDE DEF new
  <2>4. JobsTyped'
    BY <2>2, <2>3 DEF JobsTyped
  <2> QED
    BY <1>6, <2>4 DEF Load, EntriesTyped, JobsTyped
<1>7. ASSUME NEW s \in Slots, StartTask(w, s) PROVE Typed'
  <2>1. JobsTyped'
    BY <1>7, GotoTyped DEF StartTask, At, InTask
  <2> QED
    BY <1>7, <2>1 DEF StartTask, EntriesTyped, JobsTyped
<1> QED
  BY <1>1, <1>2, <1>3, <1>4, <1>5, <1>6, <1>7 DEF LoopStep

\* The compare-and-set that settles a job, whatever the outcome.
LEMMA SettleTyped ==
    ASSUME Typed, NEW w \in Workers, NEW s \in Slots,
           At(w, s, {"running"}),
           NEW doc \in Document, NEW pc \in InTask,
           docs' = [docs EXCEPT ![jobs[w][s].doc] = doc],
           Goto(w, s, pc),
           UNCHANGED <<api, entries, delayed, proc, sweep, effects, faults>>
    PROVE  Typed'
<1>1. JobsTyped'
  BY GotoTyped DEF Typed, At
<1> QED
  BY <1>1 DEF Typed, TypeOK, EntriesTyped, JobsTyped

LEMMA SideEffectTyped ==
    ASSUME Typed, NEW w \in Workers, NEW s \in Slots, NEW from \in InTask,
           NEW effect \in Effects, NEW to \in InTask,
           SideEffect(w, s, from, effect, to)
    PROVE  Typed'
<1>1. JobsTyped'
  BY GotoTyped DEF Typed, SideEffect, At, InTask
<1>2. faults' \in 0..MaxFaults
  BY FaultTyped DEF Typed, TypeOK, SideEffect
<1>3. effects' \in [Docs -> Effects]
  BY DEF Typed, TypeOK, SideEffect
<1> QED
  BY <1>1, <1>2, <1>3 DEF Typed, TypeOK, EntriesTyped, JobsTyped, SideEffect

LEMMA TaskTyped ==
    ASSUME Typed, NEW w \in Workers, NEW s \in Slots, TaskStep(w, s)
    PROVE  Typed'
<1> USE DEF Typed, TypeOK
<1> DEFINE d == jobs[w][s].doc
<1>a. ASSUME ~At(w, s, {"free"})
      PROVE  /\ d \in Docs /\ docs[d] \in Document
             /\ jobs[w][s].attempt \in Nat /\ effects[d] \in Effects
  BY <1>a DEF At, JobsTyped, Job
<1>b. At(w, s, {"running"}) => ~At(w, s, {"free"})
  BY DEF At
<1>1. CASE Complete(w, s)
  <2>1. Completed(docs[d], jobs[w][s].attempt) \in Document
    BY <1>1, <1>a, <1>b, DocumentWrites DEF Complete, Settle, HeldBy
  <2> QED
    BY <1>1, <2>1, SettleTyped DEF Complete, Settle, InTask
<1>2. CASE ScheduleRetry(w, s)
  <2>1. RetryScheduled(docs[d], jobs[w][s].attempt) \in Document
    BY <1>2, <1>a, <1>b, DocumentWrites DEF ScheduleRetry, Settle, HeldBy
  <2> QED
    BY <1>2, <2>1, SettleTyped DEF ScheduleRetry, Settle, InTask
<1>3. CASE MarkFailed(w, s)
  <2>1. MarkedFailed(docs[d], jobs[w][s].attempt) \in Document
    BY <1>3, <1>a, <1>b, DocumentWrites DEF MarkFailed, Settle, HeldBy
  <2> QED
    BY <1>3, <2>1, SettleTyped DEF MarkFailed, Settle, InTask
<1>4. CASE LoseLease(w, s)
  <2>1. JobsTyped'
    BY <1>4, GotoTyped DEF LoseLease, At, InTask
  <2> QED
    BY <1>4, <2>1 DEF LoseLease, EntriesTyped, JobsTyped
<1>5. CASE Delay(w, s)
  <2>1. JobsTyped'
    BY <1>5, GotoTyped DEF Delay, At, InTask
  <2>2. delayed' \in [Docs -> Nat] /\ faults' \in 0..MaxFaults
    BY <1>5, <1>a, FaultTyped DEF Delay, At
  <2> QED
    BY <1>5, <2>1, <2>2 DEF Delay, EntriesTyped, JobsTyped
<1>6. CASE CacheSummary(w, s)
  <2>1. [effects[d] EXCEPT !.cached = TRUE] \in Effects
    BY <1>6, <1>a DEF CacheSummary, SideEffect, At, Effects
  <2> QED
    BY <1>6, <2>1, SideEffectTyped DEF CacheSummary, InTask
<1>7. CASE ReleaseSlot(w, s)
  <2>1. [effects[d] EXCEPT !.slot = effects[d].slot + 1] \in Effects
    <3>1. effects[d].slot + 1 \in Nat
      BY <1>7, <1>a DEF ReleaseSlot, SideEffect, At, Effects
    <3> QED
      BY <1>7, <1>a, <3>1 DEF ReleaseSlot, SideEffect, At, Effects
  <2> QED
    BY <1>7, <2>1, SideEffectTyped DEF ReleaseSlot, InTask
<1>8. CASE ReleaseGuard(w, s)
  <2>1. [effects[d] EXCEPT !.guard = effects[d].guard + 1] \in Effects
    <3>1. effects[d].guard + 1 \in Nat
      BY <1>8, <1>a DEF ReleaseGuard, SideEffect, At, Effects
    <3> QED
      BY <1>8, <1>a, <3>1 DEF ReleaseGuard, SideEffect, At, Effects
  <2> QED
    BY <1>8, <2>1, SideEffectTyped DEF ReleaseGuard, InTask
<1>9. CASE Ack(w, s)
  <2>1. JobsTyped' /\ EntriesTyped'
    BY <1>9, NoJobTyped, AckedTyped DEF Ack
  <2> QED
    BY <1>9, <2>1 DEF Ack, EntriesTyped, JobsTyped
<1> QED
  BY <1>1, <1>2, <1>3, <1>4, <1>5, <1>6, <1>7, <1>8, <1>9 DEF TaskStep

LEMMA SweepTyped ==
    ASSUME Typed, NEW w \in Workers, SweepStep(w)
    PROVE  Typed'
<1> USE DEF Typed, TypeOK
<1>1. ASSUME NEW rows \in [Docs -> Nat], NEW todo \in SUBSET Docs,
             StageBegins(w, rows, todo)
      PROVE  sweep' \in [Workers -> Sweep]
  BY <1>1 DEF StageBegins, Sweep
<1>2. CASE SweepFind(w)
  <2> DEFINE rows == [d \in Docs |-> IF LeaseExpired(docs[d])
                                     THEN docs[d].attempts ELSE 0]
  <2>1. rows \in [Docs -> Nat]
    BY DEF Document
  <2>2. StageBegins(w, rows, {})
    BY <1>2 DEF SweepFind
  <2> HIDE DEF rows
  <2>3. sweep' \in [Workers -> Sweep]
    BY <1>1, <2>1, <2>2
  <2> QED
    BY <1>2, <2>3 DEF SweepFind, EntriesTyped, JobsTyped
<1>3. CASE SweepPromote(w)
  <2>1. NoRows \in [Docs -> Nat]
    BY DEF NoRows
  <2>2. sweep' \in [Workers -> Sweep]
    BY <1>1, <1>3, <2>1 DEF SweepPromote
  <2>3. delayed' \in [Docs -> Nat]
    BY <1>3 DEF SweepPromote
  <2> QED
    BY <1>3, <2>2, <2>3 DEF SweepPromote, EntriesTyped, JobsTyped
<1>4. CASE SweepStale(w)
  <2>1. NoRows \in [Docs -> Nat]
    BY DEF NoRows
  <2>2. sweep' \in [Workers -> Sweep]
    BY <1>1, <1>4, <2>1 DEF SweepStale
  <2> QED
    BY <1>4, <2>2 DEF SweepStale, EntriesTyped, JobsTyped
<1>5. ASSUME NEW d \in Docs, SweepReset(w, d) PROVE Typed'
  <2> DEFINE token == sweep[w].rows[d]
             found == SameLease(docs[d], token)
             row   == [sweep[w] EXCEPT !.rows[d] = 0,
                                       !.todo = IF found THEN @ \cup {d} ELSE @]
  <2>a. Reclaimed(docs[d]) \in Document
    <3>1. docs[d] \in Document
      OBVIOUS
    <3> QED
      BY <3>1, DocumentWrites
  <2>1. docs' \in [Docs -> Document]
    BY <1>5, <2>a DEF SweepReset
  <2>b. row \in Sweep
    BY DEF Sweep
  <2>c. sweep' = [sweep EXCEPT ![w] = row]
    BY <1>5 DEF SweepReset, Sweep
  <2> HIDE DEF row
  <2>2. sweep' \in [Workers -> Sweep]
    BY <2>b, <2>c
  <2> QED
    BY <1>5, <2>1, <2>2 DEF SweepReset, EntriesTyped, JobsTyped
<1>6. ASSUME NEW d \in Docs, NEW e \in Entries, SweepPublish(w, d, e) PROVE Typed'
  <2>1. EntriesTyped'
    BY <1>6, AddEntryTyped DEF SweepPublish
  <2>2. sweep' \in [Workers -> Sweep]
    BY <1>6 DEF SweepPublish, Sweep
  <2> QED
    BY <1>6, <2>1, <2>2 DEF SweepPublish, EntriesTyped, JobsTyped
<1> QED
  BY <1>2, <1>3, <1>4, <1>5, <1>6 DEF SweepStep

LEMMA ClockTyped ==
    ASSUME Typed, NEW d \in Docs, NEW doc \in Document, ClockTicks(d, doc),
           faults' \in 0..MaxFaults
    PROVE  Typed'
  BY DEF Typed, TypeOK, ClockTicks, EntriesTyped, JobsTyped

LEMMA TimedTyped ==
    ASSUME Typed, NEW d \in Docs, Clock(d) \/ LeaseOutrun(d)
    PROVE  Typed'
<1> USE DEF Typed, TypeOK
<1>1. /\ [docs[d] EXCEPT !.lease = "expired"] \in Document
      /\ [docs[d] EXCEPT !.nextAttempt = "due"] \in Document
  BY DEF Document
<1>2. faults' \in 0..MaxFaults
  BY FaultTyped DEF Clock, LeaseOutrun, LeaseExpires, BackoffElapses
<1> QED
  BY <1>1, <1>2, ClockTyped DEF Clock, LeaseOutrun, LeaseExpires, BackoffElapses

LEMMA EndsTyped ==
    ASSUME Typed, NEW w \in Workers, NEW kind, NEW as \in {"dead", "torn"},
           Ends(w, kind, as)
    PROVE  Typed'
<1>1. JobsTyped'
  BY NoJobsTyped DEF Typed, Ends
<1>2. EntriesTyped'
  BY AckedTyped DEF Typed, Ends
<1>3. faults' \in 0..MaxFaults
  BY FaultTyped DEF Typed, TypeOK, Ends
<1>4. sweep' \in [Workers -> Sweep]
  BY DEF Typed, TypeOK, Ends, Sweep, Resting, NoRows
<1>5. proc' \in [Workers -> {"new", "up", "stopping", "draining", "dead", "torn"}]
  BY DEF Typed, TypeOK, Ends
<1> QED
  BY <1>1, <1>2, <1>3, <1>4, <1>5
     DEF Typed, TypeOK, Ends, EntriesTyped, JobsTyped

LEMMA FailureTyped ==
    ASSUME Typed, Failure
    PROVE  Typed'
<1> USE DEF Typed, TypeOK
<1>1. ASSUME NEW d \in Docs, LoseDelay(d) PROVE Typed'
  <2>1. faults' \in 0..MaxFaults
    BY <1>1, FaultTyped DEF LoseDelay
  <2> QED
    BY <1>1, <2>1 DEF LoseDelay, EntriesTyped, JobsTyped
<1>2. ASSUME NEW e \in Entries, LoseEntry(e) PROVE Typed'
  <2>1. faults' \in 0..MaxFaults
    BY <1>2, FaultTyped DEF LoseEntry
  <2>2. EntriesTyped'
    BY <1>2 DEF LoseEntry, EntriesTyped, FreeEntry, Entry
  <2> QED
    BY <1>2, <2>1, <2>2 DEF LoseEntry, EntriesTyped, JobsTyped
<1>3. ASSUME NEW w \in Workers, AutoClaimOutrun(w) PROVE Typed'
  <2>1. EntriesTyped' /\ JobsTyped'
    BY <1>3, DeliveryTyped DEF AutoClaimOutrun, PendingEntries
  <2>2. faults' \in 0..MaxFaults
    BY <1>3, FaultTyped DEF AutoClaimOutrun
  <2> QED
    BY <1>3, <2>1, <2>2 DEF AutoClaimOutrun, CallReturns, EntriesTyped, JobsTyped
<1>4. ASSUME NEW w \in Workers, SweepAborts(w) PROVE Typed'
  <2>1. faults' \in 0..MaxFaults
    BY <1>4, FaultTyped DEF SweepAborts
  <2>2. sweep' \in [Workers -> Sweep]
    BY <1>4 DEF SweepAborts, Sweep, Resting, NoRows
  <2> QED
    BY <1>4, <2>1, <2>2 DEF SweepAborts, EntriesTyped, JobsTyped
<1>5. ASSUME NEW w \in Workers, Crash(w) \/ AckRaises(w) PROVE Typed'
  BY <1>5, EndsTyped DEF Crash, AckRaises
<1>6. ASSUME NEW w \in Workers, NEW e \in Entries, ReadReplyLost(w, e) PROVE Typed'
  <2>1. faults' \in 0..MaxFaults
    BY <1>6, FaultTyped DEF ReadReplyLost
  <2>2. EntriesTyped'
    BY <1>6 DEF ReadReplyLost, QueuedEntries, EntriesTyped, Entry
  <2> QED
    BY <1>6, <2>1, <2>2 DEF ReadReplyLost, CallReturns, EntriesTyped, JobsTyped
<1>7. ASSUME NEW w \in Workers, NEW s \in Slots, JobError(w, s) PROVE Typed'
  <2>1. faults' \in 0..MaxFaults
    BY <1>7, FaultTyped DEF JobError
  <2>2. JobsTyped'
    BY <1>7, GotoTyped DEF JobError, At, InTask
  <2> QED
    BY <1>7, <2>1, <2>2 DEF JobError, EntriesTyped, JobsTyped
<1> QED
  BY <1>1, <1>2, <1>3, <1>4, <1>5, <1>6, <1>7, TimedTyped DEF Failure

LEMMA NextTyped ==
    ASSUME Typed, [Next]_vars
    PROVE  Typed'
<1>1. ASSUME NEW w \in Workers, Start(w) \/ Stop(w) \/ Exit(w) PROVE Typed'
  BY <1>1 DEF Start, Stop, Exit, Typed, TypeOK, EntriesTyped, JobsTyped
<1>2. CASE Idle \/ UNCHANGED vars
  BY <1>2 DEF Idle, vars, Typed, TypeOK, EntriesTyped, JobsTyped
<1> QED
  BY <1>1, <1>2, RequestTyped, LoopTyped, TaskTyped, SweepTyped, TimedTyped,
     FailureTyped
     DEF Next

\* Every reachable state is well formed: no sequence of requests, deliveries,
\* settlements, sweeps, failures and restarts leaves a record the code does not
\* know how to read.
THEOREM TypeCorrect == Spec => []TypeOK
<1>1. Typed => TypeOK
  BY DEF Typed
<1> QED
  BY <1>1, InitTyped, NextTyped, PTL DEF Spec

-----------------------------------------------------------------------------
(* The inductive invariant.  The invariants of Processing do not carry      *)
(* themselves: that nothing resets a document needs to know that its        *)
(* request is past the insert, that a document which has ended waits for    *)
(* nothing, and that a job past its claim has an attempt to report.         *)

ApiInv == \A d \in Docs : api[d] = "new" => docs[d] = Absent

EndedInv ==
    \A d \in Docs : docs[d].status \in Terminal => docs[d].nextAttempt = "none"

ClaimInv ==
    \A w \in Workers, s \in Slots :
        LET job == jobs[w][s]
        IN /\ job.pc \in {"loading", "claimed"} \cup InTask =>
                 docs[job.doc].attempts >= 1
           /\ job.pc \in {"claimed"} \cup InTask => job.attempt >= 1

IInv == /\ Typed /\ ApiInv /\ EndedInv /\ LeaseInv /\ RowInv
        /\ ClaimInv /\ AttemptInv
        /\ SettledOnce /\ OneSettles

LEMMA InitInv == Init => IInv
<1> SUFFICES ASSUME Init PROVE IInv
  OBVIOUS
<1>1. Typed
  BY InitTyped
<1>2. ApiInv /\ EndedInv /\ LeaseInv /\ RowInv
  BY NoWorkerAssumption
     DEF Init, ApiInv, EndedInv, LeaseInv, RowInv, Absent, Terminal, Resting,
         NoRows, SameLease
<1>3. ClaimInv /\ AttemptInv /\ SettledOnce /\ OneSettles
  BY ProcessingAssumption
     DEF Init, ClaimInv, AttemptInv, SettledOnce, OneSettles, Both, Absent,
         NoJobs, NoJob, NoEffects, InTask, Settling, Terminal
<1> QED
  BY <1>1, <1>2, <1>3 DEF IInv

-----------------------------------------------------------------------------
(* What a step does to one document                                        *)

\* A compare-and-set of job <<w, s>> on d succeeds.
Settles1(d, w, s) ==
    /\ jobs[w][s].pc = "running" /\ jobs[w][s].doc = d
    /\ HeldBy(docs[d], w)

Move(d) ==
    \/ docs'[d] = docs[d]
    \/ api[d] = "new" /\ api'[d] # "new" /\ docs'[d] = Inserted
    \/ \E w \in Workers : Claimable(docs[d]) /\ docs'[d] = Claimed(docs[d], w)
    \/ \E w \in Workers, s \in Slots :
          /\ Settles1(d, w, s)
          /\ \/ docs'[d] = Completed(docs[d], jobs[w][s].attempt)
             \/ /\ docs'[d] = MarkedFailed(docs[d], jobs[w][s].attempt)
                /\ jobs[w][s].attempt >= MaxAttempts
             \/ /\ docs'[d] = RetryScheduled(docs[d], jobs[w][s].attempt)
                /\ jobs[w][s].attempt < MaxAttempts
                /\ jobs'[w][s].pc = "delaying"
    \/ /\ docs'[d] = Reclaimed(docs[d])
       /\ \E w \in Workers : /\ sweep[w].rows[d] # 0
                            /\ SameLease(docs[d], sweep[w].rows[d])
    \/ /\ docs[d].lease = "live"
       /\ docs'[d] = [docs[d] EXCEPT !.lease = "expired"]
    \/ /\ docs[d].nextAttempt = "waiting"
       /\ docs'[d] = [docs[d] EXCEPT !.nextAttempt = "due"]

LEMMA SettleMoves ==
    ASSUME Typed, NEW w \in Workers, NEW s \in Slots, NEW x \in Docs,
           Complete(w, s) \/ ScheduleRetry(w, s) \/ MarkFailed(w, s)
    PROVE  Move(x)
<1> DEFINE d == jobs[w][s].doc
           a == jobs[w][s].attempt
<1>1. /\ Settles1(d, w, s)
      /\ d \in Docs
      /\ jobs \in [Workers -> [Slots -> Job]] /\ docs \in [Docs -> Document]
  BY DEF Complete, ScheduleRetry, MarkFailed, Settle, Settles1, At, Typed,
         TypeOK, JobsTyped
<1>2. CASE Complete(w, s)
  <2>1. docs' = [docs EXCEPT ![d] = Completed(docs[d], a)]
    BY <1>2 DEF Complete, Settle
  <2> QED
    BY <1>1, <2>1 DEF Move
<1>3. CASE MarkFailed(w, s)
  <2>1. docs' = [docs EXCEPT ![d] = MarkedFailed(docs[d], a)] /\ a >= MaxAttempts
    BY <1>3 DEF MarkFailed, Settle
  <2> QED
    BY <1>1, <2>1 DEF Move
<1>4. CASE ScheduleRetry(w, s)
  <2>1. docs' = [docs EXCEPT ![d] = RetryScheduled(docs[d], a)] /\ a < MaxAttempts
    BY <1>4 DEF ScheduleRetry, Settle
  <2>2. jobs'[w][s].pc = "delaying"
    BY <1>1, <1>4 DEF ScheduleRetry, Settle, Goto, Job
  <2> QED
    BY <1>1, <2>1, <2>2 DEF Move
<1> QED
  BY <1>2, <1>3, <1>4

LEMMA StepMoves ==
    ASSUME Typed, [Next]_vars, NEW x \in Docs
    PROVE  Move(x)
<1> DEFINE Same == docs' = docs
<1>1. Same => Move(x)
  BY DEF Move
<1>2. ASSUME NEW d \in Docs, Request(d) PROVE Move(x)
  <2>1. Insert(d) \/ InsertFails(d) \/ Same
    BY <1>2 DEF Request, Publish, PublishFails, RequestDies
  <2>2. CASE Insert(d) \/ InsertFails(d)
    BY <2>2 DEF Insert, InsertFails, Move, Typed, TypeOK
  <2> QED
    BY <1>1, <2>1, <2>2
<1>3. ASSUME NEW w \in Workers, LoopStep(w) PROVE Move(x)
  <2>1. ASSUME NEW s \in Slots, Claim(w, s) PROVE Move(x)
    BY <2>1 DEF Claim, Move, Typed, TypeOK
  <2>2. (\E s \in Slots : Claim(w, s)) \/ Same
    BY <1>3 DEF LoopStep, Read, AutoClaim, ReadReturnsNothing, ClaimLost, Load,
                StartTask
  <2> QED
    BY <1>1, <2>1, <2>2
<1>4. ASSUME NEW w \in Workers, NEW s \in Slots, TaskStep(w, s) PROVE Move(x)
  <2>1. \/ Complete(w, s) \/ ScheduleRetry(w, s) \/ MarkFailed(w, s)
        \/ Same
    BY <1>4 DEF TaskStep, LoseLease, Delay, CacheSummary, ReleaseSlot,
                ReleaseGuard, SideEffect, Ack
  <2> QED
    BY <1>1, <2>1, SettleMoves
<1>5. ASSUME NEW w \in Workers, SweepStep(w) PROVE Move(x)
  <2>1. ASSUME NEW d \in Docs, SweepReset(w, d) PROVE Move(x)
    BY <2>1 DEF SweepReset, Move, Typed, TypeOK
  <2>2. (\E d \in Docs : SweepReset(w, d)) \/ Same
    BY <1>5 DEF SweepStep, SweepFind, SweepPromote, SweepStale, SweepPublish
  <2> QED
    BY <1>1, <2>1, <2>2
<1>6. ASSUME NEW d \in Docs, Clock(d) \/ LeaseOutrun(d) PROVE Move(x)
  BY <1>6 DEF Clock, LeaseExpires, LeaseOutrun, BackoffElapses, ClockTicks,
              Move, Typed, TypeOK
<1>7. CASE Failure
  <2>1. (\E d \in Docs : LeaseOutrun(d)) \/ Same
    BY <1>7 DEF Failure, LoseDelay, LoseEntry, AutoClaimOutrun, SweepAborts,
                Crash, AckRaises, Ends, ReadReplyLost, JobError
  <2> QED
    BY <1>1, <1>6, <2>1
<1>8. ASSUME NEW w \in Workers, Start(w) \/ Stop(w) \/ Exit(w) PROVE Move(x)
  BY <1>1, <1>8 DEF Start, Stop, Exit
<1>9. CASE Idle \/ UNCHANGED vars
  BY <1>1, <1>9 DEF Idle, vars
<1> QED
  BY <1>2, <1>3, <1>4, <1>5, <1>6, <1>7, <1>8, <1>9 DEF Next

\* The facts every proof below takes from Move: a document that has ended is
\* never touched, and attempts are never taken back.
LEMMA MoveFacts ==
    ASSUME IInv, [Next]_vars, NEW d \in Docs
    PROVE  /\ docs[d] \in Document /\ docs'[d] \in Document
           /\ docs[d].status \in Terminal => docs'[d] = docs[d]
           /\ docs'[d].attempts >= docs[d].attempts
<1>1. docs[d] \in Document /\ docs'[d] \in Document
  BY NextTyped DEF IInv, Typed, TypeOK
<1>2. Move(d)
  BY StepMoves DEF IInv
<1>3. ASSUME docs[d].status \in Terminal PROVE docs'[d] = docs[d]
  BY <1>1, <1>2, <1>3
     DEF Move, IInv, ApiInv, EndedInv, LeaseInv, Terminal, Absent, Claimable,
         Settles1, HeldBy, SameLease, Document
<1>4. docs[d].attempts \in Nat
  BY <1>1 DEF Document
<1>5. docs'[d].attempts >= docs[d].attempts
  <2>1. CASE api[d] = "new" /\ docs'[d] = Inserted
    BY <2>1 DEF IInv, ApiInv, Absent, Inserted
  <2>2. ASSUME NEW w \in Workers, docs'[d] = Claimed(docs[d], w)
        PROVE  docs'[d].attempts >= docs[d].attempts
    <3>1. docs'[d].attempts = docs[d].attempts + 1
      BY <1>1, <2>2 DEF Claimed, Document
    <3> QED
      BY <3>1, <1>4
  <2>3. \/ docs'[d].attempts = docs[d].attempts
        \/ api[d] = "new" /\ docs'[d] = Inserted
        \/ \E w \in Workers : docs'[d] = Claimed(docs[d], w)
    BY <1>1, <1>2 DEF Move, Completed, MarkedFailed, RetryScheduled, Reclaimed,
                      Document
  <2> QED
    BY <1>4, <2>1, <2>2, <2>3
<1> QED
  BY <1>1, <1>3, <1>5

LEMMA OnlyRequests ==
    ASSUME [Next]_vars
    PROVE  (\E d \in Docs : Request(d)) \/ api' = api
<1>1. ASSUME NEW d \in Docs, Clock(d) PROVE api' = api
  BY <1>1 DEF Clock, LeaseExpires, BackoffElapses, ClockTicks
<1>2. ASSUME NEW w \in Workers, LoopStep(w) PROVE api' = api
  BY <1>2 DEF LoopStep, Read, AutoClaim, ReadReturnsNothing, Claim, ClaimLost,
              Load, StartTask
<1>3. ASSUME NEW w \in Workers, NEW s \in Slots, TaskStep(w, s) PROVE api' = api
  BY <1>3 DEF TaskStep, Complete, ScheduleRetry, MarkFailed, Settle, LoseLease,
              Delay, CacheSummary, ReleaseSlot, ReleaseGuard, SideEffect, Ack
<1>4. ASSUME NEW w \in Workers, SweepStep(w) PROVE api' = api
  BY <1>4 DEF SweepStep, SweepFind, SweepPromote, SweepStale, SweepReset,
              SweepPublish
<1>5. CASE Failure
  BY <1>5 DEF Failure, LeaseOutrun, ClockTicks, LoseDelay, LoseEntry,
              AutoClaimOutrun, SweepAborts, Crash, AckRaises, Ends,
              ReadReplyLost, JobError
<1>6. ASSUME NEW w \in Workers, Start(w) \/ Stop(w) \/ Exit(w) PROVE api' = api
  BY <1>6 DEF Start, Stop, Exit
<1>7. CASE Idle \/ UNCHANGED vars
  BY <1>7 DEF Idle, vars
<1> QED
  BY <1>1, <1>2, <1>3, <1>4, <1>5, <1>6, <1>7 DEF Next

LEMMA DocInvStep ==
    ASSUME IInv, [Next]_vars
    PROVE  ApiInv' /\ EndedInv' /\ LeaseInv'
<1>1. ASSUME NEW d \in Docs, api'[d] = "new" PROVE api[d] = "new"
  <2>1. api \in [Docs -> {"new", "inserted", "done"}]
    BY DEF IInv, Typed, TypeOK
  <2>2. ASSUME NEW x \in Docs, Request(x) PROVE api[d] = "new"
    BY <1>1, <2>1, <2>2
       DEF Request, Insert, InsertFails, Publish, PublishFails, RequestDies
  <2>3. CASE api' = api
    BY <1>1, <2>3
  <2> QED
    BY <1>1, <2>1, <2>2, <2>3, OnlyRequests
<1>2. ASSUME NEW d \in Docs
      PROVE  /\ api'[d] = "new" => docs'[d] = Absent
             /\ docs'[d].status \in Terminal => docs'[d].nextAttempt = "none"
             /\ docs'[d].status = "processing" <=> docs'[d].worker # NoWorker
             /\ docs'[d].status = "processing" <=> docs'[d].lease # "none"
  <2>1. Move(d) /\ docs[d] \in Document
    BY StepMoves, MoveFacts DEF IInv
  <2>2. api'[d] = "new" => docs'[d] = Absent
    BY <1>1, <2>1
       DEF Move, IInv, ApiInv, Absent, Claimable, Settles1, HeldBy, SameLease
  <2>3. docs'[d].status \in Terminal => docs'[d].nextAttempt = "none"
    BY <2>1 DEF Move, IInv, EndedInv, Terminal, Document, Inserted, Absent,
                Claimed, Completed, MarkedFailed, RetryScheduled, Reclaimed
  <2>4. /\ docs'[d].status = "processing" <=> docs'[d].worker # NoWorker
        /\ docs'[d].status = "processing" <=> docs'[d].lease # "none"
    <3> DEFINE Leased(doc) == /\ doc.status = "processing" <=> doc.worker # NoWorker
                              /\ doc.status = "processing" <=> doc.lease # "none"
    <3>1. Leased(docs[d])
      BY DEF IInv, LeaseInv
    <3>2. Leased(Inserted)
      BY DEF Inserted, Absent
    <3>3. ASSUME NEW w \in Workers PROVE Leased(Claimed(docs[d], w))
      BY <2>1, NoWorkerAssumption DEF Claimed, Document
    <3>4. ASSUME NEW a PROVE /\ Leased(Completed(docs[d], a))
                             /\ Leased(MarkedFailed(docs[d], a))
                             /\ Leased(RetryScheduled(docs[d], a))
      BY <2>1 DEF Completed, MarkedFailed, RetryScheduled, Document
    <3>5. Leased(Reclaimed(docs[d]))
      BY <2>1 DEF Reclaimed, Document
    <3>6. docs[d].lease = "live" => Leased([docs[d] EXCEPT !.lease = "expired"])
      BY <2>1, <3>1 DEF Document
    <3>7. Leased([docs[d] EXCEPT !.nextAttempt = "due"])
      BY <2>1, <3>1 DEF Document
    <3> HIDE DEF Leased
    <3>8. Leased(docs'[d])
      BY <2>1, <3>1, <3>2, <3>3, <3>4, <3>5, <3>6, <3>7 DEF Move
    <3> QED
      BY <3>8 DEF Leased
  <2> QED
    BY <2>2, <2>3, <2>4
<1> QED
  BY <1>2 DEF ApiInv, EndedInv, LeaseInv

-----------------------------------------------------------------------------
(* The sweeper's rows                                                      *)

RowMove(w, d) ==
    \/ sweep'[w].rows[d] \in {sweep[w].rows[d], 0}
    \/ /\ LeaseExpired(docs[d]) /\ docs'[d] = docs[d]
       /\ sweep'[w].rows[d] = docs[d].attempts

LEMMA OnlySweeps ==
    ASSUME [Next]_vars
    PROVE  \/ \E w \in Workers :
                 SweepStep(w) \/ SweepAborts(w) \/ Crash(w) \/ AckRaises(w)
           \/ sweep' = sweep
<1> DEFINE Same == sweep' = sweep
<1>1. ASSUME NEW d \in Docs, Request(d) \/ Clock(d) PROVE Same
  BY <1>1 DEF Request, Insert, InsertFails, Publish, PublishFails, RequestDies,
              Clock, LeaseExpires, BackoffElapses, ClockTicks
<1>2. ASSUME NEW w \in Workers, LoopStep(w) PROVE Same
  BY <1>2 DEF LoopStep, Read, AutoClaim, ReadReturnsNothing, Claim, ClaimLost,
              Load, StartTask
<1>3. ASSUME NEW w \in Workers, NEW s \in Slots, TaskStep(w, s) PROVE Same
  BY <1>3 DEF TaskStep, Complete, ScheduleRetry, MarkFailed, Settle, LoseLease,
              Delay, CacheSummary, ReleaseSlot, ReleaseGuard, SideEffect, Ack
<1>4. ASSUME Failure,
             ~\E w \in Workers : SweepAborts(w) \/ Crash(w) \/ AckRaises(w)
      PROVE  Same
  BY <1>4 DEF Failure, LeaseOutrun, ClockTicks, LoseDelay, LoseEntry,
              AutoClaimOutrun, ReadReplyLost, JobError
<1>5. ASSUME NEW w \in Workers, Start(w) \/ Stop(w) \/ Exit(w) PROVE Same
  BY <1>5 DEF Start, Stop, Exit
<1>6. CASE Idle \/ UNCHANGED vars
  BY <1>6 DEF Idle, vars
<1> QED
  BY <1>1, <1>2, <1>3, <1>4, <1>5, <1>6 DEF Next

LEMMA StepRows ==
    ASSUME Typed, [Next]_vars, NEW w \in Workers, NEW d \in Docs
    PROVE  RowMove(w, d)
<1> DEFINE Same == sweep' = sweep
<1>1. Same => RowMove(w, d)
  BY DEF RowMove
<1>2. sweep \in [Workers -> Sweep]
  BY DEF Typed, TypeOK
<1>3. ASSUME NEW v \in Workers, NEW todo, StageBegins(v, NoRows, todo)
      PROVE  RowMove(w, d)
  BY <1>2, <1>3 DEF StageBegins, RowMove, NoRows, Sweep
<1>4. ASSUME NEW v \in Workers, SweepStep(v) PROVE RowMove(w, d)
  <2>1. CASE SweepFind(v)
    BY <1>2, <2>1 DEF SweepFind, StageBegins, RowMove, Sweep
  <2>2. CASE SweepPromote(v) \/ SweepStale(v)
    BY <1>3, <2>2 DEF SweepPromote, SweepStale
  <2>3. ASSUME NEW x \in Docs, SweepReset(v, x) PROVE RowMove(w, d)
    BY <1>2, <2>3 DEF SweepReset, RowMove, Sweep
  <2>4. ASSUME NEW x \in Docs, NEW e \in Entries, SweepPublish(v, x, e)
        PROVE  RowMove(w, d)
    BY <1>2, <2>4 DEF SweepPublish, RowMove, Sweep
  <2> QED
    BY <1>4, <2>1, <2>2, <2>3, <2>4 DEF SweepStep
<1>5. ASSUME NEW v \in Workers, SweepAborts(v) \/ Crash(v) \/ AckRaises(v)
      PROVE  RowMove(w, d)
  BY <1>2, <1>5 DEF SweepAborts, Crash, AckRaises, Ends, RowMove, Resting,
                    NoRows, Sweep
<1> QED
  BY <1>1, <1>4, <1>5, OnlySweeps

LEMMA RowInvStep ==
    ASSUME IInv, [Next]_vars
    PROVE  RowInv'
<1> SUFFICES ASSUME NEW w \in Workers, NEW d \in Docs
             PROVE  LET token == sweep'[w].rows[d]
                    IN /\ token <= docs'[d].attempts
                       /\ token # 0 /\ SameLease(docs'[d], token) =>
                             docs'[d].lease = "expired"
  BY DEF RowInv
<1> DEFINE token == sweep'[w].rows[d]
<1>1. RowMove(w, d) /\ Move(d)
  BY StepRows, StepMoves DEF IInv
<1>2. /\ docs[d] \in Document /\ docs'[d] \in Document
      /\ docs'[d].attempts >= docs[d].attempts
      /\ docs[d].attempts \in Nat /\ docs'[d].attempts \in Nat
      /\ sweep[w].rows[d] \in Nat /\ token \in Nat
  BY MoveFacts, NextTyped DEF IInv, Typed, TypeOK, Sweep, Document
<1>3. /\ sweep[w].rows[d] <= docs[d].attempts
      /\ sweep[w].rows[d] # 0 /\ SameLease(docs[d], sweep[w].rows[d]) =>
            docs[d].lease = "expired"
  BY DEF IInv, RowInv
<1>4. token <= docs'[d].attempts
  BY <1>1, <1>2, <1>3 DEF RowMove
<1>5. ASSUME token # 0, SameLease(docs'[d], token) PROVE docs'[d].lease = "expired"
  <2>1. CASE docs'[d] = docs[d]
    BY <1>1, <1>3, <1>5, <2>1 DEF RowMove, LeaseExpired
  <2>2. CASE token = sweep[w].rows[d]
    <3>1. ASSUME NEW v \in Workers, docs'[d] = Claimed(docs[d], v) PROVE FALSE
      <4>1. docs'[d].attempts = docs[d].attempts + 1
        BY <1>2, <3>1 DEF Claimed, Document
      <4> QED
        BY <1>2, <1>3, <1>5, <2>2, <4>1 DEF SameLease
    <3>2. \/ docs'[d] = docs[d]
          \/ docs'[d].lease = "expired"
          \/ docs'[d] = [docs[d] EXCEPT !.nextAttempt = "due"]
      BY <1>1, <1>2, <1>5, <3>1
         DEF Move, SameLease, Inserted, Absent, Completed, MarkedFailed,
             RetryScheduled, Reclaimed, Document
    <3>3. CASE docs'[d] = [docs[d] EXCEPT !.nextAttempt = "due"]
      BY <1>2, <1>3, <1>5, <2>2, <3>3 DEF SameLease, Document
    <3> QED
      BY <2>1, <3>2, <3>3
  <2> QED
    BY <1>1, <1>5, <2>1, <2>2 DEF RowMove
<1> QED
  BY <1>4, <1>5

-----------------------------------------------------------------------------
(* What a step does to one job                                             *)

PastLoad == {"claimed"} \cup InTask

PastClaim == {"loading"} \cup PastLoad

\* How job <<w, s>> comes to pc, a step that ends its document: by its own
\* compare-and-set, or from the step before.
Follows(w, s, pc) ==
    LET job == jobs[w][s]
    IN \/ /\ job.pc = "running" /\ HeldBy(docs[job.doc], w)
          /\ Goto(w, s, pc) /\ effects' = effects
          /\ \/ pc = "caching" /\ docs'[job.doc].status = "completed"
             \/ pc = "releasing" /\ docs'[job.doc].status = "failed"
       \/ <<job.pc, pc>> \in {<<"caching", "releasing">>,
                              <<"releasing", "unguarding">>}

JobMove(w, s) ==
    LET old == jobs[w][s]
        new == jobs'[w][s]
    IN \/ new = old
       \/ new.pc \in {"free", "buffered"} /\ new.attempt = 0
       \/ new = [old EXCEPT !.pc = "dropping"]
       \/ /\ old.pc = "buffered" /\ new = [old EXCEPT !.pc = "loading"]
          /\ docs'[old.doc] = Claimed(docs[old.doc], w)
       \/ /\ old.pc = "loading" /\ docs' = docs
          /\ new = [old EXCEPT !.pc = "claimed",
                               !.attempt = docs[old.doc].attempts]
       \/ /\ old.pc \in PastLoad
          /\ \E pc \in InTask : /\ new = [old EXCEPT !.pc = pc]
                                /\ pc \in Settling => Follows(w, s, pc)

LEMMA GotoMoves ==
    ASSUME Typed, NEW w \in Workers, NEW s \in Slots, NEW v \in Workers,
           NEW t \in Slots, jobs[v][t].pc \in PastLoad, NEW pc \in InTask,
           Goto(v, t, pc), pc \in Settling => Follows(v, t, pc)
    PROVE  JobMove(w, s)
<1>1. CASE v = w /\ t = s
  <2>1. jobs'[w][s] = [jobs[w][s] EXCEPT !.pc = pc]
    BY <1>1 DEF Typed, TypeOK, Goto
  <2> QED
    BY <1>1, <2>1 DEF JobMove
<1>2. CASE ~(v = w /\ t = s)
  BY <1>2 DEF Typed, TypeOK, Goto, JobMove
<1> QED
  BY <1>1, <1>2

LEMMA DeliverMoves ==
    ASSUME Typed, NEW w \in Workers, NEW s \in Slots, NEW v \in Workers,
           NEW batch, Deliver(v, batch)
    PROVE  JobMove(w, s)
  BY DEF Typed, TypeOK, Deliver, JobMove, NoJob

LEMMA LoopJobs ==
    ASSUME Typed, NEW w \in Workers, NEW s \in Slots,
           NEW v \in Workers, LoopStep(v) \/ AutoClaimOutrun(v)
    PROVE  JobMove(w, s)
<1>1. CASE Read(v) \/ AutoClaim(v) \/ AutoClaimOutrun(v)
  BY <1>1, DeliverMoves DEF Read, AutoClaim, AutoClaimOutrun
<1>2. CASE ReadReturnsNothing(v)
  BY <1>2 DEF ReadReturnsNothing, JobMove
<1>3. ASSUME NEW t \in Slots, Claim(v, t) PROVE JobMove(w, s)
  <2>1. jobs[v][t].doc \in Docs
    BY <1>3 DEF Claim, At, Typed, JobsTyped
  <2>2. docs'[jobs[v][t].doc] = Claimed(docs[jobs[v][t].doc], v)
    BY <1>3, <2>1 DEF Claim, Typed, TypeOK
  <2> QED
    BY <1>3, <2>2 DEF Claim, At, Goto, JobMove, Typed, TypeOK
<1>4. ASSUME NEW t \in Slots, ClaimLost(v, t) PROVE JobMove(w, s)
  BY <1>4 DEF ClaimLost, Goto, JobMove, Typed, TypeOK
<1>5. ASSUME NEW t \in Slots, Load(v, t) PROVE JobMove(w, s)
  <2>1. jobs[v][t] \in Job /\ jobs \in [Workers -> [Slots -> Job]]
    BY DEF Typed, TypeOK
  <2>2. jobs' = [jobs EXCEPT ![v][t] =
                    [jobs[v][t] EXCEPT !.pc = "claimed",
                                       !.attempt = docs[jobs[v][t].doc].attempts]]
    BY <1>5, <2>1 DEF Load
  <2>3. jobs[v][t].pc = "loading" /\ docs' = docs
    BY <1>5 DEF Load, At
  <2> QED
    BY <2>1, <2>2, <2>3 DEF JobMove
<1>6. ASSUME NEW t \in Slots, StartTask(v, t) PROVE JobMove(w, s)
  BY <1>6, GotoMoves DEF StartTask, At, PastLoad, InTask, Settling
<1> QED
  BY <1>1, <1>2, <1>3, <1>4, <1>5, <1>6 DEF LoopStep

LEMMA TaskJobs ==
    ASSUME Typed, NEW w \in Workers, NEW s \in Slots,
           NEW v \in Workers, NEW t \in Slots, TaskStep(v, t) \/ JobError(v, t)
    PROVE  JobMove(w, s)
<1> DEFINE d == jobs[v][t].doc
<1>1. CASE Complete(v, t)
  <2>1. /\ jobs[v][t].pc = "running" /\ HeldBy(docs[d], v)
        /\ docs' = [docs EXCEPT ![d] = Completed(docs[d], jobs[v][t].attempt)]
        /\ Goto(v, t, "caching") /\ effects' = effects
    BY <1>1 DEF Complete, Settle, At
  <2>2. d \in Docs /\ docs \in [Docs -> Document]
    BY <2>1 DEF Typed, TypeOK, JobsTyped
  <2>3. docs'[d].status = "completed"
    BY <2>1, <2>2 DEF Completed, Document
  <2>4. Follows(v, t, "caching")
    BY <2>1, <2>3 DEF Follows
  <2> QED
    BY <2>1, <2>4, GotoMoves DEF PastLoad, InTask
<1>2. CASE MarkFailed(v, t)
  <2>1. /\ jobs[v][t].pc = "running" /\ HeldBy(docs[d], v)
        /\ docs' = [docs EXCEPT ![d] = MarkedFailed(docs[d], jobs[v][t].attempt)]
        /\ Goto(v, t, "releasing") /\ effects' = effects
    BY <1>2 DEF MarkFailed, Settle, At
  <2>2. d \in Docs /\ docs \in [Docs -> Document]
    BY <2>1 DEF Typed, TypeOK, JobsTyped
  <2>3. docs'[d].status = "failed"
    BY <2>1, <2>2 DEF MarkedFailed, Document
  <2>4. Follows(v, t, "releasing")
    BY <2>1, <2>3 DEF Follows
  <2> QED
    BY <2>1, <2>4, GotoMoves DEF PastLoad, InTask
<1>3. CASE ScheduleRetry(v, t)
  <2>1. jobs[v][t].pc = "running" /\ Goto(v, t, "delaying")
    BY <1>3 DEF ScheduleRetry, Settle, At
  <2> QED
    BY <2>1, GotoMoves DEF PastLoad, InTask, Settling
<1>4. CASE LoseLease(v, t) \/ Delay(v, t) \/ JobError(v, t)
  <2>1. CASE LoseLease(v, t)
    BY <2>1, GotoMoves DEF LoseLease, At, PastLoad, InTask, Settling
  <2>2. CASE Delay(v, t)
    BY <2>2, GotoMoves DEF Delay, At, PastLoad, InTask, Settling
  <2>3. CASE JobError(v, t)
    <3>1. jobs[v][t].pc \in PastLoad /\ Goto(v, t, "acking")
      BY <2>3 DEF JobError, At, PastLoad, InTask
    <3> QED
      BY <3>1, GotoMoves DEF InTask, Settling
  <2> QED
    BY <1>4, <2>1, <2>2, <2>3
<1>5. CASE CacheSummary(v, t)
  <2>1. jobs[v][t].pc = "caching" /\ Goto(v, t, "releasing")
    BY <1>5 DEF CacheSummary, SideEffect, At
  <2>2. Follows(v, t, "releasing")
    BY <2>1 DEF Follows
  <2> QED
    BY <2>1, <2>2, GotoMoves DEF PastLoad, InTask
<1>6. CASE ReleaseSlot(v, t)
  <2>1. jobs[v][t].pc = "releasing" /\ Goto(v, t, "unguarding")
    BY <1>6 DEF ReleaseSlot, SideEffect, At
  <2>2. Follows(v, t, "unguarding")
    BY <2>1 DEF Follows
  <2> QED
    BY <2>1, <2>2, GotoMoves DEF PastLoad, InTask
<1>7. CASE ReleaseGuard(v, t)
  <2>1. jobs[v][t].pc = "unguarding" /\ Goto(v, t, "acking")
    BY <1>7 DEF ReleaseGuard, SideEffect, At
  <2> QED
    BY <2>1, GotoMoves DEF PastLoad, InTask, Settling
<1>8. CASE Ack(v, t)
  BY <1>8 DEF Ack, JobMove, NoJob, Typed, TypeOK
<1> QED
  BY <1>1, <1>2, <1>3, <1>4, <1>5, <1>6, <1>7, <1>8 DEF TaskStep

LEMMA StepJobs ==
    ASSUME Typed, [Next]_vars, NEW w \in Workers, NEW s \in Slots
    PROVE  JobMove(w, s)
<1> DEFINE Same == jobs' = jobs
<1>1. Same => JobMove(w, s)
  BY DEF JobMove
<1>2. ASSUME NEW d \in Docs, Request(d) \/ Clock(d) PROVE Same
  BY <1>2 DEF Request, Insert, InsertFails, Publish, PublishFails, RequestDies,
              Clock, LeaseExpires, BackoffElapses, ClockTicks
<1>3. ASSUME NEW v \in Workers, SweepStep(v) PROVE Same
  BY <1>3 DEF SweepStep, SweepFind, SweepPromote, SweepStale, SweepReset,
              SweepPublish
<1>4. ASSUME NEW v \in Workers, Start(v) \/ Stop(v) \/ Exit(v) PROVE Same
  BY <1>4 DEF Start, Stop, Exit
<1>5. CASE Idle \/ UNCHANGED vars
  BY <1>1, <1>5 DEF Idle, vars
<1>6. CASE Failure
  <2>1. ASSUME NEW v \in Workers, Crash(v) \/ AckRaises(v) PROVE JobMove(w, s)
    BY <2>1 DEF Crash, AckRaises, Ends, NoJobs, NoJob, JobMove, Typed, TypeOK
  <2>2. \/ \E v \in Workers : Crash(v) \/ AckRaises(v) \/ AutoClaimOutrun(v)
        \/ \E v \in Workers, t \in Slots : JobError(v, t)
        \/ Same
    BY <1>6 DEF Failure, LeaseOutrun, ClockTicks, LoseDelay, LoseEntry,
                SweepAborts, ReadReplyLost
  <2> QED
    BY <1>1, <2>1, <2>2, LoopJobs, TaskJobs
<1> QED
  BY <1>1, <1>2, <1>3, <1>4, <1>5, <1>6, LoopJobs, TaskJobs DEF Next

\* Attempts that were counted.
LEMMA AttemptInvStep ==
    ASSUME IInv, [Next]_vars
    PROVE  ClaimInv' /\ AttemptInv'
<1>1. ASSUME NEW w \in Workers, NEW s \in Slots
      PROVE  LET job == jobs'[w][s]
             IN /\ job.pc \in PastClaim => docs'[job.doc].attempts >= 1
                /\ job.pc \in PastLoad => job.attempt >= 1
                /\ job.doc \in Docs => job.attempt <= docs'[job.doc].attempts
  <2> DEFINE old == jobs[w][s]
             new == jobs'[w][s]
  <2>1. /\ old \in Job /\ new \in Job
        /\ old.pc # "free" => old.doc \in Docs
    BY NextTyped DEF IInv, Typed, TypeOK, JobsTyped
  <2>2. /\ old.pc \in PastClaim => docs[old.doc].attempts >= 1
        /\ old.pc \in PastLoad => old.attempt >= 1
        /\ old.doc \in Docs => old.attempt <= docs[old.doc].attempts
    BY DEF IInv, ClaimInv, AttemptInv, PastClaim, PastLoad
  <2>3. \A d \in Docs : /\ docs[d].attempts \in Nat /\ docs'[d].attempts \in Nat
                        /\ docs'[d].attempts >= docs[d].attempts
    BY MoveFacts DEF Document
  <2>4. old.attempt \in Nat /\ new.attempt \in Nat
    BY <2>1 DEF Job
  <2>5. JobMove(w, s)
    BY StepJobs DEF IInv
  <2>6. CASE new = old
    BY <2>1, <2>2, <2>3, <2>4, <2>6 DEF PastClaim, PastLoad, InTask
  <2>7. CASE new.pc \in {"free", "buffered"} /\ new.attempt = 0
    BY <2>3, <2>7 DEF PastClaim, PastLoad, InTask
  <2>8. CASE new = [old EXCEPT !.pc = "dropping"]
    <3>1. new.pc = "dropping" /\ new.doc = old.doc /\ new.attempt = old.attempt
      BY <2>1, <2>8 DEF Job
    <3> QED
      BY <2>2, <2>3, <2>4, <3>1 DEF PastClaim, PastLoad, InTask
  <2>9. CASE /\ old.pc = "buffered" /\ new = [old EXCEPT !.pc = "loading"]
             /\ docs'[old.doc] = Claimed(docs[old.doc], w)
    <3>1. new.pc = "loading" /\ new.doc = old.doc /\ new.attempt = old.attempt
      BY <2>1, <2>9 DEF Job
    <3>2. old.doc \in Docs /\ docs[old.doc] \in Document
      BY <2>1, <2>9, MoveFacts
    <3>3. docs'[old.doc].attempts = docs[old.doc].attempts + 1
      BY <2>9, <3>2 DEF Claimed, Document
    <3> QED
      BY <2>2, <2>3, <2>4, <3>1, <3>2, <3>3 DEF PastClaim, PastLoad, InTask
  <2>10. CASE /\ old.pc = "loading" /\ docs' = docs
              /\ new = [old EXCEPT !.pc = "claimed",
                                   !.attempt = docs[old.doc].attempts]
    <3>1. /\ new.pc = "claimed" /\ new.doc = old.doc
          /\ new.attempt = docs[old.doc].attempts
      BY <2>1, <2>10 DEF Job
    <3>2. old.doc \in Docs /\ docs[old.doc].attempts >= 1
      BY <2>1, <2>2, <2>10 DEF PastClaim
    <3> QED
      BY <2>3, <2>10, <3>1, <3>2
  <2>11. ASSUME old.pc \in PastLoad, NEW pc \in InTask, new = [old EXCEPT !.pc = pc]
         PROVE  /\ new.pc \in PastClaim => docs'[new.doc].attempts >= 1
                /\ new.pc \in PastLoad => new.attempt >= 1
                /\ new.doc \in Docs => new.attempt <= docs'[new.doc].attempts
    <3>1. new.doc = old.doc /\ new.attempt = old.attempt
      BY <2>1, <2>11 DEF Job
    <3>2. old.doc \in Docs /\ old.pc \in PastClaim
      BY <2>1, <2>11 DEF PastClaim, PastLoad, InTask
    <3> QED
      BY <2>2, <2>3, <2>4, <2>11, <3>1, <3>2
  <2> QED
    BY <2>5, <2>6, <2>7, <2>8, <2>9, <2>10, <2>11 DEF JobMove
<1>2. ASSUME NEW d \in Docs
      PROVE  /\ docs'[d].status = "failed" => docs'[d].attempts >= MaxAttempts
             /\ docs'[d].status = "completed" =>
                   docs'[d].summary \in 1..docs'[d].attempts
  <2>1. Move(d) /\ docs[d] \in Document
    BY StepMoves, MoveFacts DEF IInv
  <2>2. /\ docs[d].status = "failed" => docs[d].attempts >= MaxAttempts
        /\ docs[d].status = "completed" => docs[d].summary \in 1..docs[d].attempts
    BY DEF IInv, AttemptInv
  <2>3. ASSUME NEW w \in Workers, NEW s \in Slots, Settles1(d, w, s)
        PROVE  jobs[w][s].attempt \in 1..docs[d].attempts
    <3>1. /\ jobs[w][s].attempt \in Nat /\ docs[d].attempts \in Nat
          /\ jobs[w][s].attempt >= 1
          /\ jobs[w][s].attempt <= docs[d].attempts
      BY <2>1, <2>3 DEF IInv, Typed, TypeOK, Job, ClaimInv, AttemptInv, Settles1,
                        InTask, Document
    <3> QED
      BY <3>1
  <2>4. ASSUME NEW w \in Workers, NEW s \in Slots, Settles1(d, w, s),
               docs'[d] = MarkedFailed(docs[d], jobs[w][s].attempt),
               jobs[w][s].attempt >= MaxAttempts
        PROVE  docs'[d].status = "failed" /\ docs'[d].attempts >= MaxAttempts
    <3>1. docs'[d].status = "failed" /\ docs'[d].attempts = docs[d].attempts
      BY <2>1, <2>4 DEF MarkedFailed, Document
    <3>2. docs[d].attempts \in Nat /\ MaxAttempts \in Nat
      BY <2>1, ProcessingAssumption DEF Document
    <3> QED
      BY <2>3, <2>4, <3>1, <3>2
  <2>5. ASSUME NEW w \in Workers, NEW s \in Slots, Settles1(d, w, s),
               docs'[d] = Completed(docs[d], jobs[w][s].attempt)
        PROVE  /\ docs'[d].status = "completed"
               /\ docs'[d].summary \in 1..docs'[d].attempts
    <3>1. /\ docs'[d].status = "completed" /\ docs'[d].attempts = docs[d].attempts
          /\ docs'[d].summary = jobs[w][s].attempt
      BY <2>1, <2>5 DEF Completed, Document
    <3> QED
      BY <2>3, <2>5, <3>1
  <2>6. \/ docs'[d].status \notin {"completed", "failed"}
        \/ /\ docs'[d].status = docs[d].status
           /\ docs'[d].attempts = docs[d].attempts
           /\ docs'[d].summary = docs[d].summary
        \/ \E w \in Workers, s \in Slots :
              /\ Settles1(d, w, s)
              /\ \/ docs'[d] = Completed(docs[d], jobs[w][s].attempt)
                 \/ /\ docs'[d] = MarkedFailed(docs[d], jobs[w][s].attempt)
                    /\ jobs[w][s].attempt >= MaxAttempts
    BY <2>1 DEF Move, Inserted, Absent, Claimed, RetryScheduled, Reclaimed,
                Document
  <2> QED
    BY <2>2, <2>4, <2>5, <2>6
<1> QED
  BY <1>1, <1>2 DEF ClaimInv, AttemptInv, PastClaim, PastLoad

-----------------------------------------------------------------------------
(* The side effects of ending a document.  A job in Settling has the        *)
(* document to itself: it came there by a compare-and-set that found the    *)
(* document in process, or followed one that did.                           *)

Untouched(d) == effects'[d] = effects[d]

\* Job <<w, s>> carries out one of the side effects of d.
Performs(d, w, s) ==
    LET new == effects'[d]
        old == effects[d]
    IN /\ jobs[w][s].doc = d
       /\ \/ /\ jobs[w][s].pc = "caching" /\ Goto(w, s, "releasing")
             /\ new = [old EXCEPT !.cached = TRUE]
          \/ /\ jobs[w][s].pc = "releasing" /\ Goto(w, s, "unguarding")
             /\ new = [old EXCEPT !.slot = @ + 1]
          \/ /\ jobs[w][s].pc = "unguarding" /\ Goto(w, s, "acking")
             /\ new = [old EXCEPT !.guard = @ + 1]

EffectMove(d) ==
    \/ Untouched(d)
    \/ /\ docs' = docs
       /\ \E w \in Workers, s \in Slots : Performs(d, w, s)

LEMMA TaskEffects ==
    ASSUME Typed, NEW d \in Docs, NEW w \in Workers, NEW s \in Slots,
           TaskStep(w, s)
    PROVE  EffectMove(d)
<1> DEFINE x == jobs[w][s].doc
<1>1. effects \in [Docs -> Effects]
  BY DEF Typed, TypeOK
<1>2. effects' = effects => EffectMove(d)
  BY DEF EffectMove, Untouched
<1>3. ASSUME NEW from, NEW effect, NEW to, SideEffect(w, s, from, effect, to)
      PROVE  \/ effects' = effects
             \/ /\ docs' = docs /\ jobs[w][s].pc = from /\ Goto(w, s, to)
                /\ effects' = [effects EXCEPT ![x] = effect]
  BY <1>3 DEF SideEffect, At
<1>4. CASE CacheSummary(w, s)
  <2>1. \/ effects' = effects
        \/ /\ docs' = docs /\ jobs[w][s].pc = "caching"
           /\ Goto(w, s, "releasing")
           /\ effects' = [effects EXCEPT ![x] =
                             [effects[x] EXCEPT !.cached = TRUE]]
    BY <1>3, <1>4 DEF CacheSummary
  <2> QED
    BY <1>1, <1>2, <2>1 DEF EffectMove, Untouched, Performs
<1>5. CASE ReleaseSlot(w, s)
  <2>1. \/ effects' = effects
        \/ /\ docs' = docs /\ jobs[w][s].pc = "releasing"
           /\ Goto(w, s, "unguarding")
           /\ effects' = [effects EXCEPT ![x] =
                             [effects[x] EXCEPT !.slot = effects[x].slot + 1]]
    BY <1>3, <1>5 DEF ReleaseSlot
  <2> QED
    BY <1>1, <1>2, <2>1 DEF EffectMove, Untouched, Performs
<1>6. CASE ReleaseGuard(w, s)
  <2>1. \/ effects' = effects
        \/ /\ docs' = docs /\ jobs[w][s].pc = "unguarding"
           /\ Goto(w, s, "acking")
           /\ effects' = [effects EXCEPT ![x] =
                             [effects[x] EXCEPT !.guard = effects[x].guard + 1]]
    BY <1>3, <1>6 DEF ReleaseGuard
  <2> QED
    BY <1>1, <1>2, <2>1 DEF EffectMove, Untouched, Performs
<1>7. CASE Complete(w, s) \/ ScheduleRetry(w, s) \/ MarkFailed(w, s)
  BY <1>2, <1>7 DEF Complete, ScheduleRetry, MarkFailed, Settle
<1>8. CASE LoseLease(w, s) \/ Delay(w, s) \/ Ack(w, s)
  BY <1>2, <1>8 DEF LoseLease, Delay, Ack
<1> QED
  BY <1>4, <1>5, <1>6, <1>7, <1>8 DEF TaskStep

LEMMA StepEffects ==
    ASSUME Typed, [Next]_vars, NEW d \in Docs
    PROVE  EffectMove(d)
<1> DEFINE Same == effects' = effects
<1>1. Same => EffectMove(d)
  BY DEF EffectMove, Untouched
<1>2. ASSUME NEW x \in Docs, Request(x) PROVE Same
  BY <1>2 DEF Request, Insert, InsertFails, Publish, PublishFails, RequestDies
<1>3. ASSUME NEW x \in Docs, Clock(x) PROVE Same
  BY <1>3 DEF Clock, LeaseExpires, BackoffElapses, ClockTicks
<1>4. ASSUME NEW w \in Workers, LoopStep(w) PROVE Same
  BY <1>4 DEF LoopStep, Read, AutoClaim, ReadReturnsNothing, Claim, ClaimLost,
              Load, StartTask
<1>5. ASSUME NEW w \in Workers, SweepStep(w) PROVE Same
  BY <1>5 DEF SweepStep, SweepFind, SweepPromote, SweepStale, SweepReset,
              SweepPublish
<1>6. CASE Failure
  BY <1>1, <1>6 DEF Failure, LeaseOutrun, ClockTicks, LoseDelay, LoseEntry,
                    AutoClaimOutrun, SweepAborts, Crash, AckRaises, Ends,
                    ReadReplyLost, JobError
<1>7. ASSUME NEW w \in Workers, Start(w) \/ Stop(w) \/ Exit(w) PROVE Same
  BY <1>7 DEF Start, Stop, Exit
<1>8. CASE Idle \/ UNCHANGED vars
  BY <1>1, <1>8 DEF Idle, vars
<1> QED
  BY <1>1, <1>2, <1>3, <1>4, <1>5, <1>6, <1>7, <1>8, TaskEffects DEF Next

\* A job that is in Settling after a step was there before, or got there by
\* its own compare-and-set in this step.
Enters(w, s) ==
    LET old == jobs[w][s]
        new == jobs'[w][s]
    IN /\ old.pc = "running" /\ HeldBy(docs[old.doc], w)
       /\ Goto(w, s, new.pc) /\ effects' = effects
       /\ \/ new.pc = "caching" /\ docs'[old.doc].status = "completed"
          \/ new.pc = "releasing" /\ docs'[old.doc].status = "failed"

Stays(w, s) ==
    LET old == jobs[w][s]
        new == jobs'[w][s]
    IN /\ old.pc \in Settling
       /\ \/ new.pc = old.pc
          \/ <<old.pc, new.pc>> \in {<<"caching", "releasing">>,
                                     <<"releasing", "unguarding">>}

LEMMA SettlingJobs ==
    ASSUME Typed, [Next]_vars, NEW w \in Workers, NEW s \in Slots,
           jobs'[w][s].pc \in Settling
    PROVE  /\ jobs'[w][s].doc = jobs[w][s].doc
           /\ jobs[w][s].doc \in Docs
           /\ Enters(w, s) \/ Stays(w, s)
<1> DEFINE old == jobs[w][s]
           new == jobs'[w][s]
<1>1. old \in Job /\ (old.pc # "free" => old.doc \in Docs)
  BY DEF Typed, TypeOK, JobsTyped
<1>2. JobMove(w, s)
  BY StepJobs
<1>3. \/ new = old
      \/ \E pc \in InTask : new = [old EXCEPT !.pc = pc] /\ Follows(w, s, pc)
  <2>1. \A pc : LET job == [old EXCEPT !.pc = pc]
                IN job.pc = pc
    BY <1>1 DEF Job
  <2>2. /\ new.pc \notin {"free", "buffered"}
        /\ new # [old EXCEPT !.pc = "dropping"]
        /\ new # [old EXCEPT !.pc = "loading"]
        /\ \A a : new # [old EXCEPT !.pc = "claimed", !.attempt = a]
    BY <1>1 DEF Settling, Job
  <2> QED
    BY <1>2, <2>1, <2>2 DEF JobMove
<1>4. CASE new = old
  BY <1>1, <1>4 DEF Stays, Settling
<1>5. ASSUME NEW pc \in InTask, new = [old EXCEPT !.pc = pc], Follows(w, s, pc)
      PROVE  new.doc = old.doc /\ old.doc \in Docs /\ (Enters(w, s) \/ Stays(w, s))
  <2>1. new.pc = pc /\ new.doc = old.doc
    BY <1>1, <1>5 DEF Job
  <2> QED
    BY <1>1, <1>5, <2>1 DEF Follows, Enters, Stays, Settling
<1> QED
  BY <1>3, <1>4, <1>5

\* The job that enters is the only one that moves.
LEMMA EntersAlone ==
    ASSUME IInv, NEW w \in Workers, NEW s \in Slots, Enters(w, s),
           NEW v \in Workers, NEW t \in Slots, <<v, t>> # <<w, s>>
    PROVE  jobs'[v][t] = jobs[v][t]
<1>1. jobs \in [Workers -> [Slots -> Job]]
  BY DEF IInv, Typed, TypeOK
<1>2. jobs' = [jobs EXCEPT ![w][s].pc = jobs'[w][s].pc]
  BY DEF Enters, Goto
<1> QED
  BY <1>1, <1>2

LEMMA OneSettlesStep ==
    ASSUME IInv, [Next]_vars
    PROVE  OneSettles'
<1> SUFFICES ASSUME NEW v \in Workers, NEW t \in Slots,
                    NEW w \in Workers, NEW s \in Slots,
                    jobs'[v][t].pc \in Settling, jobs'[w][s].pc \in Settling,
                    jobs'[v][t].doc = jobs'[w][s].doc, <<v, t>> # <<w, s>>
             PROVE  FALSE
  BY DEF OneSettles, Both
<1>1. /\ jobs[v][t].doc = jobs[w][s].doc
      /\ Enters(v, t) \/ Stays(v, t)
      /\ Enters(w, s) \/ Stays(w, s)
  BY SettlingJobs DEF IInv
<1>2. CASE Stays(v, t) /\ Stays(w, s)
  BY <1>1, <1>2 DEF Stays, IInv, OneSettles, Both
<1>3. CASE Enters(v, t) /\ Stays(w, s)
  BY <1>1, <1>3 DEF Enters, Stays, HeldBy, IInv, SettledOnce, Terminal
<1>4. CASE Stays(v, t) /\ Enters(w, s)
  BY <1>1, <1>4 DEF Enters, Stays, HeldBy, IInv, SettledOnce, Terminal
<1>5. CASE Enters(v, t) /\ Enters(w, s)
  <2>1. jobs'[v][t] = jobs[v][t]
    BY <1>5, EntersAlone
  <2> QED
    BY <1>5, <2>1 DEF Enters, Settling
<1> QED
  BY <1>1, <1>2, <1>3, <1>4, <1>5

\* The part of SettledOnce about one document, and about one job.
EffectsOK(d) ==
    /\ effects[d].slot \in {0, 1} /\ effects[d].guard \in {0, 1}
    /\ effects[d].slot + effects[d].guard > 0 => docs[d].status \in Terminal
    /\ effects[d].cached => docs[d].status = "completed"

JobOK(w, s) ==
    LET job == jobs[w][s]
    IN /\ job.pc \in Settling => /\ docs[job.doc].status \in Terminal
                                 /\ effects[job.doc].guard = 0
       /\ job.pc \in {"caching", "releasing"} => effects[job.doc].slot = 0
       /\ job.pc = "caching" => docs[job.doc].status = "completed"

LEMMA EffectsStep ==
    ASSUME IInv, [Next]_vars, NEW d \in Docs
    PROVE  EffectsOK(d)'
<1>1. EffectsOK(d) /\ effects[d] \in Effects /\ effects'[d] \in Effects
  BY NextTyped DEF IInv, SettledOnce, EffectsOK, Typed, TypeOK
<1>2. docs[d].status \in Terminal => docs'[d] = docs[d]
  BY MoveFacts
<1>3. EffectMove(d)
  BY StepEffects DEF IInv
<1>4. CASE Untouched(d)
  BY <1>1, <1>2, <1>4 DEF Untouched, EffectsOK, Terminal, Effects
<1>5. ASSUME docs' = docs, NEW w \in Workers, NEW s \in Slots, Performs(d, w, s)
      PROVE  EffectsOK(d)'
  <2>1. JobOK(w, s) /\ jobs[w][s].doc = d
    BY <1>5 DEF IInv, SettledOnce, JobOK, Performs
  <2>2. CASE jobs[w][s].pc = "caching"
    BY <1>1, <1>5, <2>1, <2>2 DEF Performs, EffectsOK, JobOK, Effects
  <2>3. CASE jobs[w][s].pc = "releasing"
    <3>1. /\ effects[d].slot = 0 /\ docs[d].status \in Terminal
          /\ effects'[d] = [effects[d] EXCEPT !.slot = effects[d].slot + 1]
      BY <1>5, <2>1, <2>3 DEF Performs, JobOK, Settling
    <3> QED
      BY <1>1, <1>5, <3>1 DEF EffectsOK, Effects
  <2>4. CASE jobs[w][s].pc = "unguarding"
    <3>1. /\ effects[d].guard = 0 /\ docs[d].status \in Terminal
          /\ effects'[d] = [effects[d] EXCEPT !.guard = effects[d].guard + 1]
      BY <1>5, <2>1, <2>4 DEF Performs, JobOK, Settling
    <3> QED
      BY <1>1, <1>5, <3>1 DEF EffectsOK, Effects
  <2> QED
    BY <1>5, <2>2, <2>3, <2>4 DEF Performs
<1> QED
  BY <1>3, <1>4, <1>5 DEF EffectMove

LEMMA JobsStep ==
    ASSUME IInv, [Next]_vars, NEW w \in Workers, NEW s \in Slots,
           jobs'[w][s].pc \in Settling
    PROVE  JobOK(w, s)'
<1> DEFINE d == jobs[w][s].doc
<1>1. jobs'[w][s].doc = d /\ d \in Docs /\ (Enters(w, s) \/ Stays(w, s))
  BY SettlingJobs DEF IInv
<1>2. effects[d] \in Effects /\ jobs \in [Workers -> [Slots -> Job]]
  BY <1>1 DEF IInv, Typed, TypeOK
<1>3. CASE Enters(w, s)
  <2>1. docs[d].status = "processing" /\ effects' = effects
    BY <1>3 DEF Enters, HeldBy
  <2>2. ~(effects[d].slot + effects[d].guard > 0)
    BY <1>1, <2>1 DEF IInv, SettledOnce, Terminal
  <2>3. effects[d].slot = 0 /\ effects[d].guard = 0
    BY <1>1, <2>2 DEF IInv, SettledOnce
  <2> QED
    BY <1>1, <1>3, <2>1, <2>3 DEF Enters, JobOK, Terminal
<1>4. CASE Stays(w, s)
  <2>1. /\ JobOK(w, s) /\ jobs[w][s].pc \in Settling
        /\ docs[d].status \in Terminal
    BY <1>4 DEF IInv, SettledOnce, JobOK, Stays
  <2>2. docs'[d] = docs[d]
    BY <1>1, <2>1, MoveFacts
  <2>3. ASSUME NEW v \in Workers, NEW t \in Slots, Performs(d, v, t)
        PROVE  v = w /\ t = s
    BY <2>1, <2>3 DEF Performs, IInv, OneSettles, Both, Settling
  <2>4. CASE Untouched(d)
    BY <1>1, <1>4, <2>1, <2>2, <2>4 DEF Untouched, Stays, JobOK, Settling
  <2>5. CASE Performs(d, w, s)
    <3>1. ASSUME NEW pc, Goto(w, s, pc) PROVE jobs'[w][s].pc = pc
      BY <1>2, <3>1 DEF Goto, Job
    <3>2. CASE jobs[w][s].pc = "caching"
      BY <1>1, <1>2, <2>1, <2>2, <2>5, <3>1, <3>2
         DEF Performs, JobOK, Effects, Settling
    <3>3. CASE jobs[w][s].pc = "releasing"
      BY <1>1, <1>2, <2>1, <2>2, <2>5, <3>1, <3>3
         DEF Performs, JobOK, Effects, Settling
    <3>4. CASE jobs[w][s].pc = "unguarding"
      BY <2>5, <3>1, <3>4 DEF Performs, Settling
    <3> QED
      BY <2>5, <3>2, <3>3, <3>4 DEF Performs
  <2>6. EffectMove(d)
    BY <1>1, StepEffects DEF IInv
  <2> QED
    BY <2>3, <2>4, <2>5, <2>6 DEF EffectMove
<1> QED
  BY <1>1, <1>3, <1>4

LEMMA SettledOnceStep ==
    ASSUME IInv, [Next]_vars
    PROVE  SettledOnce'
<1>1. ASSUME NEW d \in Docs PROVE EffectsOK(d)'
  BY EffectsStep
<1>2. ASSUME NEW w \in Workers, NEW s \in Slots PROVE JobOK(w, s)'
  <2>1. CASE jobs'[w][s].pc \in Settling
    BY <2>1, JobsStep
  <2>2. CASE jobs'[w][s].pc \notin Settling
    BY <2>2 DEF JobOK, Settling
  <2> QED
    BY <2>1, <2>2
<1> QED
  BY <1>1, <1>2 DEF SettledOnce, EffectsOK, JobOK

-----------------------------------------------------------------------------
(* The theorems                                                            *)

LEMMA IInvStep == IInv /\ [Next]_vars => IInv'
<1> SUFFICES ASSUME IInv, [Next]_vars PROVE IInv'
  OBVIOUS
<1>1. Typed'
  BY NextTyped DEF IInv
<1> QED
  BY <1>1, DocInvStep, RowInvStep, AttemptInvStep, SettledOnceStep,
     OneSettlesStep DEF IInv

LEMMA Inductive == Spec => []IInv
  BY InitInv, IInvStep, PTL DEF Spec

\* No step of any worker, of the sweeper or of a failing call leaves a document
\* in process without owner and lease, or a lease on one that is not.
THEOREM Leased == Spec => []LeaseInv
<1>1. IInv => LeaseInv
  BY DEF IInv
<1> QED
  BY <1>1, Inductive, PTL

\* A row the sweeper still holds never matches a live lease, however long the
\* sweeper takes over it.
THEOREM RowsAreOld == Spec => []RowInv
<1>1. IInv => RowInv
  BY DEF IInv
<1> QED
  BY <1>1, Inductive, PTL

\* A document fails only with its attempts used up, and a summary comes from an
\* attempt that was counted.
THEOREM AttemptsCounted == Spec => []AttemptInv
<1>1. IInv => AttemptInv
  BY DEF IInv
<1> QED
  BY <1>1, Inductive, PTL

\* The workers cache the summary, release the slot and release the guard of a
\* document at most once each, in this order, after it has ended.
THEOREM SettlesOnce == Spec => []SettledOnce
<1>1. IInv => SettledOnce
  BY DEF IInv
<1> QED
  BY <1>1, Inductive, PTL

\* No two jobs are in the side effects of the same document at once.
THEOREM SettlesAlone == Spec => []OneSettles
<1>1. IInv => OneSettles
  BY DEF IInv
<1> QED
  BY <1>1, Inductive, PTL

\* Nothing reopens or rewrites a document that has ended.
THEOREM EndIsFinal == Spec => TerminalIsFinal
<1>1. IInv /\ [Next]_vars =>
         [\A d \in Docs : docs[d].status \in Terminal => docs'[d] = docs[d]]_vars
  BY MoveFacts
<1> QED
  BY <1>1, Inductive, PTL DEF Spec, TerminalIsFinal

\* A live lease is given back by a job of its owner and by nobody else; in
\* particular not by a sweeper acting on an expiry it saw earlier.
THEOREM LeaseIsKept == Spec => LiveLeaseKept
<1> DEFINE Kept(d) ==
              docs[d].lease = "live" /\ docs'[d].status = "queued" =>
                  \E s \in Slots : /\ At(docs[d].worker, s, {"running"})
                                   /\ jobs[docs[d].worker][s].doc = d
                                   /\ jobs'[docs[d].worker][s].pc = "delaying"
<1>1. ASSUME IInv, [Next]_vars, NEW d \in Docs PROVE Kept(d)
  <2> SUFFICES ASSUME docs[d].lease = "live", docs'[d].status = "queued"
               PROVE  \E s \in Slots :
                         /\ At(docs[d].worker, s, {"running"})
                         /\ jobs[docs[d].worker][s].doc = d
                         /\ jobs'[docs[d].worker][s].pc = "delaying"
    OBVIOUS
  <2> HIDE DEF Kept
  <2>1. docs[d] \in Document /\ Move(d)
    BY <1>1, MoveFacts, StepMoves DEF IInv
  <2>2. docs[d].status = "processing"
    BY <1>1 DEF IInv, LeaseInv
  <2>3. ASSUME NEW w \in Workers, sweep[w].rows[d] # 0,
               SameLease(docs[d], sweep[w].rows[d])
        PROVE  FALSE
    BY <1>1, <2>3 DEF IInv, RowInv
  <2>4. docs'[d] # docs[d] /\ api[d] # "new" /\ ~Claimable(docs[d])
    BY <1>1, <2>2 DEF IInv, ApiInv, Absent, Claimable
  <2>5. ASSUME NEW a
        PROVE  /\ docs'[d] # Completed(docs[d], a)
               /\ docs'[d] # MarkedFailed(docs[d], a)
    BY <2>1 DEF Completed, MarkedFailed, Document
  <2>6. /\ docs'[d] # [docs[d] EXCEPT !.lease = "expired"]
        /\ docs'[d] # [docs[d] EXCEPT !.nextAttempt = "due"]
    BY <2>1, <2>2 DEF Document
  <2>7. \E w \in Workers, s \in Slots :
            Settles1(d, w, s) /\ jobs'[w][s].pc = "delaying"
    BY <2>1, <2>3, <2>4, <2>5, <2>6 DEF Move
  <2>8. PICK w \in Workers, s \in Slots :
            Settles1(d, w, s) /\ jobs'[w][s].pc = "delaying"
    BY <2>7
  <2> QED
    BY <2>8 DEF Settles1, HeldBy, At
<1>2. IInv /\ [Next]_vars => [\A d \in Docs : Kept(d)]_vars
  BY <1>1
<1> QED
  BY <1>2, Inductive, PTL DEF Spec, LiveLeaseKept

=============================================================================
