-------------------------- MODULE RefinementProofs --------------------------
(***************************************************************************)
(* Processing implements Lifecycle and Ending: every step of the workers,  *)
(* the sweeper and the API is one step of the document state machine, and  *)
(* one of the end of a document, or none.  The invariant of                *)
(* ProcessingProofs excludes what Move alone would allow, an early failure *)
(* and a slot released twice or before the end.                            *)
(***************************************************************************)
EXTENDS ProcessingProofs

\* At most one document is written by a step.
OneDoc(x) == \A d \in Docs \ {x} : docs'[d] = docs[d]

LEMMA StepWritesOne ==
    ASSUME Typed, [Next]_vars
    PROVE  docs' = docs \/ \E x \in Docs : OneDoc(x)
<1> DEFINE Same == docs' = docs
           Goal == Same \/ \E x \in Docs : OneDoc(x)
<1>1. docs \in [Docs -> Document]
  BY DEF Typed, TypeOK
<1>2. ASSUME NEW x \in Docs, NEW doc, docs' = [docs EXCEPT ![x] = doc]
      PROVE  OneDoc(x)
  BY <1>1, <1>2 DEF OneDoc
<1>3. ASSUME NEW d \in Docs, Request(d) PROVE Goal
  <2>1. Insert(d) \/ InsertFails(d) \/ Same
    BY <1>3 DEF Request, Publish, PublishFails, RequestDies
  <2> QED
    BY <1>2, <2>1 DEF Insert, InsertFails
<1>4. ASSUME NEW w \in Workers, LoopStep(w) PROVE Goal
  <2>1. ASSUME NEW s \in Slots, Claim(w, s) PROVE Goal
    <3>1. jobs[w][s].doc \in Docs
      BY <2>1 DEF Claim, At, Typed, JobsTyped
    <3> QED
      BY <1>2, <2>1, <3>1 DEF Claim
  <2>2. (\E s \in Slots : Claim(w, s)) \/ Same
    BY <1>4 DEF LoopStep, Read, AutoClaim, ReadReturnsNothing, ClaimLost, Load,
                StartTask
  <2> QED
    BY <2>1, <2>2
<1>5. ASSUME NEW w \in Workers, NEW s \in Slots, TaskStep(w, s) PROVE Goal
  <2>2. Complete(w, s) \/ ScheduleRetry(w, s) \/ MarkFailed(w, s) \/ Same
    BY <1>5 DEF TaskStep, LoseLease, Delay, CacheSummary, ReleaseSlot,
                ReleaseGuard, SideEffect, Ack
  <2>1. CASE Complete(w, s) \/ ScheduleRetry(w, s) \/ MarkFailed(w, s)
    <3>1. jobs[w][s].doc \in Docs
      BY <2>1 DEF Complete, ScheduleRetry, MarkFailed, Settle, At, Typed,
                  JobsTyped
    <3> QED
      BY <1>2, <2>1, <3>1 DEF Complete, ScheduleRetry, MarkFailed, Settle
  <2> QED
    BY <2>1, <2>2
<1>6. ASSUME NEW w \in Workers, SweepStep(w) PROVE Goal
  <2>1. (\E d \in Docs : SweepReset(w, d)) \/ Same
    BY <1>6 DEF SweepStep, SweepFind, SweepPromote, SweepStale, SweepPublish
  <2> QED
    BY <1>2, <2>1 DEF SweepReset
<1>7. ASSUME NEW d \in Docs, Clock(d) \/ LeaseOutrun(d) PROVE Goal
  BY <1>2, <1>7 DEF Clock, LeaseExpires, LeaseOutrun, BackoffElapses, ClockTicks
<1>8. CASE Failure
  <2>1. (\E d \in Docs : LeaseOutrun(d)) \/ Same
    BY <1>8 DEF Failure, LoseDelay, LoseEntry, AutoClaimOutrun, SweepAborts,
                Crash, AckRaises, Ends, ReadReplyLost, JobError
  <2> QED
    BY <1>7, <2>1
<1>9. ASSUME NEW w \in Workers, Start(w) \/ Stop(w) \/ Exit(w) PROVE Same
  BY <1>9 DEF Start, Stop, Exit
<1>10. CASE Idle \/ UNCHANGED vars
  BY <1>10 DEF Idle, vars
<1> QED
  BY <1>3, <1>4, <1>5, <1>6, <1>7, <1>8, <1>9, <1>10 DEF Next

\* The documents' side of the mapped step.
LEMMA DocStep ==
    ASSUME IInv, [Next]_vars, NEW x \in Docs, OneDoc(x),
           \A d \in Docs : Untouched(d)
    PROVE  [L!Next]_(L!vars)
<1> DEFINE status == [d \in Docs |-> docs[d].status]
           attempts == [d \in Docs |-> docs[d].attempts]
           released == [d \in Docs |-> effects[d].slot]
<1>1. released' = released
  BY DEF Untouched
<1>2. Move(x) /\ docs[x] \in Document
  BY StepMoves, MoveFacts DEF IInv
<1>3. ASSUME docs'[x].status = docs[x].status, docs'[x].attempts = docs[x].attempts
      PROVE  UNCHANGED L!vars
  <2>1. status' = status /\ attempts' = attempts
    BY <1>3 DEF OneDoc
  <2> QED
    BY <1>1, <2>1 DEF L!vars
<1>4. ASSUME docs'[x].attempts = docs[x].attempts
      PROVE  /\ status' = [status EXCEPT ![x] = docs'[x].status]
             /\ attempts' = attempts
  BY <1>4 DEF OneDoc
<1>5. CASE api[x] = "new" /\ docs'[x] = Inserted
  <2>1. /\ docs[x].status = "absent" /\ docs'[x].status = "queued"
        /\ docs'[x].attempts = docs[x].attempts
    BY <1>5 DEF IInv, ApiInv, Absent, Inserted
  <2>2. L!Submit(x)
    BY <1>1, <1>4, <2>1 DEF L!Submit, L!Move
  <2> QED
    BY <2>2 DEF L!Next
<1>6. ASSUME NEW w \in Workers, Claimable(docs[x]), docs'[x] = Claimed(docs[x], w)
      PROVE  L!Next
  <2>1. /\ docs[x].status = "queued" /\ docs'[x].status = "processing"
        /\ docs'[x].attempts = docs[x].attempts + 1
    BY <1>2, <1>6 DEF Claimable, Claimed, Document
  <2>2. /\ status' = [status EXCEPT ![x] = "processing"]
        /\ attempts' = [attempts EXCEPT ![x] = attempts[x] + 1]
    BY <2>1 DEF OneDoc
  <2>3. L!Take(x)
    BY <1>1, <2>1, <2>2 DEF L!Take, L!Move
  <2> QED
    BY <2>3 DEF L!Next
<1>7. ASSUME NEW w \in Workers, NEW s \in Slots, Settles1(x, w, s),
             \/ docs'[x] = Completed(docs[x], jobs[w][s].attempt)
             \/ docs'[x] = MarkedFailed(docs[x], jobs[w][s].attempt)
             \/ docs'[x] = RetryScheduled(docs[x], jobs[w][s].attempt)
      PROVE  L!Next
  <2>1. docs[x].status = "processing"
    BY <1>7 DEF Settles1, HeldBy
  <2>2. /\ docs'[x].attempts = docs[x].attempts
        /\ docs'[x].status \in {"completed", "failed", "queued"}
    BY <1>2, <1>7 DEF Completed, MarkedFailed, RetryScheduled, Document
  <2>3. docs'[x].status = "failed" => docs[x].attempts >= MaxAttempts
    BY <2>2, AttemptInvStep DEF AttemptInv
  <2>4. L!Succeed(x) \/ L!GiveUp(x) \/ L!GiveBack(x)
    BY <1>1, <1>4, <2>1, <2>2, <2>3
       DEF L!Succeed, L!GiveUp, L!GiveBack, L!Move
  <2> QED
    BY <2>4 DEF L!Next
<1>8. ASSUME docs'[x] = Reclaimed(docs[x]), NEW w \in Workers,
             SameLease(docs[x], sweep[w].rows[x])
      PROVE  L!Next
  <2>1. /\ docs[x].status = "processing" /\ docs'[x].status = "queued"
        /\ docs'[x].attempts = docs[x].attempts
    BY <1>2, <1>8 DEF SameLease, Reclaimed, Document
  <2>2. L!GiveBack(x)
    BY <1>1, <1>4, <2>1 DEF L!GiveBack, L!Move
  <2> QED
    BY <2>2 DEF L!Next
<1>9. CASE \/ docs'[x] = docs[x]
           \/ docs'[x] = [docs[x] EXCEPT !.lease = "expired"]
           \/ docs'[x] = [docs[x] EXCEPT !.nextAttempt = "due"]
  <2>1. docs'[x].status = docs[x].status /\ docs'[x].attempts = docs[x].attempts
    BY <1>2, <1>9 DEF Document
  <2> QED
    BY <1>3, <2>1
<1> QED
  BY <1>2, <1>5, <1>6, <1>7, <1>8, <1>9 DEF Move

\* The effects' side: only the release of a slot shows.
LEMMA EffectStep ==
    ASSUME IInv, [Next]_vars, docs' = docs, NEW x \in Docs, NEW w \in Workers,
           NEW s \in Slots, Performs(x, w, s)
    PROVE  [L!Next]_(L!vars)
<1> DEFINE status == [d \in Docs |-> docs[d].status]
           attempts == [d \in Docs |-> docs[d].attempts]
           released == [d \in Docs |-> effects[d].slot]
<1>1. status' = status /\ attempts' = attempts
  OBVIOUS
<1>2. /\ effects \in [Docs -> Effects] /\ effects' \in [Docs -> Effects]
      /\ jobs \in [Workers -> [Slots -> Job]]
  BY NextTyped DEF IInv, Typed, TypeOK
<1>3. ASSUME NEW d \in Docs, d # x PROVE effects'[d].slot = effects[d].slot
  <2>1. ASSUME NEW v \in Workers, NEW t \in Slots, Performs(d, v, t) PROVE FALSE
    <3>1. <<v, t>> # <<w, s>> /\ jobs[v][t].pc \in Settling
      BY <1>3, <2>1 DEF Performs, Settling
    <3>2. jobs'[v][t] = jobs[v][t]
      BY <1>2, <3>1 DEF Performs, Goto
    <3>3. jobs'[v][t].pc # jobs[v][t].pc
      BY <1>2, <2>1 DEF Performs, Goto, Job
    <3> QED
      BY <3>2, <3>3
  <2> QED
    BY <2>1, StepEffects DEF IInv, EffectMove, Untouched
<1>4. CASE effects'[x].slot = effects[x].slot
  <2>1. released' = released
    BY <1>3, <1>4
  <2> QED
    BY <1>1, <2>1 DEF L!vars
<1>5. CASE jobs[w][s].pc = "releasing"
  <2>1. effects[x].slot = 0 /\ docs[x].status \in Terminal
    BY <1>5 DEF Performs, IInv, SettledOnce, Settling
  <2>2. effects'[x].slot = 1
    BY <1>2, <1>5, <2>1 DEF Performs, Effects
  <2>3. released' = [released EXCEPT ![x] = 1]
    BY <1>3, <2>2
  <2>4. L!FreeSlot(x)
    BY <1>1, <2>1, <2>3 DEF L!FreeSlot, Terminal
  <2> QED
    BY <2>4 DEF L!Next
<1>6. jobs[w][s].pc \in {"caching", "unguarding"} =>
          effects'[x].slot = effects[x].slot
  BY <1>2 DEF Performs, Effects
<1> QED
  BY <1>4, <1>5, <1>6 DEF Performs

\* The whole of Processing, with every failure it models, is the state machine
\* of docs/flow.md: no failure before MAX_ATTEMPTS, no way back from an end,
\* and one release of the slot, after the end.
THEOREM Refines == Spec => ImplementsLifecycle
<1>1. Init => L!Init
  BY DEF Init, L!Init, Absent, NoEffects
<1>2. IInv /\ [Next]_vars => [L!Next]_(L!vars)
  <2> SUFFICES ASSUME IInv, [Next]_vars PROVE [L!Next]_(L!vars)
    OBVIOUS
  <2>1. CASE \E d \in Docs, w \in Workers, s \in Slots :
                docs' = docs /\ Performs(d, w, s)
    BY <2>1, EffectStep
  <2>2. CASE \A d \in Docs : Untouched(d)
    <3>1. CASE docs' = docs
      BY <2>2, <3>1 DEF L!vars, Untouched
    <3>2. CASE \E x \in Docs : OneDoc(x)
      BY <2>2, <3>2, DocStep
    <3> QED
      BY <3>1, <3>2, StepWritesOne DEF IInv
  <2>3. \A d \in Docs : EffectMove(d)
    BY StepEffects DEF IInv
  <2> QED
    BY <2>1, <2>2, <2>3 DEF EffectMove
<1> QED
  BY <1>1, <1>2, Inductive, PTL DEF Spec, ImplementsLifecycle, L!Spec

-----------------------------------------------------------------------------
(* The end of a document.  Only five steps show in it: the two settlements *)
(* that end a document, the side effects, an error of MongoDB in between,  *)
(* and the end of a process.  All others are Quiet, and end nothing.       *)

SeenStatus == [d \in Docs |-> Shown(docs[d])]

SeenEnd == [d \in Docs |-> EndOf(jobs, d)]

Quiet ==
    \A w \in Workers, s \in Slots :
        jobs[w][s].pc \in Settling \/ jobs'[w][s].pc \in Settling =>
            jobs'[w][s] = jobs[w][s]

EndsNothing ==
    \A d \in Docs : docs'[d].status \in Terminal => docs[d].status \in Terminal

LEMMA SoleEnd ==
    ASSUME NEW J, NEW d, NEW w \in Workers, NEW s \in Slots,
           J[w][s].pc \in Settling, J[w][s].doc = d,
           \A v \in Workers, t \in Slots :
               J[v][t].pc \in Settling /\ J[v][t].doc = d =>
                   J[v][t].pc = J[w][s].pc
    PROVE  EndOf(J, d) = J[w][s].pc
<1>1. Stages(J, d) = {J[w][s].pc}
  BY DEF Stages
<1> QED
  BY <1>1 DEF EndOf

LEMMA NoEnd ==
    ASSUME NEW J, NEW d,
           \A w \in Workers, s \in Slots :
               ~(J[w][s].pc \in Settling /\ J[w][s].doc = d)
    PROVE  EndOf(J, d) = "none"
<1>1. Stages(J, d) = {}
  BY DEF Stages
<1> QED
  BY <1>1 DEF EndOf

LEMMA SameEnd ==
    ASSUME NEW J, NEW K, NEW d,
           \A w \in Workers, s \in Slots :
               LET old == J[w][s]
                   new == K[w][s]
               IN \/ old.pc = new.pc /\ old.doc = new.doc
                  \/ ~(old.pc \in Settling /\ old.doc = d)
                     /\ ~(new.pc \in Settling /\ new.doc = d)
    PROVE  EndOf(K, d) = EndOf(J, d)
<1>1. Stages(K, d) = Stages(J, d)
  BY DEF Stages
<1> QED
  BY <1>1 DEF EndOf

\* A settling job is the end of its document, before a step and after it.
LEMMA JobIsEnd ==
    ASSUME OneSettles, NEW w \in Workers, NEW s \in Slots,
           jobs[w][s].pc \in Settling
    PROVE  EndOf(jobs, jobs[w][s].doc) = jobs[w][s].pc
<1>1. \A v \in Workers, t \in Slots :
          jobs[v][t].pc \in Settling /\ jobs[v][t].doc = jobs[w][s].doc =>
              jobs[v][t].pc = jobs[w][s].pc
  BY DEF OneSettles, Both
<1> QED
  BY <1>1, SoleEnd

LEMMA JobIsEndAfter ==
    ASSUME OneSettles', NEW w \in Workers, NEW s \in Slots,
           jobs'[w][s].pc \in Settling
    PROVE  EndOf(jobs', jobs'[w][s].doc) = jobs'[w][s].pc
<1>1. \A v \in Workers, t \in Slots :
          jobs'[v][t].pc \in Settling /\ jobs'[v][t].doc = jobs'[w][s].doc =>
              jobs'[v][t].pc = jobs'[w][s].pc
  BY DEF OneSettles, Both
<1> QED
  BY <1>1, SoleEnd

\* A step of one job shows in the end of its document only.
LEMMA GotoEnds ==
    ASSUME Typed, NEW w \in Workers, NEW s \in Slots, NEW pc,
           jobs[w][s].doc \in Docs, Goto(w, s, pc)
    PROVE  /\ jobs'[w][s].pc = pc /\ jobs'[w][s].doc = jobs[w][s].doc
           /\ \A v \in Workers, t \in Slots :
                  <<v, t>> # <<w, s>> => jobs'[v][t] = jobs[v][t]
           /\ SeenEnd' = [SeenEnd EXCEPT ![jobs[w][s].doc] =
                             EndOf(jobs', jobs[w][s].doc)]
<1> DEFINE x == jobs[w][s].doc
<1>1. jobs \in [Workers -> [Slots -> Job]]
  BY DEF Typed, TypeOK
<1>2. /\ jobs'[w][s].pc = pc /\ jobs'[w][s].doc = x
      /\ \A v \in Workers, t \in Slots :
             <<v, t>> # <<w, s>> => jobs'[v][t] = jobs[v][t]
  BY <1>1 DEF Goto, Job
<1>3. ASSUME NEW d \in Docs, d # x PROVE EndOf(jobs', d) = EndOf(jobs, d)
  <2>1. \A v \in Workers, t \in Slots :
            LET old == jobs[v][t]
                new == jobs'[v][t]
            IN \/ old.pc = new.pc /\ old.doc = new.doc
               \/ ~(old.pc \in Settling /\ old.doc = d)
                  /\ ~(new.pc \in Settling /\ new.doc = d)
    BY <1>2, <1>3
  <2> QED
    BY <2>1, SameEnd
<1>4. SeenEnd' = [SeenEnd EXCEPT ![x] = EndOf(jobs', x)]
  BY <1>3 DEF SeenEnd
<1> QED
  BY <1>2, <1>4

LEMMA QuietGoto ==
    ASSUME Typed, NEW w \in Workers, NEW s \in Slots, NEW pc,
           jobs[w][s].pc \notin Settling, pc \notin Settling, Goto(w, s, pc)
    PROVE  Quiet
BY DEF Typed, TypeOK, Goto, Job, Quiet

LEMMA QuietDeliver ==
    ASSUME Typed, NEW w \in Workers, NEW ids \in SUBSET Entries,
           NEW batch \in Batches(w, ids), Deliver(w, batch)
    PROVE  Quiet
<1>1. PICK T \in SUBSET Slots : batch \in [T -> ids] /\ T \subseteq FreeSlots(w)
  BY BatchTyped
<1>2. \A s \in T : jobs[w][s].pc = "free"
  BY <1>1 DEF FreeSlots, At
<1>3. DOMAIN batch = T
  BY <1>1
<1>4. jobs \in [Workers -> [Slots -> Job]]
  BY DEF Typed, TypeOK
<1>5. \A v \in Workers, s \in Slots :
          \/ jobs'[v][s] = jobs[v][s]
          \/ jobs[v][s].pc = "free" /\ jobs'[v][s].pc = "buffered"
  BY <1>2, <1>3, <1>4 DEF Deliver, NoJob
<1> QED
  BY <1>5 DEF Quiet, Settling

\* The steps that show in the end of a document.
EndingStep(w, s) ==
    \/ Complete(w, s) \/ MarkFailed(w, s)
    \/ CacheSummary(w, s) \/ ReleaseSlot(w, s) \/ ReleaseGuard(w, s)
    \/ JobError(w, s) /\ jobs[w][s].pc \in Settling

LEMMA StepKinds ==
    ASSUME Typed, [Next]_vars
    PROVE  \/ Quiet /\ EndsNothing
           \/ \E w \in Workers, s \in Slots : EndingStep(w, s)
           \/ \E w \in Workers : Crash(w) \/ AckRaises(w)
<1> DEFINE Calm == Quiet /\ EndsNothing
<1>1. docs \in [Docs -> Document]
  BY DEF Typed, TypeOK
<1>2. /\ jobs' = jobs => Quiet
      /\ docs' = docs => EndsNothing
  BY DEF Quiet, EndsNothing
<1>3. ASSUME NEW x \in Docs, NEW doc, docs' = [docs EXCEPT ![x] = doc],
             doc.status \in Terminal => docs[x].status \in Terminal
      PROVE  EndsNothing
  BY <1>1, <1>3 DEF EndsNothing
<1>4. ASSUME NEW d \in Docs, Request(d) PROVE Calm
  <2>1. jobs' = jobs
    BY <1>4 DEF Request, Insert, InsertFails, Publish, PublishFails, RequestDies
  <2>2. docs' = docs \/ docs' = [docs EXCEPT ![d] = Inserted]
    BY <1>4 DEF Request, Insert, InsertFails, Publish, PublishFails, RequestDies
  <2>3. Inserted.status \notin Terminal
    BY DEF Inserted, Absent, Terminal
  <2> QED
    BY <1>2, <1>3, <2>1, <2>2, <2>3
<1>5. ASSUME NEW d \in Docs, Clock(d) \/ LeaseOutrun(d) PROVE Calm
  <2>1. jobs' = jobs
    BY <1>5 DEF Clock, LeaseExpires, LeaseOutrun, BackoffElapses, ClockTicks
  <2>2. \/ docs' = [docs EXCEPT ![d] = [docs[d] EXCEPT !.lease = "expired"]]
        \/ docs' = [docs EXCEPT ![d] = [docs[d] EXCEPT !.nextAttempt = "due"]]
    BY <1>5 DEF Clock, LeaseExpires, LeaseOutrun, BackoffElapses, ClockTicks
  <2>3. /\ [docs[d] EXCEPT !.lease = "expired"].status = docs[d].status
        /\ [docs[d] EXCEPT !.nextAttempt = "due"].status = docs[d].status
    BY <1>1 DEF Document
  <2> QED
    BY <1>2, <1>3, <2>1, <2>2, <2>3
<1>6. ASSUME NEW w \in Workers, LoopStep(w) \/ AutoClaimOutrun(w) PROVE Calm
  <2>1. ASSUME NEW s \in Slots, Claim(w, s) PROVE Calm
    <3>1. jobs[w][s].doc \in Docs /\ jobs[w][s].pc = "buffered"
      BY <2>1 DEF Claim, At, Typed, JobsTyped
    <3>2. Claimed(docs[jobs[w][s].doc], w).status = "processing"
      BY <1>1, <3>1 DEF Claimed, Document
    <3>3. EndsNothing
      BY <1>3, <2>1, <3>1, <3>2 DEF Claim, Terminal
    <3> QED
      BY <2>1, <3>1, <3>3, QuietGoto DEF Claim, Settling
  <2>2. ASSUME NEW s \in Slots, ClaimLost(w, s) \/ StartTask(w, s) PROVE Calm
    BY <1>2, <2>2, QuietGoto DEF ClaimLost, StartTask, At, Settling
  <2>3. ASSUME NEW s \in Slots, Load(w, s) PROVE Calm
    <3>1. Quiet
      BY <2>3 DEF Load, At, Typed, TypeOK, Job, Quiet, Settling
    <3> QED
      BY <1>2, <2>3, <3>1 DEF Load
  <2>4. CASE Read(w) \/ AutoClaim(w) \/ AutoClaimOutrun(w)
    <3>1. docs' = docs
      BY <2>4 DEF Read, AutoClaim, AutoClaimOutrun
    <3>2. \E ids \in SUBSET Entries : \E batch \in Batches(w, ids) :
              Deliver(w, batch)
      BY <2>4 DEF Read, AutoClaim, AutoClaimOutrun, QueuedEntries, PendingEntries
    <3> QED
      BY <1>2, <3>1, <3>2, QuietDeliver
  <2>5. CASE ReadReturnsNothing(w)
    BY <1>2, <2>5 DEF ReadReturnsNothing
  <2> QED
    BY <1>6, <2>1, <2>2, <2>3, <2>4, <2>5 DEF LoopStep
<1>7. ASSUME NEW w \in Workers, SweepStep(w) PROVE Calm
  <2>1. jobs' = jobs
    BY <1>7 DEF SweepStep, SweepFind, SweepPromote, SweepStale, SweepReset,
                SweepPublish
  <2>2. docs' = docs \/ \E d \in Docs : SweepReset(w, d)
    BY <1>7 DEF SweepStep, SweepFind, SweepPromote, SweepStale, SweepPublish
  <2>3. ASSUME NEW d \in Docs, SweepReset(w, d) PROVE EndsNothing
    <3>1. Reclaimed(docs[d]).status \notin Terminal
      BY <1>1 DEF Reclaimed, Document, Terminal
    <3> QED
      BY <1>3, <2>3, <3>1 DEF SweepReset
  <2> QED
    BY <1>2, <1>3, <2>1, <2>2, <2>3
<1>8. ASSUME NEW w \in Workers, NEW s \in Slots,
             TaskStep(w, s) \/ JobError(w, s), ~EndingStep(w, s)
      PROVE  Calm
  <2>1. CASE ScheduleRetry(w, s)
    <3> DEFINE d == jobs[w][s].doc
    <3>1. /\ d \in Docs /\ jobs[w][s].pc = "running" /\ Goto(w, s, "delaying")
          /\ docs' = [docs EXCEPT ![d] = RetryScheduled(docs[d], jobs[w][s].attempt)]
      BY <2>1 DEF ScheduleRetry, Settle, At, Typed, JobsTyped
    <3>2. RetryScheduled(docs[d], jobs[w][s].attempt).status = "queued"
      BY <1>1, <3>1 DEF RetryScheduled, Document
    <3>3. EndsNothing
      BY <1>3, <3>1, <3>2 DEF Terminal
    <3> QED
      BY <3>1, <3>3, QuietGoto DEF Settling
  <2>2. CASE LoseLease(w, s) \/ Delay(w, s)
    BY <1>2, <2>2, QuietGoto DEF LoseLease, Delay, At, Settling
  <2>3. CASE JobError(w, s)
    BY <1>2, <1>8, <2>3, QuietGoto DEF JobError, EndingStep, Settling
  <2>4. CASE Ack(w, s)
    <3>1. Quiet
      BY <2>4 DEF Ack, At, NoJob, Typed, TypeOK, Job, Quiet, Settling
    <3> QED
      BY <1>2, <2>4, <3>1 DEF Ack
  <2> QED
    BY <1>8, <2>1, <2>2, <2>3, <2>4 DEF TaskStep, EndingStep
<1>9. ASSUME NEW w \in Workers, Start(w) \/ Stop(w) \/ Exit(w) PROVE Calm
  BY <1>2, <1>9 DEF Start, Stop, Exit
<1>10. CASE Idle \/ UNCHANGED vars
  BY <1>2, <1>10 DEF Idle, vars
<1>11. ASSUME \/ \E d \in Docs : LoseDelay(d)
              \/ \E e \in Entries : LoseEntry(e)
              \/ \E w \in Workers : SweepAborts(w)
              \/ \E w \in Workers, e \in Entries : ReadReplyLost(w, e)
       PROVE  Calm
  BY <1>2, <1>11 DEF LoseDelay, LoseEntry, SweepAborts, ReadReplyLost
<1> HIDE DEF Calm
<1>12. CASE Failure
  <2>1. \/ \E d \in Docs : LeaseOutrun(d)
        \/ \E d \in Docs : LoseDelay(d)
        \/ \E e \in Entries : LoseEntry(e)
        \/ \E w \in Workers : SweepAborts(w)
        \/ \E w \in Workers, e \in Entries : ReadReplyLost(w, e)
        \/ \E w \in Workers : AutoClaimOutrun(w)
        \/ \E w \in Workers, s \in Slots : JobError(w, s)
        \/ \E w \in Workers : Crash(w) \/ AckRaises(w)
    BY <1>12 DEF Failure
  <2> QED
    BY <1>5, <1>6, <1>8, <1>11, <2>1 DEF Calm
<1>13. CASE \E w \in Workers, s \in Slots : TaskStep(w, s)
  BY <1>8, <1>13 DEF Calm
<1>14. CASE \E d \in Docs : Request(d) \/ Clock(d)
  BY <1>4, <1>5, <1>14 DEF Calm
<1>15. CASE \E w \in Workers : \/ Start(w) \/ Stop(w) \/ Exit(w)
                              \/ LoopStep(w) \/ SweepStep(w)
  BY <1>6, <1>7, <1>9, <1>15 DEF Calm
<1> QED
  BY <1>10, <1>12, <1>13, <1>14, <1>15 DEF Next, Calm

LEMMA QuietRefines ==
    ASSUME IInv, [Next]_vars, Quiet, EndsNothing
    PROVE  [E!Next]_(E!vars)
<1>1. SeenEnd' = SeenEnd
  <2>1. ASSUME NEW d \in Docs PROVE EndOf(jobs', d) = EndOf(jobs, d)
    <3>1. \A w \in Workers, s \in Slots :
              LET old == jobs[w][s]
                  new == jobs'[w][s]
              IN \/ old.pc = new.pc /\ old.doc = new.doc
                 \/ ~(old.pc \in Settling /\ old.doc = d)
                    /\ ~(new.pc \in Settling /\ new.doc = d)
      BY DEF Quiet
    <3> QED
      BY <3>1, SameEnd
  <2> QED
    BY <2>1 DEF SeenEnd
<1>2. CASE docs' = docs
  BY <1>1, <1>2 DEF E!vars, SeenStatus, SeenEnd
<1>3. ASSUME NEW x \in Docs, OneDoc(x) PROVE [E!Next]_(E!vars)
  <2>1. SeenStatus' = [SeenStatus EXCEPT ![x] = Shown(docs'[x])]
    BY <1>3 DEF OneDoc, SeenStatus, Shown
  <2>2. Move(x) /\ docs[x] \in Document
    BY StepMoves, MoveFacts DEF IInv
  <2>3. CASE Shown(docs'[x]) = Shown(docs[x])
    <3>1. SeenStatus' = SeenStatus
      BY <2>1, <2>3 DEF SeenStatus
    <3> QED
      BY <1>1, <3>1 DEF E!vars, SeenStatus, SeenEnd
  <2>4. CASE api[x] = "new" /\ docs'[x] = Inserted
    <3>1. Shown(docs[x]) = "absent" /\ Shown(docs'[x]) = "active"
      BY <2>4 DEF IInv, ApiInv, Absent, Inserted, Shown, Active
    <3>2. E!Add(x)
      BY <1>1, <2>1, <3>1 DEF E!Add, E!Moves, SeenStatus, SeenEnd
    <3> QED
      BY <3>2 DEF E!Next
  <2>5. CASE docs'[x].status \in Active /\ docs[x].status \in Active
    BY <2>3, <2>5 DEF Shown
  <2>6. CASE docs'[x].status = docs[x].status
    BY <2>3, <2>6 DEF Shown
  <2>7. ASSUME NEW w \in Workers, NEW s \in Slots, Settles1(x, w, s),
               \/ docs'[x] = Completed(docs[x], jobs[w][s].attempt)
               \/ docs'[x] = MarkedFailed(docs[x], jobs[w][s].attempt)
        PROVE  FALSE
    BY <2>2, <2>7 DEF EndsNothing, Settles1, HeldBy, Completed, MarkedFailed,
                      Document, Terminal
  <2>8. ASSUME NEW w \in Workers, Claimable(docs[x]),
               docs'[x] = Claimed(docs[x], w)
        PROVE  [E!Next]_(E!vars)
    BY <2>2, <2>5, <2>8 DEF Claimable, Claimed, Document, Active
  <2>9. ASSUME NEW w \in Workers, NEW s \in Slots, Settles1(x, w, s),
               docs'[x] = RetryScheduled(docs[x], jobs[w][s].attempt)
        PROVE  [E!Next]_(E!vars)
    BY <2>2, <2>5, <2>9 DEF Settles1, HeldBy, RetryScheduled, Document, Active
  <2>10. ASSUME NEW w \in Workers, SameLease(docs[x], sweep[w].rows[x]),
                docs'[x] = Reclaimed(docs[x])
         PROVE  [E!Next]_(E!vars)
    BY <2>2, <2>5, <2>10 DEF SameLease, Reclaimed, Document, Active
  <2>11. CASE \/ docs'[x] = docs[x]
              \/ docs'[x] = [docs[x] EXCEPT !.lease = "expired"]
              \/ docs'[x] = [docs[x] EXCEPT !.nextAttempt = "due"]
    BY <2>2, <2>6, <2>11 DEF Document
  <2> QED
    BY <2>2, <2>4, <2>7, <2>8, <2>9, <2>10, <2>11 DEF Move
<1> QED
  BY <1>2, <1>3, StepWritesOne DEF IInv

\* The compare-and-set that ends a document finds it without an end.
LEMMA SettlementRefines ==
    ASSUME IInv, OneSettles', NEW w \in Workers, NEW s \in Slots,
           Complete(w, s) \/ MarkFailed(w, s)
    PROVE  E!Next
<1> DEFINE x == jobs[w][s].doc
<1>1. /\ docs \in [Docs -> Document] /\ x \in Docs /\ Typed /\ OneSettles
  BY DEF Complete, MarkFailed, Settle, At, IInv, Typed, TypeOK, JobsTyped
<1>2. docs[x].status = "processing"
  BY DEF Complete, MarkFailed, Settle, HeldBy
<1>3. EndOf(jobs, x) = "none"
  <2>1. ASSUME NEW v \in Workers, NEW t \in Slots,
               jobs[v][t].pc \in Settling, jobs[v][t].doc = x
        PROVE  FALSE
    <3>1. docs[x].status \in Terminal
      BY <2>1 DEF IInv, SettledOnce
    <3> QED
      BY <1>2, <3>1 DEF Terminal
  <2> QED
    BY <2>1, NoEnd
<1>4. Shown(docs[x]) = "active"
  BY <1>2 DEF Shown, Active
<1>5. ASSUME NEW doc, NEW pc \in Settling, docs' = [docs EXCEPT ![x] = doc],
             Goto(w, s, pc)
      PROVE  /\ SeenStatus' = [SeenStatus EXCEPT ![x] = Shown(doc)]
             /\ SeenEnd' = [SeenEnd EXCEPT ![x] = pc]
  <2>1. SeenStatus' = [SeenStatus EXCEPT ![x] = Shown(doc)]
    BY <1>1, <1>5 DEF SeenStatus
  <2>2. /\ jobs'[w][s].pc = pc /\ jobs'[w][s].doc = x
        /\ SeenEnd' = [SeenEnd EXCEPT ![x] = EndOf(jobs', x)]
    BY <1>1, <1>5, GotoEnds
  <2>3. EndOf(jobs', x) = pc
    BY <2>2, JobIsEndAfter
  <2> QED
    BY <2>1, <2>2, <2>3
<1>6. CASE Complete(w, s)
  <2> DEFINE doc == Completed(docs[x], jobs[w][s].attempt)
  <2>1. docs' = [docs EXCEPT ![x] = doc] /\ Goto(w, s, "caching")
    BY <1>6 DEF Complete, Settle
  <2>2. Shown(doc) = "completed"
    BY <1>1 DEF Completed, Document, Shown, Active
  <2>3. /\ SeenStatus' = [SeenStatus EXCEPT ![x] = "completed"]
        /\ SeenEnd' = [SeenEnd EXCEPT ![x] = "caching"]
    BY <1>5, <2>1, <2>2 DEF Settling
  <2>4. E!Succeed(x)
    BY <1>1, <1>3, <1>4, <2>3
       DEF E!Succeed, E!Moves, E!Enters, SeenStatus, SeenEnd
  <2> QED
    BY <1>1, <2>4 DEF E!Next
<1>7. CASE MarkFailed(w, s)
  <2> DEFINE doc == MarkedFailed(docs[x], jobs[w][s].attempt)
  <2>1. docs' = [docs EXCEPT ![x] = doc] /\ Goto(w, s, "releasing")
    BY <1>7 DEF MarkFailed, Settle
  <2>2. Shown(doc) = "failed"
    BY <1>1 DEF MarkedFailed, Document, Shown, Active
  <2>3. /\ SeenStatus' = [SeenStatus EXCEPT ![x] = "failed"]
        /\ SeenEnd' = [SeenEnd EXCEPT ![x] = "releasing"]
    BY <1>5, <2>1, <2>2 DEF Settling
  <2>4. E!GiveUp(x)
    BY <1>1, <1>3, <1>4, <2>3
       DEF E!GiveUp, E!Moves, E!Enters, SeenStatus, SeenEnd
  <2> QED
    BY <1>1, <2>4 DEF E!Next
<1> QED
  BY <1>6, <1>7

\* A side effect, or the error that leaves out the rest of them.
LEMMA SideEffectRefines ==
    ASSUME IInv, OneSettles', NEW w \in Workers, NEW s \in Slots,
           \/ CacheSummary(w, s) \/ ReleaseSlot(w, s) \/ ReleaseGuard(w, s)
           \/ JobError(w, s) /\ jobs[w][s].pc \in Settling
    PROVE  E!Next
<1> DEFINE x == jobs[w][s].doc
           from == jobs[w][s].pc
<1>1. from \in Settling
  BY DEF CacheSummary, ReleaseSlot, ReleaseGuard, SideEffect, At, Settling
<1>2. x \in Docs /\ Typed /\ OneSettles
  BY <1>1 DEF IInv, Typed, JobsTyped, Settling
<1>3. EndOf(jobs, x) = from
  BY <1>1, <1>2, JobIsEnd
<1>4. SeenStatus' = SeenStatus
  BY DEF CacheSummary, ReleaseSlot, ReleaseGuard, SideEffect, JobError, SeenStatus
<1>5. ASSUME NEW pc, Goto(w, s, pc), pc \in Settling \cup {"acking"}
      PROVE  SeenEnd' = [SeenEnd EXCEPT ![x] = IF pc = "acking" THEN "none" ELSE pc]
  <2>1. /\ jobs'[w][s].pc = pc /\ jobs'[w][s].doc = x
        /\ \A v \in Workers, t \in Slots :
               <<v, t>> # <<w, s>> => jobs'[v][t] = jobs[v][t]
        /\ SeenEnd' = [SeenEnd EXCEPT ![x] = EndOf(jobs', x)]
    BY <1>2, <1>5, GotoEnds
  <2>2. CASE pc \in Settling
    BY <2>1, <2>2, JobIsEndAfter DEF Settling
  <2>3. CASE pc = "acking"
    <3>1. ASSUME NEW v \in Workers, NEW t \in Slots,
                 jobs'[v][t].pc \in Settling, jobs'[v][t].doc = x
          PROVE  FALSE
      <4>1. <<v, t>> # <<w, s>>
        BY <2>1, <2>3, <3>1 DEF Settling
      <4>2. jobs[v][t].pc \in Settling /\ jobs[v][t].doc = x
        BY <2>1, <3>1, <4>1
      <4> QED
        BY <1>1, <1>2, <4>1, <4>2 DEF OneSettles, Both
    <3>2. EndOf(jobs', x) = "none"
      BY <3>1, NoEnd
    <3> QED
      BY <2>1, <2>3, <3>2
  <2> QED
    BY <1>5, <2>2, <2>3
<1>6. ASSUME NEW to, <<from, to>> \in E!Order,
             SeenEnd' = [SeenEnd EXCEPT ![x] = to]
      PROVE  E!Next
  <2>1. E!Proceed(x)
    BY <1>2, <1>3, <1>4, <1>6 DEF E!Proceed, SeenStatus, SeenEnd
  <2> QED
    BY <1>2, <2>1 DEF E!Next
<1>7. CASE CacheSummary(w, s)
  <2>1. from = "caching" /\ Goto(w, s, "releasing")
    BY <1>7 DEF CacheSummary, SideEffect, At
  <2> QED
    BY <1>5, <1>6, <2>1 DEF Settling, E!Order
<1>8. CASE ReleaseSlot(w, s)
  <2>1. from = "releasing" /\ Goto(w, s, "unguarding")
    BY <1>8 DEF ReleaseSlot, SideEffect, At
  <2> QED
    BY <1>5, <1>6, <2>1 DEF Settling, E!Order
<1>9. CASE ReleaseGuard(w, s)
  <2>1. from = "unguarding" /\ Goto(w, s, "acking")
    BY <1>9 DEF ReleaseGuard, SideEffect, At
  <2> QED
    BY <1>5, <1>6, <2>1 DEF Settling, E!Order
<1>10. CASE JobError(w, s)
  <2>1. SeenEnd' = [SeenEnd EXCEPT ![x] = "none"]
    BY <1>5, <1>10 DEF JobError
  <2>2. SeenEnd' = [d \in Docs |-> IF d \in {x} THEN "none" ELSE SeenEnd[d]]
    BY <2>1 DEF SeenEnd
  <2>3. E!Abandon({x})
    BY <1>4, <2>2 DEF E!Abandon, SeenStatus, SeenEnd
  <2> QED
    BY <1>2, <2>3 DEF E!Next
<1> QED
  BY <1>7, <1>8, <1>9, <1>10

\* A process dies with everything it had in memory.
LEMMA DeathRefines ==
    ASSUME IInv, NEW w \in Workers, Crash(w) \/ AckRaises(w)
    PROVE  E!Next
<1> DEFINE D == {d \in Docs : \E s \in Slots : /\ jobs[w][s].pc \in Settling
                                               /\ jobs[w][s].doc = d}
<1>1. jobs \in [Workers -> [Slots -> Job]] /\ OneSettles
  BY DEF IInv, Typed, TypeOK
<1>2. docs' = docs /\ jobs' = [jobs EXCEPT ![w] = NoJobs]
  BY DEF Crash, AckRaises, Ends
<1>3. \A s \in Slots : jobs'[w][s].pc \notin Settling
  BY <1>1, <1>2 DEF NoJobs, NoJob, Settling
<1>4. \A v \in Workers, t \in Slots : v # w => jobs'[v][t] = jobs[v][t]
  BY <1>1, <1>2
<1>5. ASSUME NEW d \in D PROVE EndOf(jobs', d) = "none"
  <2>1. PICK s \in Slots : jobs[w][s].pc \in Settling /\ jobs[w][s].doc = d
    OBVIOUS
  <2>2. ASSUME NEW v \in Workers, NEW t \in Slots,
               jobs'[v][t].pc \in Settling, jobs'[v][t].doc = d
        PROVE  FALSE
    <3>1. v # w /\ jobs[v][t].pc \in Settling /\ jobs[v][t].doc = d
      BY <1>3, <1>4, <2>2
    <3> QED
      BY <1>1, <2>1, <3>1 DEF OneSettles, Both
  <2> QED
    BY <2>2, NoEnd
<1>6. ASSUME NEW d \in Docs \ D PROVE EndOf(jobs', d) = EndOf(jobs, d)
  <2>1. \A v \in Workers, t \in Slots :
            LET old == jobs[v][t]
                new == jobs'[v][t]
            IN \/ old.pc = new.pc /\ old.doc = new.doc
               \/ ~(old.pc \in Settling /\ old.doc = d)
                  /\ ~(new.pc \in Settling /\ new.doc = d)
    BY <1>3, <1>4
  <2> QED
    BY <2>1, SameEnd
<1> HIDE DEF D
<1>7. SeenEnd' = [d \in Docs |-> IF d \in D THEN "none" ELSE SeenEnd[d]]
  BY <1>5, <1>6 DEF SeenEnd
<1>8. E!Abandon(D)
  BY <1>2, <1>7 DEF E!Abandon, SeenStatus, SeenEnd
<1>9. D \in SUBSET Docs
  BY DEF D
<1> QED
  BY <1>8, <1>9 DEF E!Next

\* To the submit flow the workers are Ending: for any number of deliveries,
\* attempts and failures a document ends once, and its side effects follow in
\* their order until they are done or their worker dies.
THEOREM EndingKept == Spec => ImplementsEnding
<1>1. Init => E!Init
  <2> SUFFICES ASSUME Init PROVE E!Init
    OBVIOUS
  <2>1. ASSUME NEW d \in Docs
        PROVE  Shown(docs[d]) = "absent" /\ EndOf(jobs, d) = "none"
    <3>1. \A w \in Workers, s \in Slots : jobs[w][s].pc = "free"
      BY DEF Init, NoJobs, NoJob
    <3>2. EndOf(jobs, d) = "none"
      BY <3>1, NoEnd DEF Settling
    <3> QED
      BY <3>2 DEF Init, Absent, Shown, Active
  <2> QED
    BY <2>1 DEF E!Init
<1>2. IInv /\ [Next]_vars => [E!Next]_(E!vars)
  <2> SUFFICES ASSUME IInv, [Next]_vars PROVE [E!Next]_(E!vars)
    OBVIOUS
  <2>1. Typed /\ OneSettles'
    BY OneSettlesStep DEF IInv
  <2>2. CASE \E w \in Workers, s \in Slots : EndingStep(w, s)
    BY <2>1, <2>2, SettlementRefines, SideEffectRefines DEF EndingStep
  <2> QED
    BY <2>1, <2>2, StepKinds, QuietRefines, DeathRefines
<1> QED
  BY <1>1, <1>2, Inductive, PTL DEF Spec, ImplementsEnding, E!Spec
=============================================================================
