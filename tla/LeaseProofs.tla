---------------------------- MODULE LeaseProofs ----------------------------
(***************************************************************************)
(* The lease excludes: as long as no job outlives its lease ("slow" is not *)
(* among the disruptions), the compare-and-sets of the repository keep a   *)
(* second job away from a document, whatever crashes, is lost or is        *)
(* delivered twice.  With a slow job these two properties fail, which is   *)
(* what the run stale_result shows; the last parts are about what a slow   *)
(* job, or any other failure, can cost at most, and about the one way in   *)
(* which a late result passes.                                             *)
(***************************************************************************)
EXTENDS ProcessingProofs, FiniteSetTheorems

\* The steps a job must keep its lease through.
Working == {"loading", "claimed", "running"}

\* Why no second job gets in: who works on a document holds it, the lease is
\* live, and from the load on the job's number is that of the latest claim.
WorkInv ==
    \A w \in Workers, s \in Slots :
        LET job == jobs[w][s]
        IN job.pc \in Working =>
              /\ docs[job.doc].status = "processing"
              /\ docs[job.doc].worker = w
              /\ docs[job.doc].lease = "live"
              /\ job.pc # "loading" => job.attempt = docs[job.doc].attempts

OnTime == IInv /\ WorkInv /\ OneJobPerDocument

-----------------------------------------------------------------------------
(* How a job comes to work                                                 *)

WorkMove(w, s) ==
    \/ jobs'[w][s] = jobs[w][s]
    \/ jobs'[w][s].pc \notin Working
    \/ Claim(w, s) \/ Load(w, s) \/ StartTask(w, s)

LEMMA GotoLeaves ==
    ASSUME Typed, NEW w \in Workers, NEW s \in Slots, NEW v \in Workers,
           NEW t \in Slots, NEW pc, pc \notin Working, Goto(v, t, pc)
    PROVE  WorkMove(w, s)
<1>1. jobs \in [Workers -> [Slots -> Job]]
  BY DEF Typed, TypeOK
<1>2. CASE v = w /\ t = s
  <2>1. jobs'[w][s].pc = pc
    BY <1>1, <1>2 DEF Goto, Job
  <2> QED
    BY <2>1 DEF WorkMove
<1>3. CASE ~(v = w /\ t = s)
  BY <1>1, <1>3 DEF Goto, WorkMove
<1> QED
  BY <1>2, <1>3

LEMMA LoopWork ==
    ASSUME Typed, NEW w \in Workers, NEW s \in Slots,
           NEW v \in Workers, LoopStep(v) \/ AutoClaimOutrun(v)
    PROVE  WorkMove(w, s)
<1>1. jobs \in [Workers -> [Slots -> Job]]
  BY DEF Typed, TypeOK
<1>2. ASSUME NEW batch, Deliver(v, batch) PROVE WorkMove(w, s)
  BY <1>1, <1>2 DEF Deliver, NoJob, WorkMove, Working
<1>3. CASE Read(v) \/ AutoClaim(v) \/ AutoClaimOutrun(v)
  BY <1>2, <1>3 DEF Read, AutoClaim, AutoClaimOutrun
<1>4. CASE ReadReturnsNothing(v)
  BY <1>4 DEF ReadReturnsNothing, WorkMove
<1>5. ASSUME NEW t \in Slots, ClaimLost(v, t) PROVE WorkMove(w, s)
  BY <1>5, GotoLeaves DEF ClaimLost, Working
<1>6. ASSUME NEW t \in Slots, Claim(v, t) \/ StartTask(v, t) PROVE WorkMove(w, s)
  <2>1. CASE v = w /\ t = s
    BY <1>6, <2>1 DEF WorkMove
  <2>2. CASE ~(v = w /\ t = s)
    BY <1>1, <1>6, <2>2 DEF Claim, StartTask, Goto, WorkMove
  <2> QED
    BY <2>1, <2>2
<1>7. ASSUME NEW t \in Slots, Load(v, t) PROVE WorkMove(w, s)
  <2>1. CASE v = w /\ t = s
    BY <1>7, <2>1 DEF WorkMove
  <2>2. CASE ~(v = w /\ t = s)
    BY <1>1, <1>7, <2>2 DEF Load, WorkMove
  <2> QED
    BY <2>1, <2>2
<1> QED
  BY <1>3, <1>4, <1>5, <1>6, <1>7 DEF LoopStep

LEMMA TaskWork ==
    ASSUME Typed, NEW w \in Workers, NEW s \in Slots,
           NEW v \in Workers, NEW t \in Slots, TaskStep(v, t) \/ JobError(v, t)
    PROVE  WorkMove(w, s)
<1>1. CASE Complete(v, t) \/ ScheduleRetry(v, t) \/ MarkFailed(v, t)
  BY <1>1, GotoLeaves DEF Complete, ScheduleRetry, MarkFailed, Settle, Working
<1>2. CASE LoseLease(v, t) \/ Delay(v, t) \/ JobError(v, t)
  BY <1>2, GotoLeaves DEF LoseLease, Delay, JobError, Working
<1>3. CASE CacheSummary(v, t) \/ ReleaseSlot(v, t) \/ ReleaseGuard(v, t)
  BY <1>3, GotoLeaves
     DEF CacheSummary, ReleaseSlot, ReleaseGuard, SideEffect, Working
<1>4. CASE Ack(v, t)
  BY <1>4 DEF Ack, NoJob, WorkMove, Working, Typed, TypeOK
<1> QED
  BY <1>1, <1>2, <1>3, <1>4 DEF TaskStep

LEMMA StepWork ==
    ASSUME Typed, [Next]_vars, NEW w \in Workers, NEW s \in Slots
    PROVE  WorkMove(w, s)
<1> DEFINE Same == jobs' = jobs
<1>1. Same => WorkMove(w, s)
  BY DEF WorkMove
<1>2. ASSUME NEW d \in Docs, Request(d) \/ Clock(d) PROVE Same
  BY <1>2 DEF Request, Insert, InsertFails, Publish, PublishFails, RequestDies,
              Clock, LeaseExpires, BackoffElapses, ClockTicks
<1>3. ASSUME NEW v \in Workers, SweepStep(v) PROVE Same
  BY <1>3 DEF SweepStep, SweepFind, SweepPromote, SweepStale, SweepReset,
              SweepPublish
<1>4. ASSUME NEW v \in Workers, Start(v) \/ Stop(v) \/ Exit(v) PROVE Same
  BY <1>4 DEF Start, Stop, Exit
<1>5. CASE Idle \/ UNCHANGED vars
  BY <1>1, <1>5 DEF Idle, vars
<1>6. CASE Failure
  <2>1. ASSUME NEW v \in Workers, Crash(v) \/ AckRaises(v) PROVE WorkMove(w, s)
    BY <2>1 DEF Crash, AckRaises, Ends, NoJobs, NoJob, WorkMove, Working, Typed,
                TypeOK
  <2>2. \/ \E v \in Workers : Crash(v) \/ AckRaises(v) \/ AutoClaimOutrun(v)
        \/ \E v \in Workers, t \in Slots : JobError(v, t)
        \/ Same
    BY <1>6 DEF Failure, LeaseOutrun, ClockTicks, LoseDelay, LoseEntry,
                SweepAborts, ReadReplyLost
  <2> QED
    BY <1>1, <2>1, <2>2, LoopWork, TaskWork
<1> QED
  BY <1>1, <1>2, <1>3, <1>4, <1>5, <1>6, LoopWork, TaskWork DEF Next

-----------------------------------------------------------------------------
(* Who touches a document that is in process                               *)

\* The writes of Move, with what each says of the jobs.
Touch(d) ==
    \/ docs'[d] = docs[d]
    \/ api[d] = "new"
    \/ \E w \in Workers, s \in Slots : Claim(w, s) /\ jobs[w][s].doc = d
    \/ \E w \in Workers, s \in Slots :
          /\ Settles1(d, w, s) /\ jobs'[w][s].pc \notin Working
          /\ docs'[d].status # "processing"
    \/ \E w \in Workers : /\ sweep[w].rows[d] # 0
                          /\ SameLease(docs[d], sweep[w].rows[d])
    \/ LeaseExpires(d) \/ LeaseOutrun(d)
    \/ docs'[d] = [docs[d] EXCEPT !.nextAttempt = "due"]

LEMMA StepTouches ==
    ASSUME Typed, [Next]_vars, NEW x \in Docs
    PROVE  Touch(x)
<1> DEFINE Same == docs' = docs
<1>0. docs \in [Docs -> Document] /\ jobs \in [Workers -> [Slots -> Job]]
  BY DEF Typed, TypeOK
<1>1. Same => Touch(x)
  BY DEF Touch
<1>2. ASSUME NEW d \in Docs, Request(d) PROVE Touch(x)
  <2>1. CASE Insert(d) \/ InsertFails(d)
    BY <1>0, <2>1 DEF Insert, InsertFails, Touch
  <2>2. CASE ~(Insert(d) \/ InsertFails(d))
    BY <1>1, <1>2, <2>2 DEF Request, Publish, PublishFails, RequestDies
  <2> QED
    BY <2>1, <2>2
<1>3. ASSUME NEW w \in Workers, LoopStep(w) PROVE Touch(x)
  <2>1. ASSUME NEW s \in Slots, Claim(w, s) PROVE Touch(x)
    <3>1. CASE jobs[w][s].doc = x
      BY <2>1, <3>1 DEF Touch
    <3>2. CASE jobs[w][s].doc # x
      BY <1>0, <2>1, <3>2 DEF Claim, Touch
    <3> QED
      BY <3>1, <3>2
  <2>2. (\E s \in Slots : Claim(w, s)) \/ Same
    BY <1>3 DEF LoopStep, Read, AutoClaim, ReadReturnsNothing, ClaimLost, Load,
                StartTask
  <2> QED
    BY <1>1, <2>1, <2>2
<1>4. ASSUME NEW w \in Workers, NEW s \in Slots, TaskStep(w, s) PROVE Touch(x)
  <2>1. ASSUME NEW doc, NEW pc \in {"caching", "delaying", "releasing"},
               Settle(w, s, doc, pc), doc.status # "processing"
        PROVE  Touch(x)
    <3>1. CASE jobs[w][s].doc = x
      <4>1. Settles1(x, w, s)
        BY <2>1, <3>1 DEF Settle, Settles1, At
      <4>2. jobs'[w][s].pc = pc
        BY <1>0, <2>1 DEF Settle, Goto, Job
      <4>3. jobs'[w][s].pc \notin Working
        BY <4>2 DEF Working
      <4>4. docs'[x] = doc
        BY <1>0, <2>1, <3>1 DEF Settle
      <4> QED
        BY <2>1, <4>1, <4>3, <4>4 DEF Touch
    <3>2. CASE jobs[w][s].doc # x
      BY <1>0, <2>1, <3>2 DEF Settle, Touch
    <3> QED
      BY <3>1, <3>2
  <2>2. CASE Complete(w, s) \/ ScheduleRetry(w, s) \/ MarkFailed(w, s)
    <3>1. docs[jobs[w][s].doc] \in Document
      BY <1>0, <2>2 DEF Complete, ScheduleRetry, MarkFailed, Settle, At, Typed,
                        JobsTyped
    <3>2. ASSUME NEW a
          PROVE  /\ Completed(docs[jobs[w][s].doc], a).status # "processing"
                 /\ RetryScheduled(docs[jobs[w][s].doc], a).status # "processing"
                 /\ MarkedFailed(docs[jobs[w][s].doc], a).status # "processing"
      BY <3>1 DEF Completed, RetryScheduled, MarkedFailed, Document
    <3> QED
      BY <2>1, <2>2, <3>2 DEF Complete, ScheduleRetry, MarkFailed
  <2>3. \/ Complete(w, s) \/ ScheduleRetry(w, s) \/ MarkFailed(w, s)
        \/ Same
    BY <1>4 DEF TaskStep, LoseLease, Delay, CacheSummary, ReleaseSlot,
                ReleaseGuard, SideEffect, Ack
  <2> QED
    BY <1>1, <2>2, <2>3
<1>5. ASSUME NEW w \in Workers, SweepStep(w) PROVE Touch(x)
  <2>1. ASSUME NEW d \in Docs, SweepReset(w, d) PROVE Touch(x)
    BY <1>0, <2>1 DEF SweepReset, Touch
  <2>2. (\E d \in Docs : SweepReset(w, d)) \/ Same
    BY <1>5 DEF SweepStep, SweepFind, SweepPromote, SweepStale, SweepPublish
  <2> QED
    BY <1>1, <2>1, <2>2
<1>6. ASSUME NEW d \in Docs, Clock(d) \/ LeaseOutrun(d) PROVE Touch(x)
  <2>1. CASE BackoffElapses(d)
    BY <1>0, <2>1 DEF BackoffElapses, ClockTicks, Touch
  <2>2. CASE LeaseExpires(d) \/ LeaseOutrun(d)
    <3>1. CASE d = x
      BY <2>2, <3>1 DEF Touch
    <3>2. CASE d # x
      BY <1>0, <2>2, <3>2 DEF LeaseExpires, LeaseOutrun, ClockTicks, Touch
    <3> QED
      BY <3>1, <3>2
  <2> QED
    BY <1>6, <2>1, <2>2 DEF Clock
<1>7. CASE Failure
  <2>1. (\E d \in Docs : LeaseOutrun(d)) \/ Same
    BY <1>7 DEF Failure, LoseDelay, LoseEntry, AutoClaimOutrun, SweepAborts,
                Crash, AckRaises, Ends, ReadReplyLost, JobError
  <2> QED
    BY <1>1, <1>6, <2>1
<1>8. ASSUME NEW w \in Workers, Start(w) \/ Stop(w) \/ Exit(w) PROVE Touch(x)
  BY <1>1, <1>8 DEF Start, Stop, Exit
<1>9. CASE Idle \/ UNCHANGED vars
  BY <1>1, <1>9 DEF Idle, vars
<1> QED
  BY <1>2, <1>3, <1>4, <1>5, <1>6, <1>7, <1>8, <1>9 DEF Next

\* A document with a job that goes on working keeps owner, lease and number.
LEMMA HeldThrough ==
    ASSUME "slow" \notin Disruptions, OnTime, [Next]_vars,
           NEW w \in Workers, NEW s \in Slots,
           jobs[w][s].pc \in Working, jobs'[w][s].pc \in Working
    PROVE  LET d == jobs[w][s].doc
           IN /\ docs'[d].status = "processing"
              /\ docs'[d].worker = w
              /\ docs'[d].lease = "live"
              /\ docs'[d].attempts = docs[d].attempts
<1> DEFINE d == jobs[w][s].doc
<1>1. /\ d \in Docs
      /\ docs[d].status = "processing" /\ docs[d].worker = w
      /\ docs[d].lease = "live"
  BY DEF OnTime, IInv, Typed, JobsTyped, WorkInv, Working
<1>2. docs[d] \in Document /\ Touch(d)
  BY <1>1, StepTouches, MoveFacts DEF OnTime, IInv
<1>3. /\ api[d] # "new"
      /\ \A v \in Workers, t \in Slots : Claim(v, t) => jobs[v][t].doc # d
  BY <1>1 DEF OnTime, IInv, ApiInv, Absent, Claim, Claimable
<1>4. ~LeaseExpires(d) /\ ~LeaseOutrun(d)
  BY <1>1 DEF LiveJob, At, Working, LeaseExpires, LeaseOutrun, Fault
<1>5. ASSUME NEW v \in Workers, NEW t \in Slots, Settles1(d, v, t),
             jobs'[v][t].pc \notin Working
      PROVE  FALSE
  <2>1. <<v, t>> = <<w, s>>
    BY <1>5 DEF OnTime, OneJobPerDocument, Both, Settles1, Working
  <2> QED
    BY <1>5, <2>1
<1>6. ASSUME NEW v \in Workers, sweep[v].rows[d] # 0,
             SameLease(docs[d], sweep[v].rows[d])
      PROVE  FALSE
  BY <1>1, <1>6 DEF OnTime, IInv, RowInv
<1>7. \/ docs'[d] = docs[d]
      \/ docs'[d] = [docs[d] EXCEPT !.nextAttempt = "due"]
  BY <1>2, <1>3, <1>4, <1>5, <1>6 DEF Touch
<1> QED
  BY <1>1, <1>2, <1>7 DEF Document

LEMMA WorkInvStep ==
    ASSUME "slow" \notin Disruptions, OnTime, [Next]_vars
    PROVE  WorkInv'
<1> SUFFICES ASSUME NEW w \in Workers, NEW s \in Slots,
                    jobs'[w][s].pc \in Working
             PROVE  LET job == jobs'[w][s]
                    IN /\ docs'[job.doc].status = "processing"
                       /\ docs'[job.doc].worker = w
                       /\ docs'[job.doc].lease = "live"
                       /\ job.pc # "loading" =>
                             job.attempt = docs'[job.doc].attempts
  BY DEF WorkInv
<1> DEFINE old == jobs[w][s]
           new == jobs'[w][s]
<1>1. /\ jobs \in [Workers -> [Slots -> Job]] /\ docs \in [Docs -> Document]
      /\ old \in Job /\ (old.pc # "free" => old.doc \in Docs)
  BY DEF OnTime, IInv, Typed, TypeOK, JobsTyped
<1>2. WorkMove(w, s)
  BY StepWork DEF OnTime, IInv
<1>3. CASE new = old
  BY <1>3, HeldThrough DEF OnTime, WorkInv
<1>4. CASE Claim(w, s)
  <2>1. /\ old.pc = "buffered" /\ old.doc \in Docs
        /\ docs' = [docs EXCEPT ![old.doc] = Claimed(docs[old.doc], w)]
    BY <1>1, <1>4 DEF Claim, At
  <2>2. new.pc = "loading" /\ new.doc = old.doc
    BY <1>1, <1>4 DEF Claim, Goto, Job
  <2>3. docs'[old.doc] = Claimed(docs[old.doc], w) /\ docs[old.doc] \in Document
    BY <1>1, <2>1
  <2> QED
    BY <2>2, <2>3 DEF Claimed, Document
<1>5. CASE Load(w, s)
  <2>1. /\ new.pc = "claimed" /\ new.doc = old.doc
        /\ new.attempt = docs[old.doc].attempts
    BY <1>1, <1>5 DEF Load, Job
  <2>2. old.pc \in Working /\ docs' = docs
    BY <1>5 DEF Load, At, Working
  <2> QED
    BY <2>1, <2>2 DEF OnTime, WorkInv
<1>6. CASE StartTask(w, s)
  <2>1. new.pc = "running" /\ new.doc = old.doc /\ new.attempt = old.attempt
    BY <1>1, <1>6 DEF StartTask, Goto, Job
  <2>2. old.pc = "claimed" /\ docs' = docs
    BY <1>6 DEF StartTask, At
  <2> QED
    BY <2>1, <2>2 DEF OnTime, WorkInv, Working
<1> QED
  BY <1>2, <1>3, <1>4, <1>5, <1>6 DEF WorkMove

LEMMA OneJobStep ==
    ASSUME "slow" \notin Disruptions, OnTime, [Next]_vars
    PROVE  OneJobPerDocument'
<1> SUFFICES ASSUME NEW v \in Workers, NEW t \in Slots,
                    NEW w \in Workers, NEW s \in Slots,
                    jobs'[v][t].pc \in Working, jobs'[w][s].pc \in Working,
                    jobs'[v][t].doc = jobs'[w][s].doc, <<v, t>> # <<w, s>>
             PROVE  FALSE
  BY DEF OneJobPerDocument, Both, Working
<1>1. jobs \in [Workers -> [Slots -> Job]] /\ docs \in [Docs -> Document]
  BY DEF OnTime, IInv, Typed, TypeOK
\* A job that works after the step worked before on the same document, or has
\* claimed it in the step.
<1>2. ASSUME NEW x \in Workers, NEW y \in Slots, jobs'[x][y].pc \in Working
      PROVE  /\ jobs'[x][y].doc = jobs[x][y].doc
             /\ jobs[x][y].pc \in Working \/ Claim(x, y)
  <2>1. WorkMove(x, y) /\ jobs[x][y] \in Job
    BY <1>1, StepWork DEF OnTime, IInv
  <2>2. CASE Claim(x, y) \/ StartTask(x, y)
    <3>1. \E pc : Goto(x, y, pc)
      BY <2>2 DEF Claim, StartTask
    <3>2. jobs'[x][y].doc = jobs[x][y].doc
      BY <1>1, <2>1, <3>1 DEF Goto, Job
    <3>3. jobs[x][y].pc \in Working \/ Claim(x, y)
      BY <2>2 DEF StartTask, At, Working
    <3> QED
      BY <3>2, <3>3
  <2>3. CASE Load(x, y)
    BY <1>1, <2>1, <2>3 DEF Load, At, Working, Job
  <2> QED
    BY <1>2, <2>1, <2>2, <2>3 DEF WorkMove
\* The one that claims finds no other at work.
<1>3. ASSUME NEW x \in Workers, NEW y \in Slots, Claim(x, y),
             NEW p \in Workers, NEW q \in Slots, <<p, q>> # <<x, y>>,
             jobs'[p][q].pc \in Working, jobs[p][q].doc = jobs[x][y].doc
      PROVE  FALSE
  <2>1. jobs'[p][q] = jobs[p][q]
    BY <1>1, <1>3 DEF Claim, Goto
  <2>2. docs[jobs[p][q].doc].status = "processing"
    BY <1>3, <2>1 DEF OnTime, WorkInv
  <2> QED
    BY <1>3, <2>2 DEF Claim, Claimable
<1>4. /\ jobs[v][t].doc = jobs[w][s].doc
      /\ jobs[v][t].pc \in Working \/ Claim(v, t)
      /\ jobs[w][s].pc \in Working \/ Claim(w, s)
  <2>1. /\ jobs'[v][t].doc = jobs[v][t].doc
        /\ jobs[v][t].pc \in Working \/ Claim(v, t)
    BY <1>2
  <2>2. /\ jobs'[w][s].doc = jobs[w][s].doc
        /\ jobs[w][s].pc \in Working \/ Claim(w, s)
    BY <1>2
  <2> QED
    BY <2>1, <2>2
<1>5. CASE jobs[v][t].pc \in Working /\ jobs[w][s].pc \in Working
  BY <1>4, <1>5 DEF OnTime, OneJobPerDocument, Both, Working
<1>6. CASE Claim(v, t)
  BY <1>3, <1>4, <1>6
<1>7. CASE Claim(w, s)
  BY <1>3, <1>4, <1>7
<1> QED
  BY <1>4, <1>5, <1>6, <1>7

-----------------------------------------------------------------------------
(* The theorems                                                            *)

LEMMA OnTimeInductive ==
    ASSUME "slow" \notin Disruptions
    PROVE  Spec => []OnTime
<1>1. Init => OnTime
  BY InitInv DEF OnTime, Init, WorkInv, OneJobPerDocument, Both, Working, NoJobs,
                 NoJob
<1>2. OnTime /\ [Next]_vars => OnTime'
  <2> SUFFICES ASSUME OnTime, [Next]_vars PROVE OnTime'
    OBVIOUS
  <2>1. IInv'
    BY IInvStep DEF OnTime
  <2> QED
    BY <2>1, WorkInvStep, OneJobStep DEF OnTime
<1> QED
  BY <1>1, <1>2, PTL DEF Spec

\* As long as no job outlives its lease, no document is ever worked on by two
\* jobs: of one worker or of two, after any crash, lost reply or redelivery.
THEOREM LeaseExcludes ==
    ASSUME "slow" \notin Disruptions
    PROVE  Spec => []OneJobPerDocument
<1>1. OnTime => OneJobPerDocument
  BY DEF OnTime
<1> QED
  BY <1>1, OnTimeInductive, PTL

\* Under the same condition the summary that is kept is that of the latest
\* claim: no result of an earlier attempt is ever written.
THEOREM LateResultsDropped ==
    ASSUME "slow" \notin Disruptions
    PROVE  Spec => StaleResultDropped
<1> DEFINE Fresh(d) ==
              docs[d].status = "processing" /\ docs'[d].status = "completed" =>
                  docs'[d].summary = docs[d].attempts
<1>1. ASSUME OnTime, [Next]_vars, NEW d \in Docs PROVE Fresh(d)
  <2> SUFFICES ASSUME docs[d].status = "processing",
                      docs'[d].status = "completed"
               PROVE  docs'[d].summary = docs[d].attempts
    OBVIOUS
  <2> HIDE DEF Fresh
  <2>1. docs[d] \in Document /\ Move(d)
    BY <1>1, MoveFacts, StepMoves DEF OnTime, IInv
  <2>2. \E w \in Workers, s \in Slots :
            /\ Settles1(d, w, s)
            /\ docs'[d] = Completed(docs[d], jobs[w][s].attempt)
    BY <2>1 DEF Move, Inserted, Absent, Claimed, MarkedFailed, RetryScheduled,
                Reclaimed, Document
  <2>3. PICK w \in Workers, s \in Slots :
            /\ Settles1(d, w, s)
            /\ docs'[d] = Completed(docs[d], jobs[w][s].attempt)
    BY <2>2
  <2>4. jobs[w][s].attempt = docs[d].attempts
    BY <1>1, <2>3 DEF OnTime, WorkInv, Working, Settles1
  <2> QED
    BY <2>1, <2>3, <2>4 DEF Completed, Document
<1>2. OnTime /\ [Next]_vars => [\A d \in Docs : Fresh(d)]_vars
  BY <1>1
<1> QED
  BY <1>2, OnTimeInductive, PTL DEF Spec, StaleResultDropped

-----------------------------------------------------------------------------
(* What an attempt beyond the last costs                                   *)

\* Job <<w, s>> works on d, and would schedule a retry if it failed.
WorksOn(w, s, d) == jobs[w][s].pc \in Working /\ jobs[w][s].doc = d

MayRetry(w, s, d) ==
    /\ WorksOn(w, s, d)
    /\ IF jobs[w][s].pc = "loading" THEN docs[d].attempts < MaxAttempts
       ELSE jobs[w][s].attempt < MaxAttempts

Retriers(d) == {j \in Workers \X Slots : MayRetry(j[1], j[2], d)}

\* A job of the owner is at work: it ends the document, gives it back, or
\* fails to, which costs a failure.
Attended(d) == docs[d].lease = "live" /\ LiveJob(d)

Due(d) == IF Attended(d) THEN 1 ELSE 0

\* No failure of a worker happens, or of what it calls in a job: requests
\* fail, and Redis loses entries, retries and replies.
Unharmed == Disruptions \subseteq {"api", "loss", "stop"}

\* The failures that can end a job without its settlement.
Charge == IF Unharmed THEN 0 ELSE faults

\* The last attempt and those beyond it.
Excess(d) == IF docs[d].attempts < MaxAttempts THEN 0
             ELSE docs[d].attempts - (MaxAttempts - 1)

\* A failure answers for every attempt from the last one on, but for the one
\* that is under way, and for every late job that may still give it back.
Paid(d) ==
    /\ IsFiniteSet(Retriers(d))
    /\ docs[d].attempts <= MaxAttempts + Charge
    /\ docs[d].status \notin Terminal =>
          Excess(d) + Cardinality(Retriers(d)) <= Charge + Due(d)

PaidInv == \A d \in Docs : Paid(d)

\* A job comes to work, and to a number, by a claim alone.
LEMMA RetryMove ==
    ASSUME IInv, [Next]_vars, NEW d \in Docs, NEW w \in Workers, NEW s \in Slots,
           MayRetry(w, s, d)'
    PROVE  \/ MayRetry(w, s, d)
           \/ /\ Claim(w, s) /\ jobs[w][s].doc = d
              /\ docs'[d].attempts < MaxAttempts
<1> DEFINE old == jobs[w][s]
           new == jobs'[w][s]
<1>1. /\ jobs \in [Workers -> [Slots -> Job]] /\ docs \in [Docs -> Document]
      /\ old \in Job
  BY DEF IInv, Typed, TypeOK
<1>2. WorkMove(w, s)
  BY StepWork DEF IInv
<1>3. /\ docs[d].attempts \in Nat /\ docs'[d].attempts \in Nat
      /\ docs'[d].attempts >= docs[d].attempts /\ MaxAttempts \in Nat
  BY MoveFacts, ProcessingAssumption DEF Document
<1>4. /\ new.pc \in Working /\ new.doc = d
      /\ IF new.pc = "loading" THEN docs'[d].attempts < MaxAttempts
         ELSE new.attempt < MaxAttempts
  BY DEF MayRetry, WorksOn
<1>5. CASE new = old
  <2>1. docs'[d].attempts < MaxAttempts => docs[d].attempts < MaxAttempts
    BY <1>3
  <2> QED
    BY <1>4, <1>5, <2>1 DEF MayRetry, WorksOn
<1>6. CASE Claim(w, s)
  <2>1. new.pc = "loading" /\ new.doc = old.doc
    BY <1>1, <1>6 DEF Claim, Goto, Job
  <2> QED
    BY <1>4, <1>6, <2>1
<1>7. CASE Load(w, s)
  <2>1. /\ new.pc = "claimed" /\ new.doc = old.doc /\ old.pc = "loading"
        /\ new.attempt = docs[old.doc].attempts
    BY <1>1, <1>7 DEF Load, Job, At
  <2> QED
    BY <1>4, <2>1 DEF MayRetry, WorksOn, Working
<1>8. CASE StartTask(w, s)
  <2>1. /\ new.pc = "running" /\ new.doc = old.doc /\ old.pc = "claimed"
        /\ new.attempt = old.attempt
    BY <1>1, <1>8 DEF StartTask, Goto, At, Job
  <2> QED
    BY <1>4, <2>1 DEF MayRetry, WorksOn, Working
<1> QED
  BY <1>2, <1>4, <1>5, <1>6, <1>7, <1>8 DEF WorkMove

\* A job that works goes on, or settles, or has lost its document, or fails.
WorkGoes(w, s, d) ==
    \/ WorksOn(w, s, d)'
    \/ Charge' = Charge + 1
    \/ ~HeldBy(docs[d], w)
    \/ docs'[d].status # "processing"

LEMMA WorkEnds ==
    ASSUME IInv, [Next]_vars, NEW d \in Docs, NEW w \in Workers, NEW s \in Slots,
           WorksOn(w, s, d)
    PROVE  WorkGoes(w, s, d)
<1>1. jobs \in [Workers -> [Slots -> Job]] /\ docs \in [Docs -> Document]
  BY DEF IInv, Typed, TypeOK
<1>2. jobs'[w][s] = jobs[w][s] => WorkGoes(w, s, d)
  BY DEF WorkGoes, WorksOn
<1>3. ASSUME NEW x \in Docs, Request(x) \/ Clock(x) PROVE jobs' = jobs
  BY <1>3 DEF Request, Insert, InsertFails, Publish, PublishFails, RequestDies,
              Clock, LeaseExpires, BackoffElapses, ClockTicks
<1>4. ASSUME NEW v \in Workers, SweepStep(v) PROVE jobs' = jobs
  BY <1>4 DEF SweepStep, SweepFind, SweepPromote, SweepStale, SweepReset,
              SweepPublish
<1>5. ASSUME NEW v \in Workers, Start(v) \/ Stop(v) \/ Exit(v) PROVE jobs' = jobs
  BY <1>5 DEF Start, Stop, Exit
<1>6. CASE Failure
  <2>1. CASE Unharmed
    <3>1. jobs' = jobs
      BY <1>6, <2>1
         DEF Failure, LeaseOutrun, LoseDelay, LoseEntry, AutoClaimOutrun,
             SweepAborts, Crash, AckRaises, Ends, ReadReplyLost, JobError, Fault,
             Unharmed
    <3> QED
      BY <1>2, <3>1
  <2>2. CASE ~Unharmed
    <3>1. faults' = faults + 1
      BY <1>6 DEF Failure, LeaseOutrun, LoseDelay, LoseEntry, AutoClaimOutrun,
                  SweepAborts, Crash, AckRaises, Ends, ReadReplyLost, JobError,
                  Fault
    <3> QED
      BY <2>2, <3>1 DEF WorkGoes, Charge
  <2> QED
    BY <2>1, <2>2
<1>7. CASE Idle \/ UNCHANGED vars
  BY <1>2, <1>7 DEF Idle, vars
<1>8. ASSUME NEW v \in Workers, LoopStep(v) PROVE WorkGoes(w, s, d)
  <2>1. CASE Read(v) \/ AutoClaim(v)
    <3>1. PICK ids, batch : batch \in Batches(v, ids) /\ Deliver(v, batch)
      BY <2>1 DEF Read, AutoClaim
    <3>2. DOMAIN batch \subseteq FreeSlots(v)
      BY <3>1 DEF Batches, Injection
    <3>3. v = w => s \notin DOMAIN batch
      BY <3>2 DEF FreeSlots, At, WorksOn, Working
    <3>4. jobs'[w][s] = jobs[w][s]
      BY <1>1, <3>1, <3>3 DEF Deliver
    <3> QED
      BY <1>2, <3>4
  <2>2. CASE ReadReturnsNothing(v)
    BY <1>2, <2>2 DEF ReadReturnsNothing
  <2>3. ASSUME NEW t \in Slots, ClaimLost(v, t) \/ Claim(v, t)
        PROVE  WorkGoes(w, s, d)
    <3>1. ~(v = w /\ t = s)
      BY <2>3 DEF ClaimLost, Claim, At, WorksOn, Working
    <3>2. jobs'[w][s] = jobs[w][s]
      BY <1>1, <2>3, <3>1 DEF ClaimLost, Claim, Goto
    <3> QED
      BY <1>2, <3>2
  <2>4. ASSUME NEW t \in Slots, Load(v, t) \/ StartTask(v, t)
        PROVE  WorkGoes(w, s, d)
    <3>1. CASE v = w /\ t = s
      <4>1. jobs'[w][s].doc = jobs[w][s].doc /\ jobs'[w][s].pc \in Working
        BY <1>1, <2>4, <3>1 DEF Load, StartTask, Goto, Job, Working
      <4> QED
        BY <4>1 DEF WorkGoes, WorksOn
    <3>2. CASE ~(v = w /\ t = s)
      <4>1. jobs'[w][s] = jobs[w][s]
        BY <1>1, <2>4, <3>2 DEF Load, StartTask, Goto
      <4> QED
        BY <1>2, <4>1
    <3> QED
      BY <3>1, <3>2
  <2> QED
    BY <1>8, <2>1, <2>2, <2>3, <2>4 DEF LoopStep
<1>9. ASSUME NEW v \in Workers, NEW t \in Slots, TaskStep(v, t)
      PROVE  WorkGoes(w, s, d)
  <2>1. CASE ~(v = w /\ t = s)
    <3>1. \/ \E pc : Goto(v, t, pc)
          \/ jobs' = [jobs EXCEPT ![v][t] = NoJob]
      BY <1>9 DEF TaskStep, Complete, ScheduleRetry, MarkFailed, Settle,
                  LoseLease, Delay, CacheSummary, ReleaseSlot, ReleaseGuard,
                  SideEffect, Ack
    <3>2. jobs'[w][s] = jobs[w][s]
      BY <1>1, <2>1, <3>1 DEF Goto
    <3> QED
      BY <1>2, <3>2
  <2>2. CASE v = w /\ t = s
    <3>1. Complete(w, s) \/ ScheduleRetry(w, s) \/ MarkFailed(w, s) \/ LoseLease(w, s)
      BY <1>9, <2>2 DEF TaskStep, Delay, CacheSummary, ReleaseSlot, ReleaseGuard,
                        SideEffect, Ack, At, WorksOn, Working
    <3>2. CASE LoseLease(w, s)
      BY <3>2 DEF LoseLease, WorksOn, WorkGoes
    <3>3. CASE Complete(w, s) \/ ScheduleRetry(w, s) \/ MarkFailed(w, s)
      <4>1. PICK doc : /\ doc.status # "processing"
                       /\ docs' = [docs EXCEPT ![d] = doc]
        <5>1. ASSUME NEW a
              PROVE  /\ Completed(docs[d], a).status # "processing"
                     /\ RetryScheduled(docs[d], a).status # "processing"
                     /\ MarkedFailed(docs[d], a).status # "processing"
          BY <1>1 DEF Completed, RetryScheduled, MarkedFailed, Document
        <5> QED
          BY <3>3, <5>1 DEF Complete, ScheduleRetry, MarkFailed, Settle, WorksOn
      <4> QED
        BY <1>1, <4>1 DEF WorkGoes
    <3> QED
      BY <3>1, <3>2, <3>3
  <2> QED
    BY <2>1, <2>2
<1> QED
  BY <1>2, <1>3, <1>4, <1>5, <1>6, <1>7, <1>8, <1>9 DEF Next

LEMMA FaultsMove ==
    ASSUME [Next]_vars
    PROVE  faults' = faults \/ faults' = faults + 1
<1>1. ASSUME NEW d \in Docs, Request(d) \/ Clock(d)
      PROVE  faults' = faults \/ faults' = faults + 1
  BY <1>1 DEF Request, Insert, InsertFails, Publish, PublishFails, RequestDies,
              Fault, Clock, LeaseExpires, BackoffElapses
<1>2. ASSUME NEW w \in Workers, LoopStep(w) \/ SweepStep(w)
      PROVE  faults' = faults
  BY <1>2 DEF LoopStep, Read, AutoClaim, ReadReturnsNothing, Claim, ClaimLost,
              Load, StartTask, SweepStep, SweepFind, SweepPromote, SweepStale,
              SweepReset, SweepPublish
<1>3. ASSUME NEW w \in Workers, NEW s \in Slots, TaskStep(w, s)
      PROVE  faults' = faults \/ faults' = faults + 1
  BY <1>3 DEF TaskStep, Complete, ScheduleRetry, MarkFailed, Settle, LoseLease,
              Delay, CacheSummary, ReleaseSlot, ReleaseGuard, SideEffect, Ack,
              Fault
<1>4. CASE Failure
  BY <1>4 DEF Failure, LeaseOutrun, LoseDelay, LoseEntry, AutoClaimOutrun,
              SweepAborts, Crash, AckRaises, Ends, ReadReplyLost, JobError, Fault
<1>5. ASSUME NEW w \in Workers, Start(w) \/ Stop(w) \/ Exit(w)
      PROVE  faults' = faults
  BY <1>5 DEF Start, Stop, Exit
<1>6. CASE Idle \/ UNCHANGED vars
  BY <1>6 DEF Idle, vars
<1> QED
  BY <1>1, <1>2, <1>3, <1>4, <1>5, <1>6 DEF Next

LEMMA ChargeMove ==
    ASSUME [Next]_vars
    PROVE  Charge' = Charge \/ Charge' = Charge + 1
  BY FaultsMove DEF Charge

\* Attempts are counted by a claim and by nothing else.
LEMMA AttemptsMove ==
    ASSUME IInv, [Next]_vars, NEW d \in Docs
    PROVE  \/ docs'[d].attempts = docs[d].attempts
           \/ \E w \in Workers, s \in Slots : Claim(w, s) /\ jobs[w][s].doc = d
<1>1. docs[d] \in Document /\ Move(d) /\ Touch(d)
  BY MoveFacts, StepMoves, StepTouches DEF IInv
<1>2. CASE api[d] = "new"
  BY <1>1, <1>2 DEF Move, IInv, ApiInv, Absent, Inserted, Claimable, Settles1,
                    HeldBy, SameLease
<1>3. CASE api[d] # "new" /\ ~Claimable(docs[d])
  BY <1>1, <1>3 DEF Move, Completed, MarkedFailed, RetryScheduled, Reclaimed,
                    Document
<1>4. CASE api[d] # "new" /\ Claimable(docs[d])
  <2>1. docs[d].status = "queued" /\ docs[d].lease = "none"
    BY <1>1, <1>4 DEF Claimable, IInv, LeaseInv
  <2>2. ~LeaseExpires(d) /\ ~LeaseOutrun(d)
    BY <2>1 DEF LeaseExpires, LeaseOutrun
  <2>3. docs'[d] = [docs[d] EXCEPT !.nextAttempt = "due"]
            => docs'[d].attempts = docs[d].attempts
    BY <1>1 DEF Document
  <2> QED
    BY <1>1, <1>4, <2>1, <2>2, <2>3 DEF Touch, Settles1, HeldBy, SameLease
<1> QED
  BY <1>2, <1>3, <1>4

\* What a step does to a document, its attempts and the failures.
Pay(d) ==
    \/ \E w \in Workers, s \in Slots : Claim(w, s) /\ jobs[w][s].doc = d
    \/ /\ docs'[d].attempts = docs[d].attempts
       /\ \/ Charge' = Charge + 1
          \/ /\ Charge' = Charge
             /\ \/ \E w \in Workers, s \in Slots :
                      MayRetry(w, s, d) /\ ~MayRetry(w, s, d)'
                \/ docs'[d].status \in Terminal
                \/ Attended(d) => Attended(d)'

LEMMA StepPays ==
    ASSUME IInv, [Next]_vars, NEW d \in Docs
    PROVE  Pay(d)
<1> SUFFICES ASSUME Attended(d), Charge' = Charge,
                    docs'[d].attempts = docs[d].attempts,
                    \A w \in Workers, s \in Slots :
                        Claim(w, s) => jobs[w][s].doc # d
             PROVE  Pay(d)
  BY AttemptsMove, ChargeMove DEF Pay
<1>1. docs[d] \in Document /\ Move(d) /\ Touch(d) /\ faults \in Nat
  BY MoveFacts, StepMoves, StepTouches, ProcessingAssumption
     DEF IInv, Typed, TypeOK
<1>2. PICK w \in Workers, s \in Slots : docs[d].worker = w /\ WorksOn(w, s, d)
  BY DEF Attended, LiveJob, At, WorksOn, Working
<1>3. docs[d].lease = "live" /\ docs[d].status = "processing" /\ HeldBy(docs[d], w)
  BY <1>2 DEF Attended, IInv, LeaseInv, HeldBy
<1>4. /\ api[d] # "new" /\ ~Claimable(docs[d])
      /\ ~LeaseExpires(d) /\ ~LeaseOutrun(d)
  BY <1>1, <1>3 DEF IInv, ApiInv, Absent, Claimable, Attended, LeaseExpires,
                    LeaseOutrun, Fault, Charge, Unharmed
<1>5. ASSUME NEW v \in Workers, sweep[v].rows[d] # 0,
             SameLease(docs[d], sweep[v].rows[d])
      PROVE  FALSE
  BY <1>3, <1>5 DEF IInv, RowInv
<1>6. CASE \/ docs'[d] = docs[d]
           \/ docs'[d] = [docs[d] EXCEPT !.nextAttempt = "due"]
  <2>1. /\ docs'[d].status = "processing" /\ docs'[d].worker = w
        /\ docs'[d].lease = "live"
    BY <1>1, <1>2, <1>3, <1>6 DEF Document
  <2>2. WorksOn(w, s, d)'
    <3>1. Charge \in Nat
      BY <1>1 DEF Charge
    <3>2. Charge' # Charge + 1
      BY <3>1
    <3>3. WorkGoes(w, s, d)
      BY <1>2, WorkEnds
    <3> QED
      BY <1>3, <2>1, <3>2, <3>3 DEF WorkGoes
  <2>3. Attended(d)'
    BY <2>1, <2>2 DEF Attended, LiveJob, At, WorksOn, Working
  <2> QED
    BY <2>3 DEF Pay
<1>7. CASE docs'[d].status # "processing"
  <2>1. /\ docs'[d] # docs[d]
        /\ docs'[d] # [docs[d] EXCEPT !.nextAttempt = "due"]
        /\ docs'[d] # [docs[d] EXCEPT !.lease = "expired"]
    BY <1>1, <1>3, <1>7 DEF Document
  <2>2. ASSUME NEW a
        PROVE  /\ Completed(docs[d], a).status \in Terminal
               /\ MarkedFailed(docs[d], a).status \in Terminal
    BY <1>1 DEF Completed, MarkedFailed, Document, Terminal
  <2>3. ASSUME NEW v \in Workers, NEW t \in Slots, Settles1(d, v, t),
               jobs[v][t].attempt < MaxAttempts, jobs'[v][t].pc = "delaying"
        PROVE  MayRetry(v, t, d) /\ ~MayRetry(v, t, d)'
    BY <2>3 DEF Settles1, MayRetry, WorksOn, Working
  <2>4. \/ docs'[d].status \in Terminal
        \/ \E v \in Workers, t \in Slots :
              /\ Settles1(d, v, t)
              /\ jobs[v][t].attempt < MaxAttempts /\ jobs'[v][t].pc = "delaying"
    BY <1>1, <1>4, <1>5, <2>1, <2>2 DEF Move
  <2>5. \/ docs'[d].status \in Terminal
        \/ \E v \in Workers, t \in Slots : MayRetry(v, t, d) /\ ~MayRetry(v, t, d)'
    BY <2>3, <2>4
  <2> QED
    BY <2>5 DEF Pay
<1> QED
  BY <1>1, <1>4, <1>5, <1>6, <1>7 DEF Touch

\* The sets of late jobs that the cases of a step leave.
LEMMA FewerRetriers ==
    ASSUME NEW S, NEW T, IsFiniteSet(S), T \subseteq S
    PROVE  /\ IsFiniteSet(T)
           /\ Cardinality(S) \in Nat /\ Cardinality(T) \in Nat
           /\ Cardinality(T) <= Cardinality(S)
           /\ T # S => Cardinality(T) + 1 <= Cardinality(S)
<1>1. /\ IsFiniteSet(T) /\ Cardinality(T) <= Cardinality(S)
      /\ Cardinality(S) = Cardinality(T) => S = T
  BY FS_Subset
<1>2. Cardinality(S) \in Nat /\ Cardinality(T) \in Nat
  BY <1>1, FS_CardinalityType
<1> QED
  BY <1>1, <1>2

LEMMA PaidStep ==
    ASSUME IInv, [Next]_vars, NEW d \in Docs, Paid(d)
    PROVE  Paid(d)'
<1> DEFINE R == Retriers(d)
           A == docs[d].attempts
           M == MaxAttempts
<1>1. /\ docs[d] \in Document /\ docs'[d] \in Document
      /\ docs[d].status \in Terminal => docs'[d] = docs[d]
      /\ Charge \in Nat /\ M \in Nat \ {0} /\ A \in Nat /\ A' \in Nat
  BY MoveFacts, ProcessingAssumption DEF Document, IInv, Typed, TypeOK, Charge
<1>2. Charge' = Charge \/ Charge' = Charge + 1
  BY ChargeMove
<1>3. IsFiniteSet(R) /\ Cardinality(R) \in Nat
  BY FewerRetriers DEF Paid
<1>4. /\ Due(d) \in {0, 1} /\ Due(d)' \in {0, 1}
      /\ Attended(d) => Due(d) = 1
      /\ ~Attended(d) => Due(d) = 0
      /\ Attended(d)' => Due(d)' = 1
  BY DEF Due
<1>5. Excess(d) \in Nat /\ (A' = A => Excess(d)' = Excess(d))
  BY <1>1 DEF Excess
<1>6. A <= M + Charge
  BY DEF Paid
<1>7. docs[d].status \notin Terminal =>
          Excess(d) + Cardinality(R) <= Charge + Due(d)
  BY DEF Paid
<1>8. CASE docs[d].status \in Terminal
  <2>1. A' = A /\ docs'[d].status \in Terminal
    BY <1>1, <1>8
  <2>2. ~\E w \in Workers, s \in Slots : Claim(w, s) /\ jobs[w][s].doc = d
    BY <1>8 DEF Claim, Claimable, Terminal
  <2>3. R' \subseteq R
    BY <2>2, RetryMove DEF Retriers
  <2>4. IsFiniteSet(R')
    BY <1>3, <2>3, FewerRetriers
  <2>5. A' <= M + Charge'
    BY <1>1, <1>2, <1>6, <2>1
  <2> QED
    BY <2>1, <2>4, <2>5 DEF Paid
<1>9. ASSUME docs[d].status \notin Terminal,
             \A w \in Workers, s \in Slots : Claim(w, s) => jobs[w][s].doc # d
      PROVE  Paid(d)'
  <2>1. A' = A
    BY <1>9, AttemptsMove
  <2>2. R' \subseteq R
    BY <1>9, RetryMove DEF Retriers
  <2>3. /\ IsFiniteSet(R') /\ Cardinality(R') \in Nat
        /\ Cardinality(R') <= Cardinality(R)
        /\ R' # R => Cardinality(R') + 1 <= Cardinality(R)
    BY <1>3, <2>2, FewerRetriers
  <2>4. A' <= M + Charge'
    BY <1>1, <1>2, <1>6, <2>1
  <2>5. /\ Excess(d)' = Excess(d)
        /\ Excess(d) + Cardinality(R) <= Charge + Due(d)
    BY <1>5, <1>7, <1>9, <2>1
  <2>6. CASE Charge' = Charge + 1
    <3>1. Excess(d)' + Cardinality(R') <= Charge' + Due(d)'
      BY <1>1, <1>3, <1>4, <1>5, <2>3, <2>5, <2>6
    <3> QED
      BY <2>3, <2>4, <3>1 DEF Paid
  <2>7. ASSUME Charge' = Charge, NEW w \in Workers, NEW s \in Slots,
               MayRetry(w, s, d), ~MayRetry(w, s, d)'
        PROVE  Paid(d)'
    <3>1. <<w, s>> \in R /\ <<w, s>> \notin R'
      BY <2>7 DEF Retriers
    <3>2. Excess(d)' + Cardinality(R') <= Charge' + Due(d)'
      BY <1>1, <1>3, <1>4, <1>5, <2>3, <2>5, <2>7, <3>1
    <3> QED
      BY <2>3, <2>4, <3>2 DEF Paid
  <2>8. CASE docs'[d].status \in Terminal
    BY <2>3, <2>4, <2>8 DEF Paid
  <2>9. CASE Charge' = Charge /\ (Attended(d) => Attended(d)')
    <3>1. Excess(d)' + Cardinality(R') <= Charge' + Due(d)'
      BY <1>1, <1>3, <1>4, <1>5, <2>3, <2>5, <2>9
    <3> QED
      BY <2>3, <2>4, <3>1 DEF Paid
  <2> QED
    BY <1>9, <2>6, <2>7, <2>8, <2>9, StepPays DEF Pay
<1>10. ASSUME NEW w \in Workers, NEW s \in Slots, Claim(w, s), jobs[w][s].doc = d
       PROVE  Paid(d)'
  <2>1. /\ jobs \in [Workers -> [Slots -> Job]] /\ docs \in [Docs -> Document]
        /\ docs[d].status = "queued" /\ docs[d].lease = "none"
        /\ docs'[d] = Claimed(docs[d], w) /\ Charge' = Charge
        /\ jobs[w][s].pc = "buffered" /\ Goto(w, s, "loading")
    BY <1>10 DEF Claim, Claimable, IInv, Typed, TypeOK, LeaseInv, At, Charge
  <2>2. Due(d) = 0
    BY <1>4, <2>1 DEF Attended
  <2>3. docs'[d].worker = w /\ docs'[d].lease = "live" /\ A' = A + 1
    BY <1>1, <2>1 DEF Claimed, Document
  <2>4. jobs'[w][s].pc = "loading" /\ jobs'[w][s].doc = d
    BY <1>10, <2>1 DEF Goto, Job
  <2>5. Due(d)' = 1
    BY <1>4, <2>3, <2>4 DEF Attended, LiveJob, At
  <2>6. ASSUME NEW v \in Workers, NEW t \in Slots, Claim(v, t)
        PROVE  v = w /\ t = s
    <3>1. jobs'[w][s].pc = "loading"
      BY <2>1 DEF Goto, Job
    <3>2. ~(v = w /\ t = s) => jobs'[w][s] = jobs[w][s]
      BY <2>1, <2>6 DEF Claim, Goto
    <3> QED
      BY <2>1, <3>1, <3>2
  <2>7. R' \subseteq R \cup {<<w, s>>} /\ (A' >= M => R' \subseteq R)
    BY <1>1, <2>6, RetryMove DEF Retriers
  <2>8. Excess(d) + Cardinality(R) <= Charge
    BY <1>1, <1>3, <1>5, <1>7, <2>1, <2>2 DEF Terminal
  <2>9. /\ IsFiniteSet(R') /\ Cardinality(R') \in Nat
        /\ Cardinality(R') <= Cardinality(R) + 1
        /\ A' >= M => Cardinality(R') <= Cardinality(R)
    <3> DEFINE T == R \cup {<<w, s>>}
    <3>1. ASSUME NEW S, NEW x, IsFiniteSet(S)
          PROVE  /\ IsFiniteSet(S \cup {x})
                 /\ Cardinality(S \cup {x}) <= Cardinality(S) + 1
      BY <3>1, FS_AddElement, FS_CardinalityType
    <3>2. IsFiniteSet(T) /\ Cardinality(T) <= Cardinality(R) + 1
      BY <1>3, <3>1
    <3>3. IsFiniteSet(R') /\ Cardinality(R') \in Nat
          /\ Cardinality(T) \in Nat /\ Cardinality(R') <= Cardinality(T)
      BY <2>7, <3>2, FewerRetriers
    <3>4. A' >= M => Cardinality(R') <= Cardinality(R)
      BY <1>3, <2>7, FewerRetriers
    <3> HIDE DEF T
    <3> QED
      BY <1>3, <3>2, <3>3, <3>4
  <2>10. /\ A' < M => Excess(d)' = 0
         /\ A' >= M => Excess(d)' = Excess(d) + 1 /\ Excess(d)' = A' - (M - 1)
    BY <1>1, <2>3 DEF Excess
  <2>11. Excess(d)' + Cardinality(R') <= Charge' + Due(d)'
    BY <1>1, <1>3, <1>5, <2>1, <2>5, <2>8, <2>9, <2>10
  <2>12. A' <= M + Charge'
    BY <1>1, <1>3, <1>5, <2>1, <2>8, <2>10
  <2> QED
    BY <2>9, <2>11, <2>12 DEF Paid
<1> QED
  BY <1>8, <1>9, <1>10

LEMMA PaidHolds == Spec => [](IInv /\ PaidInv)
<1>1. Init => PaidInv
  <2> SUFFICES ASSUME Init, NEW d \in Docs PROVE Paid(d)
    BY DEF PaidInv
  <2>1. Retriers(d) = {}
    BY DEF Init, NoJobs, NoJob, Retriers, MayRetry, WorksOn, Working
  <2>2. docs[d].attempts = 0 /\ Charge = 0 /\ MaxAttempts \in Nat \ {0}
    BY ProcessingAssumption DEF Init, Absent, Charge
  <2>3. IsFiniteSet(Retriers(d)) /\ Cardinality(Retriers(d)) = 0
    BY <2>1, FS_EmptySet
  <2>4. Excess(d) = 0 /\ Due(d) \in {0, 1}
    BY <2>2 DEF Excess, Due
  <2> QED
    BY <2>2, <2>3, <2>4 DEF Paid
<1>2. IInv /\ PaidInv /\ [Next]_vars => PaidInv'
  BY PaidStep DEF PaidInv
<1> QED
  BY <1>1, <1>2, Inductive, PTL DEF Spec

\* docs/failure-handling.md:22: a document is attempted beyond MAX_ATTEMPTS
\* once for each failure at most.
THEOREM AttemptsArePaid == Spec => []AttemptsPaid
<1>1. IInv /\ PaidInv => AttemptsPaid
  <2> SUFFICES ASSUME IInv, PaidInv, NEW d \in Docs
               PROVE  docs[d].attempts <= MaxAttempts + faults
    BY DEF AttemptsPaid
  <2>1. /\ docs[d].attempts \in Nat /\ MaxAttempts \in Nat /\ faults \in Nat
    BY ProcessingAssumption DEF IInv, Typed, TypeOK, Document
  <2>2. docs[d].attempts <= MaxAttempts + Charge
    BY DEF PaidInv, Paid
  <2> QED
    BY <2>1, <2>2 DEF Charge
<1> QED
  BY <1>1, PaidHolds, PTL

\* The promise itself holds as long as no worker dies, is late or fails in a
\* call, whatever requests fail and whatever Redis loses.
THEOREM AttemptsAreBounded ==
    ASSUME Disruptions \subseteq {"api", "loss", "stop"}
    PROVE  Spec => []AttemptsBounded
<1>1. PaidInv => AttemptsBounded
  <2> SUFFICES ASSUME PaidInv, NEW d \in Docs
               PROVE  docs[d].attempts <= MaxAttempts
    BY DEF AttemptsBounded
  <2>1. docs[d].attempts <= MaxAttempts + 0 /\ MaxAttempts \in Nat
    BY ProcessingAssumption DEF PaidInv, Paid, Charge, Unharmed
  <2> QED
    BY <2>1
<1> QED
  BY <1>1, PaidHolds, PTL
-----------------------------------------------------------------------------
(* What makes a late result pass                                           *)

\* A worker has two jobs at work on one document.
OwnTwice == \E w \in Workers, t, s \in Slots : Both(Working, w, t, w, s)

\* A job whose filter would match reports the latest attempt.
FreshInv ==
    \A w \in Workers, s \in Slots :
        LET job == jobs[w][s]
        IN job.pc \in {"claimed", "running"} /\ HeldBy(docs[job.doc], w) =>
              job.attempt = docs[job.doc].attempts

LEMMA FreshStep ==
    ASSUME IInv, FreshInv, [Next]_vars, ~OwnTwice'
    PROVE  FreshInv'
<1> SUFFICES ASSUME NEW w \in Workers, NEW s \in Slots,
                    jobs'[w][s].pc \in {"claimed", "running"},
                    HeldBy(docs'[jobs'[w][s].doc], w)
             PROVE  jobs'[w][s].attempt = docs'[jobs'[w][s].doc].attempts
  BY DEF FreshInv
<1> DEFINE old == jobs[w][s]
           new == jobs'[w][s]
           d == old.doc
<1>1. /\ jobs \in [Workers -> [Slots -> Job]] /\ docs \in [Docs -> Document]
      /\ old \in Job /\ (old.pc # "free" => d \in Docs)
  BY DEF IInv, Typed, TypeOK, JobsTyped
<1>2. WorkMove(w, s)
  BY StepWork DEF IInv
<1>3. CASE new = old
  <2>1. d \in Docs /\ docs[d] \in Document /\ Move(d)
    BY <1>1, <1>3, StepMoves DEF IInv
  <2>2. ASSUME NEW v \in Workers, NEW t \in Slots, Claim(v, t), jobs[v][t].doc = d
        PROVE  FALSE
    <3>1. docs'[d] = Claimed(docs[d], v)
      BY <1>1, <2>1, <2>2 DEF Claim
    <3>2. v = w
      BY <1>3, <2>1, <3>1 DEF HeldBy, Claimed, Document
    <3>3. jobs'[w][t].pc = "loading" /\ jobs'[w][t].doc = d
      BY <1>1, <2>2, <3>2 DEF Claim, Goto, Job
    <3> QED
      BY <1>3, <3>3 DEF OwnTwice, Both, Working
  <2>3. docs'[d].attempts = docs[d].attempts
    BY <2>1, <2>2, AttemptsMove
  <2>4. HeldBy(docs[d], w)
    <3>1. docs'[d].status = "processing" /\ docs'[d].worker = w
      BY <1>3 DEF HeldBy
    <3>2. docs[d].attempts \in Nat
      BY <2>1 DEF Document
    <3>3. ASSUME NEW v \in Workers, docs'[d] = Claimed(docs[d], v) PROVE FALSE
      <4>1. docs'[d].attempts = docs[d].attempts + 1
        BY <2>1, <3>3 DEF Claimed, Document
      <4> QED
        BY <4>1, <2>3, <3>2
    <3> QED
      BY <2>1, <3>1, <3>3 DEF Move, Inserted, Absent, Completed, MarkedFailed,
                              RetryScheduled, Reclaimed, HeldBy, Document
  <2> QED
    BY <1>3, <2>3, <2>4 DEF FreshInv
<1>4. CASE Claim(w, s)
  <2>1. new.pc = "loading"
    BY <1>1, <1>4 DEF Claim, Goto, Job
  <2> QED
    BY <2>1
<1>5. CASE Load(w, s)
  <2>1. new.doc = d /\ new.attempt = docs[d].attempts /\ docs' = docs
    BY <1>1, <1>5 DEF Load, Job
  <2> QED
    BY <2>1
<1>6. CASE StartTask(w, s)
  <2>1. /\ new.doc = d /\ new.attempt = old.attempt /\ old.pc = "claimed"
        /\ docs' = docs
    BY <1>1, <1>6 DEF StartTask, Goto, At, Job
  <2> QED
    BY <2>1 DEF FreshInv
<1> QED
  BY <1>2, <1>3, <1>4, <1>5, <1>6 DEF WorkMove, Working

\* document.py:233: the filter names the worker and not the claim, and this is
\* all that is wrong with it: a result of an earlier attempt is accepted only
\* from a worker that had two jobs on the document, however slow its jobs are.
THEOREM FreshUnlessTwice == Spec /\ []~OwnTwice => StaleResultDropped
<1> DEFINE Fresh(d) ==
              docs[d].status = "processing" /\ docs'[d].status = "completed" =>
                  docs'[d].summary = docs[d].attempts
<1>1. Init => FreshInv
  BY DEF Init, NoJobs, NoJob, FreshInv
<1>2. IInv /\ FreshInv /\ [Next]_vars /\ ~OwnTwice' => FreshInv'
  BY FreshStep
<1>3. ASSUME IInv, FreshInv, [Next]_vars, NEW d \in Docs PROVE Fresh(d)
  <2> SUFFICES ASSUME docs[d].status = "processing",
                      docs'[d].status = "completed"
               PROVE  docs'[d].summary = docs[d].attempts
    OBVIOUS
  <2> HIDE DEF Fresh
  <2>1. docs[d] \in Document /\ Move(d)
    BY <1>3, MoveFacts, StepMoves DEF IInv
  <2>2. PICK w \in Workers, s \in Slots :
            /\ Settles1(d, w, s)
            /\ docs'[d] = Completed(docs[d], jobs[w][s].attempt)
    BY <2>1 DEF Move, Inserted, Absent, Claimed, MarkedFailed, RetryScheduled,
                Reclaimed, Document
  <2>3. jobs[w][s].attempt = docs[d].attempts
    BY <1>3, <2>2 DEF FreshInv, Settles1
  <2> QED
    BY <2>1, <2>2, <2>3 DEF Completed, Document
<1>4. IInv /\ FreshInv /\ [Next]_vars => [\A d \in Docs : Fresh(d)]_vars
  BY <1>3
<1> HIDE DEF Fresh
<1> QED
  BY <1>1, <1>2, <1>4, Inductive, PTL DEF Spec, StaleResultDropped, Fresh
=============================================================================
