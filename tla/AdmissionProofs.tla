-------------------------- MODULE AdmissionProofs --------------------------
(***************************************************************************)
(* What a submission is answered, that Submission implements Admission and *)
(* respects Ending, and what failures can cost the limit: for any numbers  *)
(* of requests, users, contents, sweepers and failures, and for any limit. *)
(***************************************************************************)
EXTENDS SubmissionProofs

\* Not known yet to be new work.
Asking == {"new", "lookup", "fallback", "restoring", "storing", "reserving",
           "reading"}

Joining == {"joining", "joined", "settling"}

\* After the insert, or what a failure left.
Late == {"publishing", "undoSlot", "undoGuard", "created", "failed", "lost"}

-----------------------------------------------------------------------------
(* What a request is answered                                              *)

\* What a step does to one request.
Flow(r) ==
    \/ reqs'[r] = reqs[r]
    \/ reqs[r].pc \in Asking /\ reqs'[r].pc \in Asking
    \/ /\ reqs[r].pc = "reading" /\ reqs'[r].pc = "joining"
       /\ guard[Key(r)] # NoId /\ reqs'[r].winner = guard[Key(r)]
    \/ /\ reqs[r].pc = "joining" /\ reqs'[r].pc \in {"joined", "settling"}
       /\ reqs'[r].winner = reqs[r].winner
       /\ reqs'[r].pc = "joined" => docs[reqs[r].winner].status # "absent"
    \/ /\ reqs[r].pc = "storing" /\ reqs'[r].pc = "hit"
       /\ docs'[r].status = "completed" /\ docs'[r].fromCache
       /\ ends'[r] = ends[r]
    \/ /\ reqs[r].pc = "inserting" /\ reqs'[r].pc = "publishing"
       /\ docs'[r].status = "active"
    \/ reqs[r].pc = "publishing" /\ reqs'[r].pc = "created"
    \/ reqs'[r].pc \in {"acquiring", "counting", "inserting", "refusing",
                        "limited", "undoSlot", "undoGuard", "failed", "lost"}

\* A request that moves leaves the others where they are.
LEMMA OthersStay ==
    ASSUME TypeOK, NEW r \in Ids, NEW x \in Ids \ {r},
           \/ Arrive(r) \/ RequestStep(r)
           \/ AcquireFails(r) \/ InsertFails(r) \/ RequestEnds(r)
    PROVE  reqs'[x] = reqs[x] /\ docs'[x] = docs[x] /\ ends'[x] = ends[x]
<1>1. reqs \in [Ids -> Request] /\ docs \in [Ids -> Document]
  BY DEF TypeOK
<1>2. reqs'[x] = reqs[x]
  BY <1>1 DEF Arrive, RequestStep, AcquireFails, InsertFails, RequestEnds, Lookup,
       Fallback, Restore, StoreHit, Reserve, ReadGuard, Join, Acquire, CountActive,
       Refuse, Insert, Publish, UndoSlot, UndoGuard, Goes
<1>3. docs'[x] = docs[x]
  BY <1>1 DEF Arrive, RequestStep, AcquireFails, InsertFails, RequestEnds, Lookup,
       Fallback, Restore, StoreHit, Reserve, ReadGuard, Join, Acquire, CountActive,
       Refuse, Insert, Publish, UndoSlot, UndoGuard
<1>4. ends' = ends
  BY DEF Arrive, RequestStep, AcquireFails, InsertFails, RequestEnds, Lookup,
       Fallback, Restore, StoreHit, Reserve, ReadGuard, Join, Acquire, CountActive,
       Refuse, Insert, Publish, UndoSlot, UndoGuard
<1> QED
  BY <1>2, <1>3, <1>4

\* From where to where each step of a request goes.
LEMMA RequestFlows ==
    ASSUME TypeOK, NEW r \in Ids,
           \/ Arrive(r) \/ RequestStep(r)
           \/ AcquireFails(r) \/ InsertFails(r) \/ RequestEnds(r)
    PROVE  Flow(r)
<1>1. reqs \in [Ids -> Request] /\ docs \in [Ids -> Document]
  BY DEF TypeOK
<1>2. ASSUME NEW from \in Asking, NEW to \in Asking \ {"new"}, Goes(r, from, to)
      PROVE  Flow(r)
  BY <1>1, <1>2, GoesFacts DEF Flow, Asking, Awaits
<1>3. ASSUME NEW from,
             NEW to \in {"acquiring", "counting", "inserting", "refusing",
                         "limited", "undoSlot", "undoGuard", "failed"},
             Goes(r, from, to)
      PROVE  Flow(r)
  BY <1>1, <1>3, GoesFacts DEF Flow, Awaits, Answers
<1>4. ASSUME NEW summary \in Summary, NEW from \in Asking,
             NEW to \in {"restoring", "storing"}, reqs[r].pc = from,
             reqs' = [reqs EXCEPT ![r].pc = to, ![r].found = summary]
      PROVE  Flow(r)
  BY <1>1, <1>4, FoundFacts DEF Flow, Asking, Awaits
<1>5. CASE Arrive(r) \/ Restore(r) \/ Reserve(r)
  BY <1>2, <1>3, <1>5 DEF Arrive, Restore, Reserve, Asking
<1>6. CASE Lookup(r)
  <2>1. cache[Key(r)] \in Summary
    BY KeyTyped DEF TypeOK
  <2> QED
    BY <1>2, <1>4, <1>6, <2>1 DEF Lookup, Asking
<1>7. CASE Fallback(r)
  <2>1. \A d \in Ids : Generated(d) \in Summary
    BY DEF Generated, Summary
  <2> QED
    BY <1>2, <1>4, <1>7, <2>1 DEF Fallback, Processed, Asking
<1>8. CASE StoreHit(r)
  <2>1. docs'[r] = [status |-> "completed", fromCache |-> TRUE,
                    summary |-> AsDuplicate(reqs[r].found, r)]
    BY <1>1, <1>8 DEF StoreHit
  <2>2. reqs[r].pc = "storing" /\ reqs'[r].pc = "hit" /\ ends' = ends
    BY <1>1, <1>8, GoesFacts DEF StoreHit, Answers
  <2> QED
    BY <2>1, <2>2 DEF Flow
<1>9. CASE ReadGuard(r)
  BY <1>9, ReadFacts DEF Flow
<1>10. CASE Join(r)
  <2>1. PICK to \in {"joined", "settling"} :
            /\ Goes(r, "joining", to)
            /\ to = "joined" <=> docs[reqs[r].winner].status # "absent"
    BY <1>10, JoinGoes
  <2> QED
    BY <1>1, <2>1, GoesFacts DEF Flow, Answers
<1>11. CASE Acquire(r) \/ AcquireFails(r) \/ Refuse(r) \/ InsertFails(r)
            \/ UndoSlot(r) \/ UndoGuard(r)
  BY <1>3, <1>11 DEF Acquire, AcquireFails, Refuse, InsertFails, UndoSlot,
                     UndoGuard
<1>12. CASE CountActive(r)
  <2>1. PICK to \in {"inserting", "refusing"} : Goes(r, "counting", to)
    BY <1>12 DEF CountActive
  <2> QED
    BY <1>3, <2>1
<1>13. CASE Insert(r)
  <2>1. reqs[r].pc = "inserting" /\ reqs'[r].pc = "publishing"
    BY <1>1, <1>13, GoesFacts DEF Insert, Awaits
  <2>2. docs'[r].status = "active"
    BY <1>1, <1>13 DEF Insert, Document
  <2> QED
    BY <2>1, <2>2 DEF Flow
<1>14. CASE Publish(r)
  BY <1>1, <1>14, GoesFacts DEF Publish, Flow, Awaits, Answers
<1>15. CASE RequestEnds(r)
  BY <1>1, <1>15 DEF RequestEnds, Flow, Request
<1> QED
  BY <1>5, <1>6, <1>7, <1>8, <1>9, <1>10, <1>11, <1>12, <1>13, <1>14, <1>15
     DEF RequestStep

LEMMA StepFlows ==
    ASSUME TypeOK, [Next]_vars, NEW r \in Ids
    PROVE  Flow(r)
<1>1. ASSUME NEW x \in Ids, \/ Arrive(x) \/ RequestStep(x)
                             \/ AcquireFails(x) \/ InsertFails(x) \/ RequestEnds(x)
      PROVE  Flow(r)
  <2>1. CASE x = r
    BY <1>1, <2>1, RequestFlows
  <2>2. CASE x # r
    <3>1. reqs'[r] = reqs[r]
      BY <1>1, <2>2, OthersStay
    <3> QED
      BY <3>1 DEF Flow
  <2> QED
    BY <2>1, <2>2
<1>2. ASSUME reqs' = reqs PROVE Flow(r)
  BY <1>2 DEF Flow
<1>3. CASE Idle \/ UNCHANGED vars
  BY <1>2, <1>3 DEF Idle, vars
<1>4. ASSUME NEW d \in Ids, WorkerStep(d) \/ WorkerDies(d) PROVE Flow(r)
  BY <1>2, <1>4 DEF WorkerStep, WorkerDies, Complete, MarkFailed, CacheSummary,
                    ReleaseSlot, ReleaseGuard
<1>5. ASSUME NEW s \in Sweepers, ReconcileStep(s) \/ ReconcileAborts(s)
      PROVE  Flow(r)
  BY <1>2, <1>5 DEF ReconcileStep, ReconcileAborts
<1>6. ASSUME \/ \E k \in Keys : LoseGuard(k) \/ LoseSummary(k)
             \/ \E u \in Users : LoseCounter(u)
      PROVE  Flow(r)
  BY <1>2, <1>6 DEF LoseGuard, LoseSummary, LoseCounter
<1>7. CASE Failure
  BY <1>1, <1>4, <1>5, <1>6, <1>7 DEF Failure
<1> QED
  BY <1>1, <1>3, <1>4, <1>5, <1>7 DEF Next

\* The inductive invariant behind the answers: a guard is of a request that is
\* through with asking, a winner is another request of the same content, and a
\* document that was inserted or stored stays.
AnswersInv ==
    /\ \A k \in Keys : guard[k] # NoId =>
           /\ Key(guard[k]) = k
           /\ reqs[guard[k]].pc \notin Asking \cup Joining
    /\ \A r \in Ids :
           /\ reqs[r].pc \in Joining =>
                 reqs[r].winner \in Ids \ {r} /\ Key(reqs[r].winner) = Key(r)
           /\ reqs[r].pc = "joined" => docs[reqs[r].winner].status # "absent"
           /\ reqs[r].pc \in {"publishing", "created"} =>
                 docs[r].status # "absent"
           /\ reqs[r].pc = "hit" => /\ docs[r].status = "completed"
                                    /\ docs[r].fromCache /\ ends[r] = "none"

\* A document that is there stays.
LEMMA DocumentStays ==
    ASSUME IInv, [Next]_vars, NEW d \in Ids, docs[d].status # "absent"
    PROVE  docs'[d].status # "absent"
<1>1. Move(d)
  BY StepMoves DEF IInv
<1> QED
  BY <1>1 DEF Move, Stays, Becomes

\* A request that is through with asking does not ask again.
LEMMA NeverAsksAgain ==
    ASSUME IInv, [Next]_vars, NEW r \in Ids,
           reqs[r].pc \notin Asking \cup Joining
    PROVE  reqs'[r].pc \notin Asking \cup Joining
<1>1. Flow(r)
  BY StepFlows DEF IInv
<1> QED
  BY <1>1 DEF Flow, Asking, Joining

LEMMA AnswersStep ==
    ASSUME IInv, AnswersInv, [Next]_vars
    PROVE  AnswersInv'
<1>1. ASSUME NEW r \in Ids
      PROVE  /\ Flow(r) /\ Move(r) /\ Key(r)' = Key(r)
             /\ Key(r) \in Keys /\ guard[Key(r)] \in Ids \cup {NoId}
  BY <1>1, StepFlows, StepMoves, KeyTyped DEF IInv, TypeOK
<1>2. ASSUME NEW k \in Keys, guard'[k] # NoId
      PROVE  (Key(guard[k]) = k /\ reqs[guard[k]].pc \notin Asking \cup Joining)'
  <2>1. CASE guard'[k] = guard[k]
    <3>1. /\ guard[k] \in Ids /\ Key(guard[k]) = k
          /\ reqs[guard[k]].pc \notin Asking \cup Joining
      BY <1>2, <2>1 DEF AnswersInv, IInv, TypeOK
    <3>2. /\ reqs'[guard[k]].pc \notin Asking \cup Joining
          /\ reqs'[guard[k]].key = reqs[guard[k]].key
      BY <3>1, NeverAsksAgain, StepMoves DEF IInv
    <3> QED
      BY <2>1, <3>1, <3>2 DEF Key
  <2>2. CASE guard'[k] # guard[k]
    <3>1. PICK r \in Ids : /\ guard'[k] = r /\ Key(r) = k
                           /\ reqs'[r].pc = "acquiring"
      BY <1>2, <2>2, GuardMoves
    <3>2. reqs'[r].key = reqs[r].key
      BY StepMoves DEF IInv
    <3> QED
      BY <3>1, <3>2 DEF Key, Asking, Joining
  <2> QED
    BY <2>1, <2>2
<1>3. ASSUME NEW r \in Ids, reqs'[r].pc \in Joining
      PROVE  /\ reqs'[r].winner \in Ids \ {r}
             /\ Key(reqs'[r].winner) = Key(r)
  <2>1. CASE reqs[r].pc \in Joining
    <3>1. reqs'[r].winner = reqs[r].winner
      BY <1>1, <1>3, <2>1 DEF Flow, Joining, Asking
    <3> QED
      BY <2>1, <3>1 DEF AnswersInv
  <2>2. CASE reqs[r].pc \notin Joining
    <3>1. /\ reqs[r].pc = "reading" /\ guard[Key(r)] # NoId
          /\ reqs'[r].winner = guard[Key(r)]
      BY <1>1, <1>3, <2>2 DEF Flow, Joining, Asking
    <3>2. /\ Key(guard[Key(r)]) = Key(r) /\ guard[Key(r)] \in Ids
          /\ reqs[guard[Key(r)]].pc \notin Asking
      BY <1>1, <3>1 DEF AnswersInv
    <3> QED
      BY <3>1, <3>2 DEF Asking
  <2> QED
    BY <2>1, <2>2
<1>4. ASSUME NEW r \in Ids, reqs'[r].pc \in Joining
      PROVE  (/\ reqs[r].winner \in Ids \ {r}
              /\ Key(reqs[r].winner) = Key(r))'
  BY <1>1, <1>3, <1>4
<1>5. ASSUME NEW r \in Ids, reqs'[r].pc = "joined"
      PROVE  docs'[reqs'[r].winner].status # "absent"
  <2>1. /\ reqs[r].pc \in {"joining", "joined"}
        /\ reqs'[r].winner = reqs[r].winner
        /\ docs[reqs[r].winner].status # "absent"
    BY <1>1, <1>5 DEF Flow, Joining, Asking, AnswersInv
  <2>2. reqs[r].winner \in Ids
    BY <2>1 DEF AnswersInv, Joining
  <2> QED
    BY <2>1, <2>2, DocumentStays
<1>6. ASSUME NEW r \in Ids, reqs'[r].pc \in {"publishing", "created"}
      PROVE  docs'[r].status # "absent"
  <2>1. \/ docs'[r].status = "active"
        \/ reqs[r].pc \in {"publishing", "created"}
    BY <1>1, <1>6 DEF Flow, Asking
  <2> QED
    BY <2>1, DocumentStays DEF AnswersInv
<1>7. ASSUME NEW r \in Ids, reqs'[r].pc = "hit"
      PROVE  docs'[r].status = "completed" /\ docs'[r].fromCache /\ ends'[r] = "none"
  <2>1. CASE reqs[r].pc = "hit"
    <3>1. docs[r].status = "completed" /\ docs[r].fromCache /\ ends[r] = "none"
      BY <2>1 DEF AnswersInv
    <3> QED
      BY <1>1, <2>1, <3>1 DEF Move, Stays
  <2>2. CASE reqs[r].pc # "hit"
    <3>1. /\ reqs[r].pc = "storing" /\ ends'[r] = ends[r]
          /\ docs'[r].status = "completed" /\ docs'[r].fromCache
      BY <1>1, <1>7, <2>2 DEF Flow, Asking
    <3> QED
      BY <3>1 DEF IInv, BeforeInv
  <2> QED
    BY <2>1, <2>2
<1> QED
  BY <1>2, <1>4, <1>5, <1>6, <1>7 DEF AnswersInv

LEMMA AnswersInit == Init => AnswersInv
  BY DEF Init, AnswersInv, Joining, Asking

LEMMA AnswersInductive == Spec => [](IInv /\ AnswersInv)
<1>1. IInv /\ AnswersInv /\ [Next]_vars => (IInv /\ AnswersInv)'
  BY StepInv, AnswersStep
<1> QED
  BY <1>1, InitInv, AnswersInit, PTL DEF Spec

\* Whatever fails, an answer that carries a document carries one that is there,
\* for the same user and content, and one that does not leaves none behind.
THEOREM AnswersAreHonest == Spec => []AnswersHonest
<1>1. IInv /\ AnswersInv => AnswersHonest
  <2> SUFFICES ASSUME IInv, AnswersInv, NEW r \in Ids
               PROVE  /\ reqs[r].pc \in {"created", "hit"} =>
                            docs[r].status # "absent"
                      /\ reqs[r].pc \in {"joined", "settling", "limited"} =>
                            docs[r].status = "absent"
                      /\ reqs[r].pc \in {"joined", "settling"} =>
                            /\ reqs[r].winner \in Ids \ {r}
                            /\ Key(reqs[r].winner) = Key(r)
                      /\ reqs[r].pc = "joined" =>
                            docs[reqs[r].winner].status # "absent"
    BY DEF AnswersHonest
  <2> QED
    BY DEF AnswersInv, Joining, IInv, BeforeInv, Absent
<1> QED
  BY <1>1, AnswersInductive, PTL

-----------------------------------------------------------------------------
(* The refinement                                                          *)

Sound == faults = 0 /\ repairs = 0

Done == {d \in Ids : docs[d].status = "completed" /\ ~docs[d].fromCache}

\* Everything that Admission sees of a submission.
Fixed(r) == Stage(r)' = Stage(r) /\ Key(r)' = Key(r)

SoundStays == Sound' \in {Sound, FALSE}

LEMMA StageKept ==
    ASSUME NEW r, reqs'[r] = reqs[r], docs'[r] = docs[r], ends'[r] = ends[r]
    PROVE  Fixed(r)
  BY DEF Fixed, Stage, Occupies, Key

\* Before the insert the stage is that of the request.
LEMMA EarlyStage ==
    ASSUME NEW r, docs[r].status = "absent", ends[r] = "none"
    PROVE  /\ reqs[r].pc \in Asking => Stage(r) = "asked"
           /\ reqs[r].pc \in Joining => Stage(r) = "collapsed"
           /\ reqs[r].pc \in {"acquiring", "counting"} => Stage(r) = "carried"
           /\ reqs[r].pc = "refusing" => Stage(r) = "turnedDown"
           /\ reqs[r].pc = "limited" => Stage(r) = "refused"
           /\ reqs[r].pc = "inserting" => Stage(r) = "admitted"
           /\ reqs[r].pc \in Late => Stage(r) = "over"
  BY DEF Stage, Occupies, Asking, Joining, Late

\* After it, that of the document and its end.
LEMMA LateStage ==
    ASSUME NEW r, reqs[r].pc \in Late
    PROVE  /\ docs[r].status = "active" => Stage(r) = "admitted"
           /\ ends[r] \in {"caching", "releasing"} => Stage(r) = "admitted"
           /\ docs[r].status # "active" /\ ends[r] = "unguarding" =>
                 Stage(r) = "closing"
           /\ docs[r].status # "active" /\ ends[r] = "none" => Stage(r) = "over"
  BY DEF Stage, Occupies, Late

LEMMA SameCardinality ==
    ASSUME NEW S
    PROVE  A!Cardinality(S) = Cardinality(S)
  BY DEF A!Cardinality, Cardinality

LEMMA ChargedAreHolders ==
    ASSUME NEW u
    PROVE  A!Charged(u) = Holders(u)
<1>1. \A r : Stage(r) = "admitted" <=> Occupies(r)
  BY DEF Stage
<1> QED
  BY <1>1 DEF A!Charged, Holders, Key, User

\* What each step of a submission looks like to Admission.
LEMMA StageStep ==
    ASSUME NEW r \in Ids, NEW from, NEW to,
           Stage(r) \in from, Stage(r)' = to, Key(r)' = Key(r),
           \A x \in Ids \ {r} : Fixed(x), Done' = Done, SoundStays
    PROVE  A!Step(r, from, to)
<1>1. [x \in Ids |-> Stage(x)]' = [[x \in Ids |-> Stage(x)] EXCEPT ![r] = to]
  BY DEF Fixed
<1>2. [x \in Ids |-> Key(x)]' = [x \in Ids |-> Key(x)]
  BY DEF Fixed
<1> QED
  BY <1>1, <1>2 DEF A!Step, A!Move, Done, Sound, SoundStays

LEMMA StageStutter ==
    ASSUME \A x \in Ids : Fixed(x), Done' = Done, SoundStays
    PROVE  [A!Next]_A!vars
<1>1. /\ [x \in Ids |-> Stage(x)]' = [x \in Ids |-> Stage(x)]
      /\ [x \in Ids |-> Key(x)]' = [x \in Ids |-> Key(x)]
  BY DEF Fixed
<1> QED
  BY <1>1 DEF A!Next, A!GoWrong, A!vars, Done, Sound, SoundStays

\* A failure or a repair is never undone.
LEMMA SoundStep ==
    ASSUME TypeOK, [Next]_vars
    PROVE  SoundStays
<1>1. faults \in Nat /\ repairs \in 0..MaxRepairs + 1
  BY SubmissionAssumption DEF TypeOK
<1>2. ASSUME NEW kind, Fault(kind) PROVE faults' # 0
  BY <1>1, <1>2 DEF Fault
<1>3. CASE Idle \/ UNCHANGED vars
  <2>1. faults' = faults /\ repairs' = repairs
    BY <1>3 DEF Idle, vars, limiterVars
  <2> QED
    BY <2>1 DEF SoundStays, Sound
<1>4. ASSUME NEW r \in Ids, Arrive(r) \/ RequestStep(r)
      PROVE  SoundStays
  <2>1. repairs' = repairs
    BY <1>4 DEF Arrive, RequestStep, Lookup, Fallback, Restore, StoreHit, Reserve,
         ReadGuard, Join, Acquire, CountActive, Refuse, Insert, Publish, UndoSlot,
         UndoGuard, limiterVars
  <2>2. faults' = faults \/ faults' # 0
    BY <1>2, <1>4 DEF Arrive, RequestStep, Lookup, Fallback, Restore, StoreHit,
         Reserve, ReadGuard, Join, Acquire, CountActive, Refuse, Insert, Publish,
         UndoSlot, UndoGuard
  <2> QED
    BY <2>1, <2>2 DEF SoundStays, Sound
<1>5. ASSUME NEW r \in Ids, WorkerStep(r) PROVE SoundStays
  <2>1. repairs' = repairs /\ (faults' = faults \/ faults' # 0)
    BY <1>2, <1>5 DEF WorkerStep, Complete, MarkFailed, CacheSummary, ReleaseSlot,
                      ReleaseGuard, limiterVars
  <2> QED
    BY <2>1 DEF SoundStays, Sound
<1>6. ASSUME NEW s \in Sweepers, ReconcileStep(s) PROVE SoundStays
  <2>1. faults' = faults /\ (repairs' = repairs \/ repairs' # 0)
    BY <1>1, <1>6, RepairCounted DEF ReconcileStep
  <2>2. CASE repairs' = repairs
    BY <2>1, <2>2 DEF SoundStays, Sound
  <2>3. CASE repairs' # 0
    BY <2>3 DEF SoundStays, Sound
  <2> QED
    BY <2>1, <2>2, <2>3
<1>7. CASE Failure
  <2>1. faults' # 0
    BY <1>2, <1>7 DEF Failure, AcquireFails, InsertFails, RequestEnds, WorkerDies,
                      ReconcileAborts, LoseGuard, LoseSummary, LoseCounter
  <2> QED
    BY <2>1 DEF SoundStays, Sound
<1> QED
  BY <1>3, <1>4, <1>5, <1>6, <1>7 DEF Next

\* The facts about a request that its steps start from.
LEMMA Before ==
    ASSUME IInv, AnswersInv, NEW r \in Ids
    PROVE  /\ Key(r) \in Keys /\ User(r) \in Users
           /\ reqs[r].pc \in Asking \cup Joining \cup Late
                 \cup {"acquiring", "counting", "refusing", "limited", "inserting",
                       "hit"}
           /\ reqs[r].pc \notin Late \cup {"hit"} =>
                 docs[r].status = "absent" /\ ends[r] = "none"
           /\ reqs[r].pc = "hit" => docs[r].status = "completed" /\ ends[r] = "none"
           /\ docs[r].status \in {"absent", "active"} =>
                 ends[r] = "none" /\ ~docs[r].fromCache
           /\ docs[r].status \in {"absent", "active", "completed", "failed"}
           /\ ends[r] \in {"none", "caching", "releasing", "unguarding"}
<1>1. reqs[r].pc \in {"new"} \cup Awaits \cup Answers
  BY DEF IInv, TypeOK, Request
<1>2. reqs[r].pc \in Asking \cup Joining \cup Late
         \cup {"acquiring", "counting", "refusing", "limited", "inserting", "hit"}
  BY <1>1 DEF Awaits, Answers, Asking, Joining, Late
<1>3. reqs[r].pc \notin Late \cup {"hit"} => docs[r] = Absent /\ ends[r] = "none"
  BY DEF IInv, BeforeInv, Late
<1>4. reqs[r].pc = "hit" => docs[r].status = "completed" /\ ends[r] = "none"
  BY DEF AnswersInv
<1>5. docs[r].status \in {"absent", "active"} =>
          ends[r] = "none" /\ ~docs[r].fromCache
  BY DEF IInv, EndsInv
<1>6. /\ docs[r].status \in {"absent", "active", "completed", "failed"}
      /\ ends[r] \in {"none", "caching", "releasing", "unguarding"}
  BY DEF IInv, TypeOK, Document
<1> QED
  BY <1>2, <1>3, <1>4, <1>5, <1>6, KeyTyped DEF IInv, Absent

\* While nothing has gone wrong the counter tells who is charged.
LEMMA CountedIsCharged ==
    ASSUME IInv, Sound, NEW u \in Users
    PROVE  Admits(u) <=> Cardinality(A!Charged(u)) < Limit
<1>1. counter[u] = Cardinality(Holders(u))
  BY DEF IInv, SlotsCounted, Sound
<1>2. A!Charged(u) = Holders(u)
  BY ChargedAreHolders
<1> QED
  BY <1>1, <1>2 DEF Admits

\* While nothing has gone wrong the guard that is read is a rival's.
LEMMA GuardIsRival ==
    ASSUME IInv, AnswersInv, Sound, NEW r \in Ids, reqs[r].pc = "reading",
           guard[Key(r)] # NoId
    PROVE  A!Rival(r)
<1> DEFINE q == guard[Key(r)]
<1>1. Key(r) \in Keys
  BY Before
<1>2. /\ q \in Ids /\ Key(q) = Key(r)
      /\ \/ reqs[q].pc \in {"acquiring", "refusing", "inserting"}
         \/ docs[q].status = "active"
         \/ ends[q] # "none"
  BY <1>1 DEF IInv, TypeOK, GuardNamesLive, Sound
<1>3. docs[r].status = "absent" /\ ends[r] = "none"
  BY Before DEF Late
<1>4. q # r
  BY <1>2, <1>3
<1>5. Stage(q) \in {"carried", "turnedDown", "admitted", "closing"}
  <2>1. CASE reqs[q].pc \in {"acquiring", "refusing", "inserting"}
    <3>1. docs[q].status = "absent" /\ ends[q] = "none"
      BY <1>2, <2>1, Before DEF Late
    <3> QED
      BY <2>1, <3>1, EarlyStage
  <2>2. CASE docs[q].status = "active" \/ ends[q] # "none"
    <3>1. ends[q] \in {"none", "caching", "releasing", "unguarding"}
      BY <1>2, Before
    <3> QED
      BY <2>2, <3>1 DEF Stage, Occupies
  <2> QED
    BY <1>2, <2>1, <2>2
<1> QED
  BY <1>2, <1>4, <1>5 DEF A!Rival

\* The steps of a request, one by one.
LEMMA RequestRefines ==
    ASSUME IInv, AnswersInv, [Next]_vars, NEW r \in Ids,
           \/ Arrive(r) \/ RequestStep(r)
           \/ AcquireFails(r) \/ InsertFails(r) \/ RequestEnds(r)
    PROVE  [A!Next]_A!vars
<1>1. /\ reqs \in [Ids -> Request] /\ docs \in [Ids -> Document]
      /\ TypeOK /\ SoundStays
      /\ Key(r)' = Key(r) /\ \A x \in Ids \ {r} : Fixed(x)
  <2>1. ASSUME NEW x \in Ids \ {r} PROVE Fixed(x)
    BY <2>1, OthersStay, StageKept DEF IInv
  <2> QED
    BY <2>1, SoundStep, StepMoves DEF IInv, TypeOK
<1>2. ends' = ends
  BY DEF Arrive, RequestStep, AcquireFails, InsertFails, RequestEnds, Lookup,
       Fallback, Restore, StoreHit, Reserve, ReadGuard, Join, Acquire, CountActive,
       Refuse, Insert, Publish, UndoSlot, UndoGuard
<1>3. ASSUME Stage(r)' = Stage(r), Done' = Done PROVE [A!Next]_A!vars
  BY <1>1, <1>3, StageStutter DEF Fixed
<1>4. ASSUME docs' = docs PROVE Done' = Done
  BY <1>4 DEF Done
<1>5. ASSUME NEW from, NEW to, Stage(r) \in from, Stage(r)' = to, Done' = Done
      PROVE  A!Step(r, from, to)
  BY <1>1, <1>5, StageStep
<1>6. ASSUME reqs'[r].pc \notin Late \cup {"hit"}, docs' = docs,
             docs[r].status = "absent", ends[r] = "none"
      PROVE  /\ reqs'[r].pc \in Asking => Stage(r)' = "asked"
             /\ reqs'[r].pc \in Joining => Stage(r)' = "collapsed"
             /\ reqs'[r].pc \in {"acquiring", "counting"} => Stage(r)' = "carried"
             /\ reqs'[r].pc = "refusing" => Stage(r)' = "turnedDown"
             /\ reqs'[r].pc = "limited" => Stage(r)' = "refused"
             /\ reqs'[r].pc = "inserting" => Stage(r)' = "admitted"
  BY <1>2, <1>6 DEF Stage, Occupies, Asking, Joining
<1>7. reqs[r].pc \notin Late \cup {"hit"} =>
          docs[r].status = "absent" /\ ends[r] = "none"
  BY Before
<1>8. CASE Arrive(r) \/ Lookup(r) \/ Fallback(r) \/ Restore(r)
  <2>1. docs' = docs
    BY <1>8 DEF Arrive, Lookup, Fallback, Restore
  <2>2. reqs[r].pc \in Asking
    BY <1>8 DEF Arrive, Lookup, Fallback, Restore, Goes, Asking
  <2>3. reqs'[r].pc \in Asking
    BY <1>1, <1>8 DEF Arrive, Lookup, Fallback, Restore, Goes, Asking, Request
  <2>4. Stage(r) = "asked" /\ Stage(r)' = "asked"
    BY <1>6, <1>7, <2>1, <2>2, <2>3, EarlyStage DEF Asking, Late
  <2> QED
    BY <1>3, <1>4, <2>1, <2>4
<1>9. CASE StoreHit(r)
  <2>1. /\ reqs[r].pc = "storing" /\ reqs'[r].pc = "hit"
        /\ docs'[r].status = "completed" /\ docs'[r].fromCache
        /\ \A x \in Ids \ {r} : docs'[x] = docs[x]
    BY <1>1, <1>9, GoesFacts DEF StoreHit, Answers
  <2>2. Stage(r) = "asked" /\ docs[r].status = "absent"
    BY <1>7, <2>1, EarlyStage DEF Asking, Late
  <2>3. ends'[r] = "none"
    BY <1>2, <1>7, <2>1 DEF Late
  <2>4. Stage(r)' = "served"
    BY <2>1, <2>3 DEF Stage, Occupies
  <2>5. Done' = Done
    BY <2>1, <2>2 DEF Done
  <2>6. PICK d \in Processed(Key(r)) : TRUE
    BY <2>1 DEF IInv, FoundInv, Origins
  <2>7. \E x \in Done : Key(x) = Key(r)
    BY <2>6 DEF Processed, Done
  <2>8. A!Step(r, {"asked"}, "served")
    BY <1>5, <2>2, <2>4, <2>5
  <2>9. A!Serve(r)
    BY <2>7, <2>8 DEF A!Serve, Done
  <2> QED
    BY <2>9 DEF A!Next
<1>10. CASE Reserve(r)
  <2>1. docs' = docs
    BY <1>10 DEF Reserve
  <2>2. reqs[r].pc = "reserving" /\ reqs'[r].pc \in {"reading", "acquiring"}
    BY <1>1, <1>10, GoesFacts DEF Reserve, Awaits
  <2>3. /\ Stage(r) = "asked"
        /\ reqs'[r].pc = "reading" => Stage(r)' = "asked"
        /\ reqs'[r].pc = "acquiring" => Stage(r)' = "carried"
    BY <1>6, <1>7, <2>1, <2>2, EarlyStage DEF Asking, Late
  <2>4. CASE reqs'[r].pc = "acquiring"
    BY <1>4, <1>5, <2>1, <2>3, <2>4 DEF A!Next, A!TakeUp
  <2> QED
    BY <1>3, <1>4, <2>1, <2>2, <2>3, <2>4
<1>11. CASE ReadGuard(r)
  <2>1. docs' = docs
    BY <1>11 DEF ReadGuard
  <2>2. /\ reqs[r].pc = "reading" /\ reqs'[r].pc \in {"joining", "acquiring"}
        /\ reqs'[r].pc = "joining" => guard[Key(r)] # NoId
    BY <1>1, <1>11, ReadFacts
  <2>3. /\ Stage(r) = "asked"
        /\ reqs'[r].pc = "joining" => Stage(r)' = "collapsed"
        /\ reqs'[r].pc = "acquiring" => Stage(r)' = "carried"
    BY <1>6, <1>7, <2>1, <2>2, EarlyStage DEF Asking, Joining, Late
  <2>4. CASE reqs'[r].pc = "acquiring"
    BY <1>4, <1>5, <2>1, <2>3, <2>4 DEF A!Next, A!TakeUp
  <2>5. CASE reqs'[r].pc = "joining"
    <3>1. Sound => A!Rival(r)
      BY <2>2, <2>5, GuardIsRival
    <3>2. A!Step(r, {"asked"}, "collapsed")
      BY <1>4, <1>5, <2>1, <2>3, <2>5
    <3>3. A!Collapse(r)
      BY <3>1, <3>2 DEF A!Collapse, Sound
    <3> QED
      BY <3>3 DEF A!Next
  <2> QED
    BY <2>2, <2>4, <2>5
<1>12. CASE Join(r)
  <2>1. docs' = docs
    BY <1>12 DEF Join
  <2>2. reqs[r].pc = "joining" /\ reqs'[r].pc \in {"joined", "settling"}
    BY <1>1, <1>12, JoinGoes, GoesFacts DEF Answers
  <2>3. Stage(r) = "collapsed" /\ Stage(r)' = "collapsed"
    BY <1>6, <1>7, <2>1, <2>2, EarlyStage DEF Joining, Late
  <2> QED
    BY <1>3, <1>4, <2>1, <2>3
<1>13. CASE Acquire(r) \/ CountActive(r)
  <2>1. docs' = docs
    BY <1>13 DEF Acquire, CountActive
  <2>2. /\ reqs[r].pc \in {"acquiring", "counting"}
        /\ reqs'[r].pc \in {"inserting", "refusing"}
    BY <1>1, <1>13 DEF Acquire, CountActive, Goes, Request
  <2>3. /\ Stage(r) = "carried"
        /\ reqs'[r].pc = "inserting" => Stage(r)' = "admitted"
        /\ reqs'[r].pc = "refusing" => Stage(r)' = "turnedDown"
    BY <1>6, <1>7, <2>1, <2>2, EarlyStage DEF Late
  <2>4. Sound => (reqs'[r].pc = "inserting" <=> Admits(User(r)))
    <3>1. CASE Acquire(r)
      BY <1>1, <3>1 DEF Acquire, Goes, Request
    <3>2. CASE CountActive(r)
      BY <3>2 DEF CountActive, Goes, IInv, FaultInv, Sound
    <3> QED
      BY <1>13, <3>1, <3>2
  <2>5. Sound => (reqs'[r].pc = "inserting" <=>
                      Cardinality(A!Charged(User(r))) < Limit)
    BY <2>4, CountedIsCharged, Before
  <2>6. Cardinality(A!Charged(User(r))) \in Nat /\ Limit \in Nat
    <3>1. IsFiniteSet(Holders(User(r)))
      BY FS_Subset, SubmissionAssumption DEF Holders
    <3> QED
      BY <3>1, FS_CardinalityType, ChargedAreHolders, LimitAssumption
  <2>7. User(r) = Key(r).user
    BY DEF User, Key
  <2>8. CASE reqs'[r].pc = "inserting"
    <3>1. A!Step(r, {"carried"}, "admitted")
      BY <1>4, <1>5, <2>1, <2>3, <2>8
    <3>2. A!Admit(r)
      BY <2>5, <2>7, <2>8, <3>1, SameCardinality DEF A!Admit, Sound
    <3> QED
      BY <3>2 DEF A!Next
  <2>9. CASE reqs'[r].pc = "refusing"
    <3>1. A!Step(r, {"carried"}, "turnedDown")
      BY <1>4, <1>5, <2>1, <2>3, <2>9
    <3>2. Sound => Cardinality(A!Charged(User(r))) >= Limit
      BY <2>5, <2>6, <2>9
    <3>3. A!TurnDown(r)
      BY <2>7, <3>1, <3>2, SameCardinality DEF A!TurnDown, Sound
    <3> QED
      BY <3>3 DEF A!Next
  <2> QED
    BY <2>2, <2>8, <2>9
<1>14. CASE AcquireFails(r)
  <2>1. docs' = docs
    BY <1>14 DEF AcquireFails
  <2>2. reqs[r].pc = "acquiring" /\ reqs'[r].pc = "counting"
    BY <1>1, <1>14, GoesFacts DEF AcquireFails, Awaits
  <2>3. Stage(r) = "carried" /\ Stage(r)' = "carried"
    BY <1>6, <1>7, <2>1, <2>2, EarlyStage DEF Late
  <2> QED
    BY <1>3, <1>4, <2>1, <2>3
<1>15. CASE Refuse(r)
  <2>1. docs' = docs
    BY <1>15 DEF Refuse
  <2>2. reqs[r].pc = "refusing" /\ reqs'[r].pc = "limited"
    BY <1>1, <1>15, GoesFacts DEF Refuse, Answers
  <2>3. Stage(r) = "turnedDown" /\ Stage(r)' = "refused"
    BY <1>6, <1>7, <2>1, <2>2, EarlyStage DEF Late
  <2> QED
    BY <1>4, <1>5, <2>1, <2>3 DEF A!Next, A!Refuse
<1>16. ASSUME docs' = [docs EXCEPT ![r].status = "active"],
              reqs[r].pc = "inserting"
       PROVE  [A!Next]_A!vars
  <2>1. /\ docs'[r].status = "active" /\ docs[r].status = "absent"
        /\ \A x \in Ids \ {r} : docs'[x] = docs[x]
    BY <1>1, <1>7, <1>16 DEF Document, Late
  <2>2. Stage(r) = "admitted" /\ Stage(r)' = "admitted"
    BY <1>16, <2>1 DEF Stage, Occupies
  <2>3. Done' = Done
    BY <2>1 DEF Done
  <2> QED
    BY <1>3, <2>2, <2>3
<1>17. CASE Insert(r)
  BY <1>16, <1>17 DEF Insert, Goes
<1>18. CASE InsertFails(r)
  <2>1. reqs[r].pc = "inserting" /\ reqs'[r].pc = "undoSlot"
    BY <1>1, <1>18, GoesFacts DEF InsertFails, Awaits
  <2>2. CASE docs' = docs
    <3>1. Stage(r) = "admitted" /\ Stage(r)' = "over"
      BY <1>2, <1>7, <2>1, <2>2 DEF Stage, Occupies, Late
    <3>2. faults' # 0
      BY <1>1, <1>18, FaultTyped DEF InsertFails, TypeOK
    <3>3. A!Step(r, {"asked", "collapsed", "carried", "turnedDown", "admitted",
                     "closing"}, "over")
      BY <1>4, <1>5, <2>2, <3>1
    <3> QED
      BY <3>2, <3>3 DEF A!Next, A!Abandon
  <2> QED
    BY <1>16, <1>18, <2>1, <2>2 DEF InsertFails
<1>19. CASE Publish(r) \/ UndoSlot(r) \/ UndoGuard(r)
  <2>1. docs' = docs
    BY <1>19 DEF Publish, UndoSlot, UndoGuard
  <2>2. reqs[r].pc \in Late /\ reqs'[r].pc \in Late
    BY <1>1, <1>19 DEF Publish, UndoSlot, UndoGuard, Goes, Late, Request
  <2>3. Stage(r)' = Stage(r)
    BY <1>2, <2>1, <2>2 DEF Stage, Occupies, Late
  <2> QED
    BY <1>3, <1>4, <2>1, <2>3
<1>20. CASE RequestEnds(r)
  <2>1. docs' = docs /\ faults' # 0
    BY <1>1, <1>20, FaultTyped DEF RequestEnds, TypeOK
  <2>2. /\ reqs[r].pc \in Awaits /\ reqs'[r].pc \in {"lost", "failed"}
    BY <1>1, <1>20 DEF RequestEnds, Awaits, Request
  <2>3. CASE reqs[r].pc \in Late
    <3>1. Stage(r)' = Stage(r)
      BY <1>2, <2>1, <2>2, <2>3 DEF Stage, Occupies, Late
    <3> QED
      BY <1>3, <1>4, <2>1, <3>1
  <2>4. CASE reqs[r].pc \notin Late
    <3>1. docs[r].status = "absent" /\ ends[r] = "none"
      BY <1>7, <2>2, <2>4 DEF Awaits
    <3>2. Stage(r) \in {"asked", "collapsed", "carried", "turnedDown", "admitted",
                        "closing"}
      BY <2>2, <2>4, <3>1, EarlyStage DEF Awaits, Asking, Joining, Late
    <3>3. Stage(r)' = "over"
      BY <1>2, <2>1, <2>2, <3>1 DEF Stage, Occupies
    <3>4. A!Step(r, {"asked", "collapsed", "carried", "turnedDown", "admitted",
                     "closing"}, "over")
      BY <1>4, <1>5, <2>1, <3>2, <3>3
    <3> QED
      BY <2>1, <3>4 DEF A!Next, A!Abandon
  <2> QED
    BY <2>3, <2>4
<1> QED
  BY <1>8, <1>9, <1>10, <1>11, <1>12, <1>13, <1>14, <1>15, <1>17, <1>18, <1>19,
     <1>20 DEF RequestStep

\* The steps of a worker, one by one.
LEMMA WorkerRefines ==
    ASSUME IInv, AnswersInv, [Next]_vars, NEW d \in Ids,
           WorkerStep(d) \/ WorkerDies(d)
    PROVE  [A!Next]_A!vars
<1>1. /\ docs \in [Ids -> Document]
      /\ ends \in [Ids -> {"none", "caching", "releasing", "unguarding"}]
      /\ TypeOK /\ SoundStays /\ reqs' = reqs
  BY SoundStep DEF IInv, TypeOK, WorkerStep, WorkerDies, Complete, MarkFailed,
                   CacheSummary, ReleaseSlot, ReleaseGuard
<1>2. /\ \A x \in Ids \ {d} : Fixed(x)
      /\ Key(d)' = Key(d)
  <2>1. ASSUME NEW x \in Ids \ {d}
        PROVE  docs'[x] = docs[x] /\ ends'[x] = ends[x] /\ reqs'[x] = reqs[x]
    BY <1>1, <2>1 DEF WorkerStep, WorkerDies, Complete, MarkFailed, CacheSummary,
                      ReleaseSlot, ReleaseGuard, EndGoes
  <2> QED
    BY <1>1, <2>1, StageKept DEF Key
<1>3. ASSUME Stage(d)' = Stage(d), Done' = Done PROVE [A!Next]_A!vars
  BY <1>1, <1>2, <1>3, StageStutter DEF Fixed
<1>4. ASSUME NEW from, NEW to, Stage(d) \in from, Stage(d)' = to, Done' = Done
      PROVE  A!Step(d, from, to)
  BY <1>1, <1>2, <1>4, StageStep
<1>5. ends[d] # "none" => docs[d].status # "active" /\ reqs[d].pc \in Late
  BY Before
<1>6. CASE Complete(d)
  <2>1. /\ docs[d].status = "active" /\ docs'[d].status = "completed"
        /\ docs'[d].fromCache = docs[d].fromCache
        /\ \A x \in Ids \ {d} : docs'[x] = docs[x]
        /\ ends'[d] = "caching" /\ faults' = faults /\ repairs' = repairs
    BY <1>1, <1>6 DEF Complete, Document, limiterVars
  <2>2. ~docs[d].fromCache
    BY <2>1, Before
  <2>3. Stage(d) = "admitted" /\ Stage(d)' = "admitted"
    BY <2>1 DEF Stage, Occupies
  <2>4. Done' = Done \cup {d}
    BY <2>1, <2>2 DEF Done
  <2>5. /\ [x \in Ids |-> Stage(x)]' = [x \in Ids |-> Stage(x)]
        /\ [x \in Ids |-> Key(x)]' = [x \in Ids |-> Key(x)]
    BY <1>2, <2>3 DEF Fixed
  <2>6. A!Finish(d)
    BY <2>1, <2>3, <2>4, <2>5 DEF A!Finish, Done
  <2> QED
    BY <2>6 DEF A!Next
<1>7. CASE MarkFailed(d)
  <2>1. /\ docs[d].status = "active" /\ docs'[d].status = "failed"
        /\ \A x \in Ids \ {d} : docs'[x] = docs[x]
        /\ ends'[d] = "releasing"
    BY <1>1, <1>7 DEF MarkFailed, Document
  <2>2. Stage(d) = "admitted" /\ Stage(d)' = "admitted"
    BY <2>1 DEF Stage, Occupies
  <2>3. Done' = Done
    BY <2>1 DEF Done
  <2> QED
    BY <1>3, <2>2, <2>3
<1>8. ASSUME docs' = docs PROVE Done' = Done
  BY <1>8 DEF Done
<1>9. CASE CacheSummary(d)
  <2>1. docs' = docs /\ ends[d] = "caching" /\ ends'[d] = "releasing"
    BY <1>1, <1>9 DEF CacheSummary, EndGoes
  <2>2. Stage(d) = "admitted" /\ Stage(d)' = "admitted"
    BY <2>1 DEF Stage, Occupies
  <2> QED
    BY <1>3, <1>8, <2>1, <2>2
<1>10. CASE ReleaseSlot(d)
  <2>1. docs' = docs /\ ends[d] = "releasing" /\ ends'[d] = "unguarding"
    BY <1>1, <1>10 DEF ReleaseSlot, EndGoes
  <2>2. Stage(d) = "admitted" /\ Stage(d)' = "closing"
    BY <1>1, <1>5, <2>1 DEF Stage, Occupies, Late
  <2>3. A!Step(d, {"admitted"}, "closing")
    BY <1>4, <1>8, <2>1, <2>2
  <2> QED
    BY <2>3 DEF A!Next, A!Release
<1>11. ASSUME docs' = docs, ends[d] # "none", ends'[d] = "none"
       PROVE  Stage(d)' = "over" /\ Stage(d) \in {"admitted", "closing"}
  BY <1>1, <1>5, <1>11 DEF Stage, Occupies, Late
<1>12. CASE ReleaseGuard(d)
  <2>1. docs' = docs /\ ends[d] = "unguarding" /\ ends'[d] = "none"
    BY <1>1, <1>12 DEF ReleaseGuard, EndGoes
  <2>2. Stage(d) = "closing"
    BY <1>5, <2>1, LateStage
  <2>3. A!Step(d, {"closing"}, "over")
    BY <1>4, <1>8, <1>11, <2>1, <2>2
  <2> QED
    BY <2>3 DEF A!Next, A!Close
<1>13. CASE WorkerDies(d)
  <2>1. /\ docs' = docs /\ ends[d] # "none" /\ ends'[d] = "none"
        /\ faults' # 0
    BY <1>1, <1>13, FaultTyped DEF WorkerDies, TypeOK
  <2>2. A!Step(d, {"asked", "collapsed", "carried", "turnedDown", "admitted",
                   "closing"}, "over")
    BY <1>4, <1>8, <1>11, <2>1
  <2> QED
    BY <2>1, <2>2 DEF A!Next, A!Abandon
<1> QED
  BY <1>6, <1>7, <1>9, <1>10, <1>12, <1>13 DEF WorkerStep

LEMMA StepRefines ==
    ASSUME IInv, AnswersInv, [Next]_vars
    PROVE  [A!Next]_A!vars
<1>1. ASSUME reqs' = reqs, docs' = docs, ends' = ends
      PROVE  [A!Next]_A!vars
  <2>1. \A x \in Ids : Fixed(x)
    BY <1>1, StageKept
  <2>2. Done' = Done /\ SoundStays
    BY <1>1, SoundStep DEF Done, IInv
  <2> QED
    BY <2>1, <2>2, StageStutter
<1>2. CASE Idle \/ UNCHANGED vars
  <2>1. reqs' = reqs /\ docs' = docs /\ ends' = ends
    BY <1>2 DEF Idle, vars
  <2> QED
    BY <1>1, <2>1
<1>3. ASSUME NEW s \in Sweepers, ReconcileStep(s) \/ ReconcileAborts(s)
      PROVE  [A!Next]_A!vars
  BY <1>1, <1>3 DEF ReconcileStep, ReconcileAborts
<1>4. ASSUME \/ \E k \in Keys : LoseGuard(k) \/ LoseSummary(k)
             \/ \E u \in Users : LoseCounter(u)
      PROVE  [A!Next]_A!vars
  <2>1. reqs' = reqs /\ docs' = docs /\ ends' = ends
    BY <1>4 DEF LoseGuard, LoseSummary, LoseCounter
  <2> QED
    BY <1>1, <2>1
<1>5. CASE Failure
  BY <1>3, <1>4, <1>5, RequestRefines, WorkerRefines DEF Failure
<1> QED
  BY <1>2, <1>3, <1>5, RequestRefines, WorkerRefines DEF Next

LEMMA InitRefines == Init => A!Init
<1> SUFFICES ASSUME Init PROVE A!Init
  OBVIOUS
<1>1. ASSUME NEW r \in Ids PROVE Stage(r) = "asked" /\ docs[r].status = "absent"
  <2>1. /\ docs[r].status = "absent" /\ ends[r] = "none"
        /\ reqs[r].pc = "new"
    BY DEF Init, Absent
  <2> QED
    BY <2>1, EarlyStage DEF Asking
<1> QED
  BY <1>1 DEF Init, A!Init

\* Submission implements Admission: whatever the interleaving and whatever
\* fails, submissions are admitted, collapsed, turned down and served only as
\* Admission allows.
THEOREM AdmissionImplemented == Spec => ImplementsAdmission
<1>1. IInv /\ AnswersInv /\ [Next]_vars => [A!Next]_A!vars
  BY StepRefines
<1> QED
  BY <1>1, InitRefines, AnswersInductive, PTL DEF Spec, A!Spec, ImplementsAdmission

-----------------------------------------------------------------------------
(* The documents and their ends are those of Ending                        *)

\* What Ending sees of the documents.
Statuses == [r \in Ids |-> docs[r].status]

\* Ending sees nothing of a step that leaves documents and ends alone, and one
\* change of one document otherwise.
LEMMA EndingStutter ==
    ASSUME docs' = docs, ends' = ends
    PROVE  UNCHANGED E!vars
BY DEF E!vars

LEMMA StatusMoves ==
    ASSUME TypeOK, NEW d \in Ids, \A x \in Ids \ {d} : docs'[x] = docs[x]
    PROVE  Statuses' = [Statuses EXCEPT ![d] = docs'[d].status]
BY DEF Statuses

LEMMA RequestAdds ==
    ASSUME IInv, NEW r \in Ids,
           \/ Arrive(r) \/ RequestStep(r)
           \/ AcquireFails(r) \/ InsertFails(r) \/ RequestEnds(r)
    PROVE  [E!Next]_E!vars
<1>1. TypeOK
  BY DEF IInv
<1>2. ends' = ends
  BY DEF Arrive, RequestStep, AcquireFails, InsertFails, RequestEnds, Lookup,
       Fallback, Restore, StoreHit, Reserve, ReadGuard, Join, Acquire, CountActive,
       Refuse, Insert, Publish, UndoSlot, UndoGuard
<1>3. Statuses' = [Statuses EXCEPT ![r] = docs'[r].status]
  BY <1>1, OthersStay, StatusMoves
<1>4. Statuses[r] = docs[r].status
  BY DEF Statuses
<1>5. Move(r)
  BY <1>1, RequestMoves
<1>6. CASE docs'[r].status = docs[r].status
  <2>1. Statuses' = Statuses
    BY <1>3, <1>6 DEF Statuses
  <2> QED
    BY <1>2, <2>1 DEF E!vars, Statuses
<1>7. CASE reqs[r].pc = "storing" /\ docs'[r].status = "completed"
  <2>1. docs[r].status = "absent"
    BY <1>7 DEF IInv, BeforeInv, Absent
  <2>2. E!Serve(r)
    BY <1>2, <1>3, <1>4, <1>7, <2>1 DEF E!Serve, E!Moves, Statuses
  <2> QED
    BY <2>2 DEF E!Next
<1>8. CASE reqs[r].pc = "inserting" /\ docs'[r].status = "active"
  <2>1. docs[r].status = "absent"
    BY <1>8 DEF IInv, BeforeInv, Absent
  <2>2. E!Add(r)
    BY <1>2, <1>3, <1>4, <1>8, <2>1 DEF E!Add, E!Moves, Statuses
  <2> QED
    BY <2>2 DEF E!Next
<1>9. ASSUME docs[r].status = "active", ends'[r] # "none" PROVE FALSE
  BY <1>2, <1>9 DEF IInv, EndsInv
<1> QED
  BY <1>5, <1>6, <1>7, <1>8, <1>9 DEF Move, Stays, Becomes

LEMMA WorkerEnds ==
    ASSUME IInv, NEW d \in Ids, WorkerStep(d) \/ WorkerDies(d)
    PROVE  [E!Next]_E!vars
<1>1. /\ TypeOK /\ docs \in [Ids -> Document]
      /\ ends \in [Ids -> {"none", "caching", "releasing", "unguarding"}]
  BY DEF IInv, TypeOK
<1>2. Statuses[d] = docs[d].status
  BY DEF Statuses
<1>3. docs[d].status = "active" => ends[d] = "none"
  BY DEF IInv, EndsInv
<1>4. CASE Complete(d) \/ MarkFailed(d)
  <2>1. \A x \in Ids \ {d} : docs'[x] = docs[x]
    BY <1>1, <1>4 DEF Complete, MarkFailed
  <2>2. Statuses' = [Statuses EXCEPT ![d] = docs'[d].status]
    BY <1>1, <2>1, StatusMoves
  <2>3. CASE Complete(d)
    <3>1. docs'[d].status = "completed"
      BY <1>1, <2>3 DEF Complete, Document
    <3>2. E!Succeed(d)
      BY <1>2, <1>3, <2>2, <2>3, <3>1
         DEF Complete, E!Succeed, E!Moves, E!Enters, Statuses
    <3> QED
      BY <3>2 DEF E!Next
  <2>4. CASE MarkFailed(d)
    <3>1. docs'[d].status = "failed"
      BY <1>1, <2>4 DEF MarkFailed, Document
    <3>2. E!GiveUp(d)
      BY <1>2, <1>3, <2>2, <2>4, <3>1
         DEF MarkFailed, E!GiveUp, E!Moves, E!Enters, Statuses
    <3> QED
      BY <3>2 DEF E!Next
  <2> QED
    BY <1>4, <2>3, <2>4
<1>5. CASE CacheSummary(d) \/ ReleaseSlot(d) \/ ReleaseGuard(d)
  <2>1. Statuses' = Statuses
    BY <1>5 DEF CacheSummary, ReleaseSlot, ReleaseGuard, Statuses
  <2>2. \E step \in E!Order : ends[d] = step[1] /\ ends' = [ends EXCEPT ![d] = step[2]]
    BY <1>5 DEF CacheSummary, ReleaseSlot, ReleaseGuard, EndGoes, E!Order
  <2>3. E!Proceed(d)
    BY <2>1, <2>2 DEF E!Proceed, Statuses
  <2> QED
    BY <2>3 DEF E!Next
<1>6. CASE WorkerDies(d)
  <2>1. Statuses' = Statuses
    BY <1>6 DEF WorkerDies, Statuses
  <2>2. ends' = [x \in Ids |-> IF x \in {d} THEN "none" ELSE ends[x]]
    BY <1>1, <1>6 DEF WorkerDies
  <2>3. E!Abandon({d})
    BY <2>1, <2>2 DEF E!Abandon, Statuses
  <2> QED
    BY <2>3 DEF E!Next
<1> QED
  BY <1>4, <1>5, <1>6 DEF WorkerStep

\* The documents of Submission are those of Ending, which is all that Processing
\* shows of its workers: of them Submission assumes no less.
THEOREM EndingRespected == Spec => ImplementsEnding
<1>1. Init => E!Init
  BY DEF Init, E!Init, Absent
<1>2. IInv /\ [Next]_vars => [E!Next]_E!vars
  <2> SUFFICES ASSUME IInv, [Next]_vars PROVE [E!Next]_E!vars
    OBVIOUS
  <2>1. CASE Idle \/ UNCHANGED vars
    BY <2>1, EndingStutter DEF Idle, vars
  <2>2. ASSUME NEW s \in Sweepers, ReconcileStep(s) \/ ReconcileAborts(s)
        PROVE  [E!Next]_E!vars
    BY <2>2, EndingStutter DEF ReconcileStep, ReconcileAborts
  <2>3. ASSUME \/ \E k \in Keys : LoseGuard(k) \/ LoseSummary(k)
               \/ \E u \in Users : LoseCounter(u)
        PROVE  [E!Next]_E!vars
    BY <2>3, EndingStutter DEF LoseGuard, LoseSummary, LoseCounter
  <2>4. CASE Failure
    BY <2>2, <2>3, <2>4, RequestAdds, WorkerEnds DEF Failure
  <2> QED
    BY <2>1, <2>2, <2>4, RequestAdds, WorkerEnds DEF Next
<1> QED
  BY <1>1, <1>2, Inductive, PTL DEF Spec, E!Spec, ImplementsEnding

-----------------------------------------------------------------------------
(* What failures can cost the limit                                        *)

\* A request whose slot may have to be counted or given back once more.
Undoing(r) == reqs[r].pc \in {"counting", "undoSlot"}

Owes(r, what) == IF what = "slot" THEN Occupies(r) ELSE Undoing(r)

\* What a counter has yet to answer for: the slots that are occupied and the
\* ones that a failed request is about to give back.
Debts(u) == {p \in Ids \X {"slot", "undo"} : User(p[1]) = u /\ Owes(p[1], p[2])}

\* What has to be paid for.
Mishaps == faults + repairs

\* The inductive invariant behind LimitPaid: each failure, and each counter that
\* a reconciler writes, leaves at most a limit's worth of debts that the counter
\* does not know of.  Above the limit a counter, which a reconciler may have put
\* there, admits nobody, so there it counts as the limit.
DebtInv ==
    repairs <= MaxRepairs =>
        \A u \in Users :
            Cardinality(Debts(u)) <=
                (IF counter[u] < Limit THEN counter[u] ELSE Limit) + Limit * Mishaps

OwesAsBefore(r) == (Occupies(r)' <=> Occupies(r)) /\ (Undoing(r)' <=> Undoing(r))

\* What a step of a request or of its worker does to its debts and the counter:
\* nothing new; the count in MongoDB in place of the answer that was lost; a slot
\* that is counted; one that is given back, by the request or the worker; and a
\* failure.
DebtChange(r) ==
    \/ /\ counter' = counter
       /\ Occupies(r)' => Occupies(r)
       /\ Undoing(r)' => Undoing(r)
    \/ counter' = counter /\ Undoing(r) /\ ~Undoing(r)'
    \/ /\ Admits(User(r)) /\ Increment(User(r))
       /\ Undoing(r)' => Undoing(r)
    \/ /\ Decrement(User(r))
       /\ Undoing(r) /\ ~Undoing(r)'
       /\ Occupies(r)' => Occupies(r)
    \/ /\ Decrement(User(r))
       /\ Occupies(r) /\ ~Occupies(r)'
       /\ Undoing(r)' => Undoing(r)
    \/ /\ faults' = faults + 1
       /\ counter' = counter \/ (Admits(User(r)) /\ Increment(User(r)))
       /\ Occupies(r)' => Occupies(r)

LEMMA RequestDebts ==
    ASSUME IInv, NEW r \in Ids,
           \/ Arrive(r) \/ RequestStep(r)
           \/ AcquireFails(r) \/ InsertFails(r) \/ RequestEnds(r)
    PROVE  DebtChange(r)
<1>1. TypeOK /\ reqs \in [Ids -> Request] /\ docs \in [Ids -> Document]
  BY DEF IInv, TypeOK
<1>2. ends' = ends
  BY DEF Arrive, RequestStep, AcquireFails, InsertFails, RequestEnds, Lookup,
       Fallback, Restore, StoreHit, Reserve, ReadGuard, Join, Acquire, CountActive,
       Refuse, Insert, Publish, UndoSlot, UndoGuard
<1>3. ASSUME counter' = counter, docs' = docs,
             reqs'[r].pc \notin {"inserting", "counting", "undoSlot"}
      PROVE  DebtChange(r)
  BY <1>2, <1>3 DEF DebtChange, Occupies, Undoing
<1>4. ASSUME NEW from,
             NEW to \in (Awaits \cup Answers) \ {"inserting", "counting", "undoSlot"},
             Goes(r, from, to), UNCHANGED <<docs, counter>>
      PROVE  DebtChange(r)
  BY <1>1, <1>3, <1>4, GoesFacts
<1>5. ASSUME NEW summary \in Summary, NEW to \in {"restoring", "storing"},
             UNCHANGED <<docs, counter>>,
             reqs' = [reqs EXCEPT ![r].pc = to, ![r].found = summary]
      PROVE  DebtChange(r)
  <2>1. reqs'[r].pc = to
    BY <1>1, <1>5, FoundFacts DEF Awaits
  <2> QED
    BY <1>3, <1>5, <2>1
<1>6. CASE Lookup(r)
  <2>1. cache[Key(r)] \in Summary
    BY <1>1, KeyTyped DEF TypeOK
  <2> QED
    BY <1>4, <1>5, <1>6, <2>1 DEF Lookup, Awaits, limiterVars
<1>7. CASE Fallback(r)
  <2>1. \A d \in Ids : Generated(d) \in Summary
    BY DEF Generated, Summary
  <2> QED
    BY <1>4, <1>5, <1>7, <2>1 DEF Fallback, Processed, Awaits, limiterVars
<1>8. CASE StoreHit(r)
  <2>1. reqs'[r].pc = "hit"
    BY <1>1, <1>8, GoesFacts DEF StoreHit, Answers
  <2>2. docs'[r].status = "completed" /\ counter' = counter
    BY <1>1, <1>8 DEF StoreHit, limiterVars
  <2>3. Occupies(r)' => Occupies(r)
    BY <1>2, <2>1, <2>2 DEF Occupies
  <2>4. ~Undoing(r)'
    BY <2>1 DEF Undoing
  <2> QED
    BY <2>2, <2>3, <2>4 DEF DebtChange
<1>9. CASE ReadGuard(r)
  <2>1. reqs'[r].pc \in {"acquiring", "joining"}
    BY <1>1, <1>9, ReadFacts
  <2>2. docs' = docs /\ counter' = counter
    BY <1>9 DEF ReadGuard, limiterVars
  <2> QED
    BY <1>3, <2>1, <2>2
<1>10. CASE Arrive(r) \/ Restore(r) \/ Reserve(r) \/ Join(r)
  BY <1>4, <1>10, JoinGoes
     DEF Arrive, Restore, Reserve, Join, Awaits, Answers, limiterVars
<1>11. CASE Refuse(r) \/ UndoGuard(r)
  BY <1>4, <1>11 DEF Refuse, UndoGuard, Awaits, Answers, limiterVars
<1>12. CASE Acquire(r)
  <2>1. CASE Goes(r, "acquiring", "refusing") /\ counter' = counter
    <3>1. docs' = docs
      BY <1>12 DEF Acquire
    <3> QED
      BY <1>4, <2>1, <3>1 DEF Awaits
  <2>2. CASE /\ Admits(User(r)) /\ Increment(User(r))
             /\ Goes(r, "acquiring", "inserting")
    <3>1. reqs'[r].pc = "inserting"
      BY <1>1, <2>2, GoesFacts DEF Awaits
    <3>2. ~Undoing(r)'
      BY <3>1 DEF Undoing
    <3> QED
      BY <2>2, <3>2 DEF DebtChange
  <2> QED
    BY <1>12, <2>1, <2>2 DEF Acquire
<1>13. CASE AcquireFails(r)
  <2>1. /\ faults' = faults + 1 /\ docs' = docs
        /\ counter' = counter \/ (Admits(User(r)) /\ Increment(User(r)))
        /\ Goes(r, "acquiring", "counting")
    BY <1>13 DEF AcquireFails, Fault
  <2>2. reqs'[r].pc = "counting"
    BY <1>1, <2>1, GoesFacts DEF Awaits
  <2>3. Occupies(r)' => Occupies(r)
    BY <1>2, <2>1, <2>2 DEF Occupies
  <2> QED
    BY <2>1, <2>3 DEF DebtChange
<1>14. CASE CountActive(r)
  <2>1. PICK to \in {"inserting", "refusing"} : Goes(r, "counting", to)
    BY <1>14 DEF CountActive
  <2>2. reqs[r].pc = "counting" /\ reqs'[r].pc = to
    BY <1>1, <2>1, GoesFacts DEF Awaits
  <2>3. Undoing(r) /\ ~Undoing(r)'
    BY <2>2 DEF Undoing
  <2>4. counter' = counter
    BY <1>14 DEF CountActive, limiterVars
  <2> QED
    BY <2>3, <2>4 DEF DebtChange
<1>15. CASE Insert(r)
  <2>1. reqs[r].pc = "inserting" /\ reqs'[r].pc = "publishing"
    BY <1>1, <1>15, GoesFacts DEF Insert, Awaits
  <2>2. Occupies(r) /\ ~Undoing(r)' /\ counter' = counter
    BY <1>15, <2>1 DEF Occupies, Undoing, Insert, limiterVars
  <2> QED
    BY <2>2 DEF DebtChange
<1>16. CASE InsertFails(r)
  <2>1. reqs[r].pc = "inserting"
    BY <1>16 DEF InsertFails, Goes
  <2>2. Occupies(r) /\ faults' = faults + 1 /\ counter' = counter
    BY <1>16, <2>1 DEF Occupies, InsertFails, Fault, limiterVars
  <2> QED
    BY <2>2 DEF DebtChange
<1>17. CASE Publish(r)
  <2>1. docs' = docs /\ counter' = counter
    BY <1>17 DEF Publish, limiterVars
  <2>2. CASE Goes(r, "publishing", "created")
    BY <1>4, <2>1, <2>2 DEF Answers
  <2>3. CASE Goes(r, "publishing", "undoSlot") /\ Fault("redis")
    <3>1. reqs'[r].pc = "undoSlot"
      BY <1>1, <2>3, GoesFacts DEF Awaits
    <3>2. Occupies(r)' => Occupies(r)
      BY <1>2, <2>1, <3>1 DEF Occupies
    <3> QED
      BY <2>1, <2>3, <3>2 DEF DebtChange, Fault
  <2> QED
    BY <1>17, <2>2, <2>3 DEF Publish
<1>18. CASE UndoSlot(r)
  <2>1. reqs[r].pc = "undoSlot" /\ reqs'[r].pc = "undoGuard" /\ docs' = docs
    BY <1>1, <1>18, GoesFacts DEF UndoSlot, Awaits
  <2>2. Undoing(r) /\ ~Undoing(r)' /\ (Occupies(r)' => Occupies(r))
    BY <1>2, <2>1 DEF Occupies, Undoing
  <2>3. Decrement(User(r)) \/ counter' = counter
    BY <1>18 DEF UndoSlot
  <2> QED
    BY <2>2, <2>3 DEF DebtChange
<1>19. CASE RequestEnds(r)
  <2>1. reqs'[r].pc \in {"lost", "failed"} /\ docs' = docs /\ counter' = counter
    BY <1>1, <1>19 DEF RequestEnds, Request, limiterVars
  <2> QED
    BY <1>3, <2>1
<1> QED
  BY <1>6, <1>7, <1>8, <1>9, <1>10, <1>11, <1>12, <1>13, <1>14, <1>15, <1>16,
     <1>17, <1>18, <1>19 DEF RequestStep

LEMMA WorkerDebts ==
    ASSUME IInv, NEW d \in Ids, WorkerStep(d) \/ WorkerDies(d)
    PROVE  /\ DebtChange(d)
           /\ \A x \in Ids \ {d} : OwesAsBefore(x)
<1>1. /\ reqs \in [Ids -> Request] /\ docs \in [Ids -> Document]
      /\ ends \in [Ids -> {"none", "caching", "releasing", "unguarding"}]
      /\ ends[d] # "none" =>
             docs[d].status # "active" /\ reqs[d].pc # "inserting"
  BY DEF IInv, TypeOK, EndsInv, BeforeInv
<1>2. reqs' = reqs
  BY DEF WorkerStep, Complete, MarkFailed, CacheSummary, ReleaseSlot, ReleaseGuard,
         WorkerDies
<1>3. ASSUME NEW x \in Ids \ {d} PROVE OwesAsBefore(x)
  <2>1. docs'[x] = docs[x] /\ ends'[x] = ends[x]
    BY <1>1, <1>3 DEF WorkerStep, Complete, MarkFailed, CacheSummary, ReleaseSlot,
                      ReleaseGuard, EndGoes, WorkerDies
  <2> QED
    BY <1>2, <2>1 DEF OwesAsBefore, Occupies, Undoing
<1>4. Undoing(d)' => Undoing(d)
  BY <1>2 DEF Undoing
<1>5. ASSUME counter' = counter, Occupies(d)' => Occupies(d) PROVE DebtChange(d)
  BY <1>4, <1>5 DEF DebtChange
<1>6. CASE Complete(d) \/ MarkFailed(d)
  <2>1. Occupies(d) /\ counter' = counter
    BY <1>6 DEF Occupies, Complete, MarkFailed, limiterVars
  <2> QED
    BY <1>3, <1>5, <2>1
<1>7. CASE CacheSummary(d) \/ ReleaseGuard(d) \/ WorkerDies(d)
  <2>1. docs' = docs /\ counter' = counter
    BY <1>7 DEF CacheSummary, ReleaseGuard, WorkerDies, limiterVars
  <2>2. ends'[d] = "none" \/ ends[d] = "caching"
    BY <1>1, <1>7 DEF CacheSummary, ReleaseGuard, WorkerDies, EndGoes
  <2>3. Occupies(d)' => Occupies(d)
    BY <1>2, <2>1, <2>2 DEF Occupies
  <2> QED
    BY <1>3, <1>5, <2>1, <2>3
<1>8. CASE ReleaseSlot(d)
  <2>1. /\ ends[d] = "releasing" /\ ends'[d] = "unguarding" /\ docs' = docs
        /\ Decrement(User(d)) \/ counter' = counter
    BY <1>1, <1>8 DEF ReleaseSlot, EndGoes
  <2>2. Occupies(d) /\ ~Occupies(d)'
    BY <1>1, <1>2, <2>1 DEF Occupies
  <2> QED
    BY <1>3, <1>4, <2>1, <2>2 DEF DebtChange
<1> QED
  BY <1>3, <1>6, <1>7, <1>8 DEF WorkerStep

LEMMA OneMore ==
    ASSUME NEW S, IsFiniteSet(S), NEW T, NEW q, T \subseteq S \cup {q}
    PROVE  /\ IsFiniteSet(T) /\ Cardinality(T) \in Nat /\ Cardinality(S) \in Nat
           /\ Cardinality(T) <= Cardinality(S) + 1
<1>1. /\ IsFiniteSet(S \cup {q})
      /\ Cardinality(S \cup {q}) \in {Cardinality(S), Cardinality(S) + 1}
  BY FS_AddElement
<1>2. IsFiniteSet(T) /\ Cardinality(T) <= Cardinality(S \cup {q})
  BY <1>1, FS_Subset
<1>3. Cardinality(T) \in Nat /\ Cardinality(S) \in Nat
  BY <1>2, FS_CardinalityType
<1> QED
  BY <1>1, <1>2, <1>3

LEMMA OneLess ==
    ASSUME NEW S, IsFiniteSet(S), NEW T, NEW p \in S, T \subseteq S \ {p}
    PROVE  Cardinality(T) <= Cardinality(S) - 1
<1>1. IsFiniteSet(S \ {p}) /\ Cardinality(S \ {p}) = Cardinality(S) - 1
  BY FS_RemoveElement
<1> QED
  BY <1>1, FS_Subset

LEMMA OneForAnother ==
    ASSUME NEW S, IsFiniteSet(S), NEW T, NEW p \in S, NEW q,
           T \subseteq (S \ {p}) \cup {q}
    PROVE  Cardinality(T) <= Cardinality(S)
<1>1. IsFiniteSet(S \ {p}) /\ Cardinality(S \ {p}) = Cardinality(S) - 1
  BY FS_RemoveElement
<1>2. /\ Cardinality(T) \in Nat /\ Cardinality(S \ {p}) \in Nat
      /\ Cardinality(T) <= Cardinality(S \ {p}) + 1
  BY <1>1, OneMore
<1>3. Cardinality(S) \in Nat
  BY FS_CardinalityType
<1> QED
  BY <1>1, <1>2, <1>3

LEMMA PairsFinite ==
    ASSUME NEW S \in SUBSET (Ids \X {"slot", "undo"})
    PROVE  IsFiniteSet(S) /\ Cardinality(S) \in Nat
<1>1. IsFiniteSet({"slot", "undo"})
  <2>1. IsFiniteSet({"slot"})
    BY FS_Singleton
  <2>2. {"slot", "undo"} = {"slot"} \cup {"undo"}
    OBVIOUS
  <2> QED
    BY <2>1, <2>2, FS_AddElement
<1>2. IsFiniteSet(Ids \X {"slot", "undo"})
  BY <1>1, FS_Product, SubmissionAssumption
<1> QED
  BY <1>2, FS_Subset, FS_CardinalityType

LEMMA DebtsFinite ==
    ASSUME NEW u
    PROVE  IsFiniteSet(Debts(u)) /\ Cardinality(Debts(u)) \in Nat
<1>1. Debts(u) \in SUBSET (Ids \X {"slot", "undo"})
  BY DEF Debts
<1> QED
  BY <1>1, PairsFinite

\* The debts after a step in which at most r's are other ones.
LEMMA DebtsMove ==
    ASSUME TypeOK, [Next]_vars, NEW r \in Ids, NEW u \in Users,
           \A x \in Ids \ {r} : OwesAsBefore(x)
    PROVE  LET slot == <<r, "slot">>
               undo == <<r, "undo">>
           IN /\ slot \in Debts(u) <=> User(r) = u /\ Occupies(r)
              /\ undo \in Debts(u) <=> User(r) = u /\ Undoing(r)
              /\ slot \in Debts(u)' <=> User(r) = u /\ Occupies(r)'
              /\ undo \in Debts(u)' <=> User(r) = u /\ Undoing(r)'
              /\ \A p : p # slot /\ p # undo => (p \in Debts(u)' <=> p \in Debts(u))
<1>1. \A p : p \in Debts(u) <=> /\ p \in Ids \X {"slot", "undo"} /\ User(p[1]) = u
                                /\ IF p[2] = "slot" THEN Occupies(p[1])
                                                    ELSE Undoing(p[1])
  BY DEF Debts, Owes
<1>2. \A x \in Ids : User(x)' = User(x)
  BY StepMoves
<1>3. \A p : p \in Debts(u)' <=> /\ p \in Ids \X {"slot", "undo"} /\ User(p[1]) = u
                                 /\ IF p[2] = "slot" THEN Occupies(p[1])'
                                                     ELSE Undoing(p[1])'
  <2>1. \A p : p \in Debts(u)' <=> /\ p \in Ids \X {"slot", "undo"}
                                   /\ User(p[1])' = u
                                   /\ IF p[2] = "slot" THEN Occupies(p[1])'
                                                       ELSE Undoing(p[1])'
    BY DEF Debts, Owes, User, Occupies, Undoing
  <2>2. \A p \in Ids \X {"slot", "undo"} : p[1] \in Ids
    OBVIOUS
  <2> QED
    BY <1>2, <2>1, <2>2
<1>4. ASSUME NEW p \in Ids \X {"slot", "undo"}, p # <<r, "slot">>, p # <<r, "undo">>
      PROVE  p \in Debts(u)' <=> p \in Debts(u)
  <2>1. p[1] \in Ids \ {r}
    BY <1>4
  <2>2. (Occupies(p[1])' <=> Occupies(p[1])) /\ (Undoing(p[1])' <=> Undoing(p[1]))
    BY <2>1 DEF OwesAsBefore
  <2> QED
    BY <1>1, <1>3, <2>2
<1> QED
  BY <1>1, <1>3, <1>4

\* The debts and the counter of another user stay.
LEMMA OthersDebts ==
    ASSUME IInv, [Next]_vars, NEW r \in Ids, NEW u \in Users, User(r) # u,
           DebtChange(r), \A x \in Ids \ {r} : OwesAsBefore(x)
    PROVE  Debts(u)' \subseteq Debts(u) /\ counter'[u] = counter[u]
<1>1. TypeOK /\ counter \in [Users -> Nat]
  BY DEF IInv, TypeOK
<1>2. Debts(u)' \subseteq Debts(u)
  BY <1>1, DebtsMove
<1>3. counter'[u] = counter[u]
  BY <1>1 DEF DebtChange, Increment, Decrement
<1> QED
  BY <1>2, <1>3

\* What a step does to the number of debts of its user and to the counter.
LEMMA OwnDebts ==
    ASSUME IInv, [Next]_vars, NEW r \in Ids, NEW u \in Users, User(r) = u,
           DebtChange(r), \A x \in Ids \ {r} : OwesAsBefore(x)
    PROVE  LET before == Cardinality(Debts(u))
               after == Cardinality(Debts(u)')
           IN \/ after <= before /\ counter'[u] = counter[u]
              \/ /\ after <= before + 1
                 /\ counter[u] < Limit /\ counter'[u] = counter[u] + 1
              \/ /\ after <= before - 1
                 /\ counter'[u] = IF counter[u] = 0 THEN 0 ELSE counter[u] - 1
              \/ /\ after <= before + 1 /\ faults' = faults + 1
                 /\ \/ counter'[u] = counter[u]
                    \/ counter[u] < Limit /\ counter'[u] = counter[u] + 1
<1> DEFINE slot == <<r, "slot">>
           undo == <<r, "undo">>
           S == Debts(u)
           T == Debts(u)'
<1>1. TypeOK /\ counter \in [Users -> Nat]
  BY DEF IInv, TypeOK
<1>2. /\ slot \in S <=> Occupies(r)
      /\ undo \in S <=> Undoing(r)
      /\ slot \in T <=> Occupies(r)'
      /\ undo \in T <=> Undoing(r)'
      /\ \A p : p # slot /\ p # undo => (p \in T <=> p \in S)
  BY <1>1, DebtsMove
<1>3. IsFiniteSet(S) /\ Cardinality(S) \in Nat
  BY DebtsFinite
<1>4. /\ Increment(u) => counter'[u] = counter[u] + 1
      /\ Decrement(u) => counter'[u] = IF counter[u] = 0 THEN 0 ELSE counter[u] - 1
  BY <1>1 DEF Increment, Decrement
<1> HIDE DEF S, T
<1>5. CASE /\ counter' = counter
           /\ Occupies(r)' => Occupies(r)
           /\ Undoing(r)' => Undoing(r)
  <2>1. T \subseteq S
    BY <1>2, <1>5
  <2>2. Cardinality(T) <= Cardinality(S)
    BY <1>3, <2>1, FS_Subset
  <2> QED
    BY <1>5, <2>2 DEF S, T
<1>6. CASE counter' = counter /\ Undoing(r) /\ ~Undoing(r)'
  <2>1. undo \in S /\ T \subseteq (S \ {undo}) \cup {slot}
    BY <1>2, <1>6
  <2>2. Cardinality(T) <= Cardinality(S)
    BY <1>3, <2>1, OneForAnother
  <2> QED
    BY <1>6, <2>2 DEF S, T
<1>7. CASE Admits(u) /\ Increment(u) /\ (Undoing(r)' => Undoing(r))
  <2>1. T \subseteq S \cup {slot}
    BY <1>2, <1>7
  <2>2. Cardinality(T) <= Cardinality(S) + 1
    BY <1>3, <2>1, OneMore
  <2> QED
    BY <1>4, <1>7, <2>2 DEF S, T, Admits
<1>8. CASE /\ Decrement(u) /\ Undoing(r) /\ ~Undoing(r)'
           /\ Occupies(r)' => Occupies(r)
  <2>1. undo \in S /\ T \subseteq S \ {undo}
    BY <1>2, <1>8
  <2>2. Cardinality(T) <= Cardinality(S) - 1
    BY <1>3, <2>1, OneLess
  <2> QED
    BY <1>4, <1>8, <2>2 DEF S, T
<1>9. CASE /\ Decrement(u) /\ Occupies(r) /\ ~Occupies(r)'
           /\ Undoing(r)' => Undoing(r)
  <2>1. slot \in S /\ T \subseteq S \ {slot}
    BY <1>2, <1>9
  <2>2. Cardinality(T) <= Cardinality(S) - 1
    BY <1>3, <2>1, OneLess
  <2> QED
    BY <1>4, <1>9, <2>2 DEF S, T
<1>10. CASE /\ faults' = faults + 1
            /\ counter' = counter \/ (Admits(u) /\ Increment(u))
            /\ Occupies(r)' => Occupies(r)
  <2>1. T \subseteq S \cup {undo}
    BY <1>2, <1>10
  <2>2. Cardinality(T) <= Cardinality(S) + 1
    BY <1>3, <2>1, OneMore
  <2> QED
    BY <1>4, <1>10, <2>2 DEF S, T, Admits
<1> QED
  BY <1>5, <1>6, <1>7, <1>8, <1>9, <1>10 DEF DebtChange

\* What has gone wrong stays so; a counter that is written is paid for.
LEMMA MishapsGrow ==
    ASSUME IInv, [Next]_vars, repairs' <= MaxRepairs
    PROVE  /\ repairs <= MaxRepairs
           /\ \/ Mishaps' = Mishaps
              \/ Mishaps' = Mishaps + 1
           /\ faults' = faults + 1 => Mishaps' = Mishaps + 1
           /\ repairs' = repairs + 1 => Mishaps' = Mishaps + 1
<1>1. faults \in Nat /\ repairs \in 0..MaxRepairs + 1
  BY SubmissionAssumption DEF IInv, TypeOK
<1>2. ASSUME NEW kind, Fault(kind) PROVE faults' = faults + 1
  BY <1>2 DEF Fault
<1>3. CASE Idle \/ UNCHANGED vars
  <2>1. faults' = faults /\ repairs' = repairs
    BY <1>3 DEF Idle, vars, limiterVars
  <2> QED
    BY <1>1, <2>1 DEF Mishaps
<1>4. ASSUME NEW r \in Ids, Arrive(r) \/ RequestStep(r)
      PROVE  faults' \in {faults, faults + 1} /\ repairs' = repairs
  BY <1>2, <1>4 DEF Arrive, RequestStep, Lookup, Fallback, Restore, StoreHit,
                    Reserve, ReadGuard, Join, Acquire, CountActive, Refuse,
                    Insert, Publish, UndoSlot, UndoGuard, limiterVars
<1>5. ASSUME NEW r \in Ids, WorkerStep(r)
      PROVE  faults' \in {faults, faults + 1} /\ repairs' = repairs
  BY <1>2, <1>5 DEF WorkerStep, Complete, MarkFailed, CacheSummary, ReleaseSlot,
                    ReleaseGuard, limiterVars
<1>6. ASSUME NEW s \in Sweepers, ReconcileStep(s)
      PROVE  /\ faults' = faults
             /\ repairs' = repairs \/ (repairs' = repairs + 1 /\ repairs <= MaxRepairs)
  BY <1>1, <1>6, RepairCounted DEF ReconcileStep
<1>7. CASE Failure
  <2>1. faults' = faults + 1 /\ repairs' = repairs
    BY <1>2, <1>7 DEF Failure, AcquireFails, InsertFails, RequestEnds, WorkerDies,
                    ReconcileAborts, LoseGuard, LoseSummary, LoseCounter, limiterVars
  <2> QED
    BY <1>1, <2>1 DEF Mishaps
<1>8. CASE \E r \in Ids : Arrive(r) \/ RequestStep(r) \/ WorkerStep(r)
  BY <1>1, <1>4, <1>5, <1>8 DEF Mishaps
<1>9. CASE \E s \in Sweepers : ReconcileStep(s)
  BY <1>1, <1>6, <1>9 DEF Mishaps
<1> QED
  BY <1>3, <1>7, <1>8, <1>9 DEF Next

\* A request that moves, or a worker.
LEMMA ActorDebts ==
    ASSUME IInv, NEW r \in Ids,
           \/ Arrive(r) \/ RequestStep(r) \/ WorkerStep(r)
           \/ AcquireFails(r) \/ InsertFails(r) \/ RequestEnds(r) \/ WorkerDies(r)
    PROVE  DebtChange(r) /\ \A x \in Ids \ {r} : OwesAsBefore(x)
<1>1. CASE WorkerStep(r) \/ WorkerDies(r)
  BY <1>1, WorkerDebts
<1>2. CASE \/ Arrive(r) \/ RequestStep(r)
           \/ AcquireFails(r) \/ InsertFails(r) \/ RequestEnds(r)
  <2>1. ASSUME NEW x \in Ids \ {r} PROVE OwesAsBefore(x)
    <3>1. reqs'[x] = reqs[x] /\ docs'[x] = docs[x] /\ ends'[x] = ends[x]
      BY <1>2, <2>1, OthersStay DEF IInv
    <3> QED
      BY <3>1 DEF OwesAsBefore, Occupies, Undoing
  <2> QED
    BY <1>2, <2>1, RequestDebts
<1> QED
  BY <1>1, <1>2

\* Whatever else happens touches no debt; a counter that is lost or written is
\* paid for.
LEMMA OtherSteps ==
    ASSUME IInv, [Next]_vars, repairs' <= MaxRepairs, NEW u \in Users
    PROVE  \/ \E r \in Ids : DebtChange(r) /\ \A x \in Ids \ {r} : OwesAsBefore(x)
           \/ Debts(u)' = Debts(u) /\ counter'[u] = counter[u]
           \/ Debts(u)' = Debts(u) /\ faults' = faults + 1
           \/ Debts(u)' = Debts(u) /\ repairs' = repairs + 1
<1>1. counter \in [Users -> Nat] /\ repairs \in 0..MaxRepairs + 1
  BY DEF IInv, TypeOK
<1>2. ASSUME docs' = docs, reqs' = reqs, ends' = ends PROVE Debts(u)' = Debts(u)
  BY <1>2 DEF Debts, Owes, User, Occupies, Undoing
<1>3. CASE Idle \/ UNCHANGED vars
  <2>1. docs' = docs /\ reqs' = reqs /\ ends' = ends /\ counter' = counter
    BY <1>3 DEF Idle, vars, limiterVars
  <2> QED
    BY <1>2, <2>1
<1>4. ASSUME NEW r \in Ids,
             \/ Arrive(r) \/ RequestStep(r) \/ WorkerStep(r)
             \/ AcquireFails(r) \/ InsertFails(r) \/ RequestEnds(r) \/ WorkerDies(r)
      PROVE  DebtChange(r) /\ \A x \in Ids \ {r} : OwesAsBefore(x)
  BY <1>4, ActorDebts
<1>5. ASSUME NEW s \in Sweepers, ReconcileStep(s)
      PROVE  /\ Debts(u)' = Debts(u)
             /\ counter'[u] = counter[u] \/ repairs' = repairs + 1
  <2>1. docs' = docs /\ reqs' = reqs /\ ends' = ends
    BY <1>5 DEF ReconcileStep
  <2>2. counter' = counter \/ CountRepair
    BY <1>5 DEF ReconcileStep
  <2> QED
    BY <1>1, <1>2, <2>1, <2>2, RepairCounted
<1>6. ASSUME NEW s \in Sweepers, ReconcileAborts(s)
      PROVE  Debts(u)' = Debts(u) /\ counter'[u] = counter[u]
  <2>1. docs' = docs /\ reqs' = reqs /\ ends' = ends /\ counter' = counter
    BY <1>6 DEF ReconcileAborts
  <2> QED
    BY <1>2, <2>1
<1>7. ASSUME NEW k \in Keys, LoseGuard(k) \/ LoseSummary(k)
      PROVE  Debts(u)' = Debts(u) /\ counter'[u] = counter[u]
  <2>1. docs' = docs /\ reqs' = reqs /\ ends' = ends /\ counter' = counter
    BY <1>7 DEF LoseGuard, LoseSummary, limiterVars
  <2> QED
    BY <1>2, <2>1
<1>8. ASSUME NEW v \in Users, LoseCounter(v)
      PROVE  Debts(u)' = Debts(u) /\ faults' = faults + 1
  <2>1. docs' = docs /\ reqs' = reqs /\ ends' = ends /\ faults' = faults + 1
    BY <1>8 DEF LoseCounter, Fault
  <2> QED
    BY <1>2, <2>1
<1>9. CASE Failure
  BY <1>4, <1>6, <1>7, <1>8, <1>9 DEF Failure
<1>10. CASE \/ \E r \in Ids : Arrive(r) \/ RequestStep(r) \/ WorkerStep(r)
            \/ \E s \in Sweepers : ReconcileStep(s)
  BY <1>4, <1>5, <1>10
<1> QED
  BY <1>3, <1>9, <1>10 DEF Next

LEMMA DebtStep ==
    ASSUME IInv, DebtInv, [Next]_vars
    PROVE  DebtInv'
<1> DEFINE Known(c) == IF c < Limit THEN c ELSE Limit
<1>1. SUFFICES ASSUME repairs' <= MaxRepairs, NEW u \in Users
               PROVE  Cardinality(Debts(u)') <= Known(counter'[u]) + Limit * Mishaps'
  BY DEF DebtInv
<1> DEFINE c == counter[u]
           d == counter'[u]
           before == Cardinality(Debts(u))
           after == Cardinality(Debts(u)')
           cost == Limit * Mishaps
           paid == Limit * Mishaps'
<1>2. /\ c \in Nat /\ d \in Nat /\ Limit \in Nat \ {0}
      /\ Mishaps \in Nat /\ Mishaps' \in Nat
  BY <1>1, StepTyped, LimitAssumption, SubmissionAssumption DEF IInv, TypeOK, Mishaps
<1>3. before <= Known(c) + cost
  BY <1>1, MishapsGrow DEF DebtInv
<1>4. Mishaps' = Mishaps \/ Mishaps' = Mishaps + 1
  BY <1>1, MishapsGrow
<1>5. cost \in Nat /\ paid \in Nat
  <2>1. ASSUME NEW m \in Nat, NEW n \in Nat PROVE m * n \in Nat
    OBVIOUS
  <2> QED
    BY <1>2, <2>1
<1>6. Mishaps' = Mishaps + 1 => paid = cost + Limit
  BY <1>2
<1>7. paid = cost \/ paid = cost + Limit
  BY <1>4, <1>6
<1>8. before \in Nat /\ after \in Nat
  <2>1. Debts(u)' \in SUBSET (Ids \X {"slot", "undo"})
    BY DEF Debts
  <2> QED
    BY <2>1, DebtsFinite, PairsFinite
<1>9. \/ after <= before /\ d = c
      \/ after <= before + 1 /\ c < Limit /\ d = c + 1
      \/ after <= before - 1 /\ d = IF c = 0 THEN 0 ELSE c - 1
      \/ /\ after <= before + 1 /\ paid = cost + Limit
         /\ d = c \/ (c < Limit /\ d = c + 1)
      \/ after <= before /\ paid = cost + Limit
  <2>1. ASSUME NEW S, S \subseteq Debts(u) PROVE Cardinality(S) <= before
    BY <2>1, DebtsFinite, FS_Subset
  <2>2. /\ faults' = faults + 1 => paid = cost + Limit
        /\ repairs' = repairs + 1 => paid = cost + Limit
    BY <1>1, <1>6, MishapsGrow
  <2>3. ASSUME NEW r \in Ids, DebtChange(r), \A x \in Ids \ {r} : OwesAsBefore(x),
               User(r) # u
        PROVE  after <= before /\ d = c
    <3>1. Debts(u)' \subseteq Debts(u) /\ counter'[u] = counter[u]
      BY <1>1, <2>3, OthersDebts
    <3> QED
      BY <2>1, <3>1
  <2>4. ASSUME NEW r \in Ids, DebtChange(r), \A x \in Ids \ {r} : OwesAsBefore(x),
               User(r) = u
        PROVE  \/ after <= before /\ d = c
               \/ after <= before + 1 /\ c < Limit /\ d = c + 1
               \/ after <= before - 1 /\ d = IF c = 0 THEN 0 ELSE c - 1
               \/ /\ after <= before + 1 /\ faults' = faults + 1
                  /\ d = c \/ (c < Limit /\ d = c + 1)
    BY <1>1, <2>4, OwnDebts
  <2>5. Debts(u)' = Debts(u) => after <= before
    BY <2>1
  <2>6. \/ \E r \in Ids : DebtChange(r) /\ \A x \in Ids \ {r} : OwesAsBefore(x)
        \/ Debts(u)' = Debts(u) /\ d = c
        \/ Debts(u)' = Debts(u) /\ faults' = faults + 1
        \/ Debts(u)' = Debts(u) /\ repairs' = repairs + 1
    BY <1>1, OtherSteps
  <2> HIDE DEF c, d, before, after, cost, paid
  <2> QED
    BY <2>2, <2>3, <2>4, <2>5, <2>6
<1> HIDE DEF c, d, before, after, cost, paid
<1>10. after <= Known(d) + paid
  BY <1>2, <1>3, <1>5, <1>7, <1>8, <1>9
<1> QED
  BY <1>10 DEF d, after, paid

LEMMA DebtInit == Init => DebtInv
<1> SUFFICES ASSUME Init, NEW u \in Users
             PROVE  Cardinality(Debts(u)) <=
                        (IF counter[u] < Limit THEN counter[u] ELSE Limit)
                            + Limit * Mishaps
  BY DEF DebtInv
<1>1. \A r \in Ids : ~Occupies(r) /\ ~Undoing(r)
  BY DEF Init, Occupies, Undoing, Absent
<1>2. Debts(u) = {}
  BY <1>1 DEF Debts, Owes
<1>3. Cardinality(Debts(u)) = 0
  BY <1>2, FS_EmptySet
<1>4. counter[u] = 0 /\ Mishaps = 0
  BY DEF Init, Mishaps
<1> QED
  BY <1>3, <1>4, LimitAssumption

\* Each failure, and each counter that a reconciler writes, costs a user at most
\* one more limit's worth of active documents, for any number of either; without
\* them the limit holds.
THEOREM LimitIsPaid == Spec => []LimitPaid
<1>1. Spec => [](IInv /\ DebtInv)
  <2>1. IInv /\ DebtInv /\ [Next]_vars => DebtInv'
    BY DebtStep
  <2> QED
    BY <2>1, DebtInit, Inductive, PTL DEF Spec
<1>2. ASSUME IInv, DebtInv PROVE LimitPaid
  <2>1. SUFFICES ASSUME repairs <= MaxRepairs, NEW u \in Users
                 PROVE  Cardinality(ActiveDocs(u)) <= Limit * (faults + repairs + 1)
    BY DEF LimitPaid
  <2> DEFINE slots == {<<r, "slot">> : r \in ActiveDocs(u)}
             held == Cardinality(ActiveDocs(u))
             owed == Cardinality(Debts(u))
             cost == Limit * Mishaps
  <2>2. slots \subseteq Debts(u)
    BY DEF ActiveDocs, Debts, Owes, Occupies
  <2>3. IsFiniteSet(ActiveDocs(u)) /\ IsFiniteSet(Debts(u)) /\ IsFiniteSet(slots)
    <3>1. ActiveDocs(u) \subseteq Ids
      BY DEF ActiveDocs
    <3>2. IsFiniteSet(Debts(u))
      BY DebtsFinite
    <3> QED
      BY <2>2, <3>1, <3>2, FS_Subset, SubmissionAssumption
  <2>4. held <= Cardinality(slots)
    <3>1. [r \in ActiveDocs(u) |-> <<r, "slot">>] \in Injection(ActiveDocs(u), slots)
      BY DEF Injection, IsInjective
    <3> QED
      BY <2>3, <3>1, FS_Injection DEF ExistsInjection
  <2>5. Cardinality(slots) <= owed
    BY <2>2, <2>3, FS_Subset
  <2>6. owed <= (IF counter[u] < Limit THEN counter[u] ELSE Limit) + cost
    BY <1>2, <2>1 DEF DebtInv
  <2>7. counter[u] \in Nat /\ Limit \in Nat /\ faults \in Nat /\ repairs \in Nat
    BY <1>2, LimitAssumption, SubmissionAssumption DEF IInv, TypeOK
  <2>8. cost \in Nat /\ Limit * (faults + repairs + 1) = cost + Limit
    <3>1. ASSUME NEW n \in Nat
          PROVE  Limit * n \in Nat /\ Limit * (n + 1) = Limit * n + Limit
      BY <2>7
    <3>2. faults + repairs \in Nat
      BY <2>7
    <3> QED
      BY <3>1, <3>2 DEF Mishaps
  <2>9. held \in Nat /\ Cardinality(slots) \in Nat /\ owed \in Nat
    BY <2>3, FS_CardinalityType
  <2> HIDE DEF slots, held, owed, cost
  <2>10. held <= cost + Limit
    BY <2>4, <2>5, <2>6, <2>7, <2>8, <2>9
  <2> QED
    BY <2>8, <2>10 DEF held
<1> QED
  BY <1>1, <1>2, PTL
=============================================================================
