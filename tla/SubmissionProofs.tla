-------------------------- MODULE SubmissionProofs --------------------------
(***************************************************************************)
(* What TLAPS proves of Submission, for any numbers of requests, users,    *)
(* contents, sweepers and failures, and for any limit.                     *)
(***************************************************************************)
EXTENDS Submission, FiniteSetTheorems, TLAPS

-----------------------------------------------------------------------------
(* Types                                                                   *)

\* A request that moves keeps its key, and no other request moves.
LEMMA GoesFacts ==
    ASSUME reqs \in [Ids -> Request], NEW r \in Ids, NEW from,
           NEW to \in Awaits \cup Answers, Goes(r, from, to)
    PROVE  /\ reqs' \in [Ids -> Request]
           /\ reqs[r].pc = from /\ reqs'[r].pc = to
           /\ \A x \in Ids : reqs'[x].key = reqs[x].key
           /\ \A x \in Ids : /\ reqs'[x].found = reqs[x].found
                             /\ reqs'[x].winner = reqs[x].winner
           /\ \A x \in Ids \ {r} : reqs'[x] = reqs[x]
  BY DEF Goes, Request

\* So does one that found a summary.
LEMMA FoundFacts ==
    ASSUME reqs \in [Ids -> Request], NEW r \in Ids, NEW summary \in Summary,
           NEW to \in Awaits,
           reqs' = [reqs EXCEPT ![r].pc = to, ![r].found = summary]
    PROVE  /\ reqs' \in [Ids -> Request]
           /\ reqs'[r].pc = to /\ reqs'[r].found = summary
           /\ \A x \in Ids : /\ reqs'[x].key = reqs[x].key
                             /\ reqs'[x].winner = reqs[x].winner
           /\ \A x \in Ids \ {r} : reqs'[x] = reqs[x]
  BY DEF Request

\* And one that read the guard.
LEMMA ReadFacts ==
    ASSUME TypeOK, NEW r \in Ids, ReadGuard(r)
    PROVE  /\ reqs' \in [Ids -> Request]
           /\ reqs[r].pc = "reading"
           /\ \/ reqs'[r].pc = "acquiring" /\ reqs'[r].winner = reqs[r].winner
              \/ /\ reqs'[r].pc = "joining" /\ guard[Key(r)] # NoId
                 /\ reqs'[r].winner = guard[Key(r)]
           /\ \A x \in Ids : /\ reqs'[x].key = reqs[x].key
                             /\ reqs'[x].found = reqs[x].found
           /\ \A x \in Ids \ {r} : reqs'[x] = reqs[x]
<1>1. /\ reqs \in [Ids -> Request]
      /\ guard[Key(r)] \in Ids \cup {NoId}
  BY SubmissionAssumption DEF TypeOK, Key, Request
<1>2. CASE Goes(r, "reading", "acquiring")
  BY <1>1, <1>2, GoesFacts DEF Awaits
<1>3. CASE /\ guard[Key(r)] # NoId /\ reqs[r].pc = "reading"
           /\ reqs' = [reqs EXCEPT ![r].pc = "joining",
                                   ![r].winner = guard[Key(r)]]
  BY <1>1, <1>3 DEF Request, Awaits
<1> QED
  BY <1>2, <1>3 DEF ReadGuard

\* What a duplicate is answered depends on whether the winner is there.
LEMMA JoinGoes ==
    ASSUME NEW r, Join(r)
    PROVE  \E to \in {"joined", "settling"} :
              /\ Goes(r, "joining", to)
              /\ to = "joined" <=> docs[reqs[r].winner].status # "absent"
  BY DEF Join

LEMMA FaultTyped ==
    ASSUME faults \in 0..MaxFaults, NEW kind, Fault(kind)
    PROVE  faults' \in 0..MaxFaults /\ faults' # 0
  BY SubmissionAssumption DEF Fault

LEMMA KeyTyped ==
    ASSUME TypeOK, NEW r \in Ids
    PROVE  Key(r) \in Keys /\ User(r) \in Users
  BY SubmissionAssumption DEF TypeOK, Key, User, Request

LEMMA SummaryTyped ==
    ASSUME NEW r \in Ids, NEW summary \in Summary
    PROVE  /\ NoSummary \in Summary /\ Generated(r) \in Summary
           /\ AsDuplicate(summary, r) \in Summary
  BY DEF NoSummary, Generated, AsDuplicate, Summary

LEMMA CountTyped ==
    ASSUME TypeOK
    PROVE  ActiveCount \in [Users -> Nat]
<1>1. ASSUME NEW u \in Users PROVE Cardinality(ActiveDocs(u)) \in Nat
  <2>1. ActiveDocs(u) \in SUBSET Ids
    BY DEF ActiveDocs
  <2> QED
    BY <2>1, FS_Subset, FS_CardinalityType, SubmissionAssumption
<1> QED
  BY <1>1 DEF ActiveCount

LEMMA CounterTyped ==
    ASSUME TypeOK, NEW u \in Users
    PROVE  /\ Increment(u) => counter' \in [Users -> Nat]
           /\ Decrement(u) => counter' \in [Users -> Nat]
<1>1. counter[u] + 1 \in Nat
  BY DEF TypeOK
<1>2. counter[u] # 0 => counter[u] - 1 \in Nat
  BY DEF TypeOK
<1> QED
  BY <1>1, <1>2 DEF TypeOK, Increment, Decrement

LEMMA InitTyped == Init => TypeOK
<1>1. NoSummary \in Summary
  BY DEF NoSummary, Summary
<1> SUFFICES ASSUME Init PROVE TypeOK
  OBVIOUS
<1>2. reqs \in [Ids -> Request]
  BY <1>1 DEF Init, Request
<1>3. docs \in [Ids -> Document]
  BY <1>1 DEF Init, Document, Absent
<1>4. rec \in [Sweepers -> Pass]
  BY DEF Init, Pass, NoPass
<1>5. faults \in 0..MaxFaults /\ repairs \in 0..MaxRepairs + 1
  BY SubmissionAssumption DEF Init
<1> QED
  BY <1>1, <1>2, <1>3, <1>4, <1>5 DEF Init, TypeOK

LEMMA RequestTyped ==
    ASSUME TypeOK, NEW r \in Ids, Arrive(r) \/ RequestStep(r)
    PROVE  TypeOK'
<1> USE DEF TypeOK
<1>1. Key(r) \in Keys /\ User(r) \in Users
  BY KeyTyped
<1>2. ASSUME NEW kind, Fault(kind) PROVE faults' \in 0..MaxFaults
  BY <1>2, FaultTyped
<1>3. ASSUME NEW from, NEW to \in Awaits \cup Answers, Goes(r, from, to)
      PROVE  reqs' \in [Ids -> Request]
  BY <1>3, GoesFacts
<1>4. ASSUME NEW d \in Ids
      PROVE  NoSummary \in Summary /\ Generated(d) \in Summary
  BY DEF NoSummary, Generated, Summary
<1>5. CASE Arrive(r)
  BY <1>3, <1>5 DEF Arrive, limiterVars, cacheVars, Awaits
<1>6. CASE Lookup(r)
  <2>1. reqs' \in [Ids -> Request]
    BY <1>1, <1>3, <1>6, FoundFacts DEF Lookup, Awaits
  <2>2. faults' \in 0..MaxFaults
    BY <1>2, <1>6 DEF Lookup
  <2> QED
    BY <1>6, <2>1, <2>2 DEF Lookup, limiterVars, cacheVars
<1>7. CASE Fallback(r)
  <2>1. reqs' \in [Ids -> Request]
    BY <1>3, <1>4, <1>7, FoundFacts DEF Fallback, Awaits, Processed
  <2> QED
    BY <1>7, <2>1 DEF Fallback, limiterVars, cacheVars
<1>8. CASE Restore(r)
  <2>1. cache' \in [Keys -> Summary]
    BY <1>1, <1>8 DEF Restore, CacheSet, Request
  <2>2. reqs' \in [Ids -> Request] /\ faults' \in 0..MaxFaults
    BY <1>2, <1>3, <1>8 DEF Restore, Awaits
  <2> QED
    BY <1>8, <2>1, <2>2 DEF Restore, limiterVars
<1>9. CASE StoreHit(r)
  <2>1. docs' \in [Ids -> Document]
    BY <1>9, SummaryTyped DEF StoreHit, Document, Request
  <2>2. reqs' \in [Ids -> Request]
    BY <1>3, <1>9 DEF StoreHit, Answers
  <2> QED
    BY <1>9, <2>1, <2>2 DEF StoreHit, limiterVars, cacheVars
<1>10. CASE Reserve(r)
  <2>1. guard' \in [Keys -> Ids \cup {NoId}]
    BY <1>1, <1>10 DEF Reserve, TakeGuard
  <2>2. reqs' \in [Ids -> Request] /\ faults' \in 0..MaxFaults
    BY <1>2, <1>3, <1>10 DEF Reserve, Awaits
  <2> QED
    BY <1>10, <2>1, <2>2 DEF Reserve, limiterVars
<1>11. CASE ReadGuard(r) \/ Join(r)
  <2>1. reqs' \in [Ids -> Request] /\ faults' \in 0..MaxFaults
    <3>1. CASE ReadGuard(r)
      BY <1>2, <3>1, ReadFacts DEF ReadGuard
    <3>2. CASE Join(r)
      BY <1>3, <3>2, JoinGoes DEF Join, Answers
    <3> QED
      BY <1>11, <3>1, <3>2
  <2> QED
    BY <1>11, <2>1 DEF ReadGuard, Join, limiterVars, cacheVars
<1>12. CASE Acquire(r)
  <2>1. counter' \in [Users -> Nat]
    BY <1>1, <1>12, CounterTyped DEF Acquire
  <2>2. reqs' \in [Ids -> Request]
    BY <1>3, <1>12 DEF Acquire, Awaits
  <2> QED
    BY <1>12, <2>1, <2>2 DEF Acquire, cacheVars
<1>13. CASE CountActive(r)
  <2>1. reqs' \in [Ids -> Request]
    <3>1. PICK to \in {"inserting", "refusing"} : Goes(r, "counting", to)
      BY <1>13 DEF CountActive
    <3> QED
      BY <1>3, <3>1 DEF Awaits
  <2> QED
    BY <1>13, <2>1 DEF CountActive, limiterVars, cacheVars
<1>14. CASE Refuse(r) \/ UndoGuard(r)
  <2>1. guard' \in [Keys -> Ids \cup {NoId}]
    BY <1>1, <1>14 DEF Refuse, UndoGuard, DropGuard
  <2>2. reqs' \in [Ids -> Request] /\ faults' \in 0..MaxFaults
    BY <1>2, <1>3, <1>14 DEF Refuse, UndoGuard, Answers
  <2> QED
    BY <1>14, <2>1, <2>2 DEF Refuse, UndoGuard, limiterVars
<1>15. CASE Insert(r)
  <2>1. docs' \in [Ids -> Document]
    BY <1>15 DEF Insert, Document
  <2>2. reqs' \in [Ids -> Request]
    BY <1>3, <1>15 DEF Insert, Awaits
  <2> QED
    BY <1>15, <2>1, <2>2 DEF Insert, limiterVars, cacheVars
<1>16. CASE Publish(r)
  <2>1. reqs' \in [Ids -> Request] /\ faults' \in 0..MaxFaults
    BY <1>2, <1>3, <1>16 DEF Publish, Awaits, Answers
  <2> QED
    BY <1>16, <2>1 DEF Publish, limiterVars, cacheVars
<1>17. CASE UndoSlot(r)
  <2>1. counter' \in [Users -> Nat]
    BY <1>1, <1>17, CounterTyped DEF UndoSlot
  <2>2. reqs' \in [Ids -> Request] /\ faults' \in 0..MaxFaults
    BY <1>2, <1>3, <1>17 DEF UndoSlot, Awaits
  <2> QED
    BY <1>17, <2>1, <2>2 DEF UndoSlot, cacheVars
<1> QED
  BY <1>5, <1>6, <1>7, <1>8, <1>9, <1>10, <1>11, <1>12, <1>13, <1>14, <1>15,
     <1>16, <1>17 DEF RequestStep

LEMMA WorkerTyped ==
    ASSUME TypeOK, NEW d \in Ids, WorkerStep(d) \/ WorkerDies(d)
    PROVE  TypeOK'
<1> USE DEF TypeOK
<1>1. Key(d) \in Keys /\ User(d) \in Users
  BY KeyTyped
<1>2. ASSUME NEW kind, Fault(kind) PROVE faults' \in 0..MaxFaults
  BY <1>2, FaultTyped
<1>3. ASSUME NEW from, NEW to \in {"releasing", "unguarding", "none"},
             EndGoes(d, from, to)
      PROVE  ends' \in [Ids -> {"none", "caching", "releasing", "unguarding"}]
  BY <1>3 DEF EndGoes
<1>4. CASE Complete(d) \/ MarkFailed(d)
  <2>1. docs' \in [Ids -> Document]
    <3>1. CASE Complete(d)
      <4>1. Generated(d) \in Summary
        BY DEF Generated, Summary
      <4>2. docs' = [docs EXCEPT ![d] = [docs[d] EXCEPT !.status = "completed",
                                                    !.summary = Generated(d)]]
        BY <3>1 DEF Complete
      <4>3. [docs[d] EXCEPT !.status = "completed", !.summary = Generated(d)]
               \in Document
        BY <4>1 DEF Document
      <4> QED
        BY <4>2, <4>3
    <3>2. CASE MarkFailed(d)
      BY <3>2 DEF MarkFailed, Document
    <3> QED
      BY <1>4, <3>1, <3>2
  <2>2. ends' \in [Ids -> {"none", "caching", "releasing", "unguarding"}]
    BY <1>4 DEF Complete, MarkFailed
  <2> QED
    BY <1>4, <2>1, <2>2 DEF Complete, MarkFailed, limiterVars, cacheVars
<1>5. CASE CacheSummary(d)
  <2>1. cache' \in [Keys -> Summary]
    BY <1>1, <1>5 DEF CacheSummary, CacheSet, Document
  <2> QED
    BY <1>2, <1>3, <1>5, <2>1 DEF CacheSummary, limiterVars
<1>6. CASE ReleaseSlot(d)
  <2>1. counter' \in [Users -> Nat]
    BY <1>1, <1>6, CounterTyped DEF ReleaseSlot
  <2> QED
    BY <1>2, <1>3, <1>6, <2>1 DEF ReleaseSlot, cacheVars
<1>7. CASE ReleaseGuard(d)
  <2>1. guard' \in [Keys -> Ids \cup {NoId}]
    BY <1>1, <1>7 DEF ReleaseGuard, DropGuard
  <2> QED
    BY <1>2, <1>3, <1>7, <2>1 DEF ReleaseGuard, limiterVars
<1>8. CASE WorkerDies(d)
  BY <1>2, <1>8 DEF WorkerDies, limiterVars, cacheVars
<1> QED
  BY <1>4, <1>5, <1>6, <1>7, <1>8 DEF WorkerStep

LEMMA RepairCounted ==
    ASSUME repairs \in 0..MaxRepairs + 1, CountRepair
    PROVE  /\ repairs' \in 0..MaxRepairs + 1 /\ repairs' # 0
           /\ repairs' <= MaxRepairs =>
                  repairs <= MaxRepairs /\ repairs' = repairs + 1
  BY SubmissionAssumption DEF CountRepair

LEMMA ReconcileTyped ==
    ASSUME TypeOK, NEW s \in Sweepers, ReconcileStep(s) \/ ReconcileAborts(s)
    PROVE  TypeOK'
<1> USE DEF TypeOK
<1>1. NoPass \in Pass
  BY DEF NoPass, Pass
<1>2. CASE ReconcileStep(s)
  <2>1. CASE Aggregate(s, ActiveCount) /\ UNCHANGED <<counter, repairs>>
    <3>1. rec' \in [Sweepers -> Pass]
      BY <2>1, CountTyped DEF Aggregate, Listed, Pass
    <3> QED
      BY <1>2, <2>1, <3>1 DEF ReconcileStep, cacheVars
  <2>2. ASSUME NEW u \in Users, Compare(s, u), UNCHANGED <<counter, repairs>>
        PROVE  TypeOK'
    <3>1. rec' \in [Sweepers -> Pass]
      <4>1. PICK look \in SUBSET Users, repair \in SUBSET Users :
               rec' = [rec EXCEPT ![s] = [rec[s] EXCEPT !.look = look,
                                                        !.repair = repair]]
        <5>1. rec' = [rec EXCEPT ![s] =
                         [rec[s] EXCEPT
                            !.look = rec[s].look \ {u},
                            !.repair = IF Differs(s, u) THEN {u} ELSE {}]]
          BY <2>2 DEF Compare
        <5>2. rec[s].look \ {u} \in SUBSET Users
          BY DEF Pass
        <5>3. (IF Differs(s, u) THEN {u} ELSE {}) \in SUBSET Users
          OBVIOUS
        <5> QED
          BY <5>1, <5>2, <5>3
      <4>2. [rec[s] EXCEPT !.look = look, !.repair = repair] \in Pass
        <5>1. ASSUME NEW pass \in Pass
              PROVE  [pass EXCEPT !.look = look, !.repair = repair] \in Pass
          BY DEF Pass
        <5> QED
          BY <5>1
      <4> QED
        BY <4>1, <4>2
    <3> QED
      BY <1>2, <2>2, <3>1 DEF ReconcileStep, cacheVars
  <2>3. ASSUME NEW u \in Users, Repair(s, u), CountRepair
        PROVE  TypeOK'
    <3>1. rec' \in [Sweepers -> Pass]
      BY <2>3 DEF Repair, Pass
    <3>2. counter' \in [Users -> Nat] /\ repairs' \in 0..MaxRepairs + 1
      BY <2>3, RepairCounted DEF Repair, Pass
    <3> QED
      BY <1>2, <2>3, <3>1, <3>2 DEF ReconcileStep, cacheVars
  <2>4. ASSUME NEW u \in Users, Scan(s, u),
               IF counter' = counter THEN UNCHANGED repairs ELSE CountRepair
        PROVE  TypeOK'
    <3>1. rec' \in [Sweepers -> Pass]
      BY <1>1, <2>4 DEF Scan, Scanned, Pass
    <3>2. counter' \in [Users -> Nat] /\ repairs' \in 0..MaxRepairs + 1
      BY <2>4, RepairCounted DEF Scan
    <3> QED
      BY <1>2, <2>4, <3>1, <3>2 DEF ReconcileStep, cacheVars
  <2> QED
    BY <1>2, <2>1, <2>2, <2>3, <2>4 DEF ReconcileStep
<1>3. CASE ReconcileAborts(s)
  BY <1>1, <1>3, FaultTyped DEF ReconcileAborts, cacheVars
<1> QED
  BY <1>2, <1>3

LEMMA FailureTyped ==
    ASSUME TypeOK, Failure
    PROVE  TypeOK'
<1> USE DEF TypeOK
<1>1. ASSUME NEW r \in Ids, AcquireFails(r) PROVE TypeOK'
  <2>1. counter' \in [Users -> Nat]
    BY <1>1, KeyTyped, CounterTyped DEF AcquireFails
  <2>2. reqs' \in [Ids -> Request] /\ faults' \in 0..MaxFaults
    BY <1>1, GoesFacts, FaultTyped DEF AcquireFails, Awaits
  <2> QED
    BY <1>1, <2>1, <2>2 DEF AcquireFails, cacheVars
<1>2. ASSUME NEW r \in Ids, InsertFails(r) PROVE TypeOK'
  <2>1. docs' \in [Ids -> Document]
    BY <1>2 DEF InsertFails, Document
  <2>2. reqs' \in [Ids -> Request] /\ faults' \in 0..MaxFaults
    BY <1>2, GoesFacts, FaultTyped DEF InsertFails, Awaits
  <2> QED
    BY <1>2, <2>1, <2>2 DEF InsertFails, limiterVars, cacheVars
<1>3. ASSUME NEW r \in Ids, RequestEnds(r) PROVE TypeOK'
  <2>1. reqs' \in [Ids -> Request] /\ faults' \in 0..MaxFaults
    BY <1>3, FaultTyped DEF RequestEnds, Request, Answers
  <2> QED
    BY <1>3, <2>1 DEF RequestEnds, limiterVars, cacheVars
<1>4. ASSUME NEW k \in Keys, LoseGuard(k) \/ LoseSummary(k) PROVE TypeOK'
  <2>1. NoSummary \in Summary
    BY DEF NoSummary, Summary
  <2> QED
    BY <1>4, <2>1, FaultTyped
       DEF LoseGuard, LoseSummary, DropGuard, CacheSet, limiterVars
<1>5. ASSUME NEW u \in Users, LoseCounter(u) PROVE TypeOK'
  BY <1>5, FaultTyped DEF LoseCounter, cacheVars
<1> QED
  BY <1>1, <1>2, <1>3, <1>4, <1>5, WorkerTyped, ReconcileTyped DEF Failure

LEMMA StepTyped ==
    ASSUME TypeOK, [Next]_vars
    PROVE  TypeOK'
<1>1. CASE Idle \/ UNCHANGED vars
  BY <1>1 DEF TypeOK, Idle, vars, limiterVars, cacheVars
<1> QED
  BY <1>1, RequestTyped, WorkerTyped, ReconcileTyped, FailureTyped DEF Next

\* Every reachable state is well typed; in particular no counter is negative,
\* whatever is released twice or lost.
THEOREM SubmissionTyped == Spec => []TypeOK
<1> QED
  BY InitTyped, StepTyped, PTL DEF Spec

-----------------------------------------------------------------------------
(* The inductive invariant: SlotsCounted, GuardNamesLive and               *)
(* OriginProcessed need to know where a document, its end and the summary  *)
(* that a request found stand while the request is on its way.             *)

\* A document is there only after its request inserted or stored it.
BeforeInv ==
    \A r \in Ids :
        reqs[r].pc \notin {"publishing", "undoSlot", "undoGuard", "created",
                          "hit", "failed", "lost"}
            => docs[r] = Absent /\ ends[r] = "none"

\* Only a processed document has an end, and until its summary is cached that
\* is its own.
EndsInv ==
    \A r \in Ids :
        /\ docs[r].status \in {"absent", "active"} =>
               ends[r] = "none" /\ ~docs[r].fromCache
        /\ ends[r] = "caching" =>
               r \in Processed(Key(r)) /\ docs[r].summary = Generated(r)

\* The paths of a failure are taken after a failure.
FaultInv ==
    faults = 0 => \A r \in Ids : reqs[r].pc \notin {"counting", "undoSlot",
                                                  "undoGuard"}

\* A request of some key, or Redis under it, holds the summary of a document
\* that was processed for it.
Origins(k) == {Generated(d) : d \in Processed(k)}

FoundInv ==
    /\ \A r \in Ids : reqs[r].pc \in {"restoring", "storing"} =>
                         reqs[r].found \in Origins(Key(r))
    /\ \A k \in Keys : cache[k] \in Origins(k) \cup {NoSummary}
    /\ \A r \in Ids : docs[r].fromCache =>
                         docs[r].summary.origin \in Processed(Key(r))

IInv == /\ TypeOK /\ BeforeInv /\ EndsInv /\ FaultInv /\ FoundInv
        /\ SlotsCounted /\ GuardNamesLive


-----------------------------------------------------------------------------
(* What a step does to one document                                        *)

Early == {"new", "lookup", "fallback", "restoring", "storing", "reserving",
          "reading", "joining", "acquiring", "counting", "refusing",
          "inserting", "joined", "settling", "limited"}

Stays(d) == docs'[d] = docs[d] /\ ends'[d] = ends[d]

Becomes(d, status, fromCache, summary) ==
    /\ docs'[d].status = status
    /\ docs'[d].fromCache = fromCache
    /\ docs'[d].summary = summary

Move(d) ==
    \/ Stays(d) /\ (reqs'[d].pc \in Early => reqs[d].pc \in Early)
    \/ /\ reqs[d].pc = "storing" /\ reqs'[d].pc = "hit"
       /\ Becomes(d, "completed", TRUE, AsDuplicate(reqs[d].found, d))
       /\ ends'[d] = ends[d]
    \/ /\ reqs[d].pc = "inserting" /\ reqs'[d].pc \in {"publishing", "undoSlot"}
       /\ Becomes(d, "active", docs[d].fromCache, docs[d].summary)
       /\ ends'[d] = ends[d]
    \/ /\ docs[d].status = "active" /\ reqs'[d] = reqs[d]
       /\ Becomes(d, "completed", docs[d].fromCache, Generated(d))
       /\ ends'[d] = "caching"
    \/ /\ docs[d].status = "active" /\ reqs'[d] = reqs[d]
       /\ Becomes(d, "failed", docs[d].fromCache, docs[d].summary)
       /\ ends'[d] = "releasing"
    \/ /\ ends[d] # "none" /\ reqs'[d] = reqs[d]
       /\ docs'[d] = docs[d]
       /\ ends'[d] \in {"releasing", "unguarding", "none"}

LEMMA RequestMoves ==
    ASSUME TypeOK, NEW r \in Ids, NEW d \in Ids,
           \/ Arrive(r) \/ RequestStep(r)
           \/ AcquireFails(r) \/ InsertFails(r) \/ RequestEnds(r)
    PROVE  Move(d) /\ reqs'[d].key = reqs[d].key
<1>1. ASSUME NEW from \in Early, NEW to \in Awaits \cup Answers,
             Goes(r, from, to), UNCHANGED <<docs, ends>>
      PROVE  Move(d) /\ reqs'[d].key = reqs[d].key
  <2>1. /\ reqs'[r].pc = to /\ reqs'[d].key = reqs[d].key
        /\ reqs[r].pc = from
        /\ d # r => reqs'[d] = reqs[d]
    BY <1>1, GoesFacts DEF TypeOK
  <2> QED
    BY <1>1, <2>1 DEF Move, Stays
<1>2. ASSUME NEW from, NEW to \in {"undoSlot", "undoGuard", "created", "failed"},
             Goes(r, from, to), UNCHANGED <<docs, ends>>
      PROVE  Move(d) /\ reqs'[d].key = reqs[d].key
  BY <1>2, GoesFacts DEF Move, Stays, Becomes, TypeOK, Awaits, Answers, Early
<1>3. ASSUME NEW summary \in Summary, NEW from \in Early, NEW to \in Awaits,
             reqs[r].pc = from, UNCHANGED <<docs, ends>>,
             reqs' = [reqs EXCEPT ![r].pc = to, ![r].found = summary]
      PROVE  Move(d) /\ reqs'[d].key = reqs[d].key
  BY <1>3, FoundFacts DEF Move, Stays, Becomes, TypeOK
<1>4. CASE Arrive(r)
  BY <1>1, <1>4 DEF Arrive, Awaits, Early
<1>5. CASE Lookup(r)
  <2>1. cache[Key(r)] \in Summary
    BY KeyTyped DEF TypeOK
  <2> QED
    BY <1>1, <1>3, <1>5, <2>1 DEF Lookup, Awaits, Early
<1>6. CASE Fallback(r)
  <2>1. CASE Goes(r, "fallback", "reserving")
    BY <1>1, <1>6, <2>1 DEF Fallback, Awaits, Early
  <2>2. CASE ~Goes(r, "fallback", "reserving")
    <3>1. PICK x \in Ids : /\ reqs[r].pc = "fallback"
                           /\ reqs' = [reqs EXCEPT ![r].pc = "restoring",
                                                  ![r].found = Generated(x)]
      BY <1>6, <2>2 DEF Fallback, Processed
    <3>2. Generated(x) \in Summary
      BY DEF Generated, Summary
    <3> QED
      BY <1>3, <1>6, <3>1, <3>2 DEF Fallback, Awaits, Early
  <2> QED
    BY <2>1, <2>2
<1>7. CASE Restore(r) \/ Reserve(r) \/ Join(r)
  BY <1>1, <1>7, JoinGoes DEF Restore, Reserve, Join, Awaits, Answers, Early
<1>14. CASE ReadGuard(r)
  <2>1. UNCHANGED <<docs, ends>>
    BY <1>14 DEF ReadGuard
  <2> QED
    BY <1>14, <2>1, ReadFacts DEF Move, Stays, Early
<1>8. CASE StoreHit(r)
  <2>1. docs'[r] = [status |-> "completed", fromCache |-> TRUE,
                    summary |-> AsDuplicate(reqs[r].found, r)]
    BY <1>8 DEF StoreHit, TypeOK
  <2>2. d # r => docs'[d] = docs[d]
    BY <1>8 DEF StoreHit, TypeOK
  <2>3. /\ reqs[r].pc = "storing" /\ reqs'[r].pc = "hit"
        /\ reqs'[d].key = reqs[d].key
        /\ d # r => reqs'[d] = reqs[d]
    BY <1>8, GoesFacts DEF StoreHit, TypeOK, Answers
  <2>4. UNCHANGED ends
    BY <1>8 DEF StoreHit
  <2>5. CASE d = r
    BY <2>1, <2>3, <2>4, <2>5 DEF Move, Becomes
  <2>6. CASE d # r
    BY <2>2, <2>3, <2>4, <2>6 DEF Move, Stays
  <2> QED
    BY <2>5, <2>6
<1>9. CASE Acquire(r) \/ AcquireFails(r) \/ Refuse(r)
  BY <1>1, <1>9 DEF Acquire, AcquireFails, Refuse, Awaits, Answers, Early
<1>10. CASE CountActive(r)
  <2>1. PICK to \in {"inserting", "refusing"} : Goes(r, "counting", to)
    BY <1>10 DEF CountActive
  <2> QED
    BY <1>1, <1>10, <2>1 DEF CountActive, Awaits, Early
<1>11. CASE Insert(r) \/ InsertFails(r)
  <2>1. PICK to \in {"publishing", "undoSlot"} : Goes(r, "inserting", to)
    BY <1>11 DEF Insert, InsertFails
  <2>2. UNCHANGED ends
    BY <1>11 DEF Insert, InsertFails
  <2>3. CASE UNCHANGED docs
    BY <1>1, <2>1, <2>2, <2>3 DEF Awaits, Early
  <2>4. CASE docs' = [docs EXCEPT ![r].status = "active"]
    BY <2>1, <2>2, <2>4, GoesFacts DEF Move, Stays, Becomes, TypeOK, Awaits
  <2> QED
    BY <1>11, <2>3, <2>4 DEF Insert, InsertFails
<1>12. CASE Publish(r) \/ UndoSlot(r) \/ UndoGuard(r)
  BY <1>2, <1>12 DEF Publish, UndoSlot, UndoGuard
<1>13. CASE RequestEnds(r)
  BY <1>13 DEF RequestEnds, Move, Stays, Becomes, TypeOK, Request, Early
<1> QED
  BY <1>4, <1>5, <1>6, <1>7, <1>8, <1>9, <1>10, <1>11, <1>12, <1>13,
     <1>14 DEF RequestStep

LEMMA WorkerMoves ==
    ASSUME TypeOK, NEW w \in Ids, NEW d \in Ids, WorkerStep(w) \/ WorkerDies(w)
    PROVE  Move(d) /\ reqs'[d].key = reqs[d].key
<1>1. UNCHANGED reqs
  BY DEF WorkerStep, WorkerDies, Complete, MarkFailed, CacheSummary,
         ReleaseSlot, ReleaseGuard
<1>2. CASE Complete(w)
  BY <1>1, <1>2 DEF Complete, Move, Stays, Becomes, TypeOK, Document
<1>3. CASE MarkFailed(w)
  BY <1>1, <1>3 DEF MarkFailed, Move, Stays, Becomes, TypeOK, Document
<1>4. CASE CacheSummary(w) \/ ReleaseSlot(w) \/ ReleaseGuard(w) \/ WorkerDies(w)
  BY <1>1, <1>4 DEF CacheSummary, ReleaseSlot, ReleaseGuard, WorkerDies, EndGoes,
                    Move, Stays, Becomes, TypeOK
<1> QED
  BY <1>2, <1>3, <1>4 DEF WorkerStep

LEMMA StepMoves ==
    ASSUME TypeOK, [Next]_vars, NEW d \in Ids
    PROVE  /\ Move(d) /\ reqs'[d].key = reqs[d].key
           /\ Key(d)' = Key(d) /\ User(d)' = User(d)
<1>1. ASSUME docs' = docs, reqs' = reqs, ends' = ends
      PROVE  Move(d) /\ reqs'[d].key = reqs[d].key
  BY <1>1 DEF Move, Stays, Becomes
<1>2. CASE Idle \/ UNCHANGED vars
  <2>1. docs' = docs /\ reqs' = reqs /\ ends' = ends
    BY <1>2 DEF Idle, vars
  <2> QED
    BY <1>1, <2>1 DEF Key, User
<1>3. ASSUME NEW s \in Sweepers, ReconcileStep(s) \/ ReconcileAborts(s)
      PROVE  Move(d) /\ reqs'[d].key = reqs[d].key
  BY <1>1, <1>3 DEF ReconcileStep, ReconcileAborts
<1>4. ASSUME NEW k \in Keys, LoseGuard(k) \/ LoseSummary(k)
      PROVE  Move(d) /\ reqs'[d].key = reqs[d].key
  BY <1>1, <1>4 DEF LoseGuard, LoseSummary
<1>5. ASSUME NEW u \in Users, LoseCounter(u)
      PROVE  Move(d) /\ reqs'[d].key = reqs[d].key
  BY <1>1, <1>5 DEF LoseCounter
<1>6. Move(d) /\ reqs'[d].key = reqs[d].key
  <2>1. ASSUME NEW r \in Ids, Arrive(r) \/ RequestStep(r) \/ WorkerStep(r)
        PROVE  Move(d) /\ reqs'[d].key = reqs[d].key
    BY <2>1, RequestMoves, WorkerMoves
  <2>2. CASE Failure
    BY <1>3, <1>4, <1>5, <2>2, RequestMoves, WorkerMoves DEF Failure
  <2> QED
    BY <1>2, <1>3, <2>1, <2>2 DEF Next
<1> QED
  BY <1>6 DEF Key, User

-----------------------------------------------------------------------------
(* The documents                                                           *)

LEMMA DocumentsStep ==
    ASSUME IInv, [Next]_vars
    PROVE  /\ BeforeInv' /\ EndsInv'
           /\ \A k \in Keys : Processed(k) \subseteq Processed(k)'
<1>1. ASSUME NEW d \in Ids PROVE Move(d) /\ reqs'[d].key = reqs[d].key
  BY <1>1, StepMoves DEF IInv
<1>2. ASSUME NEW d \in Ids
      PROVE  /\ docs[d] \in Document /\ reqs[d].pc \in Awaits \cup Answers \cup {"new"}
             /\ reqs[d].pc \in Early => docs[d] = Absent /\ ends[d] = "none"
             /\ docs[d].status \in {"absent", "active"} =>
                    ends[d] = "none" /\ ~docs[d].fromCache
             /\ ends[d] = "caching" =>
                    /\ docs[d].status = "completed" /\ ~docs[d].fromCache
                    /\ docs[d].summary = Generated(d)
  BY <1>2 DEF IInv, TypeOK, BeforeInv, EndsInv, Processed, Request, Awaits,
              Answers, Early
<1>3. ASSUME NEW d \in Ids, reqs'[d].pc \in Early
      PROVE  docs'[d] = Absent /\ ends'[d] = "none"
  <2>1. Move(d)
    BY <1>1
  <2>2. reqs[d].pc \in Early
    BY <1>3, <2>1 DEF Move, Stays, Early
  <2>3. docs[d] = Absent /\ ends[d] = "none"
    BY <1>2, <2>2
  <2>4. docs[d].status = "absent"
    BY <2>3 DEF Absent
  <2>5. Stays(d)
    BY <1>3, <2>1, <2>3, <2>4 DEF Move, Early
  <2> QED
    BY <2>3, <2>5 DEF Stays
<1>4. BeforeInv'
  <2>1. reqs' \in [Ids -> Request]
    BY StepTyped DEF IInv, TypeOK
  <2> QED
    BY <1>3, <2>1 DEF BeforeInv, Early, Awaits, Answers, Request
<1>5. ASSUME NEW k \in Keys, NEW d \in Processed(k) PROVE d \in Processed(k)'
  <2>1. /\ d \in Ids /\ docs[d].status = "completed" /\ ~docs[d].fromCache
        /\ reqs[d].key = k
    BY <1>5 DEF Processed, Key
  <2>2. Move(d) /\ reqs'[d].key = k
    BY <1>1, <2>1
  <2>3. docs'[d].status = "completed" /\ ~docs'[d].fromCache
    BY <1>2, <2>1, <2>2 DEF Move, Stays, Becomes, Early, Absent
  <2> QED
    BY <2>1, <2>2, <2>3 DEF Processed, Key
<1>6. ASSUME NEW d \in Ids
      PROVE  (docs[d].status \in {"absent", "active"} =>
                 ends[d] = "none" /\ ~docs[d].fromCache)'
  <2>1. Move(d)
    BY <1>1
  <2> QED
    BY <1>2, <2>1 DEF Move, Stays, Becomes, Absent, Early
<1>7. ASSUME NEW d \in Ids, ends'[d] = "caching"
      PROVE  (d \in Processed(Key(d)) /\ docs[d].summary = Generated(d))'
  <2>1. Move(d)
    BY <1>1
  <2>2. /\ docs'[d].status = "completed" /\ ~docs'[d].fromCache
        /\ docs'[d].summary = Generated(d)
    BY <1>2, <1>7, <2>1 DEF Move, Stays, Becomes, Absent, Early
  <2> QED
    BY <2>2 DEF Processed, Key
<1> QED
  BY <1>4, <1>5, <1>6, <1>7 DEF EndsInv


\* The count of failures never goes back, nor is a repair forgotten.
LEMMA CalmBefore ==
    ASSUME IInv, [Next]_vars, faults' = 0
    PROVE  /\ faults = 0
           /\ repairs' = 0 => repairs = 0
<1>1. faults \in Nat /\ repairs \in 0..MaxRepairs + 1
  BY SubmissionAssumption DEF IInv, TypeOK
<1>2. ASSUME NEW kind PROVE ~Fault(kind)
  BY <1>1 DEF Fault
<1>3. CASE Idle \/ UNCHANGED vars
  BY <1>3 DEF Idle, vars, limiterVars
<1>4. ASSUME NEW r \in Ids, Arrive(r) \/ RequestStep(r)
      PROVE  faults = 0 /\ repairs' = repairs
  BY <1>2, <1>4 DEF Arrive, RequestStep, Lookup, Fallback, Restore, StoreHit,
                    Reserve, ReadGuard, Join, Acquire, CountActive, Refuse,
                    Insert, Publish, UndoSlot, UndoGuard, limiterVars
<1>5. ASSUME NEW r \in Ids, WorkerStep(r)
      PROVE  faults = 0 /\ repairs' = repairs
  BY <1>2, <1>5 DEF WorkerStep, Complete, MarkFailed, CacheSummary, ReleaseSlot,
                    ReleaseGuard, limiterVars
<1>6. ASSUME NEW s \in Sweepers, ReconcileStep(s)
      PROVE  faults = 0 /\ (repairs' = 0 => repairs = 0)
  BY <1>1, <1>6, RepairCounted DEF ReconcileStep
<1>7. ~Failure
  BY <1>2 DEF Failure, AcquireFails, InsertFails, RequestEnds, WorkerDies,
              ReconcileAborts, LoseGuard, LoseSummary, LoseCounter
<1> QED
  BY <1>3, <1>4, <1>5, <1>6, <1>7 DEF Next

LEMMA FaultStep ==
    ASSUME IInv, [Next]_vars
    PROVE  FaultInv'
<1>1. SUFFICES ASSUME faults' = 0, NEW r \in Ids
               PROVE  reqs'[r].pc \notin {"counting", "undoSlot", "undoGuard"}
  BY DEF FaultInv
<1>2. faults = 0 /\ \A x \in Ids : reqs[x].pc \notin {"counting", "undoSlot",
                                                     "undoGuard"}
  BY <1>1, CalmBefore DEF IInv, FaultInv
<1>3. reqs \in [Ids -> Request]
  BY DEF IInv, TypeOK
<1>4. ASSUME NEW kind PROVE ~Fault(kind)
  BY <1>1, <1>2 DEF Fault
<1>5. ASSUME reqs' = reqs
      PROVE  reqs'[r].pc \notin {"counting", "undoSlot", "undoGuard"}
  BY <1>2, <1>5
<1>6. ASSUME NEW x \in Ids, NEW from,
             NEW to \in (Awaits \cup Answers)
                            \ {"counting", "undoSlot", "undoGuard"},
             Goes(x, from, to)
      PROVE  reqs'[r].pc \notin {"counting", "undoSlot", "undoGuard"}
  <2>1. reqs'[x].pc = to /\ \A y \in Ids \ {x} : reqs'[y] = reqs[y]
    BY <1>3, <1>6, GoesFacts
  <2> QED
    BY <1>2, <2>1
<1>7. ASSUME NEW x \in Ids, NEW summary \in Summary,
             NEW to \in {"restoring", "storing"},
             reqs' = [reqs EXCEPT ![x].pc = to, ![x].found = summary]
      PROVE  reqs'[r].pc \notin {"counting", "undoSlot", "undoGuard"}
  <2>1. reqs'[x].pc = to /\ \A y \in Ids \ {x} : reqs'[y] = reqs[y]
    BY <1>3, <1>7, FoundFacts DEF Awaits
  <2> QED
    BY <1>2, <2>1
<1>8. CASE Idle \/ UNCHANGED vars
  BY <1>5, <1>8 DEF Idle, vars
<1>9. ASSUME NEW x \in Ids, Arrive(x) \/ RequestStep(x)
      PROVE  reqs'[r].pc \notin {"counting", "undoSlot", "undoGuard"}
  <2>1. CASE Lookup(x)
    <3>1. cache[Key(x)] \in Summary
      BY KeyTyped DEF IInv, TypeOK
    <3> QED
      BY <1>4, <1>6, <1>7, <2>1, <3>1 DEF Lookup, Awaits
  <2>2. CASE Fallback(x)
    <3>1. \A d \in Ids : Generated(d) \in Summary
      BY DEF Generated, Summary
    <3> QED
      BY <1>6, <1>7, <2>2, <3>1 DEF Fallback, Processed, Awaits
  <2>3. CASE CountActive(x)
    BY <1>2, <2>3 DEF CountActive, Goes
  <2>4. CASE Arrive(x) \/ Restore(x) \/ StoreHit(x) \/ Reserve(x)
    BY <1>6, <2>4 DEF Arrive, Restore, StoreHit, Reserve, Awaits, Answers
  <2>5. CASE Join(x) \/ Acquire(x) \/ Refuse(x) \/ Insert(x) \/ UndoGuard(x)
    BY <1>6, <2>5, JoinGoes DEF Acquire, Refuse, Insert, UndoGuard, Awaits, Answers
  <2>6. CASE Publish(x) \/ UndoSlot(x)
    BY <1>2, <1>4, <1>6, <2>6 DEF Publish, UndoSlot, Goes, Answers
  <2>7. CASE ReadGuard(x)
    <3>1. /\ reqs'[x].pc \in {"acquiring", "joining"}
          /\ \A y \in Ids \ {x} : reqs'[y] = reqs[y]
      BY <2>7, ReadFacts DEF IInv
    <3> QED
      BY <1>2, <3>1
  <2> QED
    BY <1>9, <2>1, <2>2, <2>3, <2>4, <2>5, <2>6, <2>7 DEF RequestStep
<1>10. ASSUME NEW d \in Ids, WorkerStep(d) PROVE reqs' = reqs
  BY <1>10 DEF WorkerStep, Complete, MarkFailed, CacheSummary, ReleaseSlot,
               ReleaseGuard
<1>11. ASSUME NEW s \in Sweepers, ReconcileStep(s) PROVE reqs' = reqs
  BY <1>11 DEF ReconcileStep
<1>12. ~Failure
  BY <1>4 DEF Failure, AcquireFails, InsertFails, RequestEnds, WorkerDies,
              ReconcileAborts, LoseGuard, LoseSummary, LoseCounter
<1> QED
  BY <1>5, <1>8, <1>9, <1>10, <1>11, <1>12 DEF Next

-----------------------------------------------------------------------------
(* Where summaries come from                                               *)

\* What a step leaves in the cache.
LEMMA CacheMoves ==
    ASSUME IInv, [Next]_vars, NEW k \in Keys
    PROVE  cache'[k] \in Origins(k) \cup {NoSummary}
<1>1. cache \in [Keys -> Summary] /\ cache[k] \in Origins(k) \cup {NoSummary}
  BY DEF IInv, TypeOK, FoundInv
<1>2. ASSUME NEW r \in Ids, Restore(r)
      PROVE  cache'[k] \in Origins(k) \cup {NoSummary}
  <2>1. reqs[r].found \in Origins(Key(r))
    BY <1>2 DEF IInv, FoundInv, Restore, Goes
  <2> QED
    BY <1>1, <1>2, <2>1 DEF Restore, CacheSet
<1>3. ASSUME NEW d \in Ids, CacheSummary(d)
      PROVE  cache'[k] \in Origins(k) \cup {NoSummary}
  <2>1. docs[d].summary \in Origins(Key(d))
    BY <1>3 DEF IInv, EndsInv, CacheSummary, EndGoes, Origins
  <2> QED
    BY <1>1, <1>3, <2>1 DEF CacheSummary, CacheSet
<1>4. ASSUME NEW x \in Keys, LoseSummary(x)
      PROVE  cache'[k] \in Origins(k) \cup {NoSummary}
  BY <1>1, <1>4 DEF LoseSummary, CacheSet
<1>5. CASE UNCHANGED cache
  BY <1>1, <1>5
<1>6. CASE Idle \/ UNCHANGED vars
  BY <1>5, <1>6 DEF Idle, vars, cacheVars
<1>7. ASSUME NEW r \in Ids, Arrive(r) \/ RequestStep(r), ~Restore(r)
      PROVE  UNCHANGED cache
  BY <1>7 DEF Arrive, RequestStep, Lookup, Fallback, StoreHit, Reserve, ReadGuard,
              Join, Acquire, CountActive, Refuse, Insert, Publish, UndoSlot,
              UndoGuard, cacheVars
<1>8. ASSUME NEW d \in Ids, WorkerStep(d), ~CacheSummary(d)
      PROVE  UNCHANGED cache
  BY <1>8 DEF WorkerStep, Complete, MarkFailed, ReleaseSlot, ReleaseGuard,
              cacheVars
<1>9. ASSUME NEW s \in Sweepers, ReconcileStep(s) PROVE UNCHANGED cache
  BY <1>9 DEF ReconcileStep, cacheVars
<1>10. ASSUME Failure, \A x \in Keys : ~LoseSummary(x) PROVE UNCHANGED cache
  BY <1>10 DEF Failure, AcquireFails, InsertFails, RequestEnds, WorkerDies,
               ReconcileAborts, LoseGuard, LoseCounter, cacheVars
<1> QED
  BY <1>2, <1>3, <1>4, <1>5, <1>6, <1>7, <1>8, <1>9, <1>10 DEF Next

\* What a request that found a summary holds after a step.
LEMMA FoundMoves ==
    ASSUME IInv, [Next]_vars, NEW r \in Ids,
           reqs'[r].pc \in {"restoring", "storing"}
    PROVE  reqs'[r].found \in Origins(Key(r))
<1>1. /\ reqs \in [Ids -> Request]
      /\ reqs[r].pc \in {"restoring", "storing"} =>
            reqs[r].found \in Origins(Key(r))
  BY DEF IInv, TypeOK, FoundInv
<1>2. CASE reqs'[r] = reqs[r]
  BY <1>1, <1>2
<1>3. ASSUME NEW x \in Ids, NEW from, NEW to \in Awaits \cup Answers,
             Goes(x, from, to), to = "storing" => from = "restoring",
             to # "restoring"
      PROVE  reqs'[r].found \in Origins(Key(r))
  <2>1. /\ reqs[x].pc = from /\ reqs'[x].pc = to
        /\ reqs'[r].found = reqs[r].found
        /\ \A y \in Ids \ {x} : reqs'[y] = reqs[y]
    BY <1>1, <1>3, GoesFacts
  <2> QED
    BY <1>1, <1>2, <1>3, <2>1
<1>4. ASSUME NEW x \in Ids, NEW summary \in Origins(Key(x)),
             NEW to \in {"restoring", "storing"},
             reqs' = [reqs EXCEPT ![x].pc = to, ![x].found = summary]
      PROVE  reqs'[r].found \in Origins(Key(r))
  <2>1. summary \in Summary
    BY <1>4 DEF Origins, Processed, Generated, Summary
  <2>2. reqs'[x].found = summary /\ \A y \in Ids \ {x} : reqs'[y] = reqs[y]
    BY <1>1, <1>4, <2>1, FoundFacts DEF Awaits
  <2> QED
    BY <1>2, <2>2
<1>5. CASE Idle \/ UNCHANGED vars
  BY <1>2, <1>5 DEF Idle, vars
<1>6. ASSUME NEW x \in Ids, Arrive(x) \/ RequestStep(x)
      PROVE  reqs'[r].found \in Origins(Key(r))
  <2>1. CASE Lookup(x)
    <3>1. Key(x) \in Keys
      BY KeyTyped DEF IInv
    <3>2. cache[Key(x)] # NoSummary => cache[Key(x)] \in Origins(Key(x))
      BY <3>1 DEF IInv, FoundInv
    <3> QED
      BY <1>3, <1>4, <2>1, <3>2 DEF Lookup, Awaits
  <2>2. CASE Fallback(x)
    BY <1>3, <1>4, <2>2 DEF Fallback, Origins, Awaits
  <2>3. CASE CountActive(x)
    <3>1. PICK to \in {"inserting", "refusing"} : Goes(x, "counting", to)
      BY <2>3 DEF CountActive
    <3> QED
      BY <1>3, <3>1 DEF Awaits
  <2>4. CASE Arrive(x) \/ Restore(x) \/ StoreHit(x) \/ Reserve(x)
    BY <1>3, <2>4 DEF Arrive, Restore, StoreHit, Reserve, Awaits, Answers
  <2>5. CASE Join(x) \/ Acquire(x) \/ Refuse(x) \/ Insert(x) \/ Publish(x)
             \/ UndoSlot(x) \/ UndoGuard(x)
    BY <1>3, <2>5, JoinGoes DEF Acquire, Refuse, Insert, Publish, UndoSlot,
                                UndoGuard, Awaits, Answers
  <2>6. CASE ReadGuard(x)
    <3>1. /\ reqs'[x].pc \in {"acquiring", "joining"}
          /\ \A y \in Ids \ {x} : reqs'[y] = reqs[y]
      BY <2>6, ReadFacts DEF IInv
    <3> QED
      BY <1>2, <3>1
  <2> QED
    BY <1>6, <2>1, <2>2, <2>3, <2>4, <2>5, <2>6 DEF RequestStep
<1>7. ASSUME NEW d \in Ids, WorkerStep(d) \/ WorkerDies(d)
      PROVE  reqs'[r] = reqs[r]
  BY <1>7 DEF WorkerStep, WorkerDies, Complete, MarkFailed, CacheSummary,
              ReleaseSlot, ReleaseGuard
<1>8. ASSUME NEW s \in Sweepers, ReconcileStep(s) \/ ReconcileAborts(s)
      PROVE  reqs'[r] = reqs[r]
  BY <1>8 DEF ReconcileStep, ReconcileAborts
<1>9. ASSUME NEW x \in Ids, AcquireFails(x) \/ InsertFails(x)
      PROVE  reqs'[r].found \in Origins(Key(r))
  BY <1>3, <1>9 DEF AcquireFails, InsertFails, Awaits
<1>10. ASSUME NEW x \in Ids, RequestEnds(x) PROVE reqs'[r] = reqs[r]
  BY <1>1, <1>10 DEF RequestEnds, Request
<1>11. ASSUME NEW k \in Keys, LoseGuard(k) \/ LoseSummary(k)
       PROVE  reqs'[r] = reqs[r]
  BY <1>11 DEF LoseGuard, LoseSummary
<1>12. ASSUME NEW u \in Users, LoseCounter(u) PROVE reqs'[r] = reqs[r]
  BY <1>12 DEF LoseCounter
<1>13. CASE Failure
  BY <1>2, <1>7, <1>8, <1>9, <1>10, <1>11, <1>12, <1>13 DEF Failure
<1> QED
  BY <1>2, <1>5, <1>6, <1>7, <1>8, <1>13 DEF Next

LEMMA FoundStep ==
    ASSUME IInv, [Next]_vars
    PROVE  FoundInv'
<1>1. ASSUME NEW k \in Keys PROVE Origins(k) \subseteq Origins(k)'
  BY <1>1, DocumentsStep DEF Origins, Generated
<1>2. ASSUME NEW r \in Ids
      PROVE  Key(r) \in Keys /\ Key(r)' = Key(r) /\ Move(r)
  BY <1>2, KeyTyped, StepMoves DEF IInv
<1>3. ASSUME NEW r \in Ids, reqs'[r].pc \in {"restoring", "storing"}
      PROVE  (reqs[r].found \in Origins(Key(r)))'
  BY <1>1, <1>2, <1>3, FoundMoves
<1>4. ASSUME NEW k \in Keys PROVE (cache[k] \in Origins(k) \cup {NoSummary})'
  BY <1>1, <1>4, CacheMoves DEF NoSummary
<1>5. ASSUME NEW r \in Ids, docs'[r].fromCache
      PROVE  (docs[r].summary.origin \in Processed(Key(r)))'
  <2>1. CASE docs[r].fromCache
    <3>1. docs[r].summary.origin \in Processed(Key(r))
      BY <2>1 DEF IInv, FoundInv
    <3>2. /\ docs[r].status \notin {"absent", "active"}
          /\ reqs[r].pc \notin {"storing", "inserting"}
      BY <2>1 DEF IInv, BeforeInv, EndsInv, Absent
    <3>3. docs'[r] = docs[r]
      BY <1>2, <3>2 DEF Move, Stays
    <3> QED
      BY <1>2, <3>1, <3>3, DocumentsStep
  <2>2. CASE ~docs[r].fromCache
    <3>1. /\ reqs[r].pc = "storing"
          /\ docs'[r].summary = AsDuplicate(reqs[r].found, r)
      BY <1>2, <1>5, <2>2 DEF Move, Stays, Becomes
    <3>2. PICK d \in Processed(Key(r)) : reqs[r].found = Generated(d)
      BY <3>1 DEF IInv, FoundInv, Origins
    <3>3. docs'[r].summary.origin = d
      BY <3>1, <3>2 DEF AsDuplicate, Generated
    <3> QED
      BY <1>2, <3>2, <3>3, DocumentsStep
  <2> QED
    BY <2>1, <2>2
<1> QED
  BY <1>3, <1>4, <1>5 DEF FoundInv


-----------------------------------------------------------------------------
(* The guard                                                               *)

\* A step leaves a guard as it is, frees it, or puts it in the name of a
\* request that goes on to the limiter.
LEMMA GuardMoves ==
    ASSUME IInv, [Next]_vars, NEW k \in Keys
    PROVE  \/ guard'[k] \in {guard[k], NoId}
           \/ \E r \in Ids : /\ guard'[k] = r /\ Key(r) = k
                             /\ reqs'[r].pc = "acquiring"
<1>1. guard \in [Keys -> Ids \cup {NoId}]
  BY DEF IInv, TypeOK
<1>3. ASSUME NEW x \in Keys, DropGuard(x) PROVE guard'[k] \in {guard[k], NoId}
  BY <1>1, <1>3 DEF DropGuard
<1>4. CASE Idle \/ UNCHANGED vars
  BY <1>4 DEF Idle, vars, cacheVars
<1>5. ASSUME NEW r \in Ids, Reserve(r)
      PROVE  \/ guard'[k] \in {guard[k], NoId}
             \/ guard'[k] = r /\ Key(r) = k /\ reqs'[r].pc = "acquiring"
  <2>1. CASE TakeGuard(Key(r), r) /\ Goes(r, "reserving", "acquiring")
    <3>1. reqs'[r].pc = "acquiring"
      BY <2>1, GoesFacts DEF IInv, TypeOK, Awaits
    <3> QED
      BY <1>1, <2>1, <3>1 DEF TakeGuard
  <2> QED
    BY <1>5, <2>1 DEF Reserve
<1>6. ASSUME NEW r \in Ids, Arrive(r) \/ RequestStep(r), ~Reserve(r)
      PROVE  guard'[k] \in {guard[k], NoId}
  <2>1. Key(r) \in Keys
    BY KeyTyped DEF IInv
  <2> QED
    BY <1>3, <1>6, <2>1 DEF Arrive, RequestStep, Lookup, Fallback, Restore, StoreHit,
       ReadGuard, Join, Acquire, CountActive, Refuse, Insert, Publish, UndoSlot,
       UndoGuard, cacheVars
<1>7. ASSUME NEW d \in Ids, WorkerStep(d)
      PROVE  guard'[k] \in {guard[k], NoId}
  <2>1. Key(d) \in Keys
    BY KeyTyped DEF IInv
  <2> QED
    BY <1>3, <1>7, <2>1 DEF WorkerStep, Complete, MarkFailed, CacheSummary,
       ReleaseSlot, ReleaseGuard, cacheVars
<1>8. ASSUME NEW s \in Sweepers, ReconcileStep(s) PROVE guard' = guard
  BY <1>8 DEF ReconcileStep, cacheVars
<1>9. CASE Failure
  BY <1>3, <1>9 DEF Failure, AcquireFails, InsertFails, RequestEnds, WorkerDies,
                    ReconcileAborts, LoseGuard, LoseSummary, LoseCounter, cacheVars
<1> QED
  BY <1>4, <1>5, <1>6, <1>7, <1>8, <1>9 DEF Next

\* What a guard may name.
Live(d) ==
    \/ reqs[d].pc \in {"acquiring", "refusing", "inserting"}
    \/ docs[d].status = "active"
    \/ ends[d] # "none"

\* An end is over only when its guard was given back.
LEMMA EndsKept ==
    ASSUME IInv, [Next]_vars, faults' = 0, NEW d \in Ids,
           ends[d] # "none", ends'[d] = "none"
    PROVE  guard'[Key(d)] = NoId
<1>1. /\ Key(d) \in Keys /\ guard \in [Keys -> Ids \cup {NoId}]
      /\ ends \in [Ids -> {"none", "caching", "releasing", "unguarding"}]
  BY KeyTyped DEF IInv, TypeOK
<1>2. ASSUME NEW kind PROVE ~Fault(kind)
  <2>1. faults = 0
    BY CalmBefore
  <2> QED
    BY <2>1 DEF Fault
<1>3. CASE Idle \/ UNCHANGED vars
  BY <1>3 DEF Idle, vars
<1>4. ASSUME NEW r \in Ids, Arrive(r) \/ RequestStep(r) PROVE ends' = ends
  BY <1>4 DEF Arrive, RequestStep, Lookup, Fallback, Restore, StoreHit, Reserve,
       ReadGuard, Join, Acquire, CountActive, Refuse, Insert, Publish, UndoSlot,
       UndoGuard
<1>5. ASSUME NEW w \in Ids, WorkerStep(w)
      PROVE  guard'[Key(d)] = NoId
  <2>1. w = d /\ ReleaseGuard(w)
    BY <1>1, <1>5 DEF WorkerStep, Complete, MarkFailed, CacheSummary, ReleaseSlot,
                      ReleaseGuard, EndGoes
  <2> QED
    BY <1>1, <1>2, <2>1 DEF ReleaseGuard, DropGuard
<1>6. ASSUME NEW s \in Sweepers, ReconcileStep(s) PROVE ends' = ends
  BY <1>6 DEF ReconcileStep
<1>7. ~Failure
  BY <1>2 DEF Failure, AcquireFails, InsertFails, RequestEnds, WorkerDies,
              ReconcileAborts, LoseGuard, LoseSummary, LoseCounter
<1> QED
  BY <1>3, <1>4, <1>5, <1>6, <1>7 DEF Next

\* A request that holds a guard goes on to the insert or gives the guard back.
LEMMA TakerMoves ==
    ASSUME IInv, [Next]_vars, faults' = 0, NEW d \in Ids,
           reqs[d].pc \in {"acquiring", "refusing", "inserting"}
    PROVE  \/ reqs'[d].pc \in {"refusing", "inserting"}
           \/ reqs'[d] = reqs[d]
           \/ docs'[d].status = "active"
           \/ guard'[Key(d)] = NoId
<1>1. /\ Key(d) \in Keys /\ guard \in [Keys -> Ids \cup {NoId}]
      /\ docs \in [Ids -> Document] /\ reqs \in [Ids -> Request]
  BY KeyTyped DEF IInv, TypeOK
<1>2. ASSUME NEW kind PROVE ~Fault(kind)
  <2>1. faults = 0
    BY CalmBefore
  <2> QED
    BY <2>1 DEF Fault
<1>3. CASE Idle \/ UNCHANGED vars
  BY <1>3 DEF Idle, vars
<1>4. ASSUME NEW r \in Ids, Arrive(r) \/ RequestStep(r), r # d
      PROVE  reqs'[d] = reqs[d]
  BY <1>1, <1>4 DEF Arrive, RequestStep, Lookup, Fallback, Restore, StoreHit,
       Reserve, ReadGuard, Join, Acquire, CountActive, Refuse, Insert, Publish,
       UndoSlot, UndoGuard, Goes
<1>5. ~Arrive(d)
  BY DEF Arrive, Goes
<1>6. CASE RequestStep(d)
  <2>1. Acquire(d) \/ Refuse(d) \/ Insert(d)
    BY <1>6 DEF RequestStep, Lookup, Fallback, Restore, StoreHit, Reserve,
         ReadGuard, Join, CountActive, Publish, UndoSlot, UndoGuard, Goes
  <2>2. CASE Acquire(d)
    BY <1>1, <2>2, GoesFacts DEF Acquire, Awaits
  <2>3. CASE Refuse(d)
    BY <1>1, <1>2, <2>3 DEF Refuse, DropGuard
  <2>4. CASE Insert(d)
    BY <1>1, <2>4 DEF Insert, Document
  <2> QED
    BY <2>1, <2>2, <2>3, <2>4
<1>7. ASSUME NEW w \in Ids, WorkerStep(w) PROVE reqs' = reqs
  BY <1>7 DEF WorkerStep, Complete, MarkFailed, CacheSummary, ReleaseSlot,
              ReleaseGuard
<1>8. ASSUME NEW s \in Sweepers, ReconcileStep(s) PROVE reqs' = reqs
  BY <1>8 DEF ReconcileStep
<1>9. ~Failure
  BY <1>2 DEF Failure, AcquireFails, InsertFails, RequestEnds, WorkerDies,
              ReconcileAborts, LoseGuard, LoseSummary, LoseCounter
<1> QED
  BY <1>3, <1>4, <1>5, <1>6, <1>7, <1>8, <1>9 DEF Next

\* What is live stays so until its guard is freed.
LEMMA LiveMoves ==
    ASSUME IInv, [Next]_vars, faults' = 0, NEW d \in Ids, Live(d)
    PROVE  Live(d)' \/ guard'[Key(d)] = NoId
<1>1. Move(d)
  BY StepMoves DEF IInv
<1>2. CASE reqs[d].pc \in {"acquiring", "refusing", "inserting"}
  BY <1>2, TakerMoves DEF Live
<1>3. CASE docs[d].status = "active"
  <2>1. reqs[d].pc \notin {"storing", "inserting"} /\ ends[d] = "none"
    BY <1>3 DEF IInv, BeforeInv, EndsInv, Absent
  <2> QED
    BY <1>1, <1>3, <2>1 DEF Move, Stays, Becomes, Live
<1>4. CASE ends[d] # "none"
  BY <1>4, EndsKept DEF Live
<1> QED
  BY <1>2, <1>3, <1>4 DEF Live

LEMMA GuardStep ==
    ASSUME IInv, [Next]_vars
    PROVE  GuardNamesLive'
<1>1. SUFFICES ASSUME faults' = 0, NEW k \in Keys, guard'[k] # NoId
               PROVE  Key(guard[k])' = k /\ Live(guard[k])'
  BY DEF GuardNamesLive, Live
<1>2. faults = 0 /\ guard[k] \in Ids \cup {NoId}
  BY <1>1, CalmBefore DEF IInv, TypeOK
<1>3. CASE guard'[k] = guard[k]
  <2>1. guard[k] \in Ids /\ Key(guard[k]) = k /\ Live(guard[k])
    BY <1>1, <1>2, <1>3 DEF IInv, GuardNamesLive, Live
  <2>2. reqs'[guard[k]].key = reqs[guard[k]].key
    BY <2>1, StepMoves DEF IInv
  <2>3. \A d \in Ids : Live(d) /\ Key(d) = k => Live(d)'
    BY <1>1, LiveMoves
  <2> QED
    BY <1>3, <2>1, <2>2, <2>3 DEF Key, Live
<1>4. CASE guard'[k] # guard[k]
  <2>1. PICK r \in Ids : /\ guard'[k] = r /\ Key(r) = k
                         /\ reqs'[r].pc = "acquiring"
    BY <1>1, <1>4, GuardMoves
  <2>2. reqs'[r].key = reqs[r].key
    BY <2>1, StepMoves DEF IInv
  <2> QED
    BY <2>1, <2>2 DEF Key, Live
<1> QED
  BY <1>3, <1>4


-----------------------------------------------------------------------------
(* The slots                                                               *)

HoldsAsBefore(d) == Occupies(d)' <=> Occupies(d)

\* A request takes a slot with its count, a document releases both, and any
\* other step touches neither.
SlotMove ==
    \/ counter' = counter /\ \A d \in Ids : HoldsAsBefore(d)
    \/ \E r \in Ids : /\ Admits(User(r)) /\ Increment(User(r))
                      /\ ~Occupies(r) /\ Occupies(r)'
                      /\ \A d \in Ids \ {r} : HoldsAsBefore(d)
    \/ \E r \in Ids : /\ Decrement(User(r))
                      /\ Occupies(r) /\ ~Occupies(r)'
                      /\ \A d \in Ids \ {r} : HoldsAsBefore(d)

LEMMA RequestSlots ==
    ASSUME IInv, faults = 0, NEW r \in Ids, Arrive(r) \/ RequestStep(r),
           \A kind : ~Fault(kind)
    PROVE  SlotMove
<1>1. /\ TypeOK /\ reqs \in [Ids -> Request] /\ docs \in [Ids -> Document]
      /\ reqs[r].pc \notin {"counting", "undoSlot", "undoGuard"}
      /\ reqs[r].pc \notin {"publishing", "created", "hit", "failed", "lost"} =>
             docs[r].status = "absent" /\ ends[r] = "none"
  BY DEF IInv, TypeOK, FaultInv, BeforeInv, Absent
<1>2. UNCHANGED ends
  BY DEF Arrive, RequestStep, Lookup, Fallback, Restore, StoreHit, Reserve,
       ReadGuard, Join, Acquire, CountActive, Refuse, Insert, Publish, UndoSlot,
       UndoGuard
<1>3. ASSUME NEW d \in Ids \ {r} PROVE HoldsAsBefore(d)
  <2>1. reqs'[d] = reqs[d]
    BY <1>1, <1>3 DEF Arrive, RequestStep, Lookup, Fallback, Restore, StoreHit,
       Reserve, ReadGuard, Join, Acquire, CountActive, Refuse, Insert, Publish,
       UndoSlot, UndoGuard, Goes
  <2>2. docs'[d] = docs[d]
    BY <1>1, <1>3 DEF Arrive, RequestStep, Lookup, Fallback, Restore, StoreHit,
       Reserve, ReadGuard, Join, Acquire, CountActive, Refuse, Insert, Publish,
       UndoSlot, UndoGuard
  <2> QED
    BY <1>2, <2>1, <2>2 DEF HoldsAsBefore, Occupies
<1>4. ASSUME counter' = counter, HoldsAsBefore(r) PROVE SlotMove
  BY <1>3, <1>4 DEF SlotMove
<1>5. ASSUME NEW from \in ({"new"} \cup Awaits) \ {"inserting"},
             NEW to \in (Awaits \cup Answers) \ {"inserting"},
             Goes(r, from, to), UNCHANGED <<docs, counter>>
      PROVE  SlotMove
  <2>1. reqs[r].pc = from /\ reqs'[r].pc = to
    BY <1>1, <1>5, GoesFacts
  <2> QED
    BY <1>2, <1>4, <1>5, <2>1 DEF HoldsAsBefore, Occupies
<1>6. ASSUME NEW summary \in Summary, NEW to \in {"restoring", "storing"},
             reqs[r].pc # "inserting", UNCHANGED <<docs, counter>>,
             reqs' = [reqs EXCEPT ![r].pc = to, ![r].found = summary]
      PROVE  SlotMove
  <2>1. reqs'[r].pc = to
    BY <1>1, <1>6, FoundFacts DEF Awaits
  <2> QED
    BY <1>2, <1>4, <1>6, <2>1 DEF HoldsAsBefore, Occupies
<1>7. CASE Lookup(r)
  <2>1. cache[Key(r)] \in Summary
    BY <1>1, KeyTyped DEF TypeOK
  <2> QED
    BY <1>5, <1>6, <1>7, <2>1 DEF Lookup, Awaits, limiterVars
<1>8. CASE Fallback(r)
  <2>1. \A d \in Ids : Generated(d) \in Summary
    BY DEF Generated, Summary
  <2> QED
    BY <1>5, <1>6, <1>8, <2>1 DEF Fallback, Processed, Awaits, limiterVars
<1>9. CASE StoreHit(r)
  <2>1. reqs[r].pc = "storing" /\ reqs'[r].pc = "hit"
    BY <1>1, <1>9, GoesFacts DEF StoreHit, Answers
  <2>2. docs'[r].status = "completed" /\ counter' = counter
    BY <1>1, <1>9 DEF StoreHit, limiterVars
  <2>3. ~Occupies(r)
    BY <1>1, <2>1 DEF Occupies
  <2>4. ~Occupies(r)'
    BY <1>1, <1>2, <2>1, <2>2 DEF Occupies
  <2> QED
    BY <1>4, <2>2, <2>3, <2>4 DEF HoldsAsBefore
<1>10. CASE Acquire(r)
  <2>1. CASE Goes(r, "acquiring", "refusing")
    BY <1>5, <1>10, <2>1, GoesFacts, <1>1 DEF Acquire, Awaits
  <2>2. CASE ~Goes(r, "acquiring", "refusing")
    <3>1. /\ Admits(User(r)) /\ Increment(User(r))
          /\ Goes(r, "acquiring", "inserting")
      BY <1>10, <2>2 DEF Acquire
    <3>2. reqs[r].pc = "acquiring" /\ reqs'[r].pc = "inserting"
      BY <1>1, <3>1, GoesFacts DEF Awaits
    <3>3. ~Occupies(r) /\ Occupies(r)'
      BY <1>1, <3>2 DEF Occupies
    <3> QED
      BY <1>3, <3>1, <3>3 DEF SlotMove
  <2> QED
    BY <2>1, <2>2
<1>11. CASE Insert(r)
  <2>1. reqs[r].pc = "inserting" /\ docs'[r].status = "active"
    BY <1>1, <1>11 DEF Insert, Goes, Document
  <2>2. Occupies(r) /\ Occupies(r)' /\ counter' = counter
    BY <1>11, <2>1 DEF Occupies, Insert, limiterVars
  <2> QED
    BY <1>4, <2>2 DEF HoldsAsBefore
<1>12. CASE Arrive(r) \/ Restore(r) \/ Reserve(r) \/ Join(r)
  BY <1>5, <1>12, JoinGoes
     DEF Arrive, Restore, Reserve, Join, Awaits, Answers, limiterVars
<1>13. CASE Refuse(r) \/ Publish(r) \/ UndoGuard(r)
  BY <1>5, <1>13 DEF Refuse, Publish, UndoGuard, Awaits, Answers, limiterVars
<1>15. CASE ReadGuard(r)
  <2>1. reqs[r].pc # "inserting" /\ reqs'[r].pc # "inserting"
    BY <1>1, <1>15, ReadFacts
  <2>2. UNCHANGED <<docs, counter>>
    BY <1>15 DEF ReadGuard, limiterVars
  <2> QED
    BY <1>2, <1>4, <2>1, <2>2 DEF HoldsAsBefore, Occupies
<1>14. ~CountActive(r) /\ ~UndoSlot(r)
  BY <1>1 DEF CountActive, UndoSlot, Goes
<1> QED
  BY <1>7, <1>8, <1>9, <1>10, <1>11, <1>12, <1>13, <1>14, <1>15
     DEF RequestStep

LEMMA WorkerSlots ==
    ASSUME IInv, NEW w \in Ids, WorkerStep(w), \A kind : ~Fault(kind)
    PROVE  SlotMove
<1>1. /\ reqs \in [Ids -> Request] /\ docs \in [Ids -> Document]
      /\ ends \in [Ids -> {"none", "caching", "releasing", "unguarding"}]
      /\ ends[w] # "none" =>
             docs[w].status # "active" /\ reqs[w].pc # "inserting"
  BY DEF IInv, TypeOK, EndsInv, BeforeInv
<1>2. UNCHANGED reqs
  BY DEF WorkerStep, Complete, MarkFailed, CacheSummary, ReleaseSlot, ReleaseGuard
<1>3. ASSUME NEW d \in Ids \ {w} PROVE HoldsAsBefore(d)
  <2>1. docs'[d] = docs[d] /\ ends'[d] = ends[d]
    BY <1>1, <1>3 DEF WorkerStep, Complete, MarkFailed, CacheSummary, ReleaseSlot,
                      ReleaseGuard, EndGoes
  <2> QED
    BY <1>2, <2>1 DEF HoldsAsBefore, Occupies
<1>4. ASSUME counter' = counter, HoldsAsBefore(w) PROVE SlotMove
  BY <1>3, <1>4 DEF SlotMove
<1>5. CASE Complete(w) \/ MarkFailed(w)
  <2>1. ends'[w] \in {"caching", "releasing"} /\ docs[w].status = "active"
    BY <1>1, <1>5 DEF Complete, MarkFailed
  <2>2. Occupies(w) /\ Occupies(w)' /\ counter' = counter
    BY <1>5, <2>1 DEF Occupies, Complete, MarkFailed, limiterVars
  <2> QED
    BY <1>4, <2>2 DEF HoldsAsBefore
<1>6. CASE CacheSummary(w)
  <2>1. ends[w] = "caching" /\ ends'[w] = "releasing" /\ counter' = counter
    BY <1>1, <1>6 DEF CacheSummary, EndGoes, limiterVars
  <2> QED
    BY <1>4, <2>1 DEF HoldsAsBefore, Occupies
<1>7. CASE ReleaseSlot(w)
  <2>1. /\ ends[w] = "releasing" /\ ends'[w] = "unguarding" /\ docs' = docs
        /\ Decrement(User(w))
    BY <1>1, <1>7 DEF ReleaseSlot, EndGoes
  <2>2. Occupies(w) /\ ~Occupies(w)'
    BY <1>1, <1>2, <2>1 DEF Occupies
  <2> QED
    BY <1>3, <2>1, <2>2 DEF SlotMove
<1>8. CASE ReleaseGuard(w)
  <2>1. /\ ends[w] = "unguarding" /\ ends'[w] = "none"
        /\ counter' = counter /\ docs' = docs
    BY <1>1, <1>8 DEF ReleaseGuard, EndGoes, limiterVars
  <2> QED
    BY <1>2, <1>4, <2>1 DEF HoldsAsBefore, Occupies
<1> QED
  BY <1>5, <1>6, <1>7, <1>8 DEF WorkerStep

LEMMA SlotMoves ==
    ASSUME IInv, [Next]_vars, faults' = 0, repairs' = 0
    PROVE  SlotMove
<1>1. faults = 0 /\ repairs = 0
  BY CalmBefore
<1>2. ASSUME NEW kind PROVE ~Fault(kind)
  BY <1>1 DEF Fault
<1>3. ASSUME docs' = docs, reqs' = reqs, ends' = ends, counter' = counter
      PROVE  SlotMove
  BY <1>3 DEF SlotMove, HoldsAsBefore, Occupies
<1>4. CASE Idle \/ UNCHANGED vars
  <2>1. docs' = docs /\ reqs' = reqs /\ ends' = ends /\ counter' = counter
    BY <1>4 DEF Idle, vars, limiterVars
  <2> QED
    BY <1>3, <2>1
<1>5. ASSUME NEW s \in Sweepers, ReconcileStep(s) PROVE SlotMove
  <2>1. docs' = docs /\ reqs' = reqs /\ ends' = ends /\ counter' = counter
    BY <1>5, RepairCounted DEF ReconcileStep, IInv, TypeOK
  <2> QED
    BY <1>3, <2>1
<1>6. ~Failure
  BY <1>2 DEF Failure, AcquireFails, InsertFails, RequestEnds, WorkerDies,
              ReconcileAborts, LoseGuard, LoseSummary, LoseCounter
<1> QED
  BY <1>1, <1>2, <1>4, <1>5, <1>6, RequestSlots, WorkerSlots DEF Next

LEMMA SlotStep ==
    ASSUME IInv, [Next]_vars
    PROVE  SlotsCounted'
<1>1. SUFFICES ASSUME faults' = 0, repairs' = 0, NEW u \in Users
               PROVE  /\ counter'[u] = Cardinality(Holders(u)')
                      /\ counter'[u] <= Limit
  BY StepTyped DEF IInv, TypeOK, SlotsCounted
<1>2. counter[u] = Cardinality(Holders(u)) /\ counter[u] <= Limit
  BY <1>1, CalmBefore DEF IInv, SlotsCounted
<1>3. counter \in [Users -> Nat] /\ Limit \in Nat
  BY LimitAssumption DEF IInv, TypeOK
<1>4. Holders(u) = {d \in Ids : User(d) = u /\ Occupies(d)}
  BY DEF Holders, Occupies
<1>5. Holders(u)' = {d \in Ids : User(d) = u /\ Occupies(d)'}
  <2>1. \A d \in Ids : reqs'[d].key = reqs[d].key
    BY StepMoves DEF IInv
  <2> QED
    BY <2>1 DEF Holders, Occupies, User
<1>6. IsFiniteSet(Holders(u))
  BY <1>4, FS_Subset, SubmissionAssumption
<1>7. CASE counter' = counter /\ \A d \in Ids : HoldsAsBefore(d)
  BY <1>2, <1>4, <1>5, <1>7 DEF HoldsAsBefore
<1>8. ASSUME NEW r \in Ids, Admits(User(r)), Increment(User(r)),
             ~Occupies(r), Occupies(r)', \A d \in Ids \ {r} : HoldsAsBefore(d)
      PROVE  counter'[u] = Cardinality(Holders(u)') /\ counter'[u] <= Limit
  <2>1. CASE User(r) = u
    <3>1. Holders(u)' = Holders(u) \cup {r} /\ r \notin Holders(u)
      BY <1>4, <1>5, <1>8, <2>1 DEF HoldsAsBefore
    <3>2. Cardinality(Holders(u)') = Cardinality(Holders(u)) + 1
      BY <1>6, <3>1, FS_AddElement
    <3>3. counter'[u] = counter[u] + 1 /\ counter[u] < Limit
      BY <1>3, <1>8, <2>1 DEF Increment, Admits
    <3> QED
      BY <1>2, <1>3, <3>2, <3>3
  <2>2. CASE User(r) # u
    <3>1. Holders(u)' = Holders(u)
      BY <1>4, <1>5, <1>8, <2>2 DEF HoldsAsBefore
    <3>2. counter'[u] = counter[u]
      BY <1>3, <1>8, <2>2 DEF Increment
    <3> QED
      BY <1>2, <3>1, <3>2
  <2> QED
    BY <2>1, <2>2
<1>9. ASSUME NEW r \in Ids, Decrement(User(r)), Occupies(r), ~Occupies(r)',
             \A d \in Ids \ {r} : HoldsAsBefore(d)
      PROVE  counter'[u] = Cardinality(Holders(u)') /\ counter'[u] <= Limit
  <2>1. CASE User(r) = u
    <3>1. Holders(u)' = Holders(u) \ {r} /\ r \in Holders(u)
      BY <1>4, <1>5, <1>9, <2>1 DEF HoldsAsBefore
    <3>2. Cardinality(Holders(u)') = Cardinality(Holders(u)) - 1
      BY <1>6, <3>1, FS_RemoveElement
    <3>3. Cardinality(Holders(u)) # 0
      BY <1>6, <3>1, FS_EmptySet
    <3>4. counter'[u] = counter[u] - 1
      BY <1>2, <1>3, <1>9, <2>1, <3>3 DEF Decrement
    <3> QED
      BY <1>2, <1>3, <3>2, <3>4
  <2>2. CASE User(r) # u
    <3>1. Holders(u)' = Holders(u)
      BY <1>4, <1>5, <1>9, <2>2 DEF HoldsAsBefore
    <3>2. counter'[u] = counter[u]
      BY <1>3, <1>9, <2>2 DEF Decrement
    <3> QED
      BY <1>2, <3>1, <3>2
  <2> QED
    BY <2>1, <2>2
<1> QED
  BY <1>1, <1>7, <1>8, <1>9, SlotMoves DEF SlotMove

-----------------------------------------------------------------------------
(* The theorems                                                            *)

LEMMA InitInv == Init => IInv
<1> SUFFICES ASSUME Init PROVE IInv
  OBVIOUS
<1>1. \A r \in Ids : /\ docs[r] = Absent /\ ends[r] = "none"
                     /\ reqs[r].pc = "new"
  BY DEF Init
<1>2. BeforeInv /\ FaultInv
  BY <1>1 DEF BeforeInv, FaultInv
<1>3. EndsInv
  <2>1. \A r \in Ids : ~docs[r].fromCache /\ ends[r] = "none"
    BY <1>1 DEF Absent
  <2> QED
    BY <2>1 DEF EndsInv
<1>4. FoundInv
  BY <1>1 DEF Init, FoundInv, Absent
<1>5. GuardNamesLive
  BY DEF Init, GuardNamesLive
<1>6. SlotsCounted
  <2>1. ASSUME NEW u \in Users PROVE Holders(u) = {}
    BY <1>1 DEF Holders, Occupies, Absent
  <2>2. Cardinality({}) = 0 /\ 0 <= Limit
    BY FS_EmptySet, LimitAssumption
  <2>3. ASSUME NEW u \in Users
        PROVE  counter[u] = Cardinality(Holders(u)) /\ counter[u] <= Limit
    BY <2>1, <2>2 DEF Init
  <2> QED
    BY <2>3 DEF SlotsCounted
<1> QED
  BY <1>2, <1>4, <1>5, <1>6, <1>3, InitTyped DEF IInv

LEMMA StepInv == IInv /\ [Next]_vars => IInv'
  BY StepTyped, DocumentsStep, FaultStep, FoundStep, GuardStep, SlotStep
     DEF IInv

LEMMA Inductive == Spec => []IInv
<1> QED
  BY InitInv, StepInv, PTL DEF Spec

\* Until something fails or a reconciler writes, the counter of a user is the
\* number of slots in use and never exceeds the limit.
THEOREM SlotsExact == Spec => []SlotsCounted
<1>1. IInv => SlotsCounted
  BY DEF IInv
<1> QED
  BY <1>1, Inductive, PTL

\* Without a failure no guard outlives the submission that took it.
THEOREM GuardsLive == Spec => []GuardNamesLive
<1>1. IInv => GuardNamesLive
  BY DEF IInv
<1> QED
  BY <1>1, Inductive, PTL

\* Whatever fails, a document served from the cache names as its origin one
\* that was processed for the same user and content.
THEOREM OriginsProcessed == Spec => []OriginProcessed
<1>1. IInv => OriginProcessed
  BY NoIdAssumption
     DEF IInv, FoundInv, Origins, Generated, NoSummary, OriginProcessed
<1> QED
  BY <1>1, Inductive, PTL
=============================================================================
