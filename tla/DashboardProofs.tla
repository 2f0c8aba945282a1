-------------------------- MODULE DashboardProofs --------------------------
(***************************************************************************)
(* What TLAPS proves of Dashboard: every safety property of the run        *)
(* dashboard, for any numbers of users, documents, rows on a page, fetches *)
(* and requests in flight, clicks and failures.                            *)
(***************************************************************************)
EXTENDS Dashboard, FiniteSetTheorems, TLAPS

-----------------------------------------------------------------------------
(* The server's answers                                                    *)

LEMMA AnswersTyped ==
    ASSUME TypeOK, NEW v \in View
    PROVE  Total(v) \in Nat /\ Rows(v) \subseteq Row
<1>1. Matching(v) \subseteq Docs /\ IsFiniteSet(Docs)
  BY ListingAssumption DEF Matching
<1>2. Total(v) \in Nat
  BY <1>1, FS_Subset, FS_CardinalityType DEF Total
<1>3. \A d \in Matching(v) : d \in Docs /\ status[d] \in Statuses
  BY DEF Matching, TypeOK
<1>4. Rows(v) \subseteq Row
  BY <1>3 DEF Rows, PageOf, Row
<1> QED
  BY <1>2, <1>4

\* A row shows the document as it is.
LEMMA RowsCurrent ==
    ASSUME NEW v, NEW row \in Rows(v)
    PROVE  row.status = status[row.doc]
  BY DEF Rows

-----------------------------------------------------------------------------
(* The queue of fetches                                                    *)

\* A fetch is sent for v, perhaps after one for another view.
Sending(v) ==
    \E views \in Seq(View) :
        views # <<>> /\ views[Len(views)] = v /\ Sends(views)

LEMMA SendingAppends ==
    ASSUME TypeOK, NEW v \in View, Sending(v)
    PROVE  /\ fetches' \in Seq(Fetch) /\ fetches' # <<>>
           /\ fetches'[Len(fetches')] = Sent(v)
           /\ \A k \in DOMAIN fetches' :
                 \/ fetches'[k].rows = {}
                 \/ \E j \in DOMAIN fetches : fetches'[k] = fetches[j]
           /\ overtaken' = overtaken
<1>1. PICK views \in Seq(View) :
          views # <<>> /\ views[Len(views)] = v /\ Sends(views)
  BY DEF Sending
<1> DEFINE new == [i \in DOMAIN views |-> Sent(views[i])]
<1>2. fetches \in Seq(Fetch)
  BY DEF TypeOK
<1>3. Len(views) \in Nat /\ Len(views) > 0 /\ DOMAIN views = 1..Len(views)
  BY <1>1
<1>4. \A i \in 1..Len(views) : Sent(views[i]) \in Fetch
  BY <1>1 DEF Sent, Fetch
<1>5. new \in Seq(Fetch) /\ Len(new) = Len(views) /\ new[Len(views)] = Sent(v)
  BY <1>1, <1>3, <1>4
<1>6. fetches' = fetches \o new /\ overtaken' = overtaken
  BY <1>1 DEF Sends
<1> HIDE DEF new
<1>7. /\ fetches \o new \in Seq(Fetch)
      /\ Len(fetches \o new) = Len(fetches) + Len(new)
      /\ (fetches \o new)[Len(fetches) + Len(new)] = new[Len(new)]
  BY <1>2, <1>3, <1>5
<1>8. \A k \in 1..Len(new) : new[k].rows = {}
  BY <1>3, <1>5 DEF new, Sent
<1>9. ASSUME NEW k \in DOMAIN (fetches \o new)
      PROVE  \/ (fetches \o new)[k].rows = {}
             \/ \E j \in DOMAIN fetches : (fetches \o new)[k] = fetches[j]
  <2>1. CASE k <= Len(fetches)
    BY <1>2, <1>5, <1>7, <2>1
  <2>2. CASE k > Len(fetches)
    <3>1. (fetches \o new)[k] = new[k - Len(fetches)]
      BY <1>2, <1>5, <1>7, <2>2
    <3>2. k - Len(fetches) \in 1..Len(new)
      BY <1>2, <1>5, <1>7, <2>2
    <3> QED
      BY <1>8, <3>1, <3>2
  <2> QED
    BY <1>2, <1>5, <1>7, <2>1, <2>2
<1> QED
  BY <1>2, <1>3, <1>5, <1>6, <1>7, <1>9

LEMMA OneView ==
    ASSUME NEW v \in View, Sends(<<v>>)
    PROVE  Sending(v)
<1>1. <<v>> \in Seq(View) /\ <<v>> # <<>> /\ <<v>>[Len(<<v>>)] = v
  OBVIOUS
<1> QED
  BY <1>1 DEF Sending

LEMMA TwoViews ==
    ASSUME NEW u \in View, NEW v \in View,
           Sends(IF u = v THEN <<v>> ELSE <<u, v>>)
    PROVE  Sending(v)
<1>1. /\ <<u, v>> \in Seq(View) /\ <<u, v>> # <<>>
      /\ <<u, v>>[Len(<<u, v>>)] = v
  OBVIOUS
<1>2. CASE u = v
  BY <1>2, OneView
<1>3. CASE u # v
  BY <1>1, <1>3 DEF Sending
<1> QED
  BY <1>2, <1>3

LEMMA RerendersSends ==
    ASSUME NEW v \in View, Sends(Rerenders(v))
    PROVE  Sending([v EXCEPT !.page = 0]) /\ [v EXCEPT !.page = 0] \in View
<1>1. [v EXCEPT !.page = 0] \in View
  BY DEF View
<1> QED
  BY <1>1, TwoViews DEF Rerenders

\* What the end of a fetch does to the queue: unless an answer overtakes, the
\* first goes and the last stays.
LEMMA OverShortens ==
    ASSUME TypeOK, NEW i \in DOMAIN fetches, Over(i)
    PROVE  /\ fetches' \in Seq(Fetch) /\ overtaken' \in BOOLEAN
           /\ \A k \in DOMAIN fetches' :
                 \E j \in DOMAIN fetches : fetches'[k] = fetches[j]
           /\ ~overtaken' => ~overtaken /\ i = 1
           /\ i = 1 /\ fetches' = <<>> => Len(fetches) = 1
           /\ i = 1 /\ fetches' # <<>> =>
                 fetches'[Len(fetches')] = fetches[Len(fetches)]
<1> DEFINE n == Len(fetches)
           before == SubSeq(fetches, 1, i - 1)
           after == SubSeq(fetches, i + 1, n)
<1>1. fetches \in Seq(Fetch) /\ n \in Nat /\ i \in 1..n /\ overtaken \in BOOLEAN
  BY DEF TypeOK
<1>2. /\ before \in Seq(Fetch) /\ Len(before) = i - 1
      /\ after \in Seq(Fetch) /\ Len(after) = n - i
      /\ \A k \in 1..i - 1 : before[k] = fetches[k]
      /\ \A k \in 1..n - i : after[k] = fetches[i + k]
  BY <1>1
<1>3. fetches' = before \o after /\ overtaken' = (overtaken \/ i # 1)
  BY DEF Over, RemoveAt
<1> HIDE DEF before, after
<1>4. before \o after \in Seq(Fetch)
  BY <1>2
<1>5. ASSUME i = 1 PROVE /\ Len(before \o after) = n - 1
                         /\ n > 1 => (before \o after)[n - 1] = fetches[n]
  BY <1>1, <1>2, <1>5
<1>6. ASSUME i = 1
      PROVE  /\ fetches' = <<>> => n = 1
             /\ fetches' # <<>> => fetches'[Len(fetches')] = fetches[n]
  <2>1. Len(fetches') = n - 1 /\ fetches' \in Seq(Fetch)
    BY <1>3, <1>4, <1>5, <1>6
  <2>2. fetches' = <<>> <=> n = 1
    BY <1>1, <2>1
  <2> QED
    BY <1>1, <1>3, <1>5, <1>6, <2>1, <2>2
<1>7. ASSUME NEW k \in DOMAIN (before \o after)
      PROVE  \E j \in DOMAIN fetches : (before \o after)[k] = fetches[j]
  <2>1. k \in 1..n - 1 /\ DOMAIN fetches = 1..n
    BY <1>1, <1>2, <1>4
  <2>2. CASE k <= i - 1
    BY <1>1, <1>2, <2>1, <2>2
  <2>3. CASE k > i - 1
    <3>1. (before \o after)[k] = after[k - (i - 1)]
      BY <1>1, <1>2, <2>1, <2>3
    <3>2. k - (i - 1) \in 1..n - i /\ i + (k - (i - 1)) = k + 1
      BY <1>1, <2>1, <2>3
    <3>3. after[k - (i - 1)] = fetches[i + (k - (i - 1))]
      BY <1>2, <3>2
    <3>4. (before \o after)[k] = fetches[k + 1] /\ k + 1 \in 1..n
      BY <1>1, <2>1, <3>1, <3>2, <3>3
    <3> QED
      BY <2>1, <3>4
  <2> QED
    BY <1>1, <2>1, <2>2, <2>3
<1> QED
  BY <1>1, <1>3, <1>4, <1>6, <1>7

-----------------------------------------------------------------------------
(* What a step does to the list, to the poll and to the documents          *)

ListMove ==
    \/ /\ view' = view /\ table' = table
       /\ fetches' = fetches /\ overtaken' = overtaken
    \/ /\ view' \in View /\ Sending(view')
       /\ table' \in Table /\ table'.rows \subseteq table.rows
    \/ \E i \in DOMAIN fetches : Answered(i) \/ Arrive(i) \/ FetchFails(i)

\* What the user can ask for.
Listed(d) == status[d] = "ended" \/ \E row \in table.rows : row.doc = d

PollMove ==
    \/ poll' = poll /\ calls' = calls /\ detail' = detail
    \/ \E d \in Docs \cup {NoDoc} :
          /\ Asks(d) /\ detail' = TRUE
          /\ IF detail THEN d = poll.asked ELSE d \in Docs /\ Listed(d)
    \/ Forgets /\ detail' = FALSE
    \/ /\ detail' = detail
       /\ \/ \E c \in calls :
                \/ CallServed(c) \/ Fails(c)
                \/ Lands(c) /\ (Settles(c) => Sending(view'))
          \/ TickSends

\* A document that has ended stays ended, and none goes away.
StatusMove ==
    /\ status' \in [Docs -> {"absent"} \cup Statuses]
    /\ \A d \in Docs : status[d] # "absent" => status'[d] # "absent"
    /\ \A d \in Docs : status[d] = "ended" => status'[d] = "ended"

Moved == ListMove /\ PollMove /\ StatusMove

LEMMA StatusKept ==
    ASSUME TypeOK, status' = status
    PROVE  StatusMove
  BY DEF TypeOK, StatusMove

LEMMA StatusSet ==
    ASSUME TypeOK, NEW d \in Docs, NEW to \in Statuses,
           status[d] = "ended" => to = "ended",
           status' = [status EXCEPT ![d] = to]
    PROVE  StatusMove
<1>1. to # "absent"
  BY DEF Statuses
<1> QED
  BY <1>1 DEF TypeOK, StatusMove

LEMMA TableTyped ==
    ASSUME TypeOK
    PROVE  LET refreshed == [table EXCEPT !.refetching = TRUE]
               emptied == [table EXCEPT !.rows = {}, !.of = NoView,
                                        !.loading = TRUE]
           IN /\ refreshed \in Table /\ refreshed.rows = table.rows
              /\ emptied \in Table /\ emptied.rows = {}
  BY DEF TypeOK, Table

LEMMA RefreshMoves ==
    ASSUME TypeOK, Refreshes
    PROVE  ListMove /\ Sending(view')
<1>1. view \in View /\ view' = view /\ Sends(<<view>>)
  BY DEF TypeOK, Refreshes
<1>2. table' \in Table /\ table'.rows = table.rows
  BY TableTyped DEF Refreshes
<1> QED
  BY <1>1, <1>2, OneView DEF ListMove

LEMMA ChangedMoves ==
    ASSUME TypeOK, Changed
    PROVE  ListMove
<1>1. /\ view \in View /\ Sends(Rerenders(view))
      /\ view' = [view EXCEPT !.page = 0]
  BY DEF TypeOK, Changed
<1>2. table' \in Table /\ table'.rows = table.rows
  BY TableTyped DEF Changed
<1> QED
  BY <1>1, <1>2, RerendersSends DEF ListMove

LEMMA ListKept ==
    ASSUME UNCHANGED listVars
    PROVE  ListMove
  BY DEF listVars, ListMove

LEMMA PollKept ==
    ASSUME UNCHANGED pollVars, UNCHANGED detail
    PROVE  PollMove
  BY DEF pollVars, PollMove

LEMMA ArrivesMoves ==
    ASSUME TypeOK, NEW d \in Docs, Arrives(d)
    PROVE  StatusMove
<1>1. status[d] = "absent"
  <2>1. status[d] = "absent" <=> d >= d
    BY DEF Arrives
  <2>2. d \in Nat
    BY ListingAssumption
  <2> QED
    BY <2>1, <2>2
<1>2. PICK s \in {"queued", "ended"} : status' = [status EXCEPT ![d] = s]
  BY DEF Arrives
<1>3. s \in Statuses
  BY DEF Statuses
<1> QED
  BY <1>1, <1>2, <1>3, StatusSet

LEMMA UserMoves ==
    ASSUME TypeOK, UserStep
    PROVE  Moved
<1>1. ASSUME NEW u \in Users, SelectUser(u) PROVE Moved
  <2>1. view \in View /\ [view EXCEPT !.user = u] \in View
    BY DEF TypeOK, View
  <2>2. view' = [user |-> u, page |-> 0, filter |-> "any"] /\ view' \in View
    BY <1>1 DEF SelectUser, View
  <2>3. Sends(IF [view EXCEPT !.user = u] = view' THEN <<view'>>
              ELSE <<[view EXCEPT !.user = u], view'>>)
    BY <1>1 DEF SelectUser
  <2>4. Sending(view')
    BY <2>1, <2>2, <2>3, TwoViews
  <2>5. table' \in Table /\ table'.rows = {}
    BY <1>1, TableTyped DEF SelectUser
  <2>6. ListMove
    BY <2>2, <2>4, <2>5 DEF ListMove
  <2>7. PollMove /\ StatusMove
    BY <1>1, PollKept, StatusKept DEF SelectUser
  <2> QED
    BY <2>6, <2>7 DEF Moved
<1>2. ASSUME NEW p \in 0..Cardinality(Docs), ChangePage(p) PROVE Moved
  <2>1. p \in Nat
    BY ListingAssumption, FS_CardinalityType
  <2>2. view' = [view EXCEPT !.page = p] /\ view' \in View /\ Sends(<<view'>>)
    BY <1>2, <2>1 DEF ChangePage, TypeOK, View
  <2>3. table' \in Table /\ table' = table
    BY <1>2 DEF ChangePage, TypeOK
  <2>4. ListMove
    BY <2>2, <2>3, OneView DEF ListMove
  <2>5. PollMove /\ StatusMove
    BY <1>2, PollKept, StatusKept DEF ChangePage
  <2> QED
    BY <2>4, <2>5 DEF Moved
<1>3. ASSUME NEW f \in Filters, ChangeFilter(f) PROVE Moved
  <2> DEFINE first == [view EXCEPT !.filter = f]
  <2>1. view \in View /\ first \in View
    BY DashboardAssumption DEF TypeOK, View
  <2>2. view' = [first EXCEPT !.page = 0]
    BY <1>3, <2>1 DEF ChangeFilter, View
  <2>3. Sends(Rerenders(first))
    BY <1>3 DEF ChangeFilter
  <2> HIDE DEF first
  <2>4. view' \in View /\ Sending(view')
    BY <2>1, <2>2, <2>3, RerendersSends
  <2>5. table' \in Table /\ table' = table
    BY <1>3 DEF ChangeFilter, TypeOK
  <2>6. ListMove
    BY <2>4, <2>5 DEF ListMove
  <2>7. PollMove /\ StatusMove
    BY <1>3, PollKept, StatusKept DEF ChangeFilter
  <2> QED
    BY <2>6, <2>7 DEF Moved
<1>4. CASE Refresh
  BY <1>4, RefreshMoves, PollKept, StatusKept DEF Refresh, Moved
<1>5. ASSUME NEW d \in Docs, OpenDetail(d) PROVE Moved
  <2>1. PollMove
    BY <1>5 DEF OpenDetail, PollMove, Listed
  <2>2. ListMove /\ StatusMove
    BY <1>5, ListKept, StatusKept DEF OpenDetail
  <2> QED
    BY <2>1, <2>2 DEF Moved
<1>6. CASE RefreshDetail
  <2>1. poll.asked \in Docs \cup {NoDoc}
    BY DEF TypeOK, Poll
  <2>2. Asks(poll.asked) /\ detail /\ detail' = detail /\ detail \in BOOLEAN
    BY <1>6 DEF RefreshDetail, TypeOK
  <2>3. PollMove
    BY <2>1, <2>2 DEF PollMove
  <2>4. ListMove /\ StatusMove
    BY <1>6, ListKept, StatusKept DEF RefreshDetail
  <2> QED
    BY <2>3, <2>4 DEF Moved
<1>7. CASE CloseDetail
  <2>1. PollMove
    BY <1>7 DEF CloseDetail, PollMove
  <2>2. ListMove /\ StatusMove
    BY <1>7, ListKept, StatusKept DEF CloseDetail
  <2> QED
    BY <2>1, <2>2 DEF Moved
<1>8. ASSUME NEW d \in Docs, ViewResult(d) PROVE Moved
  <2>1. PollMove
    BY <1>8 DEF ViewResult, PollMove, Listed
  <2>2. ListMove /\ StatusMove
    BY <1>8, RefreshMoves, StatusKept DEF ViewResult
  <2> QED
    BY <2>1, <2>2 DEF Moved
<1>9. ASSUME NEW d \in Docs, Upload(d) PROVE Moved
  <2>1. StatusMove
    BY <1>9, ArrivesMoves, StatusKept DEF Upload
  <2>2. ListMove /\ PollMove
    BY <1>9, ChangedMoves, PollKept DEF Upload
  <2> QED
    BY <2>1, <2>2 DEF Moved
<1>10. CASE UploadSettles
  BY <1>10, ChangedMoves, PollKept, StatusKept DEF UploadSettles, Moved
<1> QED
  BY <1>1, <1>2, <1>3, <1>4, <1>5, <1>6, <1>7, <1>8, <1>9, <1>10 DEF UserStep

LEMMA ServerMoves ==
    ASSUME TypeOK, NEW d \in Docs, ServerStep(d)
    PROVE  Moved
<1>1. ASSUME NEW from \in {"queued", "processing"}, NEW to \in Statuses,
             Moves(d, from, to)
      PROVE  StatusMove
  BY <1>1, StatusSet DEF Moves
<1>2. StatusMove
  <2>1. Statuses = {"queued", "processing", "ended"}
    BY DEF Statuses
  <2>2. \/ Arrives(d) \/ Moves(d, "processing", "queued")
        \/ Moves(d, "queued", "processing") \/ Moves(d, "processing", "ended")
    BY DEF ServerStep, Worked
  <2> QED
    BY <1>1, <2>1, <2>2, ArrivesMoves
<1>3. UNCHANGED pollVars /\ UNCHANGED listVars /\ UNCHANGED detail
  BY DEF ServerStep, Worked
<1> QED
  BY <1>2, <1>3, ListKept, PollKept DEF Moved

LEMMA TimedMoves ==
    ASSUME TypeOK, Timed
    PROVE  Moved
<1>1. ASSUME NEW i, FetchStep(i) \/ FetchFails(i) PROVE Moved
  <2>1. ListMove
    BY <1>1 DEF FetchStep, Answered, Arrive, FetchFails, ListMove
  <2>2. PollMove /\ StatusMove
    BY <1>1, PollKept, StatusKept DEF FetchStep, Answered, Arrive, FetchFails
  <2> QED
    BY <2>1, <2>2 DEF Moved
<1>2. ASSUME NEW c \in calls, CallAnswered(c) \/ CallFails(c) PROVE Moved
  <2>1. PollMove
    BY <1>2 DEF CallAnswered, CallFails, PollMove
  <2>2. ListMove /\ StatusMove
    BY <1>2, ListKept, StatusKept DEF CallAnswered, CallFails
  <2> QED
    BY <2>1, <2>2 DEF Moved
<1>3. ASSUME NEW c \in calls, CallLands(c) PROVE Moved
  <2>1. ListMove /\ (Settles(c) => Sending(view'))
    BY <1>3, RefreshMoves, ListKept DEF CallLands
  <2>2. Lands(c) /\ detail' = detail
    BY <1>3 DEF CallLands
  <2>3. PollMove
    BY <2>1, <2>2 DEF PollMove
  <2>4. StatusMove
    BY <1>3, StatusKept DEF CallLands
  <2> QED
    BY <2>1, <2>3, <2>4 DEF Moved
<1>4. CASE Tick
  BY <1>4, RefreshMoves, PollKept, StatusKept DEF Tick, Moved
<1>5. CASE PollTick
  <2>1. PollMove
    BY <1>5 DEF PollTick, PollMove
  <2>2. ListMove /\ StatusMove
    BY <1>5, ListKept, StatusKept DEF PollTick
  <2> QED
    BY <2>1, <2>2 DEF Moved
<1> QED
  BY <1>1, <1>2, <1>3, <1>4, <1>5, ServerMoves DEF Timed, CallStep

LEMMA StepMoves ==
    ASSUME TypeOK, [Next]_vars
    PROVE  Moved
<1>1. CASE UNCHANGED vars
  BY <1>1, ListKept, PollKept, StatusKept DEF vars, Moved
<1>2. CASE Next
  BY <1>2, UserMoves, TimedMoves DEF Next
<1> QED
  BY <1>1, <1>2

-----------------------------------------------------------------------------
(* Types                                                                   *)

LEMMA NothingTyped == Nothing.doc = NoDoc /\ Nothing.status = "none"
  BY DEF Nothing

LEMMA TableWrites ==
    ASSUME NEW t \in Table, NEW f \in Fetch
    PROVE  /\ [t EXCEPT !.error = TRUE, !.loading = FALSE,
                        !.refetching = FALSE] \in Table
           /\ [rows |-> f.rows, total |-> f.total, of |-> f.view,
               loading |-> FALSE, refetching |-> FALSE, error |-> FALSE] \in Table
  BY DEF Table, Fetch

LEMMA FetchWrites ==
    ASSUME NEW f \in Fetch, NEW n \in Nat, NEW rows \in SUBSET Row
    PROVE  [f EXCEPT !.answered = TRUE, !.total = n, !.rows = rows] \in Fetch
  BY DEF Fetch

LEMMA ListTyped ==
    ASSUME TypeOK, ListMove
    PROVE  /\ view' \in View /\ table' \in Table
           /\ fetches' \in Seq(Fetch) /\ overtaken' \in BOOLEAN
<1>1. /\ view \in View /\ table \in Table
      /\ fetches \in Seq(Fetch) /\ overtaken \in BOOLEAN
  BY DEF TypeOK
<1>2. CASE view' \in View /\ table' \in Table /\ Sending(view')
  BY <1>1, <1>2, SendingAppends
<1>3. ASSUME NEW i \in DOMAIN fetches, Answered(i)
      PROVE  /\ view' = view /\ table' = table /\ overtaken' = overtaken
             /\ fetches' \in Seq(Fetch)
  <2>0. fetches[i] \in Fetch
    BY <1>1
  <2>1. fetches[i] \in Fetch /\ fetches[i].view \in View
    BY <2>0 DEF Fetch
  <2>2. Total(fetches[i].view) \in Nat /\ Rows(fetches[i].view) \subseteq Row
    BY <2>1, AnswersTyped
  <2> DEFINE new == [fetches[i] EXCEPT !.answered = TRUE,
                                       !.total = Total(fetches[i].view),
                                       !.rows = Rows(fetches[i].view)]
  <2>3. new \in Fetch
    BY <2>1, <2>2, FetchWrites
  <2>4. fetches' = [fetches EXCEPT ![i] = new]
    BY <1>3 DEF Answered
  <2> HIDE DEF new
  <2>5. fetches' \in Seq(Fetch)
    BY <1>1, <2>3, <2>4
  <2> QED
    BY <1>3, <2>5 DEF Answered
<1>4. ASSUME NEW i \in DOMAIN fetches, Arrive(i) \/ FetchFails(i)
      PROVE  /\ view' = view /\ table' \in Table
             /\ fetches' \in Seq(Fetch) /\ overtaken' \in BOOLEAN
  <2>1. fetches' \in Seq(Fetch) /\ overtaken' \in BOOLEAN /\ view' = view
    BY <1>4, OverShortens DEF Arrive, FetchFails
  <2>2. fetches[i] \in Fetch
    BY <1>1
  <2>3. CASE Arrive(i)
    <3>1. [rows |-> fetches[i].rows, total |-> fetches[i].total,
           of |-> fetches[i].view, loading |-> FALSE, refetching |-> FALSE,
           error |-> FALSE] \in Table
      BY <1>1, <2>2, TableWrites
    <3> QED
      BY <2>1, <2>3, <3>1 DEF Arrive
  <2>4. CASE FetchFails(i)
    <3>1. [table EXCEPT !.error = TRUE, !.loading = FALSE,
                        !.refetching = FALSE] \in Table
      BY <1>1, <2>2, TableWrites
    <3> QED
      BY <2>1, <2>4, <3>1 DEF FetchFails
  <2> QED
    BY <1>4, <2>1, <2>3, <2>4
<1> QED
  BY <1>1, <1>2, <1>3, <1>4 DEF ListMove

\* The dialog is open exactly while its poll has a document, and until it has
\* seen the end of that one there is a timer, or one request that counts.
PollInv ==
    /\ detail <=> poll.asked # NoDoc
    /\ poll.asked = NoDoc => poll.shown = Nothing
    /\ poll.shown # Nothing => poll.shown.doc = poll.asked
    /\ \A c \in calls : c.live => c.doc = poll.asked
    /\ poll.asked # NoDoc /\ poll.settled
          => poll.shown = [doc |-> poll.asked, status |-> "ended"]
    /\ IF poll.asked = NoDoc \/ poll.settled
       THEN ~poll.timer /\ \A c \in calls : ~c.live
       ELSE IF poll.timer THEN \A c \in calls : ~c.live
            ELSE \E c \in calls : {x \in calls : x.live} = {c}

\* Only documents that exist are shown or asked for.
Known(rows) == \A row \in rows : status[row.doc] # "absent"

KnownInv ==
    /\ Known(table.rows)
    /\ \A i \in DOMAIN fetches : Known(fetches[i].rows)
    /\ \A c \in calls : status[c.doc] # "absent"
    /\ poll.asked # NoDoc => status[poll.asked] # "absent"

LEMMA CallsTyped ==
    ASSUME TypeOK, PollInv, KnownInv, PollMove
    PROVE  poll' \in Poll /\ calls' \subseteq Call /\ detail' \in BOOLEAN
<1>1. poll \in Poll /\ calls \subseteq Call /\ detail \in BOOLEAN
  BY DEF TypeOK
<1>2. \A c \in calls : [c EXCEPT !.live = FALSE] \in Call
  BY <1>1 DEF Call
<1>3. Cancelled \subseteq Call
  BY <1>2 DEF Cancelled
<1>4. ASSUME NEW d \in Docs PROVE NewCall(d) \in Call
  BY <1>4 DEF NewCall, Call
<1>5. ASSUME NEW d \in Docs \cup {NoDoc}, Asks(d), d # NoDoc
      PROVE  poll' \in Poll /\ calls' \subseteq Call
  <2>1. [poll EXCEPT !.asked = d, !.loading = TRUE, !.timer = FALSE,
                     !.settled = FALSE] \in Poll
    BY <1>1, <1>5 DEF Poll
  <2> QED
    BY <1>3, <1>4, <1>5, <2>1 DEF Asks
<1>6. ASSUME Forgets PROVE poll' \in Poll /\ calls' \subseteq Call
  <2>1. [poll EXCEPT !.asked = NoDoc, !.shown = Nothing,
                     !.error = FALSE, !.timer = FALSE] \in Poll
    BY <1>1 DEF Poll
  <2> QED
    BY <1>3, <1>6, <2>1 DEF Forgets
<1>7. ASSUME NEW c \in calls, CallServed(c)
      PROVE  poll' \in Poll /\ calls' \subseteq Call
  <2>1. c \in Call
    BY <1>1
  <2>3. status[c.doc] \in Statuses
    BY <1>1, <1>7, <2>1 DEF KnownInv, TypeOK, Call
  <2>2. [c EXCEPT !.status = status[c.doc]] \in Call
    BY <2>1, <2>3 DEF Call
  <2> QED
    BY <1>1, <1>7, <2>2 DEF CallServed
<1>8. ASSUME NEW c \in calls, Lands(c)
      PROVE  poll' \in Poll /\ calls' \subseteq Call
  <2>1. c \in Call /\ c.status # "none"
    BY <1>1, <1>8 DEF Lands
  <2>2. [doc |-> c.doc, status |-> c.status] \in Row
    BY <2>1 DEF Call, Row
  <2> DEFINE b == c.status # "ended"
             s == poll.settled \/ c.status = "ended"
  <2>3. b \in BOOLEAN /\ s \in BOOLEAN
    OBVIOUS
  <2>4. [poll EXCEPT !.shown = [doc |-> c.doc, status |-> c.status],
                     !.error = FALSE, !.loading = FALSE, !.timer = b,
                     !.settled = s] \in Poll
    <3> HIDE DEF b, s
    <3> QED
      BY <1>1, <2>2, <2>3 DEF Poll
  <2> QED
    BY <1>1, <1>8, <2>4 DEF Lands
<1>9. ASSUME NEW c \in calls, Fails(c)
      PROVE  poll' \in Poll /\ calls' \subseteq Call
  <2>1. [poll EXCEPT !.error = TRUE, !.loading = FALSE, !.timer = TRUE] \in Poll
    BY <1>1 DEF Poll
  <2> QED
    BY <1>1, <1>9, <2>1 DEF Fails
<1>10. ASSUME TickSends PROVE poll' \in Poll /\ calls' \subseteq Call
  <2>1. poll.asked \in Docs /\ [poll EXCEPT !.timer = FALSE] \in Poll
    BY <1>1, <1>10 DEF TickSends, Poll, PollInv
  <2> QED
    BY <1>1, <1>4, <1>10, <2>1 DEF TickSends
<1>11. ASSUME NEW d \in Docs \cup {NoDoc},
              IF detail THEN d = poll.asked ELSE d \in Docs /\ Listed(d)
       PROVE  d # NoDoc
  BY <1>11, PollAssumption DEF PollInv
<1> QED
  BY <1>1, <1>5, <1>6, <1>7, <1>8, <1>9, <1>10, <1>11 DEF PollMove

LEMMA KnownStep ==
    ASSUME TypeOK, PollInv, KnownInv, Moved
    PROVE  KnownInv'
<1>1. /\ \A d \in Docs : status[d] # "absent" => status'[d] # "absent"
      /\ ListMove /\ PollMove
  BY DEF Moved, StatusMove
<1>2. /\ table.rows \subseteq Row /\ calls \subseteq Call
      /\ poll.asked \in Docs \cup {NoDoc}
      /\ fetches \in Seq(Fetch)
  BY DEF TypeOK, Table, Poll
<1>3. \A i \in DOMAIN fetches : fetches[i].rows \subseteq Row
  <2>1. \A i \in DOMAIN fetches : fetches[i] \in Fetch
    BY <1>2
  <2> QED
    BY <2>1 DEF Fetch
<1>4. ASSUME NEW rows \in SUBSET Row, \A row \in rows : status[row.doc] # "absent"
      PROVE  \A row \in rows : status'[row.doc] # "absent"
  BY <1>1, <1>4 DEF Row
<1>5. /\ \A row \in table.rows : status[row.doc] # "absent"
      /\ \A i \in DOMAIN fetches :
            \A row \in fetches[i].rows : status[row.doc] # "absent"
  BY DEF KnownInv, Known
<1>6. /\ \A row \in table.rows : status'[row.doc] # "absent"
      /\ \A i \in DOMAIN fetches :
            \A row \in fetches[i].rows : status'[row.doc] # "absent"
  BY <1>2, <1>3, <1>4, <1>5
<1>7. /\ \A row \in table'.rows : status'[row.doc] # "absent"
      /\ \A i \in DOMAIN fetches' :
            \A row \in fetches'[i].rows : status'[row.doc] # "absent"
  <2>1. CASE view' = view /\ table' = table /\ fetches' = fetches
    BY <1>6, <2>1
  <2>2. CASE view' \in View /\ Sending(view') /\ table'.rows \subseteq table.rows
    <3>1. \A k \in DOMAIN fetches' :
             \/ fetches'[k].rows = {}
             \/ \E j \in DOMAIN fetches : fetches'[k] = fetches[j]
      BY <2>2, SendingAppends
    <3> QED
      BY <1>6, <2>2, <3>1
  <2>3. ASSUME NEW i \in DOMAIN fetches, Answered(i)
        PROVE  /\ table' = table
               /\ \A k \in DOMAIN fetches' :
                     \A row \in fetches'[k].rows : status'[row.doc] # "absent"
    <3>1. fetches[i] \in Fetch
      BY <1>2
    <3>2. fetches[i].view \in View
      BY <3>1 DEF Fetch
    <3>3. Rows(fetches[i].view) \subseteq Row
      BY <3>2, AnswersTyped
    <3>4. \A row \in Rows(fetches[i].view) : status[row.doc] # "absent"
      BY <3>3, RowsCurrent DEF Row, Statuses
    <3>5. \A row \in Rows(fetches[i].view) : status'[row.doc] # "absent"
      BY <1>4, <3>3, <3>4
    <3>6. fetches' = [fetches EXCEPT ![i] =
                         [fetches[i] EXCEPT !.answered = TRUE,
                                            !.total = Total(fetches[i].view),
                                            !.rows = Rows(fetches[i].view)]]
      BY <2>3 DEF Answered
    <3>7. DOMAIN fetches' = DOMAIN fetches
      BY <1>2, <3>6
    <3>8. \A k \in DOMAIN fetches : k # i => fetches'[k] = fetches[k]
      BY <1>2, <3>6
    <3>9. fetches'[i].rows = Rows(fetches[i].view)
      BY <1>2, <3>1, <3>6 DEF Fetch
    <3>10. table' = table
      BY <2>3 DEF Answered
    <3> QED
      BY <1>6, <3>5, <3>7, <3>8, <3>9, <3>10
  <2>4. ASSUME NEW i \in DOMAIN fetches, Arrive(i) \/ FetchFails(i)
        PROVE  /\ \/ table'.rows = table.rows
                  \/ table'.rows = fetches[i].rows
               /\ \A k \in DOMAIN fetches' :
                     \E j \in DOMAIN fetches : fetches'[k] = fetches[j]
    <3>1. Over(i)
      BY <2>4 DEF Arrive, FetchFails
    <3>2. \/ table'.rows = table.rows \/ table'.rows = fetches[i].rows
      <4>1. CASE Arrive(i)
        BY <4>1 DEF Arrive
      <4>2. CASE FetchFails(i)
        BY <4>2 DEF FetchFails, TypeOK, Table
      <4> QED
        BY <2>4, <4>1, <4>2
    <3> QED
      BY <3>1, <3>2, OverShortens
  <2> QED
    BY <1>1, <1>6, <2>1, <2>2, <2>3, <2>4 DEF ListMove
<1>8. /\ \A c \in calls' : status'[c.doc] # "absent"
      /\ poll'.asked # NoDoc => status'[poll'.asked] # "absent"
  <2>1. /\ \A c \in calls : c.doc \in Docs /\ status'[c.doc] # "absent"
        /\ poll.asked # NoDoc => status'[poll.asked] # "absent"
    BY <1>1, <1>2 DEF KnownInv, Call
  <2>2. \A c \in Cancelled : status'[c.doc] # "absent"
    <3>1. \A c \in calls : [c EXCEPT !.live = FALSE].doc = c.doc
      BY <1>2 DEF Call
    <3> QED
      BY <2>1, <3>1 DEF Cancelled
  <2>3. ASSUME NEW d \in Docs \cup {NoDoc}, Asks(d),
               IF detail THEN d = poll.asked ELSE d \in Docs /\ Listed(d)
        PROVE  /\ \A c \in calls' : status'[c.doc] # "absent"
               /\ poll'.asked # NoDoc => status'[poll'.asked] # "absent"
    <3>1. d \in Docs
      BY <2>3, PollAssumption DEF PollInv
    <3>2. status[d] # "absent"
      <4>1. CASE detail
        BY <2>3, <4>1 DEF KnownInv, PollInv
      <4>2. CASE ~detail
        BY <1>5, <2>3, <4>2 DEF Listed
      <4> QED
        BY <4>1, <4>2
    <3>3. poll'.asked = d /\ calls' = Cancelled \cup {NewCall(d)}
      BY <2>3 DEF Asks, TypeOK, Poll
    <3>4. NewCall(d).doc = d
      BY DEF NewCall
    <3> QED
      BY <1>1, <2>2, <3>1, <3>2, <3>3, <3>4
  <2>4. CASE Forgets
    <3>1. poll'.asked = NoDoc /\ calls' = Cancelled
      BY <2>4 DEF Forgets, TypeOK, Poll
    <3> QED
      BY <2>2, <3>1
  <2>5. ASSUME NEW c \in calls, CallServed(c) \/ Lands(c) \/ Fails(c)
        PROVE  /\ \A x \in calls' : status'[x.doc] # "absent"
               /\ poll'.asked # NoDoc => status'[poll'.asked] # "absent"
    <3>1. poll'.asked = poll.asked
      BY <2>5 DEF CallServed, Lands, Fails, TypeOK, Poll
    <3>2. [c EXCEPT !.status = status[c.doc]].doc = c.doc
      BY <1>2 DEF Call
    <3>3. \A x \in calls' : x \in calls \/ x = [c EXCEPT !.status = status[c.doc]]
      BY <2>5 DEF CallServed, Lands, Fails
    <3> QED
      BY <2>1, <3>1, <3>2, <3>3
  <2>6. CASE TickSends
    <3>1. /\ poll'.asked = poll.asked /\ poll.timer
          /\ calls' = calls \cup {NewCall(poll.asked)}
      BY <2>6 DEF TickSends, TypeOK, Poll
    <3>2. NewCall(poll.asked).doc = poll.asked /\ poll.asked # NoDoc
      BY <3>1 DEF NewCall, PollInv
    <3> QED
      BY <2>1, <3>1, <3>2
  <2>7. CASE poll' = poll /\ calls' = calls
    BY <2>1, <2>7
  <2> QED
    BY <1>1, <2>3, <2>4, <2>5, <2>6, <2>7 DEF PollMove
<1> QED
  BY <1>7, <1>8 DEF KnownInv, Known

-----------------------------------------------------------------------------
(* The poll                                                                *)

LEMMA PollStep ==
    ASSUME TypeOK, PollInv, PollMove
    PROVE  PollInv'
<1>1. /\ poll \in Poll /\ calls \subseteq Call /\ detail \in BOOLEAN
      /\ NoDoc \notin Docs
  BY PollAssumption DEF TypeOK
<1>2. \A c \in Cancelled : c.live = FALSE
  BY <1>1 DEF Cancelled, Call
<1>3. CASE poll' = poll /\ calls' = calls /\ detail' = detail
  BY <1>3 DEF PollInv
<1>4. ASSUME NEW d \in Docs \cup {NoDoc}, Asks(d), detail' = TRUE,
             IF detail THEN d = poll.asked ELSE d \in Docs /\ Listed(d)
      PROVE  PollInv'
  <2>1. /\ poll'.asked = d /\ poll'.shown = poll.shown
        /\ poll'.timer = FALSE /\ poll'.settled = FALSE
        /\ calls' = Cancelled \cup {NewCall(d)}
    BY <1>1, <1>4 DEF Asks, Poll
  <2>2. NewCall(d).doc = d /\ NewCall(d).live = TRUE
    BY DEF NewCall
  <2>3. d # NoDoc
    BY <1>1, <1>4 DEF PollInv
  <2>4. poll.shown # Nothing => poll.shown.doc = d
    BY <1>4 DEF PollInv
  <2>5. {x \in calls' : x.live} = {NewCall(d)}
    BY <1>2, <2>1, <2>2
  <2>6. \A c \in calls' : c.live => c.doc = d
    BY <1>2, <2>1, <2>2
  <2> QED
    BY <1>4, <2>1, <2>3, <2>4, <2>5, <2>6 DEF PollInv
<1>5. CASE Forgets /\ detail' = FALSE
  <2>1. /\ poll'.asked = NoDoc /\ poll'.shown = Nothing /\ poll'.timer = FALSE
        /\ calls' = Cancelled
    BY <1>1, <1>5 DEF Forgets, Poll
  <2> QED
    BY <1>2, <1>5, <2>1 DEF PollInv
<1>6. ASSUME NEW c \in calls, CallServed(c), detail' = detail
      PROVE  PollInv'
  <2> DEFINE new == [c EXCEPT !.status = status[c.doc]]
  <2>1. new.doc = c.doc /\ new.live = c.live
    BY <1>1 DEF Call
  <2>2. poll' = poll /\ calls' = (calls \ {c}) \cup {new}
    BY <1>6 DEF CallServed
  <2> HIDE DEF new
  <2>3. \A x \in calls' : x.live => x.doc = poll.asked
    BY <2>1, <2>2 DEF PollInv
  <2>4. ASSUME NEW e \in calls, {x \in calls : x.live} = {e}
        PROVE  \E f \in calls' : {x \in calls' : x.live} = {f}
    <3>1. CASE c.live
      <4>1. c = e
        BY <2>4, <3>1
      <4>2. {x \in calls' : x.live} = {new}
        BY <2>1, <2>2, <2>4, <3>1, <4>1
      <4> QED
        BY <2>2, <4>2
    <3>2. CASE ~c.live
      <4>1. e \in calls' /\ {x \in calls' : x.live} = {e}
        BY <2>1, <2>2, <2>4, <3>2
      <4> QED
        BY <4>1
    <3> QED
      BY <3>1, <3>2
  <2>5. (\A x \in calls : ~x.live) => \A x \in calls' : ~x.live
    BY <2>1, <2>2
  <2> QED
    BY <1>6, <2>2, <2>3, <2>4, <2>5 DEF PollInv
\* A request that counts is the only one, and there is no timer.
<1>7. ASSUME NEW c \in calls, c.live
      PROVE  /\ poll.asked # NoDoc /\ ~poll.settled /\ c.doc = poll.asked
             /\ \A x \in calls \ {c} : ~x.live
  BY <1>7 DEF PollInv
<1>8. ASSUME NEW c \in calls, calls' = calls \ {c}, poll' = poll,
             detail' = detail, ~c.live
      PROVE  PollInv'
  <2>1. {x \in calls' : x.live} = {x \in calls : x.live}
    BY <1>8
  <2>2. \A e \in calls : {x \in calls : x.live} = {e} => e \in calls'
    BY <1>8
  <2> QED
    BY <1>8, <2>1, <2>2 DEF PollInv
<1>9. ASSUME NEW c \in calls, Lands(c), detail' = detail
      PROVE  PollInv'
  <2>1. calls' = calls \ {c}
    BY <1>9 DEF Lands
  <2>2. CASE c.live
    <3>1. /\ poll'.asked = poll.asked
          /\ poll'.shown = [doc |-> c.doc, status |-> c.status]
          /\ poll'.timer = (c.status # "ended")
          /\ poll'.settled = (poll.settled \/ c.status = "ended")
      BY <1>1, <1>9, <2>2 DEF Lands, Counts, Poll
    <3>2. poll'.shown.doc = c.doc /\ poll'.shown.status = c.status
      BY <3>1
    <3>3. /\ poll.asked # NoDoc /\ ~poll.settled /\ c.doc = poll.asked
          /\ \A x \in calls' : ~x.live
      BY <1>7, <2>1, <2>2
    <3> QED
      BY <1>9, <3>1, <3>2, <3>3 DEF PollInv
  <2>3. CASE ~c.live
    <3>1. poll' = poll
      BY <1>9, <2>3 DEF Lands, Counts
    <3> QED
      BY <1>8, <1>9, <2>1, <2>3, <3>1
  <2> QED
    BY <2>2, <2>3
<1>10. ASSUME NEW c \in calls, Fails(c), detail' = detail
       PROVE  PollInv'
  <2>1. calls' = calls \ {c}
    BY <1>10 DEF Fails
  <2>2. CASE c.live
    <3>1. /\ poll'.asked = poll.asked /\ poll'.shown = poll.shown
          /\ poll'.timer = TRUE /\ poll'.settled = poll.settled
      BY <1>1, <1>10, <2>2 DEF Fails, Counts, Poll
    <3>2. /\ poll.asked # NoDoc /\ ~poll.settled
          /\ \A x \in calls' : ~x.live
      BY <1>7, <2>1, <2>2
    <3> QED
      BY <1>10, <3>1, <3>2 DEF PollInv
  <2>3. CASE ~c.live
    <3>1. poll' = poll
      BY <1>10, <2>3 DEF Fails, Counts
    <3> QED
      BY <1>8, <1>10, <2>1, <2>3, <3>1
  <2> QED
    BY <2>2, <2>3
<1>11. ASSUME TickSends, detail' = detail
       PROVE  PollInv'
  <2>1. /\ poll'.asked = poll.asked /\ poll'.shown = poll.shown
        /\ poll'.timer = FALSE /\ poll.timer /\ poll'.settled = poll.settled
        /\ calls' = calls \cup {NewCall(poll.asked)}
    BY <1>1, <1>11 DEF TickSends, Poll
  <2>2. NewCall(poll.asked).doc = poll.asked /\ NewCall(poll.asked).live = TRUE
    BY DEF NewCall
  <2>3. /\ poll.asked # NoDoc /\ ~poll.settled
        /\ \A x \in calls : ~x.live
    BY <2>1 DEF PollInv
  <2>4. {x \in calls' : x.live} = {NewCall(poll.asked)}
    BY <2>1, <2>2, <2>3
  <2>5. \A x \in calls' : x.live => x.doc = poll.asked
    BY <2>1, <2>2, <2>3
  <2> QED
    BY <1>11, <2>1, <2>3, <2>4, <2>5 DEF PollInv
<1> QED
  BY <1>3, <1>4, <1>5, <1>6, <1>9, <1>10, <1>11 DEF PollMove

\* One request that counts or one timer, said with a cardinality.
LEMMA OnePollFollows ==
    ASSUME TypeOK, PollInv
    PROVE  OnePoll
<1> DEFINE live == {c \in calls : c.live}
           timed == IF poll.timer THEN 1 ELSE 0
<1>1. poll.timer \in BOOLEAN /\ poll.settled \in BOOLEAN
  BY DEF TypeOK, Poll
<1>2. (\A c \in calls : ~c.live) => Cardinality(live) = 0
  BY FS_EmptySet
<1>3. (\E c \in calls : live = {c}) => Cardinality(live) = 1
  BY FS_Singleton
<1> HIDE DEF live
<1>4. Cardinality(live) + timed
         = IF poll.asked # NoDoc /\ ~poll.settled THEN 1 ELSE 0
  BY <1>1, <1>2, <1>3 DEF PollInv, live
<1> QED
  BY <1>4 DEF OnePoll, PollInv, live

-----------------------------------------------------------------------------
(* The list                                                                *)

\* As long as no answer has overtaken another, what is selected is what the
\* last fetch asks for, and what the table answers when there is none left.
LastInv ==
    ~overtaken => IF fetches = <<>> THEN table.of = view \/ table.error
                  ELSE fetches[Len(fetches)].view = view

LEMMA ListStep ==
    ASSUME TypeOK, FlagsEnd, LastInv, ListMove
    PROVE  FlagsEnd' /\ LastInv'
<1>1. /\ fetches \in Seq(Fetch) /\ table \in Table /\ overtaken \in BOOLEAN
      /\ view' \in View
  BY ListTyped DEF TypeOK
<1>2. CASE /\ view' = view /\ table' = table
           /\ fetches' = fetches /\ overtaken' = overtaken
  BY <1>2 DEF FlagsEnd, LastInv
<1>3. CASE Sending(view')
  <2>1. fetches' # <<>> /\ fetches'[Len(fetches')] = Sent(view')
    BY <1>1, <1>3, SendingAppends
  <2>2. Sent(view').view = view'
    BY DEF Sent
  <2> QED
    BY <2>1, <2>2 DEF FlagsEnd, LastInv
<1>4. ASSUME NEW i \in DOMAIN fetches, Answered(i)
      PROVE  FlagsEnd' /\ LastInv'
  <2>1. /\ view' = view /\ table' = table /\ overtaken' = overtaken
        /\ fetches' = [fetches EXCEPT ![i] =
                          [fetches[i] EXCEPT !.answered = TRUE,
                                             !.total = Total(fetches[i].view),
                                             !.rows = Rows(fetches[i].view)]]
    BY <1>4 DEF Answered
  <2>2. /\ Len(fetches) \in Nat /\ i \in 1..Len(fetches) /\ fetches # <<>>
        /\ fetches[Len(fetches)] \in Fetch /\ fetches[i] \in Fetch
    BY <1>1
  <2>3. /\ fetches' # <<>> /\ Len(fetches') = Len(fetches)
    BY <1>1, <2>1, <2>2
  <2>4. fetches'[Len(fetches)].view = fetches[Len(fetches)].view
    BY <1>1, <2>1, <2>2 DEF Fetch
  <2> QED
    BY <2>1, <2>2, <2>3, <2>4 DEF FlagsEnd, LastInv
<1>5. ASSUME NEW i \in DOMAIN fetches, Arrive(i) \/ FetchFails(i)
      PROVE  FlagsEnd' /\ LastInv'
  <2>1. /\ ~overtaken' => ~overtaken /\ i = 1
        /\ i = 1 /\ fetches' = <<>> => Len(fetches) = 1
        /\ i = 1 /\ fetches' # <<>> =>
              fetches'[Len(fetches')] = fetches[Len(fetches)]
    BY <1>5, OverShortens DEF Arrive, FetchFails
  <2>2. view' = view /\ fetches # <<>>
    BY <1>1, <1>5 DEF Arrive, FetchFails
  <2>3. /\ table'.loading = FALSE /\ table'.refetching = FALSE
        /\ table'.of = fetches[i].view \/ table'.error = TRUE
    <3>1. CASE Arrive(i)
      BY <3>1 DEF Arrive
    <3>2. CASE FetchFails(i)
      BY <1>1, <3>2 DEF FetchFails, Table
    <3> QED
      BY <1>5, <3>1, <3>2
  <2>4. FlagsEnd'
    BY <2>3 DEF FlagsEnd
  <2>5. LastInv'
    BY <2>1, <2>2, <2>3 DEF LastInv
  <2> QED
    BY <2>4, <2>5
<1> QED
  BY <1>2, <1>3, <1>4, <1>5 DEF ListMove

-----------------------------------------------------------------------------
(* The list and the poll                                                   *)

Agrees(rows) ==
    \A row \in rows : row.doc = poll.shown.doc => row.status = "ended"

\* From the end the dialog has shown on, the last fetch is one that was
\* answered after it, or will be.
EndInv ==
    /\ \A c \in calls : c.status = "ended" => status[c.doc] = "ended"
    /\ poll.shown.status = "ended" => status[poll.shown.doc] = "ended"
    /\ poll.shown.status = "ended" /\ ~overtaken =>
          IF fetches = <<>> THEN table.error \/ Agrees(table.rows)
          ELSE LET last == fetches[Len(fetches)]
               IN last.answered => Agrees(last.rows)

\* What the dialog shows is what it showed, or no end, or an end that has the
\* list fetched again.
LEMMA ShownMoves ==
    ASSUME TypeOK, PollInv, PollMove
    PROVE  \/ poll'.shown = poll.shown
           \/ poll'.shown.status # "ended"
           \/ \E c \in calls :
                 /\ c.status = "ended" /\ Sending(view')
                 /\ poll'.shown = [doc |-> c.doc, status |-> "ended"]
<1>1. poll \in Poll
  BY DEF TypeOK
<1>2. ASSUME NEW c \in calls, Lands(c), Settles(c) => Sending(view')
      PROVE  \/ poll'.shown = poll.shown
             \/ poll'.shown.status # "ended"
             \/ \E x \in calls :
                   /\ x.status = "ended" /\ Sending(view')
                   /\ poll'.shown = [doc |-> x.doc, status |-> "ended"]
  <2>1. CASE Counts(c)
    <3>1. poll'.shown = [doc |-> c.doc, status |-> c.status]
      BY <1>1, <1>2, <2>1 DEF Lands, Poll
    <3>2. ~poll.settled
      BY <2>1 DEF Counts, PollInv
    <3> QED
      BY <1>2, <2>1, <3>1, <3>2 DEF Settles
  <2>2. CASE ~Counts(c)
    BY <1>2, <2>2 DEF Lands
  <2> QED
    BY <2>1, <2>2
<1>3. CASE Forgets
  BY <1>1, <1>3, NothingTyped DEF Forgets, Poll
<1>4. CASE \/ \E d \in Docs \cup {NoDoc} : Asks(d)
           \/ \E c \in calls : CallServed(c) \/ Fails(c)
           \/ TickSends
  BY <1>1, <1>4 DEF Asks, CallServed, Fails, TickSends, Poll
<1> QED
  BY <1>2, <1>3, <1>4 DEF PollMove

LEMMA EndedCalls ==
    ASSUME TypeOK, EndInv, PollMove, StatusMove, NEW c \in calls',
           c.status = "ended"
    PROVE  status'[c.doc] = "ended"
<1>1. calls \subseteq Call
  BY DEF TypeOK
<1>2. \A x \in calls : x.status = "ended" => status'[x.doc] = "ended"
  BY <1>1 DEF EndInv, StatusMove, Call
<1>3. \A x \in Cancelled : x.status = "ended" => status'[x.doc] = "ended"
  <2>1. \A x \in calls : LET y == [x EXCEPT !.live = FALSE]
                         IN y.doc = x.doc /\ y.status = x.status
    BY <1>1 DEF Call
  <2>2. SUFFICES ASSUME NEW x \in calls
                 PROVE  LET y == [x EXCEPT !.live = FALSE]
                        IN y.status = "ended" => status'[y.doc] = "ended"
    BY <2>2 DEF Cancelled
  <2> QED
    BY <1>2, <2>1
<1>4. \A d : NewCall(d).status = "none"
  BY DEF NewCall
<1>5. CASE \E d : Asks(d)
  BY <1>3, <1>4, <1>5 DEF Asks
<1>6. CASE Forgets
  BY <1>3, <1>6 DEF Forgets
<1>7. ASSUME NEW x \in calls, CallServed(x) PROVE status'[c.doc] = "ended"
  <2> DEFINE new == [x EXCEPT !.status = status[x.doc]]
  <2>1. new.doc = x.doc /\ new.status = status[x.doc] /\ x.doc \in Docs
    BY <1>1 DEF Call
  <2>2. c \in calls \/ c = new
    BY <1>7 DEF CallServed
  <2> HIDE DEF new
  <2> QED
    BY <1>2, <2>1, <2>2 DEF StatusMove
<1>8. ASSUME NEW x \in calls, Lands(x) \/ Fails(x) PROVE status'[c.doc] = "ended"
  BY <1>2, <1>8 DEF Lands, Fails
<1>9. CASE TickSends
  BY <1>2, <1>4, <1>9 DEF TickSends
<1>10. CASE calls' = calls
  BY <1>2, <1>10
<1> QED
  BY <1>5, <1>6, <1>7, <1>8, <1>9, <1>10 DEF PollMove

LEMMA EndStep ==
    ASSUME TypeOK, PollInv, EndInv, Moved
    PROVE  EndInv'
<1>1. /\ fetches \in Seq(Fetch) /\ table \in Table /\ overtaken \in BOOLEAN
      /\ calls \subseteq Call /\ poll \in Poll
      /\ view' \in View
  BY ListTyped DEF TypeOK, Moved
<1>2. \A c \in calls' : c.status = "ended" => status'[c.doc] = "ended"
  BY EndedCalls DEF Moved
<1>3. \/ poll'.shown = poll.shown
      \/ poll'.shown.status # "ended"
      \/ \E c \in calls :
            /\ c.status = "ended" /\ Sending(view')
            /\ poll'.shown = [doc |-> c.doc, status |-> "ended"]
  BY ShownMoves DEF Moved
<1>4. poll'.shown.status = "ended" => status'[poll'.shown.doc] = "ended"
  <2>1. \A d \in Docs : status[d] = "ended" => status'[d] = "ended"
    BY DEF Moved, StatusMove
  <2>2. poll.shown.status = "ended" => poll.shown.doc \in Docs
    BY <1>1, NothingTyped DEF Poll, Row
  <2>3. \A c \in calls : c.doc \in Docs
    BY <1>1 DEF Call
  <2>4. CASE poll'.shown = poll.shown
    BY <2>1, <2>2, <2>4 DEF EndInv
  <2>5. ASSUME NEW c \in calls, c.status = "ended",
               poll'.shown = [doc |-> c.doc, status |-> "ended"]
        PROVE  status'[poll'.shown.doc] = "ended"
    <3>1. poll'.shown.doc = c.doc /\ c.doc \in Docs
      BY <2>3, <2>5
    <3>2. status[c.doc] = "ended"
      BY <2>5 DEF EndInv
    <3> QED
      BY <2>1, <3>1, <3>2
  <2> QED
    BY <1>3, <2>4, <2>5
<1>5. CASE Sending(view')
  <2>1. fetches' # <<>> /\ fetches'[Len(fetches')] = Sent(view')
    BY <1>1, <1>5, SendingAppends
  <2>2. Sent(view').answered = FALSE
    BY DEF Sent
  <2> QED
    BY <1>2, <1>4, <2>1, <2>2 DEF EndInv
<1>6. CASE poll'.shown.status # "ended"
  BY <1>2, <1>4, <1>6 DEF EndInv
<1>7. CASE /\ poll'.shown = poll.shown /\ poll.shown.status = "ended"
           /\ ~Sending(view')
  <2>1. ASSUME ~overtaken
        PROVE  IF fetches = <<>> THEN table.error \/ Agrees(table.rows)
               ELSE fetches[Len(fetches)].answered =>
                       Agrees(fetches[Len(fetches)].rows)
    BY <1>7, <2>1 DEF EndInv
  <2>2. \A rows : Agrees(rows) =>
           \A row \in rows : row.doc = poll'.shown.doc => row.status = "ended"
    BY <1>7 DEF Agrees
  <2>3. SUFFICES ASSUME ~overtaken'
                 PROVE  IF fetches' = <<>>
                        THEN table'.error \/
                             \A row \in table'.rows :
                                 row.doc = poll'.shown.doc =>
                                     row.status = "ended"
                        ELSE fetches'[Len(fetches')].answered =>
                                \A row \in fetches'[Len(fetches')].rows :
                                    row.doc = poll'.shown.doc =>
                                        row.status = "ended"
    BY <1>2, <1>4 DEF EndInv, Agrees
  <2>4. CASE /\ table' = table /\ fetches' = fetches /\ overtaken' = overtaken
    BY <2>1, <2>2, <2>3, <2>4
  <2>5. ASSUME NEW i \in DOMAIN fetches, Answered(i)
        PROVE  /\ fetches' # <<>>
               /\ \A row \in fetches'[Len(fetches')].rows :
                     fetches'[Len(fetches')].answered =>
                         (row.doc = poll'.shown.doc => row.status = "ended")
    <3>1. /\ overtaken' = overtaken
          /\ fetches' = [fetches EXCEPT ![i] =
                            [fetches[i] EXCEPT !.answered = TRUE,
                                               !.total = Total(fetches[i].view),
                                               !.rows = Rows(fetches[i].view)]]
      BY <2>5 DEF Answered
    <3>2. /\ Len(fetches) \in Nat /\ i \in 1..Len(fetches) /\ fetches # <<>>
          /\ fetches[i] \in Fetch
      BY <1>1
    <3>3. /\ fetches' # <<>> /\ Len(fetches') = Len(fetches)
      BY <1>1, <3>1, <3>2
    <3>4. CASE i = Len(fetches)
      <4>1. fetches'[Len(fetches')].rows = Rows(fetches[i].view)
        BY <1>1, <3>1, <3>2, <3>3, <3>4 DEF Fetch
      <4>2. \A row \in Rows(fetches[i].view) :
               row.doc = poll.shown.doc => row.status = "ended"
        BY <1>7, RowsCurrent DEF EndInv
      <4> QED
        BY <1>7, <3>3, <4>1, <4>2
    <3>5. CASE i # Len(fetches)
      <4>1. fetches'[Len(fetches')] = fetches[Len(fetches)]
        BY <1>1, <3>1, <3>2, <3>3, <3>5
      <4> QED
        BY <2>1, <2>2, <2>3, <3>1, <3>2, <3>3, <4>1
    <3> QED
      BY <3>4, <3>5
  <2>6. ASSUME NEW i \in DOMAIN fetches, Arrive(i) \/ FetchFails(i)
        PROVE  IF fetches' = <<>>
               THEN table'.error \/
                    \A row \in table'.rows :
                        row.doc = poll'.shown.doc => row.status = "ended"
               ELSE fetches'[Len(fetches')].answered =>
                       \A row \in fetches'[Len(fetches')].rows :
                           row.doc = poll'.shown.doc => row.status = "ended"
    <3>1. /\ ~overtaken /\ i = 1
          /\ fetches' = <<>> => Len(fetches) = 1
          /\ fetches' # <<>> => fetches'[Len(fetches')] = fetches[Len(fetches)]
      BY <2>3, <2>6, OverShortens DEF Arrive, FetchFails
    <3>2. /\ fetches # <<>>
          /\ fetches[Len(fetches)].answered => Agrees(fetches[Len(fetches)].rows)
      BY <1>1, <2>1, <2>6, <3>1
    <3>3. table'.error = TRUE \/ (fetches[i].answered
                                  /\ table'.rows = fetches[i].rows)
      <4>1. CASE Arrive(i)
        BY <4>1 DEF Arrive
      <4>2. CASE FetchFails(i)
        BY <1>1, <4>2 DEF FetchFails, Table
      <4> QED
        BY <2>6, <4>1, <4>2
    <3> QED
      BY <2>2, <3>1, <3>2, <3>3
  <2>7. ASSUME NEW i \in DOMAIN fetches,
               Answered(i) \/ Arrive(i) \/ FetchFails(i)
        PROVE  IF fetches' = <<>>
               THEN table'.error \/
                    \A row \in table'.rows :
                        row.doc = poll'.shown.doc => row.status = "ended"
               ELSE fetches'[Len(fetches')].answered =>
                       \A row \in fetches'[Len(fetches')].rows :
                           row.doc = poll'.shown.doc => row.status = "ended"
    <3>1. CASE Answered(i)
      BY <2>5, <3>1
    <3>2. CASE Arrive(i) \/ FetchFails(i)
      BY <2>6, <3>2
    <3> QED
      BY <2>7, <3>1, <3>2
  <2>8. \/ /\ table' = table /\ fetches' = fetches /\ overtaken' = overtaken
        \/ \E i \in DOMAIN fetches : Answered(i) \/ Arrive(i) \/ FetchFails(i)
    BY <1>7 DEF Moved, ListMove
  <2> QED
    BY <2>4, <2>7, <2>8
<1> QED
  BY <1>3, <1>5, <1>6, <1>7

-----------------------------------------------------------------------------
(* The inductive invariant                                                 *)

LEMMA Bounded ==
    ASSUME TypeOK, [Next]_vars
    PROVE  faults' \in 0..MaxFaults /\ clicks' \in 0..MaxClicks
<1>1. /\ MaxFaults \in Nat /\ MaxClicks \in Nat
      /\ faults \in 0..MaxFaults /\ clicks \in 0..MaxClicks
  BY DashboardAssumption DEF TypeOK
<1>2. \A kind : Fault(kind) => faults' \in 0..MaxFaults
  BY <1>1 DEF Fault
<1>3. CASE UNCHANGED vars
  BY <1>1, <1>3 DEF vars
<1>4. CASE clicks < MaxClicks /\ clicks' = clicks + 1 /\ UserStep
  <2>1. faults' = faults
    BY <1>4 DEF UserStep, SelectUser, ChangePage, ChangeFilter, Refresh,
                OpenDetail, RefreshDetail, CloseDetail, ViewResult, Upload,
                UploadSettles
  <2> QED
    BY <1>1, <1>4, <2>1
<1>5. CASE Timed /\ UNCHANGED clicks
  <2>1. ASSUME NEW d \in Docs, ServerStep(d) PROVE faults' \in 0..MaxFaults
    BY <1>1, <1>2, <2>1 DEF ServerStep, Worked
  <2>2. ASSUME NEW i, FetchStep(i) \/ FetchFails(i)
        PROVE  faults' \in 0..MaxFaults
    BY <1>1, <1>2, <2>2 DEF FetchStep, Answered, Arrive, FetchFails
  <2>3. ASSUME NEW c, CallStep(c) \/ CallFails(c)
        PROVE  faults' \in 0..MaxFaults
    BY <1>1, <1>2, <2>3 DEF CallStep, CallAnswered, CallLands, CallFails
  <2>4. Tick => faults' = faults
    BY DEF Tick
  <2>5. PollTick => faults' = faults
    BY DEF PollTick
  <2>6. faults' \in 0..MaxFaults
    BY <1>1, <1>5, <2>1, <2>2, <2>3, <2>4, <2>5 DEF Timed
  <2> QED
    BY <1>1, <1>5, <2>6
<1> QED
  BY <1>3, <1>4, <1>5 DEF Next

DashboardInv ==
    TypeOK /\ PollInv /\ KnownInv /\ FlagsEnd /\ LastInv /\ EndInv

LEMMA InitHolds == Init => DashboardInv
<1> SUFFICES ASSUME Init PROVE DashboardInv
  OBVIOUS
<1> USE DEF Init
<1>1. view \in View /\ EmptyTable \in Table /\ Sent(view) \in Fetch
  BY DEF View, EmptyTable, Table, Sent, Fetch
<1>2. /\ fetches = <<Sent(view)>> /\ fetches \in Seq(Fetch)
      /\ fetches # <<>> /\ Len(fetches) = 1 /\ DOMAIN fetches = {1}
      /\ fetches[Len(fetches)] = Sent(view)
  BY <1>1
<1>3. /\ poll \in Poll /\ poll.asked = NoDoc /\ poll.shown = Nothing
      /\ poll.timer = FALSE /\ detail = FALSE
  <2>1. /\ poll = [asked |-> NoDoc, shown |-> Nothing, error |-> FALSE,
                   loading |-> FALSE, timer |-> FALSE, settled |-> FALSE]
        /\ detail = FALSE
    OBVIOUS
  <2>2. Nothing \in Row \cup {Nothing} /\ NoDoc \in Docs \cup {NoDoc}
    OBVIOUS
  <2>3. poll \in Poll
    BY <2>2 DEF Poll
  <2> QED
    BY <2>1, <2>3
<1>4. TypeOK
  <2>1. status \in [Docs -> {"absent"} \cup Statuses]
    OBVIOUS
  <2>2. calls \subseteq Call /\ table \in Table
    BY <1>1
  <2>3. faults \in 0..MaxFaults /\ clicks \in 0..MaxClicks
    BY DashboardAssumption
  <2> HIDE DEF Init
  <2>4. detail \in BOOLEAN /\ overtaken \in BOOLEAN
    BY DEF Init
  <2> QED
    BY <1>1, <1>2, <1>3, <2>1, <2>2, <2>3, <2>4 DEF TypeOK
<1>5. PollInv
  BY <1>3 DEF PollInv
<1>6. Sent(view).rows = {} /\ Sent(view).view = view /\ ~Sent(view).answered
  BY DEF Sent
<1>7. KnownInv
  BY <1>2, <1>3, <1>6 DEF KnownInv, Known, EmptyTable
<1>8. FlagsEnd /\ LastInv
  BY <1>2, <1>6 DEF FlagsEnd, LastInv
<1>9. EndInv
  BY <1>3, NothingTyped DEF EndInv
<1> QED
  BY <1>4, <1>5, <1>7, <1>8, <1>9 DEF DashboardInv

LEMMA Inductive == DashboardInv /\ [Next]_vars => DashboardInv'
<1> SUFFICES ASSUME DashboardInv, [Next]_vars
             PROVE  DashboardInv'
  OBVIOUS
<1>1. TypeOK /\ PollInv /\ KnownInv /\ FlagsEnd /\ LastInv /\ EndInv
  BY DEF DashboardInv
<1>2. Moved /\ ListMove /\ PollMove /\ StatusMove
  BY <1>1, StepMoves DEF Moved
<1>3. TypeOK'
  BY <1>1, <1>2, ListTyped, CallsTyped, Bounded DEF TypeOK, StatusMove
<1>4. PollInv' /\ KnownInv'
  BY <1>1, <1>2, PollStep, KnownStep
<1>5. FlagsEnd' /\ LastInv'
  BY <1>1, <1>2, ListStep
<1>6. EndInv'
  BY <1>1, <1>2, EndStep
<1> QED
  BY <1>3, <1>4, <1>5, <1>6 DEF DashboardInv

LEMMA Invariance == Spec => []DashboardInv
  BY InitHolds, Inductive, PTL DEF Spec

-----------------------------------------------------------------------------
(* What it gives                                                           *)

\* DocumentsDashboard.tsx, use-document-poll.ts: the state is well typed in
\* every reachable state.
THEOREM TypeCorrect == Spec => []TypeOK
<1>1. DashboardInv => TypeOK
  BY DEF DashboardInv
<1> QED
  BY <1>1, Invariance, PTL

\* DocumentsDashboard.tsx:255, 292: loading and refetching are shown only
\* while a fetch is in flight that will clear them.
THEOREM FlagsAreCleared == Spec => []FlagsEnd
<1>1. DashboardInv => FlagsEnd
  BY DEF DashboardInv
<1> QED
  BY <1>1, Invariance, PTL

\* DocumentsDashboard.tsx:163: without overtaking, a table at rest answers
\* what is selected, however switches, uploads and ticks were interleaved.
THEOREM TableSettles == Spec => []SettledTable
<1>1. DashboardInv => SettledTable
  BY DEF DashboardInv, LastInv, SettledTable
<1> QED
  BY <1>1, Invariance, PTL

\* DocumentsDashboard.tsx:404: a list at rest does not contradict the end the
\* dialog has shown.
THEOREM ListAgrees == Spec => []ListFollows
<1>1. DashboardInv => ListFollows
  BY DEF DashboardInv, EndInv, Agrees, ListFollows
<1> QED
  BY <1>1, Invariance, PTL

\* use-document-poll.ts:6, 46: an answer to an earlier start of the hook is
\* never what the dialog shows.
THEOREM AskedIsShown == Spec => []ShowsAsked
<1>1. DashboardInv => ShowsAsked
  BY DEF DashboardInv, PollInv, ShowsAsked
<1> QED
  BY <1>1, Invariance, PTL

\* use-document-poll.ts:50, 76: restarts, also of a poll that has seen the end,
\* never leave two loops behind, nor none while the end has not been seen.
THEOREM OneLoop == Spec => []OnePoll
<1>1. DashboardInv => OnePoll
  BY OnePollFollows DEF DashboardInv
<1> QED
  BY <1>1, Invariance, PTL
=============================================================================
