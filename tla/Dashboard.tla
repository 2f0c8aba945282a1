----------------------------- MODULE Dashboard -----------------------------
(***************************************************************************)
(* ui/src/components/DocumentsDashboard.tsx: the list of one user's        *)
(* documents, its fetches that race with switches of user, page and        *)
(* filter, the live refresh, and the detail dialog with its poll.  The     *)
(* server behind it is Listing over documents that are moved by others.    *)
(*                                                                         *)
(* An event of the user or of an answer is one step with the effects React *)
(* runs after it, in their order.  The strip of counts, which is fetched   *)
(* the same way for the user alone, is left out; of the upload dialog only *)
(* its calls to the dashboard are here, at any time.                       *)
(***************************************************************************)
EXTENDS DocumentPoll, SequencesExt

CONSTANTS
    Filters,       \* the choices of the status filter
    NoView,        \* an empty table that answers nothing
    MaxFetches,    \* bound on the fetches in flight
    MaxFaults,     \* bound on the number of failures
    MaxClicks,     \* bound on what the user does
    Disruptions    \* the kinds of failure that happen

ASSUME DashboardAssumption ==
    /\ Filters \subseteq {"any"} \cup Statuses /\ "any" \in Filters
    /\ NoView \notin View
    /\ MaxFetches \in Nat /\ MaxFaults \in Nat /\ MaxClicks \in Nat
    /\ Disruptions \subseteq {"fetch",    \* a request fails
                          "retry",    \* a document in process is queued again
                          "overtake"} \* no failure: answers arrive in any order

VARIABLES
    view,        \* userId, pageIndex and statusFilter
    table,       \* what the table shows
    fetches,     \* its fetches in flight, in the order they were sent
    detail,      \* the detail dialog is open
    overtaken,   \* an answer has arrived before that of an earlier fetch
    faults,      \* failures so far
    clicks       \* what the user has done so far

listVars == <<view, table, fetches, overtaken>>

vars == <<status, pollVars, listVars, detail, faults, clicks>>

-----------------------------------------------------------------------------
(* State                                                                   *)

\* data and rowCount, and the view they answer; isLoading, isRefetching and
\* whether fetchError is set.
Table == [rows : SUBSET Row, total : Nat, of : View \cup {NoView},
          loading : BOOLEAN, refetching : BOOLEAN, error : BOOLEAN]

Fetch == [view : View, answered : BOOLEAN,
          total : Nat, rows : SUBSET Row]

TypeOK ==
    /\ status \in [Docs -> {"absent"} \cup Statuses]
    /\ poll \in Poll
    /\ calls \subseteq Call
    /\ view \in View
    /\ table \in Table
    /\ fetches \in Seq(Fetch)
    /\ detail \in BOOLEAN
    /\ overtaken \in BOOLEAN
    /\ faults \in 0..MaxFaults
    /\ clicks \in 0..MaxClicks

Sent(v) == [view |-> v, answered |-> FALSE, total |-> 0, rows |-> {}]

EmptyTable == [rows |-> {}, total |-> 0, of |-> NoView,
               loading |-> TRUE, refetching |-> FALSE, error |-> FALSE]

\* The stored user is known, and the first fetch is on its way.
Init ==
    /\ status = [d \in Docs |-> "absent"]
    /\ poll = [asked |-> NoDoc, shown |-> Nothing, error |-> FALSE,
               loading |-> FALSE, timer |-> FALSE, settled |-> FALSE]
    /\ calls = {}
    /\ view \in [user : Users, page : {0}, filter : {"any"}]
    /\ table = EmptyTable
    /\ fetches = <<Sent(view)>>
    /\ detail = FALSE
    /\ overtaken = FALSE
    /\ faults = 0
    /\ clicks = 0

Fault(kind) ==
    kind \in Disruptions /\ faults < MaxFaults /\ faults' = faults + 1

\* fetchPage is called for these views; refetching if in the background.
Sends(views) ==
    /\ Len(fetches) + Len(views) <= MaxFetches
    /\ fetches' = fetches \o [i \in DOMAIN views |-> Sent(views[i])]
    /\ UNCHANGED overtaken

\* refreshAll(true)
Refreshes ==
    /\ Sends(<<view>>)
    /\ table' = [table EXCEPT !.refetching = TRUE]
    /\ UNCHANGED view

\* The effects that follow when first one part of the view has changed and
\* then, if that moves it, the page is set to the first: a fetch for each.
Rerenders(first) ==
    LET last == [first EXCEPT !.page = 0]
    IN IF first = last THEN <<last>> ELSE <<first, last>>

-----------------------------------------------------------------------------
(* The user                                                                *)

\* selectUser bumps the revision; the first fetch still has the old page and
\* filter, the second the ones the effect of the revision sets.
SelectUser(u) ==
    /\ ~detail /\ u # view.user
    /\ view' = [user |-> u, page |-> 0, filter |-> "any"]
    /\ LET first == [view EXCEPT !.user = u]
       IN Sends(IF first = view' THEN <<view'>> ELSE <<first, view'>>)
    /\ table' = [table EXCEPT !.rows = {}, !.of = NoView, !.loading = TRUE]
    /\ UNCHANGED <<status, pollVars, detail, faults>>

ChangePage(p) ==
    /\ ~detail /\ p # view.page
    /\ p = 0 \/ HasPage(p, table.total)
    /\ view' = [view EXCEPT !.page = p]
    /\ Sends(<<view'>>)
    /\ UNCHANGED <<status, pollVars, table, detail, faults>>

\* Mutant: the page is set to the first, and nothing is fetched for it.
ChangeFilter_OneFetch(f) ==
    /\ ~detail /\ f # view.filter
    /\ view' = [view EXCEPT !.filter = f, !.page = 0]
    /\ Sends(<<[view EXCEPT !.filter = f]>>)
    /\ UNCHANGED <<status, pollVars, table, detail, faults>>

ChangeFilter(f) ==
    /\ ~detail /\ f # view.filter
    /\ view' = [view EXCEPT !.filter = f, !.page = 0]
    /\ Sends(Rerenders([view EXCEPT !.filter = f]))
    /\ UNCHANGED <<status, pollVars, table, detail, faults>>

\* The button of the toolbar, and Retry beside an error.
Refresh ==
    /\ ~detail
    /\ table.error \/ ~(table.loading \/ table.refetching)
    /\ Refreshes
    /\ UNCHANGED <<status, pollVars, detail, faults>>

OpenDetail(d) ==
    /\ ~detail /\ detail' = TRUE
    /\ \E row \in table.rows : row.doc = d
    /\ Asks(d)
    /\ UNCHANGED <<status, listVars, faults>>

\* The button of the dialog, also after the document has ended, and Retry when
\* there is nothing to show.
RefreshDetail ==
    /\ detail
    /\ ~poll.loading \/ (poll.shown = Nothing /\ poll.error)
    /\ Asks(poll.asked)
    /\ UNCHANGED <<status, listVars, detail, faults>>

CloseDetail ==
    /\ detail /\ detail' = FALSE
    /\ Forgets
    /\ UNCHANGED <<status, listVars, faults>>

\* onViewResult
ViewResult(d) ==
    /\ ~detail /\ detail' = TRUE
    /\ Owner[d] = view.user /\ status[d] = "ended"
    /\ Asks(d)
    /\ Refreshes
    /\ UNCHANGED <<status, faults>>

-----------------------------------------------------------------------------
(* The documents                                                           *)

\* The next document is submitted, to be processed or served from the cache.
Arrives(d) ==
    /\ \A e \in Docs : status[e] = "absent" <=> e >= d
    /\ \E s \in {"queued", "ended"} : status' = [status EXCEPT ![d] = s]

Moves(d, from, to) ==
    status[d] = from /\ status' = [status EXCEPT ![d] = to]

\* A worker brings a document to its end.
Worked(d) ==
    /\ Moves(d, "queued", "processing") \/ Moves(d, "processing", "ended")
    /\ UNCHANGED <<pollVars, listVars, detail, faults>>

\* Others upload, and a document waits for another attempt.
ServerStep(d) ==
    \/ Worked(d)
    \/ /\ \/ Arrives(d) /\ UNCHANGED faults
          \/ Moves(d, "processing", "queued") /\ Fault("retry")
       /\ UNCHANGED <<pollVars, listVars, detail>>

\* onChanged: the page is set to the first, after a refresh of the old one.
Changed ==
    /\ view' = [view EXCEPT !.page = 0]
    /\ Sends(Rerenders(view))
    /\ table' = [table EXCEPT !.refetching = TRUE]

\* The upload dialog has a document accepted: a new one, or one in flight.
Upload(d) ==
    /\ ~detail /\ Owner[d] = view.user
    /\ Arrives(d) \/ (status[d] # "absent" /\ UNCHANGED status)
    /\ Changed
    /\ UNCHANGED <<pollVars, detail, faults>>

\* Its own poll has seen the end, also after "View result".
UploadSettles ==
    /\ \E d \in Docs : Owner[d] = view.user /\ status[d] = "ended"
    /\ Changed
    /\ UNCHANGED <<status, pollVars, detail, faults>>

-----------------------------------------------------------------------------
(* The fetches                                                             *)

\* The server counts and reads the page, here at one time.
Answered(i) ==
    /\ i \in DOMAIN fetches /\ ~fetches[i].answered
    /\ fetches' = [fetches EXCEPT ![i].answered = TRUE,
                                  ![i].total = Total(fetches[i].view),
                                  ![i].rows = Rows(fetches[i].view)]
    /\ UNCHANGED <<status, pollVars, view, table, overtaken, detail, faults>>

\* Fetch i is over; both flags are cleared whatever it has brought.
Over(i) ==
    /\ i = 1 \/ "overtake" \in Disruptions
    /\ fetches' = RemoveAt(fetches, i)
    /\ overtaken' = (overtaken \/ i # 1)

\* The check compares the user of a closure with itself: every answer is
\* taken.
Arrive(i) ==
    /\ i \in DOMAIN fetches /\ fetches[i].answered
    /\ Over(i)
    /\ table' = [rows |-> fetches[i].rows, total |-> fetches[i].total,
                 of |-> fetches[i].view, loading |-> FALSE,
                 refetching |-> FALSE, error |-> FALSE]
    /\ UNCHANGED <<status, pollVars, view, detail, faults>>

\* Mutant: an error leaves the flags as they are.
FetchFails_KeepsFlags(i) ==
    /\ i \in DOMAIN fetches
    /\ Fault("fetch")
    /\ Over(i)
    /\ table' = [table EXCEPT !.error = TRUE]
    /\ UNCHANGED <<status, pollVars, view, detail>>

FetchFails(i) ==
    /\ i \in DOMAIN fetches
    /\ Fault("fetch")
    /\ Over(i)
    /\ table' = [table EXCEPT !.error = TRUE, !.loading = FALSE,
                              !.refetching = FALSE]
    /\ UNCHANGED <<status, pollVars, view, detail>>

\* Mutant: the list is kept current only for documents in process.
HasInFlight_Processing == \E row \in table.rows : row.status = "processing"

HasInFlight == \E row \in table.rows : row.status # "ended"

\* The interval, which does not wait for the fetch before.  It leaves room
\* for the fetches of the other steps.
Tick ==
    /\ HasInFlight
    /\ Len(fetches) + 1 < MaxFetches
    /\ Refreshes
    /\ UNCHANGED <<status, pollVars, detail, faults>>

-----------------------------------------------------------------------------
(* The poll of the detail dialog                                           *)

CallAnswered(c) ==
    CallServed(c) /\ UNCHANGED <<status, listVars, detail, faults>>

\* Mutant: the list is not told of the end.
CallLands_Silent(c) ==
    Lands(c) /\ UNCHANGED <<status, listVars, detail, faults>>

\* The list is fetched again when the document has ended.
CallLands(c) ==
    /\ Lands(c)
    /\ IF Settles(c) THEN Refreshes ELSE UNCHANGED listVars
    /\ UNCHANGED <<status, detail, faults>>

CallFails(c) ==
    /\ Fails(c)
    /\ Fault("fetch")
    /\ UNCHANGED <<status, listVars, detail>>

PollTick == TickSends /\ UNCHANGED <<status, listVars, detail, faults>>

-----------------------------------------------------------------------------

UserStep ==
    \/ \E u \in Users : SelectUser(u)
    \/ \E p \in 0..Cardinality(Docs) : ChangePage(p)
    \/ \E f \in Filters : ChangeFilter(f)
    \/ \E d \in Docs : OpenDetail(d) \/ ViewResult(d) \/ Upload(d)
    \/ UploadSettles \/ Refresh \/ RefreshDetail \/ CloseDetail

FetchStep(i) == Answered(i) \/ Arrive(i)

CallStep(c) == CallAnswered(c) \/ CallLands(c)

\* What goes on by itself.
Timed ==
    \/ \E d \in Docs : ServerStep(d)
    \/ \E i \in 1..MaxFetches : FetchStep(i) \/ FetchFails(i)
    \/ \E c \in calls : CallStep(c) \/ CallFails(c)
    \/ Tick \/ PollTick

Next ==
    \/ clicks < MaxClicks /\ clicks' = clicks + 1 /\ UserStep
    \/ Timed /\ UNCHANGED clicks

\* Requests are answered, timers fire, and documents that are taken up end;
\* nothing is assumed of the user.
Fairness ==
    /\ \A d \in Docs : WF_vars(Worked(d) /\ UNCHANGED clicks)
    /\ WF_vars(\E i \in 1..MaxFetches : FetchStep(i) /\ UNCHANGED clicks)
    /\ WF_vars(\E c \in calls : CallStep(c) /\ UNCHANGED clicks)
    /\ WF_vars(Tick /\ UNCHANGED clicks)
    /\ WF_vars(PollTick /\ UNCHANGED clicks)

Spec == Init /\ [][Next]_vars /\ Fairness

-----------------------------------------------------------------------------
(* Properties                                                              *)

\* DocumentsDashboard.tsx:255, 292: the progress bar and the skeleton show,
\* and the Refresh button is disabled, only while a fetch is in flight that
\* will end it: the list cannot stay loading for good.
FlagsEnd == table.loading \/ table.refetching => fetches # <<>>

\* DocumentsDashboard.tsx:163: as long as answers keep the order of their
\* requests, a table at rest answers the user, the page and the filter that
\* are selected, or says that it could not be loaded.
SettledTable ==
    fetches = <<>> /\ ~overtaken => table.of = view \/ table.error

\* DocumentsDashboard.tsx:404: once the dialog has shown the end of a
\* document, a list at rest does not show it as moving.
ListFollows ==
    (fetches = <<>> /\ ~overtaken /\ ~table.error)
        => \A row \in table.rows :
               poll.shown = [doc |-> row.doc, status |-> "ended"]
                   => row.status = "ended"

\* use-document-poll.ts:6: the dialog shows the document it was opened for,
\* however many requests for others are still in flight.
ShowsAsked == poll.shown # Nothing => poll.shown.doc = poll.asked

\* use-document-poll.ts:50, 62: a poll that is on has one request in flight or
\* one timer set until it has seen the end, never two of them, and none after:
\* it then shows the end.  Refresh starts it again, also on an ended document,
\* of which the end is then seen once more.
OnePoll ==
    LET live == {c \in calls : c.live}
        pending == Cardinality(live) + (IF poll.timer THEN 1 ELSE 0)
        on == poll.asked # NoDoc
    IN /\ pending = IF on /\ ~poll.settled THEN 1 ELSE 0
       /\ on /\ poll.settled
             => poll.shown = [doc |-> poll.asked, status |-> "ended"]

\* DocumentsDashboard.tsx:222: no row is shown as moving for ever, once the
\* user leaves the list alone (MaxClicks).
RowsSettle == []<>(\A row \in table.rows : row.status = "ended")

\* use-document-poll.ts:62: a dialog that stays open shows the end.
EndSeen ==
    \A d \in Docs :
        (poll.asked = d) ~> (\/ poll.asked # d
                             \/ poll.shown = [doc |-> d, status |-> "ended"])

\* DocumentsDashboard.tsx:174, user-context.tsx:6: an answer for the previous
\* user does not land after the switch.
ShownIsSelected == \A row \in table.rows : Owner[row.doc] = view.user
=============================================================================
