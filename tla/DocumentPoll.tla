---------------------------- MODULE DocumentPoll ----------------------------
(***************************************************************************)
(* ui/src/lib/use-document-poll.ts: the hook that polls one document until *)
(* it has ended.  It is restarted with another document, with none, or by  *)
(* its refresh, and the requests of an earlier start may still be in       *)
(* flight.  These are parts of steps, for the dialog that uses the hook.   *)
(***************************************************************************)
EXTENDS Listing

CONSTANTS
    NoDoc,       \* null
    MaxCalls     \* bound on the requests of the hook that are in flight

ASSUME PollAssumption == NoDoc \notin Docs /\ MaxCalls \in Nat

VARIABLES
    poll,        \* the state of the hook
    calls        \* its requests in flight

pollVars == <<poll, calls>>

Row == [doc : Docs, status : Statuses]

Nothing == [doc |-> NoDoc, status |-> "none"]

\* documentId, doc, error and loading, whether the next tick is set, and
\* settledRef: the present start has seen the end.
Poll == [asked : Docs \cup {NoDoc}, shown : Row \cup {Nothing},
         error : BOOLEAN, loading : BOOLEAN, timer : BOOLEAN,
         settled : BOOLEAN]

\* live until the effect that sent it is cleaned up (not cancelled); status is
\* "none" until the server has answered.
Call == [doc : Docs, status : {"none"} \cup Statuses, live : BOOLEAN]

NewCall(d) == [doc |-> d, status |-> "none", live |-> TRUE]

\* The cleanup of the effect, with the timer.
Cancelled == {[c EXCEPT !.live = FALSE] : c \in calls}

\* Mutant: the timer of the effect before is not cleared.
Asks_KeepsTimer(d) ==
    /\ Cardinality(Cancelled) < MaxCalls
    /\ poll' = [poll EXCEPT !.asked = d, !.loading = TRUE, !.settled = FALSE]
    /\ calls' = Cancelled \cup {NewCall(d)}

\* The effect for a document, whether or not its end has been seen; what is
\* shown stays until the first answer.
Asks(d) ==
    /\ Cardinality(Cancelled) < MaxCalls
    /\ poll' = [poll EXCEPT !.asked = d, !.loading = TRUE, !.timer = FALSE,
                            !.settled = FALSE]
    /\ calls' = Cancelled \cup {NewCall(d)}

\* The effect for null.
Forgets ==
    /\ poll' = [poll EXCEPT !.asked = NoDoc, !.shown = Nothing,
                            !.error = FALSE, !.timer = FALSE]
    /\ calls' = Cancelled

\* GET /documents/{id} reads the document.
CallServed(c) ==
    /\ c \in calls /\ c.status = "none"
    /\ calls' = (calls \ {c}) \cup {[c EXCEPT !.status = status[c.doc]]}
    /\ UNCHANGED poll

\* Mutant: an answer is taken whichever effect asked for it.
Counts_Always(c) == TRUE

\* The check of cancelled.
Counts(c) == c.live

\* An answer arrives; the next tick is set unless it is the last one.
Lands(c) ==
    /\ c \in calls /\ c.status # "none"
    /\ calls' = calls \ {c}
    /\ poll' = IF Counts(c)
               THEN [poll EXCEPT !.shown = [doc |-> c.doc, status |-> c.status],
                                 !.error = FALSE, !.loading = FALSE,
                                 !.timer = c.status # "ended",
                                 !.settled = @ \/ c.status = "ended"]
               ELSE poll

\* onSettled is called, once for each start.
Settles(c) == Counts(c) /\ c.status = "ended" /\ ~poll.settled

\* Mutant: an error ends the poll.
Fails_NoTimer(c) ==
    /\ c \in calls
    /\ calls' = calls \ {c}
    /\ poll' = IF Counts(c)
               THEN [poll EXCEPT !.error = TRUE, !.loading = FALSE]
               ELSE poll

\* A request fails: what is shown stays, and the poll goes on.
Fails(c) ==
    /\ c \in calls
    /\ calls' = calls \ {c}
    /\ poll' = IF Counts(c)
               THEN [poll EXCEPT !.error = TRUE, !.loading = FALSE,
                                 !.timer = TRUE]
               ELSE poll

\* The timer of the next tick.
TickSends ==
    /\ poll.timer
    /\ Cardinality(calls) < MaxCalls
    /\ poll' = [poll EXCEPT !.timer = FALSE]
    /\ calls' = calls \cup {NewCall(poll.asked)}
=============================================================================
