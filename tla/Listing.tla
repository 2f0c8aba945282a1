------------------------------ MODULE Listing ------------------------------
(***************************************************************************)
(* GET /users/{id}/documents: one page of the documents of a user, newest  *)
(* first, and the total (app/api/v1/users.py, list_for_user of the         *)
(* document repository).  The total and the page are two queries; who      *)
(* extends this module says when each of them is made.                     *)
(***************************************************************************)
EXTENDS Naturals, FiniteSets

CONSTANTS
    Users,
    Docs,        \* documents, numbered in the order they are created
    Owner,       \* the user of each
    PageSize

ASSUME ListingAssumption ==
    /\ Docs \subseteq Nat /\ IsFiniteSet(Docs)
    /\ Owner \in [Docs -> Users]
    /\ PageSize \in Nat \ {0}

VARIABLE status

\* Completed and failed are one status here: no row of it moves again.
Statuses == {"queued", "processing", "ended"}

\* What is asked for.  Pages count from 0, as they do in the dashboard.
View == [user : Users, page : Nat, filter : {"any"} \cup Statuses]

\* The query: the user's documents, of the status asked for.
Matching(view) ==
    {d \in Docs : /\ status[d] # "absent"
                  /\ Owner[d] = view.user
                  /\ view.filter \in {"any", status[d]}}

\* count_documents
Total(view) == Cardinality(Matching(view))

\* How many of them are newer than d.
Rank(d, view) == Cardinality({e \in Matching(view) : e > d})

\* sort, skip and limit
PageOf(view) ==
    {d \in Matching(view) : Rank(d, view) \div PageSize = view.page}

\* A row as it was when it was read.
Rows(view) == {[doc |-> d, status |-> status[d]] : d \in PageOf(view)}

\* The pages there are for a total: total_pages of them.
HasPage(page, total) == page * PageSize < total
=============================================================================
