------------------------------- MODULE Ending -------------------------------
(***************************************************************************)
(* What the two halves of the service promise each other about the end of  *)
(* a document: the submit flow only adds documents, as work or as served   *)
(* from the cache; the workers end the work, once, and then put the        *)
(* summary in the cache, give back the slot and give back the guard, in    *)
(* this order and at most once.  They may stop anywhere on the way.        *)
(***************************************************************************)
CONSTANT Docs

VARIABLES
    status,   \* [Docs -> {"absent", "active", "completed", "failed"}]
    end       \* [Docs -> the step a worker is at, or "none"]

vars == <<status, end>>

Init == /\ status = [d \in Docs |-> "absent"]
        /\ end = [d \in Docs |-> "none"]

Moves(d, from, to) ==
    status[d] = from /\ status' = [status EXCEPT ![d] = to]

Enters(d, pc) ==
    end[d] = "none" /\ end' = [end EXCEPT ![d] = pc]

Add(d)   == Moves(d, "absent", "active") /\ UNCHANGED end
Serve(d) == Moves(d, "absent", "completed") /\ UNCHANGED end

Succeed(d) == Moves(d, "active", "completed") /\ Enters(d, "caching")
GiveUp(d)  == Moves(d, "active", "failed") /\ Enters(d, "releasing")

Order == {<<"caching", "releasing">>, <<"releasing", "unguarding">>,
          <<"unguarding", "none">>}

Proceed(d) ==
    /\ \E step \in Order : end[d] = step[1] /\ end' = [end EXCEPT ![d] = step[2]]
    /\ UNCHANGED status

\* A worker dies, with all the ends it was at.
Abandon(D) ==
    /\ end' = [d \in Docs |-> IF d \in D THEN "none" ELSE end[d]]
    /\ UNCHANGED status

Next ==
    \/ \E d \in Docs : Add(d) \/ Serve(d) \/ Succeed(d) \/ GiveUp(d) \/ Proceed(d)
    \/ \E D \in SUBSET Docs : Abandon(D)

Spec == Init /\ [][Next]_vars
=============================================================================
