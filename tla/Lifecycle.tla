----------------------------- MODULE Lifecycle -----------------------------
(***************************************************************************)
(* What the service promises about a submitted document, with none of the  *)
(* machinery: the state machine of docs/flow.md, the attempt counter, and  *)
(* the release of its rate-limit slot, which happens at most once and only *)
(* after the document has reached a terminal state.                        *)
(***************************************************************************)
EXTENDS Integers

CONSTANTS Docs, MaxAttempts

VARIABLES
    status,      \* [Docs -> status]
    attempts,    \* [Docs -> Nat]: times a worker has taken the document
    released     \* [Docs -> Nat]: times its slot has been given back

vars == <<status, attempts, released>>

Init == /\ status = [d \in Docs |-> "absent"]
        /\ attempts = [d \in Docs |-> 0]
        /\ released = [d \in Docs |-> 0]

Move(d, from, to) ==
    status[d] = from /\ status' = [status EXCEPT ![d] = to]

Submit(d) ==
    Move(d, "absent", "queued") /\ UNCHANGED <<attempts, released>>

Take(d) ==
    /\ Move(d, "queued", "processing")
    /\ attempts' = [attempts EXCEPT ![d] = @ + 1]
    /\ UNCHANGED released

\* A retry is scheduled, or an expired lease is reclaimed.
GiveBack(d) ==
    Move(d, "processing", "queued") /\ UNCHANGED <<attempts, released>>

Succeed(d) ==
    Move(d, "processing", "completed") /\ UNCHANGED <<attempts, released>>

\* Terminal failure, never before the attempts are used up.
GiveUp(d) ==
    /\ attempts[d] >= MaxAttempts
    /\ Move(d, "processing", "failed")
    /\ UNCHANGED <<attempts, released>>

FreeSlot(d) ==
    /\ status[d] \in {"completed", "failed"}
    /\ released[d] = 0
    /\ released' = [released EXCEPT ![d] = 1]
    /\ UNCHANGED <<status, attempts>>

Next == \E d \in Docs :
            Submit(d) \/ Take(d) \/ GiveBack(d) \/ Succeed(d) \/ GiveUp(d)
                \/ FreeSlot(d)

Spec == Init /\ [][Next]_vars
=============================================================================
