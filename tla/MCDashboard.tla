---------------------------- MODULE MCDashboard ----------------------------
(***************************************************************************)
(* The dashboard for TLC: two users, one of whom has all the documents,    *)
(* so that every other row under the other one is misplaced.               *)
(***************************************************************************)
EXTENDS Dashboard, TLC

CONSTANTS rich, poor

MCUsers == {rich, poor}

MCDocs == 1..2

MCOwner == [d \in MCDocs |-> rich]
=============================================================================
