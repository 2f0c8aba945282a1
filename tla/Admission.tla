----------------------------- MODULE Admission -----------------------------
(***************************************************************************)
(* What the service promises about taking on work, with none of the        *)
(* machinery: which submissions become work, which collapse into one that  *)
(* is on its way, which are turned down, and which are served.  Until      *)
(* something goes wrong nobody has more than Limit submissions admitted    *)
(* and nobody is turned down with less; only an order of steps and a       *)
(* processed original are promised after that.                             *)
(***************************************************************************)
EXTENDS FiniteSets, Integers

CONSTANTS Ids, Limit

VARIABLES
    key,        \* [Ids -> user and content]
    stage,      \* [Ids -> how far a submission has come]
    processed,  \* ids whose content has been summarised
    sound       \* nothing has failed and no counter was rewritten

vars == <<key, stage, processed, sound>>

Init == /\ stage = [r \in Ids |-> "asked"]
        /\ processed = {}
        /\ sound = TRUE

\* The submissions of a user that are charged to the user.
Charged(u) == {r \in Ids : key[r].user = u /\ stage[r] = "admitted"}

\* Another submission of the same content is on its way.
Rival(r) == \E q \in Ids :
    /\ q # r /\ key[q] = key[r]
    /\ stage[q] \in {"carried", "turnedDown", "admitted", "closing"}

Move(r, from, to) ==
    /\ stage[r] \in from /\ stage' = [stage EXCEPT ![r] = to]
    /\ UNCHANGED key

\* A step may be the one in which something goes wrong.
Step(r, from, to) ==
    Move(r, from, to) /\ UNCHANGED processed /\ sound' \in {sound, FALSE}

\* From the summary of an original, whatever has gone wrong.
Serve(r) ==
    /\ \E d \in processed : key[d] = key[r]
    /\ Step(r, {"asked"}, "served")

TakeUp(r) == Step(r, {"asked"}, "carried")

Collapse(r) == (sound => Rival(r)) /\ Step(r, {"asked"}, "collapsed")

Admit(r) ==
    /\ sound => Cardinality(Charged(key[r].user)) < Limit
    /\ Step(r, {"carried"}, "admitted")

TurnDown(r) ==
    /\ sound => Cardinality(Charged(key[r].user)) >= Limit
    /\ Step(r, {"carried"}, "turnedDown")

Refuse(r) == Step(r, {"turnedDown"}, "refused")

Finish(r) ==
    /\ stage[r] = "admitted"
    /\ processed' = processed \cup {r}
    /\ UNCHANGED <<key, stage, sound>>

Release(r) == Step(r, {"admitted"}, "closing")

Close(r) == Step(r, {"closing"}, "over")

\* A submission that nobody carries on.
Abandon(r) ==
    /\ Step(r, {"asked", "collapsed", "carried", "turnedDown", "admitted",
                "closing"}, "over")
    /\ ~sound'

GoWrong == sound' = FALSE /\ UNCHANGED <<key, stage, processed>>

Next ==
    \/ \E r \in Ids :
          \/ Serve(r) \/ TakeUp(r) \/ Collapse(r) \/ Admit(r) \/ TurnDown(r)
          \/ Refuse(r) \/ Finish(r) \/ Release(r) \/ Close(r) \/ Abandon(r)
    \/ GoWrong

Spec == Init /\ [][Next]_vars
=============================================================================
