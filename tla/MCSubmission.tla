---------------------------- MODULE MCSubmission ----------------------------
(***************************************************************************)
(* Submission for TLC: the keys, the user ids, and the symmetry of what    *)
(* nothing compares but for equality.                                      *)
(***************************************************************************)
EXTENDS Submission, TLC

MCKeys == [user : Users, content : Contents]

\* No user id has a ":".
PlainIds == [u \in Users |-> u]

\* Every user id but one is of the form "x:b", where "b" is that one.
SuffixUser == CHOOSE u \in Users : TRUE

SharedSuffix == [u \in Users |-> SuffixUser]

\* Which of the requests is that user's, if only one is, makes no difference.
FirstOfSuffixUser ==
    (\E r \in Ids : User(r) = SuffixUser)
        => User(CHOOSE r \in Ids : TRUE) = SuffixUser

MCInit == Init /\ FirstOfSuffixUser

MCFairSpec == MCInit /\ [][Next]_vars /\ Fairness

MCSymmetry == Permutations(Ids) \cup Permutations(Contents)
                  \cup Permutations(Users)
=============================================================================
