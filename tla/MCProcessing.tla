---------------------------- MODULE MCProcessing ----------------------------
(***************************************************************************)
(* Processing for TLC: the places of one document and the symmetry of the  *)
(* identities whose values nothing compares.                               *)
(***************************************************************************)
EXTENDS Processing, TLC

MCSymmetry == Permutations(Workers) \cup Permutations(Slots)
                  \cup Permutations(Entries)
=============================================================================
