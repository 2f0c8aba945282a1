---------------------------- MODULE MCSummaries ----------------------------
(***************************************************************************)
(* Summaries for TLC: all texts up to a length.                            *)
(***************************************************************************)
EXTENDS Summaries, TLC

CONSTANT MaxLength

MCUploads ==
    {t \in UNION {[1..n -> Symbols] : n \in 0..MaxLength} :
        \A i \in 1..Len(t) - 1 : ~{t[i], t[i + 1]} \subseteq Words}
=============================================================================
