------------------------------- MODULE Texts -------------------------------
(***************************************************************************)
(* Texts as app/services/summarizer.py and hash_content of                 *)
(* app/services/cache.py see them: sequences of words, sentence marks and  *)
(* blanks; two words do not touch.  Every operation picks places of a text *)
(* and keeps their order.                                                  *)
(***************************************************************************)
EXTENDS Naturals, FiniteSets, SequencesExt

CONSTANTS
    Keywords,    \* words of more than three letters that are no stop words
    OtherWords,
    Top          \* how many keywords a summary has

Blanks == {"space", "lf", "cr"}

Words == Keywords \cup OtherWords

Symbols == Words \cup Blanks \cup {"mark"}

ASSUME TextsAssumption ==
    Top \in Nat /\ Words \cap (Blanks \cup {"mark"}) = {}

-----------------------------------------------------------------------------
(* Places                                                                  *)

Rank(places, i) == Cardinality({j \in places : j <= i})

\* The elements of t at the given places, in their order.
At(t, places) ==
    [k \in 1..Cardinality(places) |->
        t[CHOOSE i \in places : Rank(places, i) = k]]

Inked(t) == {i \in DOMAIN t : t[i] \notin Blanks}

-----------------------------------------------------------------------------
(* What makes two texts the same                                           *)

Within(t) == {i \in DOMAIN t : \E a, b \in Inked(t) : a <= i /\ i <= b}

\* str.strip
Strip(t) == At(t, Within(t))

Lines(t) == [i \in DOMAIN t |-> IF t[i] = "cr" THEN "lf" ELSE t[i]]

Kept(t) == {i \in DOMAIN t : ~(t[i] = "cr" /\ i < Len(t) /\ t[i + 1] = "lf")}

\* A CR before a LF goes, any other becomes one.
Unix(t) == At(Lines(t), Kept(t))

\* Mutant: blanks inside the text make no difference.
Normalize_Inked(t) == At(t, Inked(t))

\* Mutant: surrounding blanks make a difference.
Normalize_Unstripped(t) == Unix(t)

\* What the hash is taken of.
Normalize(t) == Strip(Unix(t))

-----------------------------------------------------------------------------
(* What is measured                                                        *)

WordsOf(t) == At(t, {i \in DOMAIN t : t[i] \in Words})

\* A mark of a run that is followed by a blank or by the end of the text: a
\* blank comes before the next word.
EndsSentence(t, i) ==
    /\ t[i] = "mark"
    /\ \A j \in DOMAIN t : i < j /\ t[j] \in Words =>
           \E k \in i..j : t[k] \in Blanks

Prose(t) == {i \in Inked(t) : ~EndsSentence(t, i)}

\* The first place of each sentence.
Starts(t) ==
    {i \in Prose(t) : \A h \in Prose(t) :
        h < i => \E k \in h..i : EndsSentence(t, k)}

\* The first sentence; its blanks, which are collapsed, are left out.
Lead(t) == At(t, {i \in Prose(t) : Rank(Starts(t), i) = 1})

\* The keywords by their number, and then by their first place.
KeywordsOf(t) ==
    LET words == WordsOf(t)
        Places(w) == {i \in DOMAIN words : words[i] = w}
        Before(v, w) ==
            \/ Cardinality(Places(v)) > Cardinality(Places(w))
            \/ /\ Cardinality(Places(v)) = Cardinality(Places(w))
               /\ \A j \in Places(w) : \E i \in Places(v) : i < j
        found == SetToSortSeq(ToSet(words) \cap Keywords, Before)
    IN SubSeq(found, 1, IF Len(found) < Top THEN Len(found) ELSE Top)

\* The numbers and words of a summary.  Reading time is a function of words.
Measures(t) == [lead |-> Lead(t), words |-> Len(WordsOf(t)),
                chars |-> Len(t), sentences |-> Cardinality(Starts(t)),
                keywords |-> KeywordsOf(t)]
=============================================================================
