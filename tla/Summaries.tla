----------------------------- MODULE Summaries -----------------------------
(***************************************************************************)
(* What a summary says of a text (app/services/summarizer.py), and what    *)
(* becomes of it: a summary that one upload got from the summarizer is     *)
(* served to others whose text has the same hash as theirs.  The summaries *)
(* are those of one user: keys are per user.                               *)
(***************************************************************************)
EXTENDS Texts

CONSTANTS
    Ids,         \* documents
    NoId,        \* None
    Uploads      \* the texts that are uploaded

ASSUME SummariesAssumption ==
    /\ NoId \notin Ids
    /\ Uploads \subseteq Seq(Symbols)
    /\ \A t \in Uploads : \A i \in 1..Len(t) - 1 : ~{t[i], t[i + 1]} \subseteq Words

VARIABLES
    content,     \* the normalized text all the uploads have
    spellings,   \* the texts that are uploaded for it
    docs,        \* the documents
    cache        \* the cached summary of that text

vars == <<content, spellings, docs, cache>>

asked == <<content, spellings>>

-----------------------------------------------------------------------------
(* Summaries                                                               *)

\* What the text states: whom it is for and, in its provenance, whose
\* processing it comes from, when that is another.
Render(id, origin) == [for |-> id, duplicateOf |-> origin]

BuildSummary(t, id) ==
    [measures |-> Measures(t), source |-> "generated", document |-> id,
     origin |-> NoId, text |-> Render(id, NoId)]

\* Mutant: the text stays that of the upload that was processed.
AsDuplicate_SameText(cached, id) ==
    [cached EXCEPT !.source = "cache", !.document = id,
                   !.origin = IF @ # NoId THEN @ ELSE cached.document]

\* Mutant: the copy passes for generated.
AsDuplicate_SameSource(cached, id) ==
    [cached EXCEPT !.document = id,
                   !.origin = IF @ # NoId THEN @ ELSE cached.document,
                   !.text = Render(id, cached.document)]

\* The measures are carried over, and the text is rendered again.
AsDuplicate(cached, id) ==
    LET origin == IF cached.origin # NoId THEN cached.origin
                  ELSE cached.document
    IN [cached EXCEPT !.source = "cache", !.document = id, !.origin = origin,
                      !.text = Render(id, origin)]

NoSummary == [source |-> "none"]

IsSummary(s) ==
    /\ DOMAIN s = {"measures", "source", "document", "origin", "text"}
    /\ s.source = (IF s.origin = NoId THEN "generated" ELSE "cache")
    /\ s.document \in Ids /\ s.origin \in Ids \cup {NoId}

TypeOK ==
    /\ content \in Seq(Words \cup {"space", "lf", "mark"})
    /\ \A id \in Ids :
          /\ docs[id].status \in {"absent", "queued", "completed"}
          /\ docs[id].status = "completed" <=> IsSummary(docs[id].summary)
    /\ cache # NoSummary => IsSummary(cache)

Absent == [status |-> "absent", content |-> <<>>, summary |-> NoSummary]

\* A text that is blank is rejected, as is a blank title.
Init ==
    /\ LET hash == [t \in {t \in Uploads : Strip(t) # <<>>} |-> Normalize(t)]
       IN \E h \in Range(hash) :
             content = h /\ spellings = {t \in DOMAIN hash : hash[t] = h}
    /\ docs = [d \in Ids |-> Absent]
    /\ cache = NoSummary

Processed ==
    {d \in Ids : docs[d].status = "completed"
                    /\ docs[d].summary.source = "generated"}

\* The request model has stripped the text before it is stored and hashed.
Stored(id, raw, state, summary) ==
    /\ docs[id] = Absent
    /\ docs' = [docs EXCEPT ![id] = [status |-> state, content |-> Strip(raw),
                                     summary |-> summary]]

\* A cached summary is served.
Hit(id, raw) ==
    /\ cache # NoSummary
    /\ Stored(id, raw, "completed", AsDuplicate(cache, id))
    /\ UNCHANGED <<asked, cache>>

\* Nothing is cached, or Redis fails: the summary of an upload that was
\* processed is served, and cached unless Redis fails.
Restored(id, raw) ==
    \E d \in Processed :
        /\ Stored(id, raw, "completed", AsDuplicate(docs[d].summary, id))
        /\ cache' \in {cache, docs[d].summary}
        /\ UNCHANGED asked

\* No summary was found, perhaps because another upload has ended since.
Queued(id, raw) ==
    /\ Stored(id, raw, "queued", NoSummary)
    /\ UNCHANGED <<asked, cache>>

\* A worker ends it; the cache may have failed.
Completed(id) ==
    /\ docs[id].status = "queued"
    /\ LET summary == BuildSummary(docs[id].content, id)
       IN /\ docs' = [docs EXCEPT ![id].status = "completed",
                                  ![id].summary = summary]
          /\ cache' \in {cache, summary}
    /\ UNCHANGED asked

\* The TTL of the entry.
Expires == cache # NoSummary /\ cache' = NoSummary /\ UNCHANGED <<asked, docs>>

Next ==
    \/ \E id \in Ids, raw \in spellings :
          Hit(id, raw) \/ Restored(id, raw) \/ Queued(id, raw)
    \/ \E id \in Ids : Completed(id)
    \/ Expires

Spec == Init /\ [][Next]_vars

-----------------------------------------------------------------------------
(* Properties                                                              *)

Has(id) == docs[id].status = "completed"

\* cache.py:25: the text that is stored hashes as the one that was sent, so
\* that stripping it first does not keep two uploads apart.
HashStable ==
    \A id \in Ids : docs[id] # Absent => Normalize(docs[id].content) = content

\* summarizer.py:148: whatever served it, a summary has the lead, the words,
\* the sentences and the keywords that its own document would give.  The
\* number of characters is not among them: it counts the CRs of the upload
\* that was processed.
SameMeasures ==
    \A id \in Ids : Has(id) =>
        LET own == Measures(docs[id].content)
        IN [docs[id].summary.measures EXCEPT !.chars = 0]
               = [own EXCEPT !.chars = 0]

\* summarizer.py:13: the text of a summary names the upload it is for, and
\* of a copy the upload that was processed, never another copy.
TextTells ==
    \A id \in Ids : Has(id) =>
        LET text == docs[id].summary.text
        IN /\ text.for = id
           /\ IF docs[id].summary.source = "cache"
              THEN text.duplicateOf \in Processed \ {id}
              ELSE text.duplicateOf = NoId
=============================================================================
