-------------------------- MODULE SummariesProofs --------------------------
(***************************************************************************)
(* What TLAPS proves of Summaries, for any number of documents and any     *)
(* texts: whom a summary says it is for, and whom it names as its origin;  *)
(* and that a summary served for another spelling of its text has the      *)
(* measures of that spelling, which rests on TextProofs.                   *)
(***************************************************************************)
EXTENDS Summaries, TextProofs

\* A document and a summary have the fields they are written with.
IsDoc(d) ==
    d = [status |-> d.status, content |-> d.content, summary |-> d.summary]

Shaped(s) ==
    s = [measures |-> s.measures, source |-> s.source,
         document |-> s.document, origin |-> s.origin, text |-> s.text]

\* The summary the summarizer made for a document, and that of a copy of it.
Made(s, id) ==
    /\ Shaped(s) /\ s.source = "generated" /\ s.document = id
    /\ s.origin = NoId /\ s.text = [for |-> id, duplicateOf |-> NoId]

Copied(s, id, origin) ==
    /\ Shaped(s) /\ s.source = "cache" /\ s.document = id
    /\ s.origin = origin /\ s.text = [for |-> id, duplicateOf |-> origin]

\* What is cached was made for a document that was processed, so a copy is
\* never copied again.
SummariesInv ==
    /\ DOMAIN docs = Ids
    /\ \A id \in Ids : IsDoc(docs[id])
    /\ \A id \in Ids : docs[id].status = "completed" =>
          \/ Made(docs[id].summary, id)
          \/ \E d \in Processed \ {id} : Copied(docs[id].summary, id, d)
    /\ cache # NoSummary => \E d \in Processed : Made(cache, d)

LEMMA DocWrites ==
    ASSUME NEW d, IsDoc(d), NEW state, NEW summary
    PROVE  [d EXCEPT !.status = state, !.summary = summary]
              = [status |-> state, content |-> d.content, summary |-> summary]
<1> DEFINE e == [d EXCEPT !.status = state]
           f == [e EXCEPT !.summary = summary]
<1>1. DOMAIN d = {"status", "content", "summary"}
  BY DEF IsDoc
<1>2. e = [status |-> state, content |-> d.content, summary |-> d.summary]
  BY <1>1
<1> HIDE DEF e
<1>3. f = [status |-> state, content |-> d.content, summary |-> summary]
  BY <1>2
<1> QED
  BY <1>3 DEF e

LEMMA ProcessedMade ==
    ASSUME SummariesInv, NEW d \in Processed
    PROVE  d \in Ids /\ Made(docs[d].summary, d)
<1>1. /\ d \in Ids /\ docs[d].status = "completed"
      /\ docs[d].summary.source = "generated"
  BY DEF Processed
<1>2. \A e : ~Copied(docs[d].summary, d, e)
  BY <1>1 DEF Copied
<1> QED
  BY <1>1, <1>2 DEF SummariesInv

LEMMA DuplicateCopied ==
    ASSUME NEW s, NEW d \in Ids, NEW id, Made(s, d)
    PROVE  /\ Copied(AsDuplicate(s, id), id, d)
           /\ AsDuplicate(s, id).measures = s.measures
<1>1. PICK m, t : s = [measures |-> m, source |-> "generated",
                       document |-> d, origin |-> NoId, text |-> t]
  BY DEF Made, Shaped
<1>2. s.origin = NoId /\ s.document = d
  BY <1>1
<1>3. AsDuplicate(s, id) =
          [s EXCEPT !.source = "cache", !.document = id, !.origin = d,
                    !.text = Render(id, d)]
  BY <1>2 DEF AsDuplicate
<1>4. AsDuplicate(s, id) =
          [measures |-> m, source |-> "cache", document |-> id,
           origin |-> d, text |-> [for |-> id, duplicateOf |-> d]]
  BY <1>1, <1>3 DEF Render
<1> QED
  BY <1>1, <1>4 DEF Copied, Shaped

\* A document is written, and the others stay.
LEMMA DocKept ==
    ASSUME SummariesInv, NEW id \in Ids, docs[id].status # "completed",
           NEW doc, IsDoc(doc), docs' = [docs EXCEPT ![id] = doc],
           doc.status = "completed" =>
               \/ Made(doc.summary, id)
               \/ \E d \in Processed : Copied(doc.summary, id, d),
           \/ cache' \in {cache, NoSummary}
           \/ \E d \in Processed : cache' = docs[d].summary
           \/ doc.status = "completed" /\ Made(doc.summary, id)
              /\ cache' = doc.summary
    PROVE  SummariesInv'
<1>1. /\ DOMAIN docs' = Ids /\ docs'[id] = doc
      /\ \A e \in Ids \ {id} : docs'[e] = docs[e]
  BY DEF SummariesInv
<1>2. Processed \subseteq Processed' /\ id \notin Processed
  BY <1>1 DEF Processed
<1>3. doc.status = "completed" /\ Made(doc.summary, id) => id \in Processed'
  BY <1>1 DEF Processed, Made
<1>4. \A e \in Ids : IsDoc(docs'[e])
  BY <1>1 DEF SummariesInv
<1>5. ASSUME NEW e \in Ids, docs'[e].status = "completed"
      PROVE  \/ Made(docs'[e].summary, e)
             \/ \E d \in Processed' \ {e} : Copied(docs'[e].summary, e, d)
  <2>1. CASE e = id
    BY <1>1, <1>2, <1>5, <2>1
  <2>2. CASE e # id
    BY <1>1, <1>2, <1>5, <2>2 DEF SummariesInv
  <2> QED
    BY <2>1, <2>2
<1>6. cache' # NoSummary => \E d \in Processed' : Made(cache', d)
  <2>1. CASE cache' \in {cache, NoSummary}
    BY <1>2, <2>1 DEF SummariesInv
  <2>2. CASE \E d \in Processed : cache' = docs[d].summary
    BY <1>2, <2>2, ProcessedMade
  <2>3. CASE doc.status = "completed" /\ Made(doc.summary, id)
             /\ cache' = doc.summary
    BY <1>3, <2>3
  <2> QED
    BY <2>1, <2>2, <2>3
<1> QED
  BY <1>1, <1>4, <1>5, <1>6 DEF SummariesInv

LEMMA InitHolds == Init => SummariesInv
<1> SUFFICES ASSUME Init PROVE SummariesInv
  OBVIOUS
<1>1. docs = [d \in Ids |-> Absent] /\ cache = NoSummary
  BY DEF Init
<1>2. IsDoc(Absent) /\ Absent.status # "completed"
  BY DEF IsDoc, Absent
<1> QED
  BY <1>1, <1>2 DEF SummariesInv

LEMMA StoredKept ==
    ASSUME SummariesInv, NEW id \in Ids, NEW raw, NEW state, NEW summary,
           Stored(id, raw, state, summary),
           state = "completed" =>
               \E d \in Processed : Copied(summary, id, d),
           \/ cache' = cache
           \/ \E d \in Processed : cache' = docs[d].summary
    PROVE  SummariesInv'
<1> DEFINE doc == [status |-> state, content |-> Strip(raw),
                   summary |-> summary]
<1>1. docs[id].status # "completed" /\ docs' = [docs EXCEPT ![id] = doc]
  BY DEF Stored, Absent
<1>2. IsDoc(doc) /\ doc.status = state /\ doc.summary = summary
  BY DEF IsDoc
<1> HIDE DEF doc
<1> QED
  BY <1>1, <1>2, DocKept

LEMMA Inductive == SummariesInv /\ [Next]_vars => SummariesInv'
<1> SUFFICES ASSUME SummariesInv, [Next]_vars
             PROVE  SummariesInv'
  OBVIOUS
<1>1. ASSUME NEW id \in Ids, NEW raw \in spellings, Hit(id, raw)
      PROVE  SummariesInv'
  <2>1. PICK d \in Processed : Made(cache, d)
    BY <1>1 DEF Hit, SummariesInv
  <2>2. Copied(AsDuplicate(cache, id), id, d)
    BY <2>1, ProcessedMade, DuplicateCopied
  <2> QED
    BY <1>1, <2>1, <2>2, StoredKept DEF Hit
<1>2. ASSUME NEW id \in Ids, NEW raw \in spellings, Restored(id, raw)
      PROVE  SummariesInv'
  <2>1. PICK d \in Processed :
            /\ Stored(id, raw, "completed", AsDuplicate(docs[d].summary, id))
            /\ cache' \in {cache, docs[d].summary}
    BY <1>2 DEF Restored
  <2>2. Copied(AsDuplicate(docs[d].summary, id), id, d)
    BY <2>1, ProcessedMade, DuplicateCopied
  <2> QED
    BY <2>1, <2>2, StoredKept
<1>3. ASSUME NEW id \in Ids, NEW raw \in spellings, Queued(id, raw)
      PROVE  SummariesInv'
  BY <1>3, StoredKept DEF Queued
<1>4. ASSUME NEW id \in Ids, Completed(id)
      PROVE  SummariesInv'
  <2> DEFINE summary == BuildSummary(docs[id].content, id)
             doc == [status |-> "completed", content |-> docs[id].content,
                     summary |-> summary]
  <2>1. /\ docs[id].status = "queued" /\ cache' \in {cache, summary}
        /\ docs' = [docs EXCEPT ![id] = [docs[id] EXCEPT !.status = "completed",
                                                         !.summary = summary]]
    BY <1>4 DEF Completed, SummariesInv
  <2>2. Made(summary, id)
    BY DEF BuildSummary, Render, Made, Shaped
  <2> HIDE DEF summary
  <2>3. [docs[id] EXCEPT !.status = "completed", !.summary = summary] = doc
    <3>1. IsDoc(docs[id])
      BY DEF SummariesInv
    <3> QED
      BY <3>1, DocWrites
  <2>4. IsDoc(doc) /\ doc.status = "completed" /\ doc.summary = summary
    BY DEF IsDoc
  <2>5. docs' = [docs EXCEPT ![id] = doc]
    BY <2>1, <2>3
  <2> HIDE DEF doc
  <2> QED
    BY <2>1, <2>2, <2>4, <2>5, DocKept
<1>5. CASE docs' = docs /\ cache' \in {cache, NoSummary}
  BY <1>5 DEF SummariesInv, Processed
<1>6. (Expires \/ UNCHANGED vars) => docs' = docs /\ cache' \in {cache, NoSummary}
  BY DEF Expires, vars
<1> QED
  BY <1>1, <1>2, <1>3, <1>4, <1>5, <1>6 DEF Next

\* summarizer.py:13, 155: a summary names the upload it is for; a copy names
\* the upload that was processed for it, and one that was processed names
\* none, whatever served them and in whatever order.
THEOREM TextsTell == Spec => []TextTells
<1>1. SummariesInv => TextTells
  <2> SUFFICES ASSUME SummariesInv, NEW id \in Ids, Has(id)
               PROVE  LET text == docs[id].summary.text
                      IN /\ text.for = id
                         /\ IF docs[id].summary.source = "cache"
                            THEN text.duplicateOf \in Processed \ {id}
                            ELSE text.duplicateOf = NoId
    BY DEF TextTells
  <2>1. CASE Made(docs[id].summary, id)
    BY <2>1 DEF Made
  <2>2. ASSUME NEW d \in Processed \ {id}, Copied(docs[id].summary, id, d)
        PROVE  LET text == docs[id].summary.text
               IN /\ text.for = id
                  /\ IF docs[id].summary.source = "cache"
                     THEN text.duplicateOf \in Processed \ {id}
                     ELSE text.duplicateOf = NoId
    BY <2>2 DEF Copied
  <2> QED
    BY <2>1, <2>2 DEF SummariesInv, Has
<1>2. Spec => []SummariesInv
  BY InitHolds, Inductive, PTL DEF Spec
<1> QED
  BY <1>1, <1>2, PTL

-----------------------------------------------------------------------------
(* What a summary says of its text                                         *)

\* Its measures are those of one of the spellings.
Fits(s) == \E raw \in spellings : s.measures = Measures(Strip(raw))

Known(d) ==
    /\ \E raw \in spellings : d.content = Strip(raw)
    /\ \/ d.status = "completed" /\ Fits(d.summary)
       \/ d.status = "queued" /\ d.summary = NoSummary

\* Every document has the text of one of the spellings, and every summary
\* comes from one.
ContentInv ==
    /\ content \in Seq(Symbols \ {"cr"})
    /\ \A raw \in spellings : raw \in Seq(Symbols) /\ Normalize(raw) = content
    /\ \A id \in Ids : docs[id] = Absent \/ Known(docs[id])
    /\ cache # NoSummary => Fits(cache)

LEMMA ContentHolds == Init => ContentInv
<1> SUFFICES ASSUME Init PROVE ContentInv
  OBVIOUS
<1> DEFINE hash == [t \in {t \in Uploads : Strip(t) # <<>>} |-> Normalize(t)]
<1>1. PICK h \in Range(hash) :
          content = h /\ spellings = {t \in DOMAIN hash : hash[t] = h}
  BY DEF Init
<1>2. \A raw \in spellings : raw \in Uploads /\ Normalize(raw) = content
  BY <1>1
<1>3. Uploads \subseteq Seq(Symbols)
  BY SummariesAssumption
<1>4. PICK t \in Uploads : content = Normalize(t)
  BY <1>1 DEF Range
<1>5. content \in Seq(Symbols \ {"cr"})
  BY <1>3, <1>4, NormalizeType
<1>6. docs = [d \in Ids |-> Absent] /\ cache = NoSummary
  BY DEF Init
<1> QED
  BY <1>2, <1>3, <1>5, <1>6 DEF ContentInv

LEMMA ContentKept ==
    ASSUME ContentInv, DOMAIN docs = Ids, UNCHANGED asked,
           NEW id \in Ids, NEW doc, Known(doc),
           docs' = [docs EXCEPT ![id] = doc],
           cache' = cache \/ cache' = NoSummary \/ Fits(cache')
    PROVE  ContentInv'
<1>1. content' = content /\ spellings' = spellings
  BY DEF asked
<1>2. \A e \in Ids : docs'[e] = IF e = id THEN doc ELSE docs[e]
  OBVIOUS
<1>3. \A e \in Ids : docs'[e] = Absent \/ Known(docs'[e])
  BY <1>2 DEF ContentInv
<1>4. cache' # NoSummary => Fits(cache')
  BY DEF ContentInv
<1>5. \A e \in Ids : docs'[e] = Absent \/ Known(docs[e])'
  BY <1>1, <1>3 DEF Known, Fits
<1>6. cache' # NoSummary => Fits(cache)'
  BY <1>1, <1>4 DEF Fits
<1> QED
  BY <1>1, <1>5, <1>6 DEF ContentInv

LEMMA ProcessedFits ==
    ASSUME ContentInv, NEW d \in Processed
    PROVE  d \in Ids /\ Fits(docs[d].summary)
<1>1. d \in Ids /\ docs[d].status = "completed"
  BY DEF Processed
<1>2. docs[d] # Absent
  BY <1>1 DEF Absent
<1> QED
  BY <1>1, <1>2 DEF ContentInv, Known

LEMMA StoredKnown ==
    ASSUME SummariesInv, ContentInv, UNCHANGED asked,
           NEW id \in Ids, NEW raw \in spellings, NEW state, NEW summary,
           Stored(id, raw, state, summary),
           \/ state = "completed" /\ Fits(summary)
           \/ state = "queued" /\ summary = NoSummary,
           cache' = cache \/ Fits(cache')
    PROVE  ContentInv'
<1> DEFINE doc == [status |-> state, content |-> Strip(raw),
                   summary |-> summary]
<1>1. docs' = [docs EXCEPT ![id] = doc]
  BY DEF Stored
<1>2. Known(doc)
  BY DEF Known
<1> HIDE DEF doc
<1> QED
  BY <1>1, <1>2, ContentKept DEF SummariesInv

LEMMA ContentInductive ==
    SummariesInv /\ ContentInv /\ [Next]_vars => ContentInv'
<1> SUFFICES ASSUME SummariesInv, ContentInv, [Next]_vars
             PROVE  ContentInv'
  OBVIOUS
<1>1. ASSUME NEW id \in Ids, NEW raw \in spellings, Hit(id, raw)
      PROVE  ContentInv'
  <2>1. PICK d \in Processed : Made(cache, d)
    BY <1>1 DEF Hit, SummariesInv
  <2>2. AsDuplicate(cache, id).measures = cache.measures
    BY <2>1, ProcessedMade, DuplicateCopied
  <2>3. Fits(AsDuplicate(cache, id))
    BY <1>1, <2>2 DEF ContentInv, Hit, Fits
  <2> QED
    BY <1>1, <2>3, StoredKnown DEF Hit
<1>2. ASSUME NEW id \in Ids, NEW raw \in spellings, Restored(id, raw)
      PROVE  ContentInv'
  <2>1. PICK d \in Processed :
            /\ Stored(id, raw, "completed", AsDuplicate(docs[d].summary, id))
            /\ cache' \in {cache, docs[d].summary}
            /\ UNCHANGED asked
    BY <1>2 DEF Restored
  <2>2. AsDuplicate(docs[d].summary, id).measures = docs[d].summary.measures
    BY ProcessedMade, DuplicateCopied
  <2>3. Fits(docs[d].summary)
    BY ProcessedFits
  <2>4. Fits(AsDuplicate(docs[d].summary, id))
    BY <2>2, <2>3 DEF Fits
  <2> QED
    BY <2>1, <2>3, <2>4, StoredKnown
<1>3. ASSUME NEW id \in Ids, NEW raw \in spellings, Queued(id, raw)
      PROVE  ContentInv'
  BY <1>3, StoredKnown DEF Queued
<1>4. ASSUME NEW id \in Ids, Completed(id)
      PROVE  ContentInv'
  <2> DEFINE summary == BuildSummary(docs[id].content, id)
             doc == [status |-> "completed", content |-> docs[id].content,
                     summary |-> summary]
  <2>1. /\ docs[id].status = "queued" /\ cache' \in {cache, summary}
        /\ docs' = [docs EXCEPT ![id] = [docs[id] EXCEPT !.status = "completed",
                                                         !.summary = summary]]
        /\ UNCHANGED asked /\ DOMAIN docs = Ids /\ IsDoc(docs[id])
    BY <1>4 DEF Completed, SummariesInv
  <2>2. PICK raw \in spellings : docs[id].content = Strip(raw)
    BY <2>1 DEF ContentInv, Known, Absent
  <2>3. Fits(summary)
    BY <2>2 DEF Fits, BuildSummary
  <2> HIDE DEF summary
  <2>4. [docs[id] EXCEPT !.status = "completed", !.summary = summary] = doc
    <3>1. IsDoc(docs[id])
      BY DEF SummariesInv
    <3> QED
      BY <3>1, DocWrites
  <2>5. Known(doc)
    BY <2>2, <2>3 DEF Known
  <2>6. docs' = [docs EXCEPT ![id] = doc]
    BY <2>1, <2>4
  <2> HIDE DEF doc
  <2> QED
    BY <2>1, <2>3, <2>5, <2>6, ContentKept
<1>5. CASE UNCHANGED <<asked, docs>> /\ cache' \in {cache, NoSummary}
  BY <1>5 DEF ContentInv, asked, Known, Fits
<1>6. (Expires \/ UNCHANGED vars) =>
          UNCHANGED <<asked, docs>> /\ cache' \in {cache, NoSummary}
  BY DEF Expires, vars, asked
<1> QED
  BY <1>1, <1>2, <1>3, <1>4, <1>5, <1>6 DEF Next

LEMMA SummariesHold == Spec => [](SummariesInv /\ ContentInv)
<1>1. Init => SummariesInv /\ ContentInv
  BY InitHolds, ContentHolds
<1>2. (SummariesInv /\ ContentInv) /\ [Next]_vars
          => (SummariesInv /\ ContentInv)'
  BY Inductive, ContentInductive
<1> QED
  BY <1>1, <1>2, PTL DEF Spec

\* cache.py:25: whatever served it, a document has the hash of the text that
\* was sent, although its text was stripped first.
THEOREM HashesStay == Spec => []HashStable
<1>1. ContentInv => HashStable
  <2> SUFFICES ASSUME ContentInv, NEW id \in Ids, docs[id] # Absent
               PROVE  Normalize(docs[id].content) = content
    BY DEF HashStable
  <2>1. PICK raw \in spellings : docs[id].content = Strip(raw)
    BY DEF ContentInv, Known
  <2>2. raw \in Seq(Symbols) /\ Normalize(raw) = content
    BY DEF ContentInv
  <2> QED
    BY <2>1, <2>2, StripKeepsHash
<1> QED
  BY <1>1, SummariesHold, PTL

\* summarizer.py:148: a summary that was made for another spelling, served
\* from the cache or from a document, has the lead, the numbers but for the
\* characters, and the keywords that its own document would give.
THEOREM MeasuresAgree == Spec => []SameMeasures
<1>1. ContentInv => SameMeasures
  <2> SUFFICES ASSUME ContentInv, NEW id \in Ids, Has(id)
               PROVE  [docs[id].summary.measures EXCEPT !.chars = 0]
                         = [Measures(docs[id].content) EXCEPT !.chars = 0]
    BY DEF SameMeasures
  <2>1. docs[id].status = "completed" /\ docs[id] # Absent
    BY DEF Has, Absent
  <2>2. PICK raw \in spellings : docs[id].content = Strip(raw)
    BY <2>1 DEF ContentInv, Known
  <2>3. PICK made \in spellings : docs[id].summary.measures = Measures(Strip(made))
    BY <2>1 DEF ContentInv, Known, Fits
  <2>4. /\ raw \in Seq(Symbols) /\ made \in Seq(Symbols)
        /\ Normalize(raw) = Normalize(made)
    BY DEF ContentInv
  <2> QED
    BY <2>2, <2>3, <2>4, HashTellsMeasures
<1> QED
  BY <1>1, SummariesHold, PTL

LEMMA MadeSummary ==
    ASSUME NEW s, NEW id \in Ids,
           Made(s, id) \/ \E d \in Ids : Copied(s, id, d)
    PROVE  IsSummary(s)
<1>1. NoId \notin Ids
  BY SummariesAssumption
<1>2. DOMAIN s = {"measures", "source", "document", "origin", "text"}
  BY DEF Made, Copied, Shaped
<1> QED
  BY <1>1, <1>2 DEF Made, Copied, IsSummary

\* summarizer.py:30-41: a document has a summary when it is completed and
\* never else, and a summary is cached exactly when it names an origin.
THEOREM SummariesTyped == Spec => []TypeOK
<1>1. SummariesInv /\ ContentInv => TypeOK
  <2> SUFFICES ASSUME SummariesInv, ContentInv
               PROVE  TypeOK
    OBVIOUS
  <2>1. content \in Seq(Words \cup {"space", "lf", "mark"})
    <3>1. Symbols \ {"cr"} \subseteq Words \cup {"space", "lf", "mark"}
      BY DEF Symbols, Blanks
    <3> QED
      BY <3>1 DEF ContentInv
  <2>2. ~IsSummary(NoSummary)
    <3>1. DOMAIN NoSummary = {"source"}
      BY DEF NoSummary
    <3> QED
      BY <3>1 DEF IsSummary
  <2>3. ASSUME NEW id \in Ids
        PROVE  /\ docs[id].status \in {"absent", "queued", "completed"}
               /\ docs[id].status = "completed" <=> IsSummary(docs[id].summary)
    <3>1. CASE docs[id] = Absent
      BY <2>2, <3>1 DEF Absent
    <3>2. CASE docs[id].status = "queued" /\ docs[id].summary = NoSummary
      BY <2>2, <3>2
    <3>3. CASE docs[id].status = "completed"
      BY <3>3, MadeSummary DEF SummariesInv, Processed
    <3> QED
      BY <3>1, <3>2, <3>3 DEF ContentInv, Known
  <2>4. cache # NoSummary => IsSummary(cache)
    BY MadeSummary DEF SummariesInv, Processed
  <2> QED
    BY <2>1, <2>3, <2>4 DEF TypeOK
<1> QED
  BY <1>1, SummariesHold, PTL
=============================================================================
