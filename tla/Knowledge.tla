------------------------------ MODULE Knowledge ------------------------------
(***************************************************************************)
(* The knowledge base: documents are stored, split, embedded and stored    *)
(* again with their chunks, while others are deleted and questions search  *)
(* the chunks. Each request is two transactions with the embedding service *)
(* in between, and may be cut off there.                                   *)
(*                                                                         *)
(* A text is the sequence of the lengths of its lines; a chunk is a line   *)
(* and its range of characters. Scores are drawn per search.               *)
(***************************************************************************)
EXTENDS Integers, Sequences, FiniteSets, SequencesExt, FiniteSetsExt, Rows

CONSTANTS
    Texts,              \* what may be uploaded
    ChunkSize, Overlap, \* CHUNK_SIZE, CHUNK_OVERLAP
    MaxDocs,            \* bound of the model: uploads
    TopK                \* RAG_TOP_K

VARIABLES
    doc,     \* sa_knowledge_doc: text and status per id; a deleted one is "deleted"
    chunk,   \* sa_knowledge_chunk: doc, index, span, and whether it has a vector
    upload,  \* the requests under way: per document where they are, and the vectors
    found    \* the hits of the last search above the threshold, best first

vars == <<doc, chunk, upload, found>>
\* What the parameters are: windows overlap, and each begins beyond the one before.
Parameters ==
    /\ Texts \subseteq Seq(Nat) /\ {MaxDocs, TopK} \subseteq Nat
    /\ ChunkSize \in Nat /\ Overlap \in 1..ChunkSize - 1
Docs == DOMAIN doc

\* mutant: the windows of a long line do not overlap and the rest is cut off
SplitLineShort(line, n) ==
    IF n <= ChunkSize THEN <<[line |-> line, lo |-> 1, hi |-> n]>>
    ELSE [k \in 1..n \div ChunkSize |->
             [line |-> line, lo |-> (k - 1) * ChunkSize + 1, hi |-> k * ChunkSize]]

\* A long line is cut into windows that overlap, up to its last character.
SplitLine(line, n) ==
    LET step == ChunkSize - Overlap
    IN  IF n <= ChunkSize THEN <<[line |-> line, lo |-> 1, hi |-> n]>>
        ELSE [k \in 1..(n + step - 1) \div step |->
                 [line |-> line, lo |-> (k - 1) * step + 1,
                  hi |-> Min({n, (k - 1) * step + ChunkSize})]]

\* split_text: line by line, blank ones are dropped.
SplitText(text) ==
    Joined([i \in DOMAIN text |-> IF text[i] = 0 THEN <<>> ELSE SplitLine(i, text[i])])

-----------------------------------------------------------------------------
Init == doc = <<>> /\ chunk = {} /\ upload = <<>> /\ found = <<>>

\* ingest_doc, first transaction: the document is pending.
Upload(text) ==
    /\ Len(doc) < MaxDocs
    /\ doc' = Append(doc, [text |-> text, status |-> "pending"])
    /\ upload' = Append(upload, [at |-> "stored", vectors |-> 0])
    /\ UNCHANGED <<chunk, found>>

\* No text: embedded at once. Otherwise the service answers, perhaps with fewer vectors.
Embed(d, vectors) ==
    /\ upload[d].at = "stored" /\ SplitText(doc[d].text) # <<>>
    /\ vectors \in 0..Len(SplitText(doc[d].text))
    /\ upload' = [upload EXCEPT ![d] = [at |-> "embedded", vectors |-> vectors]]
    /\ UNCHANGED <<doc, chunk, found>>

SetStatus(d, status) ==
    doc' = IF doc[d].status = "deleted" THEN doc ELSE [doc EXCEPT ![d].status = status]

EmbedNothing(d) ==
    /\ upload[d].at = "stored" /\ SplitText(doc[d].text) = <<>>
    /\ SetStatus(d, "embedded")
    /\ upload' = [upload EXCEPT ![d].at = "over"]
    /\ UNCHANGED <<chunk, found>>

EmbedFails(d) ==
    /\ upload[d].at = "stored" /\ SplitText(doc[d].text) # <<>>
    /\ SetStatus(d, "failed")
    /\ upload' = [upload EXCEPT ![d].at = "over"]
    /\ UNCHANGED <<chunk, found>>

ChunkRows(d, vectors) ==
    LET spans == SplitText(doc[d].text)
    IN  {[doc |-> d, index |-> i, span |-> spans[i], vector |-> i <= vectors] : i \in DOMAIN spans}

\* mutant: the status comes in a transaction of its own, before the chunks
StoreSplit(d) ==
    /\ upload[d].at \in {"embedded", "marked"}
    /\ IF upload[d].at = "embedded" THEN SetStatus(d, "embedded") /\ UNCHANGED chunk
       ELSE UNCHANGED doc /\ chunk' = IF doc[d].status = "deleted" THEN chunk
                                      ELSE chunk \cup ChunkRows(d, upload[d].vectors)
    /\ upload' = [upload EXCEPT ![d].at = IF @ = "embedded" THEN "marked" ELSE "over"]
    /\ UNCHANGED found

\* Second transaction: chunks and status together; without its document (the foreign key)
\* it fails as a whole.
Store(d) ==
    /\ upload[d].at = "embedded"
    /\ IF doc[d].status = "deleted" THEN UNCHANGED <<doc, chunk>>
       ELSE chunk' = chunk \cup ChunkRows(d, upload[d].vectors) /\ SetStatus(d, "embedded")
    /\ upload' = [upload EXCEPT ![d].at = "over"]
    /\ UNCHANGED found

\* The process dies: a document stays pending, nothing takes it up again.
CutOff(d) ==
    /\ upload[d].at # "over"
    /\ upload' = [upload EXCEPT ![d].at = "over"]
    /\ UNCHANGED <<doc, chunk, found>>

\* delete_doc: its chunks and itself, whatever its status.
DeleteDoc(d) ==
    /\ doc[d].status # "deleted"
    /\ chunk' = {r \in chunk : r.doc # d}
    /\ doc' = [doc EXCEPT ![d].status = "deleted"]
    /\ UNCHANGED <<upload, found>>

\* search and the threshold of answer_with_rag: the best of the chunks with a vector.
Search(hits) ==
    /\ hits # <<>>
    /\ ToSet(hits) \subseteq {r \in chunk : r.vector}
    /\ found' = hits
    /\ UNCHANGED <<doc, chunk, upload>>

\* mutant: the sources are those of the hits one by one
SourcesTwice(hits) == [i \in DOMAIN hits |-> hits[i].doc]

\* _dedupe_sources: every document once, in the order of its best hit.
Sources(hits) ==
    LET first == Those([i \in DOMAIN hits |-> i],
                       {i \in DOMAIN hits : \A j \in 1..i - 1 : hits[j].doc # hits[i].doc})
    IN  [k \in DOMAIN first |-> hits[first[k]].doc]

Orders(S) == {o \in UNION {[1..n -> S] : n \in 1..TopK} : IsInjective(o)}
Next ==
    \/ \E text \in Texts : Upload(text)
    \/ \E d \in Docs : \/ EmbedNothing(d) \/ EmbedFails(d) \/ Store(d) \/ CutOff(d) \/ DeleteDoc(d)
                       \/ \E n \in 0..Len(SplitText(doc[d].text)) : Embed(d, n)
    \/ \E hits \in Orders(chunk) : Search(hits)
Spec == Init /\ [][Next]_vars
-----------------------------------------------------------------------------
TypeOK ==
    /\ Len(upload) = Len(doc)
    /\ \A d \in Docs : doc[d].status \in {"pending", "failed", "embedded", "deleted"}
    /\ \A r \in chunk : r.doc \in Docs /\ r.index > 0

Of(d) == {r \in chunk : r.doc = d}
\* A document is stored with all of its chunks, or with none: not while it is pending, when
\* its embedding failed, when it was deleted meanwhile or cut off.  (Stored is not searchable:
\* a chunk for which the service sent no vector is there like the others, and no search finds it.)
AllOrNothing ==
    \A d \in Docs : {r.span : r \in Of(d)}
                        = IF doc[d].status = "embedded" THEN ToSet(SplitText(doc[d].text)) ELSE {}

\* No character of a document is lost between chunks, and neighbours of a line share theirs.
NothingLost ==
    \A d \in Docs : doc[d].status = "embedded" =>
        \A i \in DOMAIN doc[d].text : \A x \in 1..doc[d].text[i] :
            /\ \E r \in Of(d) : r.span.line = i /\ x \in r.span.lo..r.span.hi
            /\ x < doc[d].text[i] =>
                   \E r \in Of(d) : r.span.line = i /\ {x, x + 1} \subseteq r.span.lo..r.span.hi

\* The sources shown with an answer are the documents of its passages, each once.
SourcesOnce ==
    /\ ToSet(Sources(found)) = {found[i].doc : i \in DOMAIN found}
    /\ IsInjective(Sources(found))

\* The knowledge base stores whole documents, and names its sources once.
KnowledgeSound == TypeOK /\ AllOrNothing /\ NothingLost /\ SourcesOnce

=============================================================================
