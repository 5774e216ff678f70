--------------------------------- MODULE Rag ---------------------------------
(***************************************************************************)
(* The index of src/src/rag/rag.c, which the agent loads and queries before*)
(* a turn: filling it, the search for the most similar documents, and the  *)
(* chunker for long texts.  Of a document the model keeps how similar it is to the *)
(* query, a small number for the double.                                   *)
(***************************************************************************)
EXTENDS Integers, Sequences, FiniteSets, SequencesExt, Selection

CONSTANTS Similarities,   \* how similar a document may be
          MaxChunks,      \* RAG_MAX_CHUNKS
          TopK,           \* 5 in agent_chat, 3 in agent_run_task
          ChunkSizes, Overlap, MaxPieces,   \* what chunk_size may be; 50; 10
          MaxText         \* bound: the length of a text

ASSUME RagAssumption ==
    /\ Similarities \subseteq Int /\ ChunkSizes \cup {MaxChunks, MaxPieces} \subseteq Nat \ {0}
    /\ {TopK, Overlap, MaxText} \subseteq Nat

VARIABLES idx,        \* the documents: where each one is, how similar to the query, and
                      \* whether it has an embedding
          scanned,    \* idx->count when rag_index_search was last called
          scores,     \* the local array of rag_index_search, once it is sorted
          result,     \* what it returns
          text_len, chunk_size,   \* the length of the text that is chunked, and how
          pieces,     \* its chunks: where each begins and ends
          pos         \* where the next one begins

ragVars == <<idx, scanned, scores, result, text_len, chunk_size, pieces, pos>>

RagInit == /\ idx = <<>> /\ scanned = 0 /\ scores = <<>> /\ result = <<>>
           /\ text_len = 0 /\ chunk_size = 0 /\ pieces = <<>> /\ pos = 0

\* The next place of the index is filled.
Filled(has_embedding) ==
    /\ Len(idx) < MaxChunks
    /\ \E s \in Similarities :
          idx' = Append(idx, [index |-> Len(idx) + 1, score |-> s, has_embedding |-> has_embedding])
    /\ UNCHANGED <<scanned, scores, result, text_len, chunk_size, pieces, pos>>

rag_index_add == Filled(TRUE)

\* One round of rag_index_load.  What fread returns is not looked at: an entry
\* behind the end of a short file stays as it was, without an embedding.
rag_index_load == \E has_embedding \in BOOLEAN : Filled(has_embedding)

Exchanged(u, i, j) ==
    IF u[j].score > u[i].score THEN [u EXCEPT ![i] = u[j], ![j] = u[i]] ELSE u

\* The inner loop: whatever is greater changes places with the i-th.
Pass(t, i) ==
    LET u[k \in 0..Len(t) - i] == IF k = 0 THEN t ELSE Exchanged(u[k - 1], i, i + k)
    IN  u[Len(t) - i]

\* The outer loop.
Arrange(t) ==
    LET u[i \in 0..Len(t)] == IF i = 0 THEN t ELSE Pass(u[i - 1], i)
    IN  u[Len(t)]

Embeddings(n) == {i \in 1..n : idx[i].has_embedding}

\* Documents without an embedding are passed over.
rag_index_search ==
    LET found == Picked(idx, Embeddings(Len(idx)))
    IN  /\ scanned' = Len(idx)
        /\ scores' = Arrange(found)
        /\ result' = [i \in 1..IF TopK < Len(found) THEN TopK ELSE Len(found) |-> scores'[i]]
        /\ UNCHANGED <<idx, text_len, chunk_size, pieces, pos>>

\* Mistake: the overlap is taken from a short chunk too.
step_back_always(n) == Overlap

\* How far the next chunk begins before the end of this one.
step_back(n) == IF n > Overlap THEN Overlap ELSE 0

\* One round of rag_chunk_text.
rag_chunk_text ==
    /\ pos < text_len /\ Len(pieces) < MaxPieces
    /\ LET n == IF text_len - pos < chunk_size THEN text_len - pos ELSE chunk_size
           end == pos + n
       IN  /\ pieces' = Append(pieces, [start |-> pos, end |-> end])
           /\ pos' = IF end < text_len /\ Len(pieces) + 1 < MaxPieces
                     THEN end - step_back(n) ELSE end
    /\ UNCHANGED <<idx, scanned, scores, result, text_len, chunk_size>>

RagText == /\ text_len = 0 /\ text_len' \in 1..MaxText /\ chunk_size' \in ChunkSizes
           /\ UNCHANGED <<idx, scanned, scores, result, pieces, pos>>

RagIndexNext == rag_index_add \/ rag_index_load \/ rag_index_search
RagChunkNext == RagText \/ rag_chunk_text

RagSpec == RagInit /\ [][RagIndexNext \/ RagChunkNext]_ragVars
-----------------------------------------------------------------------------
\* The loops stay within the array, and chunks within the text.
RagTypeOK == /\ idx \in Seq([index : Nat, score : Similarities, has_embedding : BOOLEAN])
             /\ Len(idx) <= MaxChunks /\ scanned \in 0..Len(idx)
             /\ Len(result) <= TopK /\ pos \in 0..text_len /\ Len(pieces) <= MaxPieces

\* The exchanges of rag_index_search put the documents that have an embedding in
\* the order of their similarity and lose none of them: what the agent gets are
\* different documents, the best first, none without an embedding, and none that
\* is left out is better than one of them.
SearchIsTopK ==
    LET shown == {result[i].index : i \in DOMAIN result}
        \* what there was to be found: documents come only behind it
        there == Embeddings(scanned)
    IN  /\ {scores[i].index : i \in DOMAIN scores} = there
        /\ \A i \in DOMAIN scores : scores[i] = idx[scores[i].index]
        /\ Cardinality(shown) = Len(result)
        /\ \A i, j \in DOMAIN result : i < j => result[i].score >= result[j].score
        /\ \A i \in there \ shown : \A j \in shown : idx[i].score <= idx[j].score

\* The chunks of a text are not empty, each begins at the end of the one before
\* or Overlap earlier but behind its beginning, and they are all of the text
\* unless there are more than MaxPieces.
PiecesCover ==
    /\ \A i \in DOMAIN pieces :
          /\ pieces[i].start < pieces[i].end /\ pieces[i].end <= text_len
          /\ i > 1 => /\ pieces[i].start \in {pieces[i - 1].end, pieces[i - 1].end - Overlap}
                      /\ pieces[i].start > pieces[i - 1].start
    /\ pos = text_len /\ text_len > 0 /\ Len(pieces) < MaxPieces => Last(pieces).end = text_len

\* The search finds the best, and the chunker leaves nothing of a text out.
RagFaithful == SearchIsTopK /\ PiecesCover
=============================================================================
