------------------------- MODULE MCVectorIndexSync -------------------------
(* Small instances of VectorIndexSync for TLC. *)
EXTENDS VectorIndexSync, TLC

\* The act version of a document has the document's number: the two id columns
\* are independent sequences that both start at 1.
MCVersionId == [d \in Docs |-> d]

\* Entry ids are taken in CHOOSE order and are not symmetric.
MCSymmetry == Permutations(ChunkIds) \cup Permutations(Contents) \cup Permutations(Workers)

=============================================================================
