--------------------------- MODULE MCDocumentJobs ---------------------------
(* Small instances of DocumentJobs. *)
EXTENDS DocumentJobs, TLC

CONSTANTS p1

\* All documents belong to one principal, so that their jobs compete.
MCOwner == [d \in Docs |-> p1]

\* Documents and jobs are only told apart by what happens to them.
MCSymmetry == Permutations(Docs) \cup Permutations(Jobs)
=============================================================================
