--------------------------- MODULE MCCorpusSwitch ---------------------------
(* Small instances of CorpusSwitch. *)
EXTENDS CorpusSwitch, TLC

CONSTANTS a1, a2, w1

MCRole == [p \in Procs |-> IF p = w1 THEN "worker" ELSE "api"]

\* Requests are interchangeable; sound for the safety runs.
Requests == Permutations(Switches)

\* Every collection starts with the corpus; an edit makes the inactive one stale.
StartUpToDate == Init /\ \A c \in Collections : stored[c] = Blank
UpToDate == StartUpToDate /\ [][Next]_vars
=============================================================================
