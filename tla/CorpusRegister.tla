--------------------------- MODULE CorpusRegister ---------------------------
(***************************************************************************)
(* What the corpus switch promises to whoever writes to Qdrant: a register  *)
(* of the active generation behind a gate.  A write enters through the open *)
(* gate with the active generation; the gate closes when no write is inside,*)
(* and the generation changes only behind the closed gate.                  *)
(***************************************************************************)
CONSTANTS
    Writers,        \* processes that write to Qdrant
    Generations,    \* generations of the corpus
    First,          \* the generation of a new deployment
    Nobody          \* the generation of a process that is not writing

VARIABLES
    active,         \* the published generation
    open,           \* are writes admitted?
    writing         \* writer -> generation it writes to, or Nobody

registerVars == <<active, open, writing>>

Init ==
    /\ active = First
    /\ open = TRUE
    /\ writing = [w \in Writers |-> Nobody]

Enter(w) ==
    /\ open
    /\ writing[w] = Nobody
    /\ writing' = [writing EXCEPT ![w] = active]
    /\ UNCHANGED <<active, open>>

\* A write ends, by itself or with its process.
Exit(w) ==
    /\ writing' = [writing EXCEPT ![w] = Nobody]
    /\ UNCHANGED <<active, open>>

Close ==
    /\ open
    /\ \A w \in Writers : writing[w] = Nobody
    /\ open' = FALSE
    /\ UNCHANGED <<active, writing>>

Publish(g) ==
    /\ ~open
    /\ g # active
    /\ active' = g
    /\ UNCHANGED <<open, writing>>

Open ==
    /\ ~open
    /\ open' = TRUE
    /\ UNCHANGED <<active, writing>>

Next ==
    \/ \E w \in Writers : Enter(w) \/ Exit(w)
    \/ Close
    \/ \E g \in Generations : Publish(g)
    \/ Open

Spec == Init /\ [][Next]_registerVars
=============================================================================
