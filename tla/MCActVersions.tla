---------------------------- MODULE MCActVersions ----------------------------
(***************************************************************************)
(* Model checking of ActVersions: a correction provides the last day as a  *)
(* begin or as an end, removes an end, or provides no date, when only the  *)
(* act changes.                                                            *)
(***************************************************************************)
EXTENDS ActVersions, TLC

Corrections == {<<Keep, Keep>>, <<2, Keep>>, <<Keep, None>>, <<Keep, 2>>}

(***************************************************************************)
(* What is explored further.  The properties say nothing more once a       *)
(* pending edition was written from an outdated read.  Two commands        *)
(* overlap only when they have read the same of one edition.  Of a linked  *)
(* edition the unlocked read uses the act and of a pending one the row;    *)
(* only commands on that edition change those, so the read commutes with   *)
(* the commands on all others.  A command that several others on its       *)
(* edition have overtaken finds what it has read, as if it had read it     *)
(* only now, or is not found, or writes an outdated read.                  *)
(***************************************************************************)
Bounded ==
    /\ ~overwritten
    /\ \A c, o \in Commands : cmd[c] # Idle /\ cmd[o] # Idle => cmd[c] = cmd[o]

Symmetry == Permutations(Acts) \cup Permutations(Commands)
=============================================================================
