---------------------------- MODULE MCCostBudget ----------------------------
(* Small instances of CostBudget. *)
EXTENDS CostBudget, TLC

CONSTANTS o1, o2, j1, j2, s1, s2, a1, a2, p1, p2

\* Two jobs of two principals, or one job of one principal.
MCOwners == (o1 :> p1) @@ (o2 :> p2)
MCOneOwner == (o1 :> p1) @@ (o2 :> p1)
MCOpsOf == (j1 :> {o1}) @@ (j2 :> {o2})
MCOneJob == (j1 :> {o1, o2})
MCPrice == [v \in Versions |-> 1]

\* A slot with one request at a time, or a slot with two parallel ones.
MCSlotOf == (a1 :> s1) @@ (a2 :> s2)
MCOneSlot == (a1 :> s1) @@ (a2 :> s1)

MCTightLimit == {[hour |-> 1, day |-> 2]}
MCLimits == {[hour |-> 1, day |-> 2], [hour |-> 2, day |-> 2]}
=============================================================================
