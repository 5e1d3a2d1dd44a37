----------------------------- MODULE CostLedger -----------------------------
(***************************************************************************)
(* What the cost ledger promises of paid provider calls, one atomic step per *)
(* promise: an admission never exceeds a published limit and never uses a    *)
(* tariff that a provider exceeded, an operation is sent at most once, and a  *)
(* reservation is refunded only when its request was never sent.             *)
(***************************************************************************)
EXTENDS Naturals, FiniteSets, FiniteSetsExt

CONSTANTS
    Ops,            \* operation ids, one per physical request of a job
    Principals,     \* who is billed
    Owner,          \* operation -> principal
    Versions,       \* tariff versions of the provider's model, from 1
    Price,          \* version -> units a request reserves
    Limits,         \* budget policies, records [hour, day]
    Hour, Day,      \* lengths of the two windows
    Charges,        \* units a provider or an administrator may charge
    MaxTime         \* bound on the clock

VARIABLES
    rows,       \* cost_usage: operation -> row
    sent,       \* operation -> HTTP requests handed to the provider
    billed,     \* operation -> units the provider charged for them
    clock,      \* now()
    published,  \* latest version in cost_rates
    policy,     \* cost limits in config_parameters
    offered     \* every policy that has been in force

ledgerVars == <<rows, sent, billed, clock, published, policy, offered>>

-----------------------------------------------------------------------------
(* Rows and what the budget counts. *)

Sources == {"none", "not_dispatched", "provider", "administrative"}
RowStates == {"none", "reserved", "sending", "settled"}
Rows == [state : RowStates, version : Versions, units : Nat, actual : Nat,
         source : Sources, at : Nat]
NoRow == [state |-> "none", version |-> 1, units |-> 0, actual |-> 0, source |-> "none",
          at |-> 0]

Unsettled(o) == rows[o].state \in {"reserved", "sending"}
Settled(o) == rows[o].state = "settled"

\* COALESCE(actual_units, reserved_units)
Counted(o) == IF Settled(o) THEN rows[o].actual ELSE rows[o].units

\* A row without settled_at counts in every window.
InWindow(o, t, length) == Unsettled(o) \/ (Settled(o) /\ rows[o].at + length > t)
Spent(p, t, length) ==
    MapThenSumSet(Counted, {o \in Ops : Owner[o] = p /\ InWindow(o, t, length)})

Fits(p, v, limit, t) == /\ Spent(p, t, Hour) + Price[v] <= limit.hour
                        /\ Spent(p, t, Day) + Price[v] <= limit.day

\* A provider charged more than a reservation under version v.
Violated(v) == \E o \in Ops : Settled(o) /\ rows[o].version = v /\ rows[o].actual > rows[o].units

\* Only a proven absence of a dispatch lets an operation be armed again.
Refunded(o) == /\ Settled(o) /\ rows[o].source = "not_dispatched"
               /\ rows[o].actual = 0
Armable(o) == rows[o].state = "none" \/ Refunded(o)

Armed(o, v) ==
    [rows EXCEPT ![o] = [state |-> "reserved", version |-> v, units |-> Price[v],
                         actual |-> 0, source |-> "none", at |-> 0]]
Sending(o) == [rows EXCEPT ![o] = [@ EXCEPT !.state = "sending"]]
SettledAs(o, u, source, t) ==
    [rows EXCEPT ![o] = [state |-> "settled", version |-> rows[o].version,
                         units |-> rows[o].units, actual |-> u, source |-> source, at |-> t]]

-----------------------------------------------------------------------------
Init ==
    /\ rows = [o \in Ops |-> NoRow]
    /\ sent = [o \in Ops |-> 0]
    /\ billed = [o \in Ops |-> 0]
    /\ clock = 0
    /\ published = 1
    /\ policy \in Limits
    /\ offered = {policy}

Admit(o, v, limit) ==
    /\ Armable(o) /\ sent[o] = 0
    /\ ~Violated(v)
    /\ limit \in offered /\ Fits(Owner[o], v, limit, clock)
    /\ rows' = Armed(o, v)
    /\ UNCHANGED <<sent, billed, clock, published, policy, offered>>

Dispatch(o) ==
    /\ rows[o].state = "reserved"
    /\ rows' = Sending(o)
    /\ UNCHANGED <<sent, billed, clock, published, policy, offered>>

\* An administrator may have closed the row while the request was on its way.
Send(o, charge) ==
    /\ sent[o] = 0
    /\ rows[o].state = "sending" \/ (Settled(o) /\ rows[o].source = "administrative")
    /\ sent' = [sent EXCEPT ![o] = 1]
    /\ billed' = [billed EXCEPT ![o] = charge]
    /\ UNCHANGED <<rows, clock, published, policy, offered>>

Settle(o, u, source, t) ==
    /\ Unsettled(o)
    /\ source = "not_dispatched" => sent[o] = 0 /\ u = 0
    /\ source = "provider" => sent[o] = 1 /\ u = billed[o]
    /\ t <= clock
    /\ rows' = SettledAs(o, u, source, t)
    /\ UNCHANGED <<sent, billed, clock, published, policy, offered>>

Tick ==
    /\ clock < MaxTime
    /\ clock' = clock + 1
    /\ UNCHANGED <<rows, sent, billed, published, policy, offered>>

\* BudgetAdminService.add_rate: versions are never changed, only added.
Publish ==
    /\ published + 1 \in Versions
    /\ published' = published + 1
    /\ UNCHANGED <<rows, sent, billed, clock, policy, offered>>

SetPolicy(limit) ==
    /\ policy' = limit
    /\ offered' = offered \cup {limit}
    /\ UNCHANGED <<rows, sent, billed, clock, published>>

Next ==
    \/ \E o \in Ops :
        \/ \E v \in Versions, limit \in Limits : Admit(o, v, limit)
        \/ Dispatch(o)
        \/ \E charge \in Charges : Send(o, charge)
        \/ \E u \in Charges \cup {0}, source \in Sources \ {"none"}, t \in 0..clock : Settle(o, u, source, t)
    \/ Tick
    \/ Publish
    \/ \E limit \in Limits : SetPolicy(limit)

Spec == Init /\ [][Next]_ledgerVars

=============================================================================
